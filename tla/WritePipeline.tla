--------------------------- MODULE WritePipeline ---------------------------
(***************************************************************************)
(* The write path of one ClickHouseManager (src/src/storage/clickhouse.py):*)
(* insert_ohlcv puts candle rows on a bounded queue, one _batch_writer     *)
(* task turns them into batches, every batch is a task of its own that     *)
(* INSERTs, publishes to NATS and retries, and close() cancels the writer. *)
(*                                                                         *)
(* A step is what runs between two suspension points (await) of the        *)
(* asyncio event loop.  The interpreter is the CPython 3.11 that           *)
(* environment.yml pins; asyncio, aiochclient and nats-py are external.    *)
(***************************************************************************)
EXTENDS Integers, Sequences, FiniteSets, SequencesExt

CONSTANTS
  Records,        \* the candle rows the collectors may hand over, each once
  QueueCap,       \* _write_queue.maxsize                      (500 in the code)
  BatchSize,      \* _batch_size                               (100)
  MaxConcurrent,  \* _max_concurrent_batches, the semaphore    (1)
  FailureLimit,   \* the 3 of "failed_batches < 3"
  MaxFaults       \* bound: INSERTs that may fail in one behaviour

ASSUME CapAssumption == QueueCap \in Nat \ {0} /\ BatchSize \in Nat \ {0}
ASSUME ConcurrencyAssumption == MaxConcurrent \in Nat \ {0}
ASSUME LimitAssumption == FailureLimit \in Nat /\ FailureLimit >= 2
ASSUME FaultAssumption == MaxFaults \in Nat

VARIABLES
  lifecycle,      \* "connected", "closing" (close() awaits the writer) or "closed"
  attached,       \* set_publisher() has been called
  accepted,       \* history: the rows put on the queue, in order
  refused,        \* history: the rows dropped (queue full) or rejected (invalid)
  queue,          \* _write_queue
  wpc,            \* where the writer task is suspended
  held,           \* the row a finished get() holds until wait_for returns it
  batch,          \* the local `batch` of _batch_writer
  jobs,           \* every _write_batch started so far, in the order started
  failedBatches,  \* _batch_stats['failed_batches']
  totalRecords,   \* _batch_stats['total_records']
  stored,         \* the rows in the ClickHouse table
  published,      \* the rows NATS has been given, in order
  faults          \* INSERTs that have failed, for the bound only

writerVars == <<wpc, held, batch>>
intakeVars == <<accepted, refused, queue>>
statVars   == <<failedBatches, totalRecords>>
outVars    == <<stored, published>>
vars == <<lifecycle, attached, intakeVars, writerVars, jobs, statVars, outVars, faults>>

IsConnected == lifecycle = "connected"   \* self.is_connected
HasClient   == lifecycle # "closed"      \* self.client is not None

(***************************************************************************)
(* A job is one top-level call of _write_batch: a task that goes through   *)
(* the semaphore, or the call the cancelled writer makes itself ("flush"). *)
(*   depth  frames of _write_batch suspended on their recursive retry      *)
(*   next   index of the row to publish next                               *)
(*   pend   "live": in pending_writes, leaves it when done;                *)
(*          "stale": in a set pending_writes was rebound to, so its done   *)
(*          callback discards it from a dead set; "out": not in it         *)
(***************************************************************************)
Job == [items : Seq(Records), st : {"sem", "exec", "pub", "sleep", "done"},
        depth : Nat, next : Nat, own : {"task", "flush"},
        pend : {"live", "stale", "out"}]

NewTask(b)  == [items |-> b, st |-> "sem", depth |-> 0, next |-> 1,
                own |-> "task", pend |-> "live"]
NewFlush(b) == [items |-> b, st |-> "exec", depth |-> 0, next |-> 1,
                own |-> "flush", pend |-> "out"]

Active(j)   == j.st \in {"exec", "pub", "sleep"}
Holders     == {i \in DOMAIN jobs : Active(jobs[i]) /\ jobs[i].own = "task"}
Pending(js) == {i \in DOMAIN js : js[i].pend # "out"}

Init ==
  /\ lifecycle = "connected" /\ attached = FALSE
  /\ accepted = <<>> /\ refused = {} /\ queue = <<>>
  /\ wpc = "get" /\ held = <<>> /\ batch = <<>>
  /\ jobs = <<>> /\ failedBatches = 0 /\ totalRecords = 0
  /\ stored = {} /\ published = <<>> /\ faults = 0

-----------------------------------------------------------------------------
(* The callers.                                                            *)

\* set_publisher(), once, after initialize() has already started the writer
AttachPublisher ==
  /\ ~attached /\ attached' = TRUE
  /\ UNCHANGED <<lifecycle, intakeVars, writerVars, jobs, statVars, outVars, faults>>

\* insert_ohlcv: there is no test of is_connected, so a closed manager accepts too
Insert(r) ==
  /\ r \notin Range(accepted) \cup refused
  /\ Len(queue) < QueueCap
  /\ queue' = Append(queue, r) /\ accepted' = Append(accepted, r)
  /\ UNCHANGED <<lifecycle, attached, refused, writerVars, jobs, statVars, outVars, faults>>

\* insert_ohlcv with an invalid row, or QueueFull: logged, nothing is raised
Refuse(r, valid) ==
  /\ r \notin Range(accepted) \cup refused
  /\ valid => Len(queue) >= QueueCap
  /\ refused' = refused \cup {r}
  /\ UNCHANGED <<lifecycle, attached, accepted, queue, writerVars, jobs, statVars, outVars, faults>>

-----------------------------------------------------------------------------
(* The writer task.                                                        *)

LoopOrStop == IF IsConnected THEN "get" ELSE "stopped"

\* Faulty variant: the batch is not emptied after it was handed to a task.
EndIterationKeepsBatch(b, due) ==
  LET write == b # <<>> /\ (Len(b) >= BatchSize \/ due)
      js    == IF write THEN Append(jobs, NewTask(b)) ELSE jobs
  IN  /\ batch' = b /\ jobs' = js
      /\ wpc' = IF Cardinality(Pending(js)) >= MaxConcurrent THEN "wait" ELSE LoopOrStop

\* The rest of one iteration once the batch is b: spawn the batch when it is
\* full or due, then wait when there are too many pending writes.
EndIteration(b, due) ==
  LET write == b # <<>> /\ (Len(b) >= BatchSize \/ due)
      js    == IF write THEN Append(jobs, NewTask(b)) ELSE jobs
  IN  /\ batch' = IF write THEN <<>> ELSE b
      /\ jobs' = js
      /\ wpc' = IF Cardinality(Pending(js)) >= MaxConcurrent THEN "wait" ELSE LoopOrStop

\* the task wait_for made of queue.get() finishes
WriterGet ==
  /\ wpc = "get" /\ queue # <<>>
  /\ held' = <<Head(queue)>> /\ queue' = Tail(queue) /\ wpc' = "got"
  /\ UNCHANGED <<lifecycle, attached, accepted, refused, batch, jobs, statVars, outVars, faults>>

\* wait_for returns the row; due: half a second has passed since the last write
WriterResume(due) ==
  /\ wpc = "got"
  /\ held' = <<>> /\ EndIteration(batch \o held, due)
  /\ UNCHANGED <<lifecycle, attached, intakeVars, statVars, outVars, faults>>

\* Faulty variant: only a full batch is written.
WriterTimeoutNeverDue ==
  /\ wpc = "get" /\ queue = <<>> /\ batch # <<>>
  /\ EndIteration(batch, FALSE)
  /\ UNCHANGED <<lifecycle, attached, intakeVars, held, statVars, outVars, faults>>

\* wait_for times out: the batch timeout, no longer than this one, has passed too
WriterTimeout ==
  /\ wpc = "get" /\ queue = <<>>
  /\ EndIteration(batch, TRUE)
  /\ UNCHANGED <<lifecycle, attached, intakeVars, held, statVars, outVars, faults>>

\* asyncio.wait returns, for a finished task or after 0.1 s; pending_writes is
\* rebound to the tasks that are not done
WriterWaitEnd ==
  /\ wpc = "wait"
  /\ jobs' = [i \in DOMAIN jobs |->
                IF jobs[i].pend = "out" THEN jobs[i]
                ELSE [jobs[i] EXCEPT !.pend = IF jobs[i].st = "done" THEN "out" ELSE "stale"]]
  /\ wpc' = LoopOrStop
  /\ UNCHANGED <<lifecycle, attached, intakeVars, held, batch, statVars, outVars, faults>>

\* Faulty variant: the cancelled writer also waits for the queue to be empty.
WriterDrainJoinsQueue ==
  /\ wpc = "drain" /\ queue = <<>> /\ \A i \in DOMAIN jobs : jobs[i].st = "done"
  /\ wpc' = "stopped"
  /\ UNCHANGED <<lifecycle, attached, intakeVars, held, batch, jobs, statVars, outVars, faults>>

\* the cancelled writer has finished its own write and gathered the pending ones
WriterDrain ==
  /\ wpc = "drain" /\ \A i \in DOMAIN jobs : jobs[i].st = "done"
  /\ wpc' = "stopped"
  /\ UNCHANGED <<lifecycle, attached, intakeVars, held, batch, jobs, statVars, outVars, faults>>

-----------------------------------------------------------------------------
(* _write_batch.                                                           *)

\* the task leaves the semaphore; its done callback discards it from the live set
Finished(j) == [j EXCEPT !.st = "done", !.pend = IF @ = "live" THEN "out" ELSE @]

\* the attempt has failed and its frame sleeps before it calls _write_batch again
Sleeping(j) == [j EXCEPT !.st = "sleep", !.depth = j.depth + 1]

\* Faulty variant: the counter is not reset after a retry.
UnwindWithoutReset(j, f) == f

\* every suspended retry frame zeroes the counter as it returns, whatever the
\* retry did; f is the counter when the innermost frame returns
Unwind(j, f) == IF j.depth > 0 THEN 0 ELSE f

\* _write_batch (a first call or a retry) begins: without a client it just returns
BeginWrite(i) ==
  IF HasClient
  THEN /\ jobs' = [jobs EXCEPT ![i] = [jobs[i] EXCEPT !.st = "exec"]]
       /\ UNCHANGED failedBatches
  ELSE /\ jobs' = [jobs EXCEPT ![i] = Finished(jobs[i])]
       /\ failedBatches' = Unwind(jobs[i], failedBatches)

\* Faulty variant: the semaphore is not first come first served.
AcquireAnyOrder(i) ==
  /\ jobs[i].st = "sem" /\ Cardinality(Holders) < MaxConcurrent
  /\ BeginWrite(i)
  /\ UNCHANGED <<lifecycle, attached, intakeVars, writerVars, totalRecords, outVars, faults>>

\* _write_batch_async gets the semaphore, which is first come first served
Acquire(i) ==
  /\ jobs[i].st = "sem" /\ \A k \in 1..(i - 1) : jobs[k].st # "sem"
  /\ Cardinality(Holders) < MaxConcurrent
  /\ BeginWrite(i)
  /\ UNCHANGED <<lifecycle, attached, intakeVars, writerVars, totalRecords, outVars, faults>>

\* the backoff sleep of a failed attempt is over
Retry(i) ==
  /\ jobs[i].st = "sleep"
  /\ BeginWrite(i)
  /\ UNCHANGED <<lifecycle, attached, intakeVars, writerVars, totalRecords, outVars, faults>>

\* the INSERT succeeds; with a publisher the rows are published next
InsertOk(i) ==
  /\ jobs[i].st = "exec"
  /\ stored' = stored \cup Range(jobs[i].items)
  /\ \/ /\ attached
        /\ jobs' = [jobs EXCEPT ![i] = [jobs[i] EXCEPT !.st = "pub"]]
        /\ UNCHANGED statVars
     \/ /\ ~attached
        /\ jobs' = [jobs EXCEPT ![i] = Finished(jobs[i])]
        /\ totalRecords' = totalRecords + Len(jobs[i].items)
        /\ failedBatches' = Unwind(jobs[i], failedBatches)
  /\ UNCHANGED <<lifecycle, attached, intakeVars, writerVars, published, faults>>

\* Faulty variant: a batch that is given up is announced all the same.
InsertFailPublishes(i, applied) ==
  /\ jobs[i].st = "exec" /\ faults < MaxFaults
  /\ faults' = faults + 1
  /\ stored' = IF applied THEN stored \cup Range(jobs[i].items) ELSE stored
  /\ LET again == failedBatches + 1 < FailureLimit
     IN  /\ failedBatches' = IF again THEN failedBatches + 1 ELSE Unwind(jobs[i], failedBatches + 1)
         /\ jobs' = [jobs EXCEPT ![i] = IF again THEN Sleeping(jobs[i]) ELSE Finished(jobs[i])]
         /\ published' = IF again THEN published ELSE published \o jobs[i].items
  /\ UNCHANGED <<lifecycle, attached, intakeVars, writerVars, totalRecords>>

\* Faulty variant: one attempt too few.
InsertFailOffByOne(i, applied) ==
  /\ jobs[i].st = "exec" /\ faults < MaxFaults
  /\ faults' = faults + 1
  /\ stored' = IF applied THEN stored \cup Range(jobs[i].items) ELSE stored
  /\ LET again == failedBatches + 2 < FailureLimit
     IN  /\ failedBatches' = IF again THEN failedBatches + 1 ELSE Unwind(jobs[i], failedBatches + 1)
         /\ jobs' = [jobs EXCEPT ![i] = IF again THEN Sleeping(jobs[i]) ELSE Finished(jobs[i])]
  /\ UNCHANGED <<lifecycle, attached, intakeVars, writerVars, totalRecords, published>>

\* the INSERT raises, and may have been applied all the same (a lost reply); the
\* batch sleeps before a retry while the shared counter is under the limit
InsertFail(i, applied) ==
  /\ jobs[i].st = "exec" /\ faults < MaxFaults
  /\ faults' = faults + 1
  /\ stored' = IF applied THEN stored \cup Range(jobs[i].items) ELSE stored
  /\ \/ /\ failedBatches + 1 < FailureLimit
        /\ failedBatches' = failedBatches + 1
        /\ jobs' = [jobs EXCEPT ![i] = Sleeping(jobs[i])]
     \/ /\ failedBatches + 1 >= FailureLimit
        /\ failedBatches' = Unwind(jobs[i], failedBatches + 1)
        /\ jobs' = [jobs EXCEPT ![i] = Finished(jobs[i])]
  /\ UNCHANGED <<lifecycle, attached, intakeVars, writerVars, totalRecords, published>>

\* Faulty variant: a publish failure is raised, and the whole batch is retried.
PublishOneRaises(i, sent) ==
  /\ jobs[i].st = "pub"
  /\ published' = IF sent THEN Append(published, jobs[i].items[jobs[i].next]) ELSE published
  /\ LET last == jobs[i].next >= Len(jobs[i].items)
     IN  /\ jobs' = [jobs EXCEPT ![i] = IF ~sent THEN [jobs[i] EXCEPT !.st = "exec", !.next = 1]
                                        ELSE IF last THEN Finished(jobs[i])
                                        ELSE [jobs[i] EXCEPT !.next = @ + 1]]
         /\ totalRecords' = IF sent /\ last THEN totalRecords + Len(jobs[i].items) ELSE totalRecords
         /\ failedBatches' = IF sent /\ last THEN Unwind(jobs[i], failedBatches) ELSE failedBatches
  /\ UNCHANGED <<lifecycle, attached, intakeVars, writerVars, stored, faults>>

\* one publish_kline call returns; sent is false when it swallowed a failure
PublishOne(i, sent) ==
  /\ jobs[i].st = "pub"
  /\ published' = IF sent THEN Append(published, jobs[i].items[jobs[i].next]) ELSE published
  /\ \/ /\ jobs[i].next < Len(jobs[i].items)
        /\ jobs' = [jobs EXCEPT ![i] = [jobs[i] EXCEPT !.next = @ + 1]]
        /\ UNCHANGED statVars
     \/ /\ jobs[i].next >= Len(jobs[i].items)
        /\ jobs' = [jobs EXCEPT ![i] = Finished(jobs[i])]
        /\ totalRecords' = totalRecords + Len(jobs[i].items)
        /\ failedBatches' = Unwind(jobs[i], failedBatches)
  /\ UNCHANGED <<lifecycle, attached, intakeVars, writerVars, stored, faults>>

-----------------------------------------------------------------------------
(* close().                                                                *)

\* is_connected = False and cancel().  A writer whose get() has finished ("got")
\* never sees the cancellation: wait_for of Python 3.11 returns the row instead.
\* Otherwise the handler writes the batch itself, beside any pending write.
CloseBegin ==
  /\ lifecycle = "connected" /\ lifecycle' = "closing"
  /\ \/ /\ wpc = "got" /\ UNCHANGED <<wpc, batch, jobs>>
     \/ /\ wpc # "got" /\ batch = <<>>
        /\ wpc' = "drain" /\ UNCHANGED <<batch, jobs>>
     \/ /\ wpc # "got" /\ batch # <<>>
        /\ wpc' = "drain" /\ batch' = <<>> /\ jobs' = Append(jobs, NewFlush(batch))
  /\ UNCHANGED <<attached, intakeVars, held, statVars, outVars, faults>>

\* the writer task has ended: client = None and the session is closed
CloseEnd ==
  /\ lifecycle = "closing" /\ wpc = "stopped" /\ lifecycle' = "closed"
  /\ UNCHANGED <<attached, intakeVars, writerVars, jobs, statVars, outVars, faults>>

-----------------------------------------------------------------------------
WriterStep == WriterGet \/ (\E due \in BOOLEAN : WriterResume(due)) \/ WriterTimeout
                \/ WriterWaitEnd \/ WriterDrain
AttemptEnds(i) == InsertOk(i) \/ (\E applied \in BOOLEAN : InsertFail(i, applied))
PublishEnds(i) == \E sent \in BOOLEAN : PublishOne(i, sent)
JobStep(i) == Acquire(i) \/ Retry(i) \/ AttemptEnds(i) \/ PublishEnds(i)

Next ==
  \/ AttachPublisher
  \/ \E r \in Records : Insert(r) \/ (\E valid \in BOOLEAN : Refuse(r, valid))
  \/ WriterStep
  \/ \E i \in DOMAIN jobs : JobStep(i)
  \/ CloseBegin \/ CloseEnd

Spec == Init /\ [][Next]_vars

\* The event loop runs every ready task, timers fire, and the HTTP session bounds
\* every request (ClientTimeout total=30), so started work ends.  Nothing obliges a
\* collector to insert or anybody to call close().
JobBound == Cardinality(Records)
Fairness ==
  /\ WF_vars(WriterStep) /\ WF_vars(CloseEnd)
  /\ \A i \in 1..JobBound : WF_vars(i \in DOMAIN jobs /\ JobStep(i))
FairSpec == Spec /\ Fairness

-----------------------------------------------------------------------------
(* Properties.                                                             *)

\* Every variable has its type; the queue never exceeds its capacity, and a row
\* is held exactly while the writer is about to receive it.
TypeOK ==
  /\ lifecycle \in {"connected", "closing", "closed"} /\ attached \in BOOLEAN
  /\ accepted \in Seq(Records) /\ refused \subseteq Records
  /\ queue \in Seq(Records) /\ Len(queue) <= QueueCap
  /\ wpc \in {"get", "got", "wait", "drain", "stopped"}
  /\ held \in Seq(Records) /\ Len(held) = (IF wpc = "got" THEN 1 ELSE 0)
  /\ batch \in Seq(Records) /\ jobs \in Seq(Job)
  /\ failedBatches \in Nat /\ totalRecords \in Nat
  /\ stored \subseteq Records /\ published \in Seq(Records) /\ faults \in 0..MaxFaults

\* A subscriber is only ever told of rows that are in the table (the comment at
\* clickhouse.py:357), whatever fails, is retried or is cut short by close().
PublishedIsStored == Range(published) \subseteq stored

\* No row is announced twice, although a batch may be INSERTed several times.
PublishedOnce == IsInjective(published)

\* The writer neither loses, duplicates nor reorders: the rows of the batches, in
\* the order started, then the batch being built, the row in hand and the queue are
\* exactly the rows accepted, in the order accepted, before and after close().
FirstInFirstOut ==
  accepted = FlattenSeq([i \in DOMAIN jobs |-> jobs[i].items]) \o batch \o held \o queue

\* Until close() the rows are announced in the order they were accepted, whatever
\* was retried or given up in between (it takes _max_concurrent_batches = 1).
PublishedInOrder ==
  IsConnected =>
    \A m, n \in DOMAIN published :
      m < n => \E k, l \in DOMAIN accepted :
                 k < l /\ accepted[k] = published[m] /\ accepted[l] = published[n]

\* The shared failure counter is above zero only while some batch sleeps or runs
\* inside a retry: an idle manager always starts the next batch with a full budget.
CounterOwned ==
  failedBatches > 0 => \E i \in DOMAIN jobs : Active(jobs[i]) /\ jobs[i].depth > 0

\* Until close(), a batch is given up only after its own FailureLimit attempts.
GivesUpLate ==
  [][\A i \in DOMAIN jobs :
       IsConnected /\ faults' > faults /\ jobs[i].st = "exec" /\ jobs'[i].st = "done"
         => jobs[i].depth = FailureLimit - 1]_vars

Settled(r) == \E i \in DOMAIN jobs : jobs[i].st = "done" /\ r \in Range(jobs[i].items)

\* Every accepted row is stored or given up, or close() is called.
EveryRowSettles ==
  \A r \in Records : r \in Range(accepted) ~> Settled(r) \/ ~IsConnected

\* close() ends although the table may keep failing: no write waits for ever.
CloseEnds == lifecycle = "closing" ~> lifecycle = "closed"

(***************************************************************************)
(* The write path implements Relay.                                        *)
(***************************************************************************)
Started(r) == \E i \in DOMAIN jobs : r \in Range(jobs[i].items)

phaseOf == [r \in Records |->
  IF r \in refused THEN "refused"
  ELSE IF r \notin Range(accepted) THEN "new"
  ELSE IF Settled(r) THEN "settled"
  ELSE IF Started(r) THEN "writing"
  ELSE "buffered"]

R == INSTANCE Relay WITH phase <- phaseOf

\* Every behaviour of the write path is one Relay allows: a row is written in one
\* batch only, announced while that batch is open, and never again once settled.
ImplementsRelay == R!Spec

-----------------------------------------------------------------------------
(* What the comments of the code promise and the code does not do.         *)

\* clickhouse.py:286 "Write remaining data before cancelling": a row accepted by a
\* connected manager is written or given up, even when close() comes.
RemainingDataIsWritten ==
  \A r \in Records : r \in Range(accepted) /\ IsConnected ~> Settled(r)

\* clickhouse.py:286 and :289 "Wait for all pending writes to complete": when the
\* writer has stopped nothing is left in its batch and no write is pending.
StoppedWriterIsClean ==
  wpc = "stopped" => batch = <<>> /\ \A i \in DOMAIN jobs : jobs[i].st = "done"

\* clickhouse.py:34, one write at a time "to avoid concurrent contention".
WritesDoNotOverlap == Cardinality({i \in DOMAIN jobs : Active(jobs[i])}) <= MaxConcurrent

\* clickhouse.py:277 "Wait for at least one batch to complete before continuing":
\* the writer starts no batch while the allowed number of them is pending.
StartsWithinLimit ==
  Cardinality({i \in DOMAIN jobs : jobs[i].st # "done" /\ jobs[i].own = "task"}) <= MaxConcurrent

\* clickhouse.py:394 "Reset failed count on successful retry": the counter is
\* zeroed only by a batch whose rows are in the table.
ResetOnlyOnSuccess ==
  [][failedBatches > 0 /\ failedBatches' = 0 =>
       \E i \in DOMAIN jobs : /\ Active(jobs[i]) /\ jobs'[i].st = "done"
                              /\ Range(jobs[i].items) \subseteq stored']_vars

\* clickhouse.py:389 "Implement exponential backoff retry for failed batches": no
\* batch is given up at its first failure.
FailedBatchIsRetried ==
  [][\A i \in DOMAIN jobs :
       faults' > faults /\ jobs[i].st = "exec" /\ jobs'[i].st = "done" => jobs[i].depth > 0]_vars
=============================================================================
