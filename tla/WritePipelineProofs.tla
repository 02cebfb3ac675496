------------------------ MODULE WritePipelineProofs ------------------------
(***************************************************************************)
(* What holds of the write path for every set of rows, every queue, batch  *)
(* and semaphore size, every failure limit of at least 2 and any number of *)
(* failing INSERTs.                                                        *)
(***************************************************************************)
EXTENDS WritePipeline, SequenceTheorems, FiniteSetTheorems, WellFoundedInduction, TLAPS

\* A batch is never empty and its publish index points into it.
WellFormed == \A i \in DOMAIN jobs :
                /\ jobs[i].items # <<>>
                /\ jobs[i].next \in 1..Len(jobs[i].items)

\* A batch that publishes has its rows in the table.
PublisherSafe == \A i \in DOMAIN jobs :
                   jobs[i].st = "pub" => Range(jobs[i].items) \subseteq stored

IInv == TypeOK /\ WellFormed /\ PublisherSafe /\ PublishedIsStored

-----------------------------------------------------------------------------
(* Facts about sequences.                                                  *)

\* Replacing an element keeps a sequence of S a sequence of S.
LEMMA Replaced ==
  ASSUME NEW S, NEW s \in Seq(S), NEW i \in DOMAIN s, NEW x \in S
  PROVE  /\ [s EXCEPT ![i] = x] \in Seq(S)
         /\ DOMAIN [s EXCEPT ![i] = x] = DOMAIN s
         /\ \A k \in DOMAIN s : [s EXCEPT ![i] = x][k] = IF k = i THEN x ELSE s[k]
  OBVIOUS

\* Appending an element adds one index and leaves the others alone.
LEMMA Appended ==
  ASSUME NEW S, NEW s \in Seq(S), NEW x \in S
  PROVE  /\ Append(s, x) \in Seq(S)
         /\ DOMAIN Append(s, x) = DOMAIN s \cup {Len(s) + 1}
         /\ \A k \in DOMAIN s : Append(s, x)[k] = s[k]
         /\ Append(s, x)[Len(s) + 1] = x
         /\ Len(s) + 1 \notin DOMAIN s
         /\ Range(Append(s, x)) = Range(s) \cup {x}
  BY DEF Range

\* The elements of a sequence of S are in S.
LEMMA RangeType ==
  ASSUME NEW S, NEW s \in Seq(S)
  PROVE  Range(s) \subseteq S
  BY DEF Range

\* The first element and the rest of a nonempty sequence of S.
LEMMA HeadTailType ==
  ASSUME NEW S, NEW s \in Seq(S), s # <<>>
  PROVE  Head(s) \in S /\ Tail(s) \in Seq(S) /\ Len(Tail(s)) <= Len(s) /\ Len(s) \in Nat
  OBVIOUS

-----------------------------------------------------------------------------
(* Facts about jobs.                                                       *)

\* A step that changes one job, keeps its rows and never shrinks the table keeps
\* the jobs well formed, and safe to publish when the changed one is.
LEMMA JobChanged ==
  ASSUME IInv, NEW i \in DOMAIN jobs, NEW STATE j, j \in Job,
         jobs' = [jobs EXCEPT ![i] = j],
         j.items = jobs[i].items, j.next \in 1..Len(j.items),
         j.st = "pub" => Range(j.items) \subseteq stored',
         stored \subseteq stored'
  PROVE  jobs' \in Seq(Job) /\ WellFormed' /\ PublisherSafe'
<1>1. jobs \in Seq(Job) /\ WellFormed /\ PublisherSafe
  BY DEF IInv, TypeOK
<1>2. /\ jobs' \in Seq(Job) /\ DOMAIN jobs' = DOMAIN jobs
      /\ \A k \in DOMAIN jobs : jobs'[k] = IF k = i THEN j ELSE jobs[k]
  BY <1>1, Replaced, Zenon
<1>3. WellFormed'
  BY <1>1, <1>2 DEF WellFormed
<1>4. PublisherSafe'
  BY <1>1, <1>2 DEF PublisherSafe
<1> QED
  BY <1>2, <1>3, <1>4

\* So does a step that starts a job on a nonempty batch.
LEMMA JobStarted ==
  ASSUME IInv, NEW STATE j, j \in Job, jobs' = Append(jobs, j), stored' = stored,
         j.items # <<>>, j.next = 1, j.st # "pub"
  PROVE  jobs' \in Seq(Job) /\ WellFormed' /\ PublisherSafe'
<1>1. jobs \in Seq(Job) /\ WellFormed /\ PublisherSafe
  BY DEF IInv, TypeOK
<1>2. /\ jobs' \in Seq(Job) /\ DOMAIN jobs' = DOMAIN jobs \cup {Len(jobs) + 1}
      /\ \A k \in DOMAIN jobs : jobs'[k] = jobs[k]
      /\ jobs'[Len(jobs) + 1] = j
  <2>1. /\ Append(jobs, j) \in Seq(Job)
        /\ DOMAIN Append(jobs, j) = DOMAIN jobs \cup {Len(jobs) + 1}
        /\ \A k \in DOMAIN jobs : Append(jobs, j)[k] = jobs[k]
        /\ Append(jobs, j)[Len(jobs) + 1] = j
    BY <1>1, Appended
  <2> QED
    BY <2>1, Zenon
<1>3. j.next \in 1..Len(j.items)
  BY DEF Job
<1>4. WellFormed'
  BY <1>1, <1>2, <1>3 DEF WellFormed
<1>5. PublisherSafe'
  BY <1>1, <1>2 DEF PublisherSafe
<1> QED
  BY <1>2, <1>4, <1>5

\* A step that leaves the jobs and the table alone leaves these facts alone.
LEMMA JobsUntouched ==
  ASSUME IInv, UNCHANGED <<jobs, stored>>
  PROVE  jobs' \in Seq(Job) /\ WellFormed' /\ PublisherSafe'
  BY DEF IInv, TypeOK, WellFormed, PublisherSafe

\* The end of an iteration of the writer, for a batch of rows.
LEMMA IterationType ==
  ASSUME IInv, NEW b \in Seq(Records), NEW due \in BOOLEAN,
         EndIteration(b, due), UNCHANGED stored
  PROVE  /\ jobs' \in Seq(Job) /\ WellFormed' /\ PublisherSafe'
         /\ batch' \in Seq(Records) /\ wpc' \in {"wait", "get", "stopped"}
<1>1. batch' \in Seq(Records) /\ wpc' \in {"wait", "get", "stopped"}
  BY DEF EndIteration, LoopOrStop
<1>2. jobs' = jobs \/ (b # <<>> /\ jobs' = Append(jobs, NewTask(b)))
  BY DEF EndIteration
<1>3. CASE jobs' = jobs
  BY <1>1, <1>3, JobsUntouched
<1>4. CASE b # <<>> /\ jobs' = Append(jobs, NewTask(b))
  <2>1. /\ NewTask(b) \in Job /\ NewTask(b).items = b
        /\ NewTask(b).next = 1 /\ NewTask(b).st # "pub"
    BY DEF NewTask, Job
  <2> QED
    BY <1>1, <1>4, <2>1, JobStarted
<1> QED
  BY <1>2, <1>3, <1>4

\* The start of an attempt of a batch that does not publish.
LEMMA BeginWriteType ==
  ASSUME IInv, NEW i \in DOMAIN jobs, BeginWrite(i), UNCHANGED stored
  PROVE  jobs' \in Seq(Job) /\ WellFormed' /\ PublisherSafe' /\ failedBatches' \in Nat
<1>1. jobs[i] \in Job /\ jobs[i].next \in 1..Len(jobs[i].items) /\ failedBatches \in Nat
  BY DEF IInv, TypeOK, WellFormed
<1>2. failedBatches' \in Nat
  BY <1>1 DEF BeginWrite, Unwind
<1>3. CASE jobs' = [jobs EXCEPT ![i] = [jobs[i] EXCEPT !.st = "exec"]]
  <2> DEFINE j == [jobs[i] EXCEPT !.st = "exec"]
  <2>1. j \in Job /\ j.items = jobs[i].items /\ j.next = jobs[i].next /\ j.st # "pub"
    BY <1>1 DEF Job
  <2> HIDE DEF j
  <2> QED
    BY <1>1, <1>2, <1>3, <2>1, JobChanged DEF j
<1>4. CASE jobs' = [jobs EXCEPT ![i] = Finished(jobs[i])]
  <2> DEFINE j == Finished(jobs[i])
  <2>1. j \in Job /\ j.items = jobs[i].items /\ j.next = jobs[i].next /\ j.st # "pub"
    BY <1>1 DEF Job, Finished
  <2> HIDE DEF j
  <2> QED
    BY <1>1, <1>2, <1>4, <2>1, JobChanged DEF j
<1> QED
  BY <1>3, <1>4 DEF BeginWrite

-----------------------------------------------------------------------------
(* The invariant is inductive.                                             *)

\* A manager that has just been initialised satisfies the invariant.
LEMMA InitHolds == Init => IInv
<1> SUFFICES ASSUME Init PROVE IInv
  OBVIOUS
<1>1. \A S : <<>> \in Seq(S) /\ Len(<<>>) = 0 /\ DOMAIN <<>> = {}
  OBVIOUS
<1>2. TypeOK
  <2>1. Len(queue) <= QueueCap /\ faults \in 0..MaxFaults
    BY <1>1, CapAssumption, FaultAssumption DEF Init
  <2>2. held \in Seq(Records) /\ Len(held) = (IF wpc = "got" THEN 1 ELSE 0)
    BY <1>1 DEF Init
  <2>3. /\ accepted \in Seq(Records) /\ queue \in Seq(Records) /\ batch \in Seq(Records)
        /\ jobs \in Seq(Job) /\ published \in Seq(Records)
    BY <1>1 DEF Init
  <2>4. refused \subseteq Records /\ stored \subseteq Records /\ attached \in BOOLEAN
    BY DEF Init
  <2> QED
    BY <2>1, <2>2, <2>3, <2>4 DEF Init, TypeOK
<1>3. WellFormed /\ PublisherSafe /\ PublishedIsStored
  BY <1>1 DEF Init, WellFormed, PublisherSafe, PublishedIsStored, Range
<1> QED
  BY <1>2, <1>3 DEF IInv

\* insert_ohlcv, accepting or refusing a row, and set_publisher keep the invariant.
LEMMA IntakeStep ==
  ASSUME IInv,
         AttachPublisher \/ \E r \in Records : Insert(r) \/ \E valid \in BOOLEAN : Refuse(r, valid)
  PROVE  IInv'
<1>1. jobs' \in Seq(Job) /\ WellFormed' /\ PublisherSafe' /\ PublishedIsStored'
  BY JobsUntouched DEF AttachPublisher, Insert, Refuse, outVars, IInv, PublishedIsStored
<1>2. CASE AttachPublisher
  BY <1>1, <1>2 DEF AttachPublisher, IInv, TypeOK, intakeVars, writerVars, statVars, outVars
<1>3. ASSUME NEW r \in Records, Insert(r) PROVE IInv'
  <2>1. /\ queue' \in Seq(Records) /\ Len(queue') <= QueueCap
        /\ accepted' \in Seq(Records)
    BY <1>3, CapAssumption DEF Insert, IInv, TypeOK
  <2> QED
    BY <1>1, <1>3, <2>1 DEF Insert, IInv, TypeOK, writerVars, statVars, outVars
<1>4. ASSUME NEW r \in Records, NEW valid \in BOOLEAN, Refuse(r, valid) PROVE IInv'
  BY <1>1, <1>4 DEF Refuse, IInv, TypeOK, writerVars, statVars, outVars
<1> QED
  BY <1>2, <1>3, <1>4

\* Every step of the _batch_writer task keeps the invariant.
LEMMA WriterStepHolds ==
  ASSUME IInv, WriterStep
  PROVE  IInv'
<1>1. PublishedIsStored'
  BY DEF IInv, PublishedIsStored, WriterStep, WriterGet, WriterResume, WriterTimeout,
         WriterWaitEnd, WriterDrain, outVars
<1>2. CASE WriterGet
  <2>1. jobs' \in Seq(Job) /\ WellFormed' /\ PublisherSafe'
    BY <1>2, JobsUntouched DEF WriterGet, outVars
  <2>2. /\ queue' \in Seq(Records) /\ Len(queue') <= QueueCap
        /\ held' \in Seq(Records) /\ Len(held') = 1 /\ wpc' = "got"
    <3>1. queue \in Seq(Records) /\ queue # <<>> /\ Len(queue) <= QueueCap
      BY <1>2 DEF WriterGet, IInv, TypeOK
    <3>2. Head(queue) \in Records /\ Tail(queue) \in Seq(Records) /\ Len(Tail(queue)) <= QueueCap
      BY <3>1, CapAssumption
    <3> QED
      BY <1>2, <3>2 DEF WriterGet
  <2> QED
    BY <1>1, <1>2, <2>1, <2>2 DEF WriterGet, IInv, TypeOK, statVars, outVars
<1>3. ASSUME NEW due \in BOOLEAN, WriterResume(due) PROVE IInv'
  <2>1. batch \o held \in Seq(Records) /\ Len(<<>>) = 0 /\ <<>> \in Seq(Records)
    BY DEF IInv, TypeOK
  <2>2. /\ jobs' \in Seq(Job) /\ WellFormed' /\ PublisherSafe'
        /\ batch' \in Seq(Records) /\ wpc' \in {"wait", "get", "stopped"}
    BY <1>3, <2>1, IterationType DEF WriterResume, outVars
  <2> QED
    BY <1>1, <1>3, <2>1, <2>2 DEF WriterResume, IInv, TypeOK, intakeVars, statVars, outVars
<1>4. CASE WriterTimeout
  <2>1. batch \in Seq(Records) /\ TRUE \in BOOLEAN
    BY DEF IInv, TypeOK
  <2>2. /\ jobs' \in Seq(Job) /\ WellFormed' /\ PublisherSafe'
        /\ batch' \in Seq(Records) /\ wpc' \in {"wait", "get", "stopped"}
    BY <1>4, <2>1, IterationType DEF WriterTimeout, outVars
  <2> QED
    BY <1>1, <1>4, <2>2 DEF WriterTimeout, IInv, TypeOK, intakeVars, statVars, outVars
<1>5. CASE WriterWaitEnd
  <2>1. jobs \in Seq(Job) /\ WellFormed /\ PublisherSafe
    BY DEF IInv, TypeOK
  <2>2. \A k \in DOMAIN jobs :
          /\ jobs'[k] \in Job /\ jobs'[k].items = jobs[k].items
          /\ jobs'[k].next = jobs[k].next /\ jobs'[k].st = jobs[k].st
    <3> SUFFICES ASSUME NEW k \in DOMAIN jobs
                 PROVE  /\ jobs'[k] \in Job /\ jobs'[k].items = jobs[k].items
                        /\ jobs'[k].next = jobs[k].next /\ jobs'[k].st = jobs[k].st
      OBVIOUS
    <3>1. jobs[k] \in Job
      BY <2>1
    <3>2. \E q \in {"live", "stale", "out"} : jobs'[k] = [jobs[k] EXCEPT !.pend = q]
                                               \/ jobs'[k] = jobs[k]
      BY <1>5 DEF WriterWaitEnd
    <3> QED
      BY <3>1, <3>2 DEF Job
  <2>3. jobs' \in Seq(Job) /\ DOMAIN jobs' = DOMAIN jobs
    <3>1. DOMAIN jobs' = 1..Len(jobs) /\ Len(jobs) \in Nat /\ DOMAIN jobs = 1..Len(jobs)
      BY <1>5, <2>1 DEF WriterWaitEnd
    <3>2. jobs' = [k \in 1..Len(jobs) |-> jobs'[k]]
      BY <1>5, <3>1 DEF WriterWaitEnd
    <3> QED
      BY <2>2, <3>1, <3>2
  <2>4. WellFormed' /\ PublisherSafe'
    BY <1>5, <2>1, <2>2, <2>3 DEF WriterWaitEnd, WellFormed, PublisherSafe, outVars
  <2>5. wpc' \in {"get", "stopped"} /\ wpc = "wait"
    BY <1>5 DEF WriterWaitEnd, LoopOrStop
  <2> QED
    BY <1>1, <1>5, <2>3, <2>4, <2>5 DEF WriterWaitEnd, IInv, TypeOK, intakeVars, statVars, outVars
<1>6. CASE WriterDrain
  <2>1. jobs' \in Seq(Job) /\ WellFormed' /\ PublisherSafe'
    BY <1>6, JobsUntouched DEF WriterDrain, outVars
  <2> QED
    BY <1>1, <1>6, <2>1 DEF WriterDrain, IInv, TypeOK, intakeVars, statVars, outVars
<1> QED
  BY <1>2, <1>3, <1>4, <1>5, <1>6 DEF WriterStep

\* Every step of a _write_batch, its publishing included, keeps the invariant.
LEMMA JobStepHolds ==
  ASSUME IInv, NEW i \in DOMAIN jobs, JobStep(i)
  PROVE  IInv'
<1>1. /\ jobs[i] \in Job /\ jobs[i].next \in 1..Len(jobs[i].items)
      /\ jobs[i].st = "pub" => Range(jobs[i].items) \subseteq stored
      /\ jobs[i].items \in Seq(Records) /\ Len(jobs[i].items) \in Nat /\ jobs[i].depth \in Nat
      /\ Range(jobs[i].items) \subseteq Records
  <2>1. jobs[i] \in Job
    BY DEF IInv, TypeOK
  <2>2. jobs[i].items \in Seq(Records) /\ jobs[i].depth \in Nat
    BY <2>1 DEF Job
  <2> QED
    BY <2>1, <2>2, RangeType DEF IInv, WellFormed, PublisherSafe
<1>2. /\ totalRecords \in Nat /\ failedBatches \in Nat /\ stored \subseteq Records
      /\ published \in Seq(Records) /\ Range(published) \subseteq stored
  BY DEF IInv, TypeOK, PublishedIsStored
<1>3. Finished(jobs[i]) \in Job /\ Finished(jobs[i]).items = jobs[i].items
      /\ Finished(jobs[i]).next = jobs[i].next /\ Finished(jobs[i]).st = "done"
  BY <1>1 DEF Finished, Job
<1>4. CASE Acquire(i) \/ Retry(i)
  <2>1. jobs' \in Seq(Job) /\ WellFormed' /\ PublisherSafe' /\ failedBatches' \in Nat
    BY <1>4, BeginWriteType DEF Acquire, Retry, outVars
  <2> QED
    BY <1>2, <1>4, <2>1 DEF Acquire, Retry, IInv, TypeOK, PublishedIsStored,
                            intakeVars, writerVars, outVars
<1>5. CASE InsertOk(i)
  <2>1. stored \subseteq stored' /\ stored' \subseteq Records /\ published' = published
        /\ Range(jobs[i].items) \subseteq stored'
    BY <1>1, <1>2, <1>5 DEF InsertOk
  <2>2. failedBatches' \in Nat /\ totalRecords' \in Nat
    BY <1>1, <1>2, <1>5 DEF InsertOk, statVars, Unwind
  <2>3. jobs' \in Seq(Job) /\ WellFormed' /\ PublisherSafe'
    <3>1. CASE jobs' = [jobs EXCEPT ![i] = Finished(jobs[i])]
      BY <1>1, <1>3, <2>1, <3>1, JobChanged
    <3>2. CASE jobs' = [jobs EXCEPT ![i] = [jobs[i] EXCEPT !.st = "pub"]]
      <4> DEFINE j == [jobs[i] EXCEPT !.st = "pub"]
      <4>1. j \in Job /\ j.items = jobs[i].items /\ j.next = jobs[i].next
        BY <1>1 DEF Job
      <4> HIDE DEF j
      <4> QED
        BY <1>1, <2>1, <3>2, <4>1, JobChanged DEF j
    <3> QED
      BY <1>5, <3>1, <3>2 DEF InsertOk
  <2> QED
    BY <1>2, <1>5, <2>1, <2>2, <2>3
       DEF InsertOk, IInv, TypeOK, PublishedIsStored, intakeVars, writerVars
<1>6. ASSUME NEW applied \in BOOLEAN, InsertFail(i, applied) PROVE IInv'
  <2>1. stored \subseteq stored' /\ stored' \subseteq Records /\ published' = published
    BY <1>1, <1>2, <1>6 DEF InsertFail
  <2>2. failedBatches' \in Nat /\ faults' \in 0..MaxFaults
    <3>1. failedBatches' \in {failedBatches + 1, Unwind(jobs[i], failedBatches + 1)}
      BY <1>6 DEF InsertFail
    <3>2. Unwind(jobs[i], failedBatches + 1) \in Nat
      BY <1>1, <1>2 DEF Unwind
    <3>3. faults < MaxFaults /\ faults' = faults + 1 /\ faults \in 0..MaxFaults
      BY <1>6 DEF InsertFail, IInv, TypeOK
    <3> QED
      BY <1>2, <3>1, <3>2, <3>3, FaultAssumption
  <2>3. jobs' \in Seq(Job) /\ WellFormed' /\ PublisherSafe'
    <3>1. CASE jobs' = [jobs EXCEPT ![i] = Finished(jobs[i])]
      BY <1>1, <1>3, <2>1, <3>1, JobChanged
    <3>2. CASE jobs' = [jobs EXCEPT ![i] = Sleeping(jobs[i])]
      <4>1. /\ Sleeping(jobs[i]) \in Job /\ Sleeping(jobs[i]).items = jobs[i].items
            /\ Sleeping(jobs[i]).next = jobs[i].next /\ Sleeping(jobs[i]).st = "sleep"
        <5> DEFINE d == jobs[i].depth + 1
        <5>1. d \in Nat /\ Sleeping(jobs[i]) = [jobs[i] EXCEPT !.st = "sleep", !.depth = d]
          BY <1>1 DEF Sleeping
        <5> HIDE DEF d
        <5> QED
          BY <1>1, <5>1 DEF Job
      <4> QED
        BY <1>1, <2>1, <3>2, <4>1, JobChanged
    <3> QED
      BY <1>6, <3>1, <3>2 DEF InsertFail
  <2> QED
    BY <1>2, <1>6, <2>1, <2>2, <2>3
       DEF InsertFail, IInv, TypeOK, PublishedIsStored, intakeVars, writerVars
<1>7. ASSUME NEW sent \in BOOLEAN, PublishOne(i, sent) PROVE IInv'
  <2>1. /\ stored' = stored /\ published' \in Seq(Records)
        /\ Range(published') \subseteq stored
    <3>1. /\ jobs[i].items[jobs[i].next] \in Range(jobs[i].items)
          /\ Range(jobs[i].items) \subseteq stored
      BY <1>1, <1>7 DEF PublishOne, Range
    <3>2. /\ Append(published, jobs[i].items[jobs[i].next]) \in Seq(Records)
          /\ Range(Append(published, jobs[i].items[jobs[i].next]))
               = Range(published) \cup {jobs[i].items[jobs[i].next]}
      BY <1>1, <1>2, <3>1, Appended
    <3> QED
      BY <1>2, <1>7, <3>1, <3>2 DEF PublishOne
  <2>2. failedBatches' \in Nat /\ totalRecords' \in Nat
    BY <1>1, <1>2, <1>7 DEF PublishOne, statVars, Unwind
  <2>3. jobs' \in Seq(Job) /\ WellFormed' /\ PublisherSafe'
    <3>1. CASE jobs' = [jobs EXCEPT ![i] = Finished(jobs[i])]
      BY <1>1, <1>3, <2>1, <3>1, JobChanged
    <3>2. CASE jobs[i].next < Len(jobs[i].items)
               /\ jobs' = [jobs EXCEPT ![i] = [jobs[i] EXCEPT !.next = @ + 1]]
      <4> DEFINE j == [jobs[i] EXCEPT !.next = @ + 1]
      <4>1. /\ j \in Job /\ j.items = jobs[i].items /\ j.next = jobs[i].next + 1
            /\ j.st = jobs[i].st
        BY <1>1 DEF Job
      <4> HIDE DEF j
      <4>2. j.next \in 1..Len(j.items)
        BY <1>1, <3>2, <4>1
      <4> QED
        BY <1>1, <2>1, <3>2, <4>1, <4>2, JobChanged DEF j
    <3> QED
      BY <1>7, <3>1, <3>2 DEF PublishOne
  <2> QED
    BY <1>2, <1>7, <2>1, <2>2, <2>3
       DEF PublishOne, IInv, TypeOK, PublishedIsStored, intakeVars, writerVars
<1> QED
  BY <1>4, <1>5, <1>6, <1>7 DEF JobStep, AttemptEnds, PublishEnds

\* Both halves of close() keep the invariant.
LEMMA CloseStepHolds ==
  ASSUME IInv, CloseBegin \/ CloseEnd
  PROVE  IInv'
<1>1. PublishedIsStored'
  BY DEF IInv, PublishedIsStored, CloseBegin, CloseEnd, outVars
<1>2. CASE CloseBegin
  <2>1. jobs' \in Seq(Job) /\ WellFormed' /\ PublisherSafe'
    <3>1. CASE jobs' = jobs
      BY <1>2, <3>1, JobsUntouched DEF CloseBegin, outVars
    <3>2. CASE batch # <<>> /\ jobs' = Append(jobs, NewFlush(batch))
      <4>1. /\ NewFlush(batch) \in Job /\ NewFlush(batch).items = batch
            /\ NewFlush(batch).next = 1 /\ NewFlush(batch).st # "pub"
        BY DEF NewFlush, Job, IInv, TypeOK
      <4> QED
        BY <1>2, <3>2, <4>1, JobStarted DEF CloseBegin, outVars
    <3> QED
      BY <1>2, <3>1, <3>2 DEF CloseBegin
  <2>2. batch' \in Seq(Records)
    BY <1>2 DEF CloseBegin, IInv, TypeOK
  <2>3. wpc' = wpc \/ (wpc # "got" /\ wpc' = "drain")
    BY <1>2 DEF CloseBegin
  <2> QED
    BY <1>1, <1>2, <2>1, <2>2, <2>3 DEF CloseBegin, IInv, TypeOK, intakeVars, statVars, outVars
<1>3. CASE CloseEnd
  <2>1. jobs' \in Seq(Job) /\ WellFormed' /\ PublisherSafe'
    BY <1>3, JobsUntouched DEF CloseEnd, outVars
  <2> QED
    BY <1>1, <1>3, <2>1 DEF CloseEnd, IInv, TypeOK, intakeVars, writerVars, statVars, outVars
<1> QED
  BY <1>2, <1>3

\* The invariant is inductive.
LEMMA StepHolds == IInv /\ [Next]_vars => IInv'
<1> SUFFICES ASSUME IInv, [Next]_vars PROVE IInv'
  OBVIOUS
<1>1. CASE AttachPublisher \/ \E r \in Records : Insert(r) \/ \E valid \in BOOLEAN : Refuse(r, valid)
  BY <1>1, IntakeStep
<1>2. CASE WriterStep
  BY <1>2, WriterStepHolds
<1>3. CASE \E i \in DOMAIN jobs : JobStep(i)
  BY <1>3, JobStepHolds
<1>4. CASE CloseBegin \/ CloseEnd
  BY <1>4, CloseStepHolds
<1>5. CASE UNCHANGED vars
  BY <1>5 DEF vars, intakeVars, writerVars, statVars, outVars, IInv, TypeOK,
              WellFormed, PublisherSafe, PublishedIsStored
<1> QED
  BY <1>1, <1>2, <1>3, <1>4, <1>5 DEF Next

-----------------------------------------------------------------------------

\* Every reachable state has the types of TypeOK: in particular the queue stays
\* within its capacity and publishing never runs past the end of a batch.
THEOREM TypeCorrect == Spec => []TypeOK
<1>1. Spec => []IInv
  BY InitHolds, StepHolds, PTL DEF Spec
<1>2. IInv => TypeOK
  BY DEF IInv
<1> QED
  BY <1>1, <1>2, PTL

\* A row is announced on NATS only when it is in the table, however INSERTs fail,
\* are retried or are cut short by close().
THEOREM PublishAfterInsert == Spec => []PublishedIsStored
<1>1. Spec => []IInv
  BY InitHolds, StepHolds, PTL DEF Spec
<1>2. IInv => PublishedIsStored
  BY DEF IInv
<1> QED
  BY <1>1, <1>2, PTL

-----------------------------------------------------------------------------
(* The shared failure counter.  CounterOwned needs no strengthening beyond *)
(* the types: a batch that gives up without a retry frame of its own found *)
(* the counter at FailureLimit - 1 >= 1, so another batch owns it.         *)

Owner(j) == Active(j) /\ j.depth > 0

\* Changing one job keeps an owner if the counter is zeroed, if the changed job
\* owns it, or if that job was no owner to begin with and the counter was owned.
LEMMA OwnerAfterChange ==
  ASSUME IInv, CounterOwned, NEW i \in DOMAIN jobs, NEW STATE j, j \in Job,
         jobs' = [jobs EXCEPT ![i] = j],
         \/ failedBatches' = 0
         \/ Owner(j)
         \/ failedBatches > 0 /\ ~Owner(jobs[i])
  PROVE  CounterOwned'
<1>1. jobs \in Seq(Job)
  BY DEF IInv, TypeOK
<1>2. /\ DOMAIN jobs' = DOMAIN jobs
      /\ \A k \in DOMAIN jobs : jobs'[k] = IF k = i THEN j ELSE jobs[k]
  BY <1>1, Replaced, Zenon
<1>3. CASE failedBatches' = 0
  BY <1>3 DEF CounterOwned
<1>4. CASE Owner(j)
  <2>1. Owner(jobs'[i]) /\ i \in DOMAIN jobs'
    BY <1>2, <1>4
  <2> QED
    BY <2>1 DEF CounterOwned, Owner, Active
<1>5. CASE failedBatches > 0 /\ ~Owner(jobs[i])
  <2>1. PICK k \in DOMAIN jobs : Owner(jobs[k])
    BY <1>5 DEF CounterOwned, Owner
  <2>2. k # i /\ jobs'[k] = jobs[k]
    BY <1>2, <1>5, <2>1
  <2>3. Owner(jobs'[k]) /\ k \in DOMAIN jobs'
    BY <1>2, <2>1, <2>2, Zenon
  <2> QED
    BY <2>3 DEF CounterOwned, Owner, Active
<1> QED
  BY <1>3, <1>4, <1>5

\* A job that does not touch the counter, and stays an owner if it was one.
LEMMA OwnerAfterMove ==
  ASSUME IInv, CounterOwned, NEW i \in DOMAIN jobs, NEW STATE j, j \in Job,
         jobs' = [jobs EXCEPT ![i] = j], failedBatches' = failedBatches,
         Owner(jobs[i]) => Owner(j)
  PROVE  CounterOwned'
<1>1. failedBatches \in Nat
  BY DEF IInv, TypeOK
<1>2. failedBatches' = 0 \/ Owner(j) \/ (failedBatches > 0 /\ ~Owner(jobs[i]))
  BY <1>1
<1> QED
  BY <1>2, OwnerAfterChange

\* A job that finishes unwinds its retry frames.
LEMMA OwnerAfterFinish ==
  ASSUME IInv, CounterOwned, NEW i \in DOMAIN jobs, NEW STATE f, f \in Nat,
         jobs' = [jobs EXCEPT ![i] = Finished(jobs[i])],
         failedBatches' = Unwind(jobs[i], f), f > 0 => failedBatches > 0
  PROVE  CounterOwned'
<1>1. jobs[i] \in Job /\ jobs[i].depth \in Nat
  <2>1. jobs[i] \in Job
    BY DEF IInv, TypeOK
  <2> QED
    BY <2>1 DEF Job
<1>2. Finished(jobs[i]) \in Job
  BY <1>1 DEF Finished, Job
<1>3. failedBatches' = 0 \/ (failedBatches > 0 /\ ~Owner(jobs[i]))
  BY <1>1 DEF Unwind, Owner
<1> QED
  BY <1>2, <1>3, OwnerAfterChange

\* A first attempt or a retry that begins keeps an owner of the counter.
LEMMA OwnerAfterBegin ==
  ASSUME IInv, CounterOwned, NEW i \in DOMAIN jobs, BeginWrite(i)
  PROVE  CounterOwned'
<1>1. jobs[i] \in Job /\ failedBatches \in Nat
  BY DEF IInv, TypeOK
<1>2. CASE HasClient
  <2> DEFINE j == [jobs[i] EXCEPT !.st = "exec"]
  <2>1. j \in Job /\ j.st = "exec" /\ j.depth = jobs[i].depth
    BY <1>1 DEF Job
  <2>2. jobs' = [jobs EXCEPT ![i] = j] /\ failedBatches' = failedBatches
    BY <1>2 DEF BeginWrite
  <2> HIDE DEF j
  <2>3. Owner(jobs[i]) => Owner(j)
    BY <2>1 DEF Owner, Active
  <2> QED
    BY <2>1, <2>2, <2>3, OwnerAfterMove
<1>3. CASE ~HasClient
  <2>1. jobs' = [jobs EXCEPT ![i] = Finished(jobs[i])]
        /\ failedBatches' = Unwind(jobs[i], failedBatches)
    BY <1>3 DEF BeginWrite
  <2> QED
    BY <1>1, <2>1, OwnerAfterFinish
<1> QED
  BY <1>2, <1>3

\* Steps that append a job or leave the jobs and the counter alone keep every owner.
LEMMA OwnerKept ==
  ASSUME IInv, CounterOwned, failedBatches' = failedBatches,
         DOMAIN jobs \subseteq DOMAIN jobs',
         \A k \in DOMAIN jobs : jobs'[k].st = jobs[k].st /\ jobs'[k].depth = jobs[k].depth
  PROVE  CounterOwned'
  BY DEF CounterOwned, Active

\* The jobs before and after a batch is started.
LEMMA OwnerAfterStart ==
  ASSUME IInv, CounterOwned, failedBatches' = failedBatches, NEW STATE j, j \in Job,
         jobs' = jobs \/ jobs' = Append(jobs, j)
  PROVE  CounterOwned'
<1>1. jobs \in Seq(Job)
  BY DEF IInv, TypeOK
<1>2. DOMAIN jobs \subseteq DOMAIN jobs' /\ \A k \in DOMAIN jobs : jobs'[k] = jobs[k]
  BY <1>1, Appended
<1> QED
  BY <1>2, OwnerKept

\* Every step of a _write_batch keeps the failure counter owned.
LEMMA OwnerJobStep ==
  ASSUME IInv, CounterOwned, NEW i \in DOMAIN jobs, JobStep(i)
  PROVE  CounterOwned'
<1>1. jobs[i] \in Job /\ failedBatches \in Nat
  BY DEF IInv, TypeOK
<1>2. jobs[i].depth \in Nat /\ jobs[i].st \in {"sem", "exec", "pub", "sleep", "done"}
  BY <1>1 DEF Job
<1>3. CASE Acquire(i) \/ Retry(i)
  BY <1>3, OwnerAfterBegin DEF Acquire, Retry
<1>4. CASE InsertOk(i)
  <2>1. CASE jobs' = [jobs EXCEPT ![i] = Finished(jobs[i])]
             /\ failedBatches' = Unwind(jobs[i], failedBatches)
    BY <1>1, <2>1, OwnerAfterFinish
  <2>2. CASE jobs' = [jobs EXCEPT ![i] = [jobs[i] EXCEPT !.st = "pub"]]
             /\ failedBatches' = failedBatches
    <3> DEFINE j == [jobs[i] EXCEPT !.st = "pub"]
    <3>1. j \in Job /\ j.st = "pub" /\ j.depth = jobs[i].depth
      BY <1>1 DEF Job
    <3> HIDE DEF j
    <3>2. Owner(jobs[i]) => Owner(j)
      BY <3>1 DEF Owner, Active
    <3> QED
      BY <2>2, <3>1, <3>2, OwnerAfterMove DEF j
  <2> QED
    BY <1>4, <2>1, <2>2 DEF InsertOk, statVars
<1>5. ASSUME NEW applied \in BOOLEAN, InsertFail(i, applied) PROVE CounterOwned'
  <2>1. CASE jobs' = [jobs EXCEPT ![i] = Sleeping(jobs[i])]
    <3> DEFINE d == jobs[i].depth + 1
    <3>1. d \in Nat /\ d > 0 /\ Sleeping(jobs[i]) = [jobs[i] EXCEPT !.st = "sleep", !.depth = d]
      BY <1>2 DEF Sleeping
    <3> HIDE DEF d
    <3>2. Sleeping(jobs[i]) \in Job /\ Owner(Sleeping(jobs[i]))
      BY <1>1, <3>1 DEF Job, Owner, Active
    <3> QED
      BY <2>1, <3>2, OwnerAfterChange
  <2>2. CASE /\ failedBatches + 1 >= FailureLimit
             /\ failedBatches' = Unwind(jobs[i], failedBatches + 1)
             /\ jobs' = [jobs EXCEPT ![i] = Finished(jobs[i])]
    <3>1. failedBatches + 1 \in Nat /\ failedBatches > 0
      BY <1>1, <2>2, LimitAssumption
    <3> QED
      BY <2>2, <3>1, OwnerAfterFinish
  <2> QED
    BY <1>5, <2>1, <2>2 DEF InsertFail
<1>6. ASSUME NEW sent \in BOOLEAN, PublishOne(i, sent) PROVE CounterOwned'
  <2>1. CASE jobs' = [jobs EXCEPT ![i] = Finished(jobs[i])]
             /\ failedBatches' = Unwind(jobs[i], failedBatches)
    BY <1>1, <2>1, OwnerAfterFinish
  <2>2. CASE jobs' = [jobs EXCEPT ![i] = [jobs[i] EXCEPT !.next = @ + 1]]
             /\ failedBatches' = failedBatches
    <3> DEFINE n == jobs[i].next + 1
               j == [jobs[i] EXCEPT !.next = n]
    <3>1. n \in Nat /\ jobs' = [jobs EXCEPT ![i] = j]
      BY <1>1, <2>2 DEF Job
    <3> HIDE DEF n
    <3>2. j \in Job /\ j.st = jobs[i].st /\ j.depth = jobs[i].depth
      BY <1>1, <3>1 DEF Job
    <3> HIDE DEF j
    <3>3. Owner(jobs[i]) => Owner(j)
      BY <3>2 DEF Owner, Active
    <3> QED
      BY <2>2, <3>1, <3>2, <3>3, OwnerAfterMove
  <2> QED
    BY <1>6, <2>1, <2>2 DEF PublishOne, statVars
<1> QED
  BY <1>3, <1>4, <1>5, <1>6 DEF JobStep, AttemptEnds, PublishEnds

\* So does every step of the write path.
LEMMA OwnerStep == IInv /\ CounterOwned /\ [Next]_vars => CounterOwned'
<1> SUFFICES ASSUME IInv, CounterOwned, [Next]_vars PROVE CounterOwned'
  OBVIOUS
<1>1. jobs \in Seq(Job) /\ batch \in Seq(Records) /\ held \in Seq(Records)
  BY DEF IInv, TypeOK
<1>2. \A b \in Seq(Records) : NewTask(b) \in Job /\ NewFlush(b) \in Job
  BY DEF NewTask, NewFlush, Job
<1>3. ASSUME UNCHANGED <<jobs, failedBatches>> PROVE CounterOwned'
  BY <1>1, <1>3, OwnerKept
<1>4. CASE AttachPublisher \/ \E r \in Records : Insert(r) \/ \E valid \in BOOLEAN : Refuse(r, valid)
  BY <1>3, <1>4 DEF AttachPublisher, Insert, Refuse, statVars
<1>5. CASE WriterGet \/ WriterDrain \/ CloseEnd \/ UNCHANGED vars
  BY <1>3, <1>5 DEF WriterGet, WriterDrain, CloseEnd, statVars, vars
<1>6. ASSUME NEW due \in BOOLEAN, NEW STATE b, b \in Seq(Records),
             EndIteration(b, due), UNCHANGED failedBatches
      PROVE  CounterOwned'
  <2>1. jobs' = jobs \/ jobs' = Append(jobs, NewTask(b))
    BY <1>6 DEF EndIteration
  <2>2. NewTask(b) \in Job
    BY <1>2, <1>6
  <2> QED
    BY <1>6, <2>1, <2>2, OwnerAfterStart
<1>7. CASE \E due \in BOOLEAN : WriterResume(due)
  <2>1. PICK due \in BOOLEAN : EndIteration(batch \o held, due) /\ UNCHANGED failedBatches
    BY <1>7 DEF WriterResume, statVars
  <2>2. batch \o held \in Seq(Records)
    BY <1>1
  <2> QED
    BY <1>6, <2>1, <2>2
<1>8. CASE WriterTimeout
  BY <1>1, <1>6, <1>8 DEF WriterTimeout, statVars
<1>9. CASE WriterWaitEnd
  <2>1. DOMAIN jobs' = DOMAIN jobs /\ failedBatches' = failedBatches
    BY <1>9 DEF WriterWaitEnd, statVars
  <2>2. \A k \in DOMAIN jobs : jobs'[k].st = jobs[k].st /\ jobs'[k].depth = jobs[k].depth
    <3> SUFFICES ASSUME NEW k \in DOMAIN jobs
                 PROVE  jobs'[k].st = jobs[k].st /\ jobs'[k].depth = jobs[k].depth
      OBVIOUS
    <3>1. jobs[k] \in Job
      BY <1>1
    <3>2. \E q \in {"live", "stale", "out"} : jobs'[k] = [jobs[k] EXCEPT !.pend = q]
                                               \/ jobs'[k] = jobs[k]
      BY <1>9 DEF WriterWaitEnd
    <3> QED
      BY <3>1, <3>2 DEF Job
  <2> QED
    BY <2>1, <2>2, OwnerKept
<1>10. CASE CloseBegin
  <2>1. jobs' = jobs \/ jobs' = Append(jobs, NewFlush(batch))
    BY <1>10 DEF CloseBegin
  <2>2. failedBatches' = failedBatches /\ NewFlush(batch) \in Job
    BY <1>1, <1>2, <1>10 DEF CloseBegin, statVars
  <2> QED
    BY <2>1, <2>2, OwnerAfterStart
<1>11. CASE \E i \in DOMAIN jobs : JobStep(i)
  BY <1>11, OwnerJobStep
<1> QED
  BY <1>4, <1>5, <1>7, <1>8, <1>9, <1>10, <1>11 DEF Next, WriterStep

\* The failure counter all batches share is zero whenever no batch is inside a
\* retry, so a batch that starts alone always has its whole retry budget.
THEOREM CounterAlwaysOwned == Spec => []CounterOwned
<1>1. Init => CounterOwned
  BY DEF Init, CounterOwned
<1> QED
  BY <1>1, InitHolds, StepHolds, OwnerStep, PTL DEF Spec

-----------------------------------------------------------------------------
(* Induction.  The induction theorems of the library take an operator; the *)
(* one on minimal elements takes a set, and the provers can use it.        *)

\* Every nonempty set of natural numbers has a least element.
LEMMA LeastNatural ==
  ASSUME NEW T, T \subseteq Nat, T # {}
  PROVE  \E x \in T : \A y \in T : x <= y
<1> DEFINE LessThan == OpToRel(<, Nat)
<1>1. IsWellFoundedOn(LessThan, Nat)
  BY NatLessThanWellFounded
<1>2. ASSUME NEW x \in Nat, NEW y \in Nat, <<x, y>> \notin LessThan PROVE y <= x
  <2>1. ~(x < y)
    BY <1>2 DEF OpToRel
  <2> QED
    BY <2>1
<1> HIDE DEF LessThan
<1>3. PICK x \in T : \A y \in T : <<y, x>> \notin LessThan
  BY <1>1, WFMin
<1>4. \A y \in T : x <= y
  BY <1>2, <1>3
<1> QED
  BY <1>4

\* A set with 0 and every successor of its numbers has all natural numbers.
LEMMA Induction ==
  ASSUME NEW S, 0 \in S, \A n \in Nat : n \in S => n + 1 \in S
  PROVE  \A n \in Nat : n \in S
<1> SUFFICES ASSUME Nat \ S # {} PROVE FALSE
  OBVIOUS
<1>1. PICK x \in Nat \ S : \A y \in Nat \ S : x <= y
  <2>1. Nat \ S \subseteq Nat
    OBVIOUS
  <2> QED
    BY <2>1, LeastNatural
<1>2. x # 0 /\ x - 1 \in Nat
  BY <1>1
<1>3. x - 1 \in S
  BY <1>1, <1>2
<1>4. (x - 1) + 1 \in S
  BY <1>2, <1>3
<1> QED
  BY <1>1, <1>2, <1>4

-----------------------------------------------------------------------------
(* FlattenSeq, through the function its definition is recursive in.        *)

\* f is the concatenation of the first 1, 2, ..., n sequences of s.
Flat(f, s, n) == f = [i \in 1..n |-> IF i = 1 THEN s[i] ELSE f[i - 1] \o s[i]]

\* It exists, so FlattenSeq is its last value.
LEMMA FlatExists ==
  ASSUME NEW S, NEW s \in Seq(Seq(S))
  PROVE  \A n \in Nat : \E f : Flat(f, s, n)
<1> DEFINE Good == {n \in Nat : \E f : Flat(f, s, n)}
<1>1. 0 \in Good
  <2> DEFINE f == [i \in 1..0 |-> <<>>]
  <2>1. Flat(f, s, 0)
    BY DEF Flat
  <2> QED
    BY <2>1
<1>2. ASSUME NEW n \in Nat, n \in Good PROVE n + 1 \in Good
  <2>1. PICK f : Flat(f, s, n)
    BY <1>2
  <2> DEFINE g == [i \in 1..(n + 1) |->
                     IF i <= n THEN f[i] ELSE IF i = 1 THEN s[i] ELSE f[i - 1] \o s[i]]
  <2>2. ASSUME NEW i \in 1..(n + 1)
        PROVE  g[i] = IF i = 1 THEN s[i] ELSE g[i - 1] \o s[i]
    <3>1. i \in 1..n => f[i] = IF i = 1 THEN s[i] ELSE f[i - 1] \o s[i]
      BY <2>1 DEF Flat
    <3>2. i # 1 => i - 1 \in 1..n /\ i - 1 \in 1..(n + 1) /\ g[i - 1] = f[i - 1]
      OBVIOUS
    <3>3. i <= n => i \in 1..n
      OBVIOUS
    <3>4. g[i] = IF i <= n THEN f[i] ELSE IF i = 1 THEN s[i] ELSE f[i - 1] \o s[i]
      OBVIOUS
    <3> HIDE DEF g
    <3> QED
      BY <3>1, <3>2, <3>3, <3>4
  <2>3. Flat(g, s, n + 1)
    <3>1. g = [i \in 1..(n + 1) |-> g[i]]
      OBVIOUS
    <3> HIDE DEF g
    <3>2. g = [i \in 1..(n + 1) |-> IF i = 1 THEN s[i] ELSE g[i - 1] \o s[i]]
      BY <2>2, <3>1, Zenon
    <3> QED
      BY <3>2 DEF Flat
  <2> QED
    BY <2>3
<1> HIDE DEF Good
<1>3. \A n \in Nat : n \in Good
  BY <1>1, <1>2, Induction
<1> QED
  BY <1>3 DEF Good

\* Its recursion equation.
LEMMA FlatStep ==
  ASSUME NEW s, NEW n \in Nat, NEW f, Flat(f, s, n), NEW i \in 1..n
  PROVE  f[i] = IF i = 1 THEN s[i] ELSE f[i - 1] \o s[i]
  BY Zenon DEF Flat

\* FlattenSeq of a nonempty sequence is the last value of such a function.
LEMMA FlattenIsFlat ==
  ASSUME NEW S, NEW s \in Seq(Seq(S)), s # <<>>
  PROVE  \E f : Flat(f, s, Len(s)) /\ FlattenSeq(s) = f[Len(s)]
<1> DEFINE f == CHOOSE f : f = [i \in 1..Len(s) |-> IF i = 1 THEN s[i] ELSE f[i - 1] \o s[i]]
<1>1. Len(s) \in Nat /\ Len(s) # 0
  OBVIOUS
<1>2. \E g : Flat(g, s, Len(s))
  BY <1>1, FlatExists
<1>3. Flat(f, s, Len(s))
  BY <1>2, Zenon DEF Flat
<1>4. FlattenSeq(s) = f[Len(s)]
  BY <1>1, Zenon DEF FlattenSeq
<1> QED
  BY <1>3, <1>4

\* It depends only on the sequences it has concatenated.
LEMMA FlatUnique ==
  ASSUME NEW S, NEW s \in Seq(Seq(S)), NEW t \in Seq(Seq(S)), NEW m \in Nat, NEW n \in Nat,
         NEW f, Flat(f, s, m), NEW g, Flat(g, t, n),
         m <= n, \A i \in 1..m : s[i] = t[i]
  PROVE  \A i \in 1..m : f[i] = g[i]
<1> DEFINE Good == {k \in Nat : k \in 1..m => f[k] = g[k]}
<1>1. 0 \in Good
  OBVIOUS
<1>2. ASSUME NEW k \in Nat, k \in Good PROVE k + 1 \in Good
  <2> SUFFICES ASSUME k + 1 \in 1..m PROVE f[k + 1] = g[k + 1]
    OBVIOUS
  <2>1. PICK j \in 1..m : j = k + 1
    OBVIOUS
  <2>2. j \in 1..n /\ s[j] = t[j] /\ j - 1 = k /\ (j # 1 => k \in 1..m)
    BY <2>1
  <2>3. f[j] = IF j = 1 THEN s[j] ELSE f[j - 1] \o s[j]
    BY FlatStep
  <2>4. g[j] = IF j = 1 THEN t[j] ELSE g[j - 1] \o t[j]
    BY <2>2, FlatStep
  <2>5. j # 1 => f[j - 1] = g[j - 1]
    BY <1>2, <2>2
  <2>6. f[j] = g[j]
    BY <2>2, <2>3, <2>4, <2>5
  <2> QED
    BY <2>1, <2>6
<1> HIDE DEF Good
<1>3. \A k \in Nat : k \in Good
  BY <1>1, <1>2, Induction
<1> QED
  BY <1>3 DEF Good

\* Concatenating nothing gives nothing.
LEMMA FlattenEmpty == FlattenSeq(<<>>) = <<>>
<1>1. Len(<<>>) = 0
  OBVIOUS
<1> QED
  BY <1>1, Zenon DEF FlattenSeq

\* One more sequence is concatenated last.
LEMMA FlattenAppend ==
  ASSUME NEW S, NEW s \in Seq(Seq(S)), NEW x \in Seq(S)
  PROVE  FlattenSeq(Append(s, x)) = FlattenSeq(s) \o x
<1>1. PICK n \in Nat : n = Len(s)
  OBVIOUS
<1>2. PICK t \in Seq(Seq(S)) : t = Append(s, x)
  BY AppendProperties
<1>3. Len(t) = n + 1 /\ t # <<>> /\ t[n + 1] = x /\ \A i \in 1..n : t[i] = s[i]
  BY <1>1, <1>2, AppendProperties
<1>4. PICK g : Flat(g, t, n + 1) /\ FlattenSeq(t) = g[n + 1]
  BY <1>3, FlattenIsFlat
<1>5. g[n + 1] = IF n + 1 = 1 THEN t[n + 1] ELSE g[(n + 1) - 1] \o t[n + 1]
  <2>1. n + 1 \in Nat /\ n + 1 \in 1..(n + 1)
    OBVIOUS
  <2> QED
    BY <1>4, <2>1, FlatStep
<1>6. CASE s = <<>>
  <2>1. n = 0 /\ <<>> \o x = x
    BY <1>1, <1>6
  <2>2. FlattenSeq(t) = x
    BY <1>3, <1>4, <1>5, <2>1
  <2> QED
    BY <1>2, <1>6, <2>1, <2>2, FlattenEmpty, Zenon
<1>7. CASE s # <<>>
  <2>1. PICK f : Flat(f, s, n) /\ FlattenSeq(s) = f[n]
    BY <1>1, <1>7, FlattenIsFlat
  <2>2. n \in 1..n /\ n + 1 # 1 /\ (n + 1) - 1 = n /\ n + 1 \in Nat /\ n <= n + 1
    BY <1>1, <1>7
  <2>3. \A i \in 1..n : s[i] = t[i]
    BY <1>3
  <2>4. \A i \in 1..n : f[i] = g[i]
    BY <1>4, <2>1, <2>2, <2>3, FlatUnique
  <2>5. f[n] = g[n]
    BY <2>2, <2>4
  <2>6. g[n + 1] = g[n] \o x
    BY <1>3, <1>5, <2>2
  <2> QED
    BY <1>2, <1>4, <2>1, <2>5, <2>6, Zenon
<1> QED
  BY <1>6, <1>7

\* Where the sequences of s begin in their concatenation, one after the other.
Places(off, s) ==
  /\ \A i \in DOMAIN s :
       /\ off[i] \in Nat /\ off[i] + Len(s[i]) <= Len(FlattenSeq(s))
       /\ \A k \in DOMAIN s[i] : FlattenSeq(s)[off[i] + k] = s[i][k]
  /\ \A i, j \in DOMAIN s : i < j => off[i] + Len(s[i]) <= off[j]

\* The concatenation of sequences of S is one, and has each of them in its place.
LEMMA FlattenPlaces ==
  ASSUME NEW S, NEW s \in Seq(Seq(S))
  PROVE  FlattenSeq(s) \in Seq(S) /\ \E off : Places(off, s)
<1> DEFINE Good == {n \in Nat : \A t \in Seq(Seq(S)) : Len(t) = n =>
                      FlattenSeq(t) \in Seq(S) /\ \E off : Places(off, t)}
<1>1. 0 \in Good
  <2> SUFFICES ASSUME NEW t \in Seq(Seq(S)), Len(t) = 0
               PROVE  FlattenSeq(t) \in Seq(S) /\ \E off : Places(off, t)
    OBVIOUS
  <2>1. t = <<>> /\ DOMAIN t = {} /\ <<>> \in Seq(S)
    OBVIOUS
  <2>2. Places(<<>>, t)
    BY <2>1 DEF Places
  <2> QED
    BY <2>1, <2>2, FlattenEmpty
<1>2. ASSUME NEW n \in Nat, n \in Good PROVE n + 1 \in Good
  <2> SUFFICES ASSUME NEW t \in Seq(Seq(S)), Len(t) = n + 1
               PROVE  FlattenSeq(t) \in Seq(S) /\ \E off : Places(off, t)
    OBVIOUS
  <2> HIDE DEF Good
  <2>1. PICK u \in Seq(Seq(S)), x \in Seq(S) : t = Append(u, x)
    <3>1. t # <<>>
      OBVIOUS
    <3> QED
      BY <3>1, SequenceEmptyOrAppend
  <2>2. /\ Len(u) = n /\ DOMAIN u = 1..n /\ DOMAIN t = 1..(n + 1)
        /\ t[n + 1] = x /\ \A i \in 1..n : t[i] = u[i] /\ u[i] \in Seq(S)
    <3>1. Len(t) = Len(u) + 1 /\ t[Len(u) + 1] = x /\ \A i \in 1..Len(u) : t[i] = u[i]
      BY <2>1, AppendProperties
    <3>2. Len(u) = n
      BY <3>1
    <3> QED
      BY <3>1, <3>2
  <2>3. PICK o : FlattenSeq(u) \in Seq(S) /\ Places(o, u)
    BY <1>2, <2>2 DEF Good
  <2>4. PICK f \in Seq(S) : f = FlattenSeq(u)
    BY <2>3
  <2>5. PICK g \in Seq(S) : g = f \o x /\ FlattenSeq(t) = g
    <3>1. f \o x \in Seq(S)
      BY ConcatProperties
    <3>2. FlattenSeq(t) = f \o x
      BY <2>1, <2>4, FlattenAppend, Zenon
    <3> QED
      BY <3>1, <3>2, Zenon
  <2>6. /\ Len(g) = Len(f) + Len(x) /\ Len(f) \in Nat /\ Len(x) \in Nat
        /\ \A k \in 1..Len(f) : g[k] = f[k]
        /\ \A k \in 1..Len(x) : g[Len(f) + k] = x[k]
    BY <2>5
  <2> DEFINE q == [i \in 1..(n + 1) |-> IF i = n + 1 THEN Len(f) ELSE o[i]]
  <2>7. q[n + 1] = Len(f) /\ \A i \in 1..n : q[i] = o[i] /\ i \in 1..(n + 1) /\ i # n + 1
    OBVIOUS
  <2> HIDE DEF q
  <2>8. ASSUME NEW i \in 1..(n + 1)
        PROVE  /\ q[i] \in Nat /\ q[i] + Len(t[i]) <= Len(g)
               /\ \A k \in DOMAIN t[i] : g[q[i] + k] = t[i][k]
    <3>1. CASE i = n + 1
      <4>1. t[i] = x /\ q[i] = Len(f)
        BY <2>2, <2>7, <3>1
      <4>2. DOMAIN x = 1..Len(x)
        OBVIOUS
      <4>3. Len(f) \in Nat /\ Len(f) + Len(x) <= Len(g)
        BY <2>6
      <4> QED
        BY <2>6, <4>1, <4>2, <4>3, Zenon
    <3>2. CASE i \in 1..n
      <4>1. /\ o[i] \in Nat /\ o[i] + Len(u[i]) <= Len(f)
            /\ \A k \in DOMAIN u[i] : f[o[i] + k] = u[i][k]
        BY <2>2, <2>3, <2>4, <3>2 DEF Places
      <4>2. PICK v \in Seq(S), a \in Nat : v = u[i] /\ a = o[i]
        BY <2>2, <3>2, <4>1
      <4>3. t[i] = v /\ q[i] = a
        BY <2>2, <2>7, <3>2, <4>2
      <4>4. a + Len(v) <= Len(f) /\ \A k \in 1..Len(v) : f[a + k] = v[k]
        BY <4>1, <4>2
      <4>5. ASSUME NEW k \in 1..Len(v) PROVE g[a + k] = v[k]
        <5>1. a + k \in 1..Len(f)
          BY <2>6, <4>4
        <5> QED
          BY <2>6, <4>4, <5>1
      <4>6. a + Len(v) <= Len(g)
        BY <2>6, <4>4
      <4>7. DOMAIN v = 1..Len(v)
        OBVIOUS
      <4> QED
        BY <4>2, <4>3, <4>5, <4>6, <4>7, Zenon
    <3> QED
      BY <3>1, <3>2
  <2>9. ASSUME NEW i \in 1..(n + 1), NEW j \in 1..(n + 1), i < j
        PROVE  q[i] + Len(t[i]) <= q[j]
    <3>1. i \in 1..n
      BY <2>9
    <3>2. CASE j = n + 1
      BY <2>2, <2>3, <2>4, <2>7, <3>1, <3>2 DEF Places
    <3>3. CASE j \in 1..n
      BY <2>2, <2>3, <2>7, <2>9, <3>1, <3>3 DEF Places
    <3> QED
      BY <3>2, <3>3
  <2>10. Places(q, t)
    BY <2>2, <2>5, <2>8, <2>9 DEF Places
  <2> QED
    BY <2>5, <2>10
<1> HIDE DEF Good
<1>3. \A n \in Nat : n \in Good
  BY <1>1, <1>2, Induction
<1>4. Len(s) \in Good
  BY <1>3
<1> QED
  BY <1>4 DEF Good

-----------------------------------------------------------------------------
(* The order of the rows.                                                  *)

\* The rows of every batch.
Items(js) == [i \in DOMAIN js |-> js[i].items]

\* They are one sequence of rows for each.
LEMMA ItemsType ==
  ASSUME NEW js \in Seq(Job)
  PROVE  Items(js) \in Seq(Seq(Records)) /\ DOMAIN Items(js) = DOMAIN js
<1>1. DOMAIN js = 1..Len(js) /\ Len(js) \in Nat /\ \A i \in 1..Len(js) : js[i].items \in Seq(Records)
  <2>1. \A i \in 1..Len(js) : js[i] \in Job
    OBVIOUS
  <2>2. \A j \in Job : j.items \in Seq(Records)
    BY DEF Job
  <2> QED
    BY <2>1, <2>2
<1>2. Items(js) = [i \in 1..Len(js) |-> js[i].items]
  BY <1>1, Zenon DEF Items
<1> QED
  BY <1>1, <1>2

\* A batch that is started is the last of them.
LEMMA ItemsAppended ==
  ASSUME NEW js \in Seq(Job), NEW j \in Job
  PROVE  Items(Append(js, j)) = Append(Items(js), j.items)
<1>1. /\ Append(js, j) \in Seq(Job) /\ Len(Append(js, j)) = Len(js) + 1 /\ Len(js) \in Nat
      /\ Append(js, j)[Len(js) + 1] = j
      /\ \A k \in 1..Len(js) : Append(js, j)[k] = js[k]
  BY AppendProperties
<1>2. PICK r \in Seq(Job) : r = Append(js, j)
  BY <1>1
<1>3. PICK n \in Nat : n = Len(js)
  BY <1>1
<1>4. j.items \in Seq(Records)
  BY DEF Job
<1>5. /\ Items(r) \in Seq(Seq(Records)) /\ DOMAIN Items(r) = 1..(n + 1)
      /\ Items(js) \in Seq(Seq(Records)) /\ DOMAIN Items(js) = 1..n
  <2>1. DOMAIN r = 1..(n + 1) /\ DOMAIN js = 1..n
    BY <1>1, <1>2, <1>3
  <2> QED
    BY <2>1, ItemsType
<1>6. Len(Items(js)) = n /\ Len(Items(r)) = n + 1
  BY <1>5
<1>7. PICK a \in Seq(Seq(Records)) :
        /\ a = Append(Items(js), j.items) /\ Len(a) = n + 1 /\ a[n + 1] = j.items
        /\ \A k \in 1..n : a[k] = Items(js)[k]
  <2>1. PICK b \in Seq(Seq(Records)), x \in Seq(Records) :
          b = Items(js) /\ x = j.items /\ Len(b) = n
    BY <1>4, <1>5, <1>6, Zenon
  <2>2. /\ Append(b, x) \in Seq(Seq(Records)) /\ Len(Append(b, x)) = Len(b) + 1
        /\ Append(b, x)[Len(b) + 1] = x /\ \A k \in 1..Len(b) : Append(b, x)[k] = b[k]
    BY AppendProperties
  <2> QED
    BY <2>1, <2>2, Zenon
<1>8. ASSUME NEW k \in 1..(n + 1) PROVE Items(r)[k] = a[k]
  <2>1. Items(r)[k] = r[k].items
    BY <1>5, Zenon DEF Items
  <2>2. CASE k = n + 1
    BY <1>1, <1>2, <1>3, <1>7, <2>1, <2>2
  <2>3. CASE k \in 1..n
    <3>1. r[k] = js[k]
      BY <1>1, <1>2, <1>3, <2>3
    <3>2. Items(js)[k] = js[k].items
      BY <1>5, <2>3, Zenon DEF Items
    <3> QED
      BY <1>7, <2>1, <2>3, <3>1, <3>2
  <2> QED
    BY <2>2, <2>3
<1>9. Items(r) = a
  BY <1>5, <1>6, <1>7, <1>8, SeqEqual
<1> QED
  BY <1>2, <1>7, <1>9

\* The rows of the batches depend on nothing else.
LEMMA ItemsSame ==
  ASSUME NEW js, NEW ks, DOMAIN js = DOMAIN ks, \A i \in DOMAIN js : js[i].items = ks[i].items
  PROVE  Items(js) = Items(ks)
  BY Zenon DEF Items

\* The rows of all batches, in the order the batches were started.
Written(js) == FlattenSeq(Items(js))

\* They are rows.
LEMMA WrittenType == ASSUME NEW js \in Seq(Job) PROVE Written(js) \in Seq(Records)
  BY ItemsType, FlattenPlaces DEF Written

\* Those of a new batch come last.
LEMMA WrittenAppended ==
  ASSUME NEW js \in Seq(Job), NEW j \in Job
  PROVE  Written(Append(js, j)) = Written(js) \o j.items
<1>1. j.items \in Seq(Records)
  BY DEF Job
<1> QED
  BY <1>1, ItemsType, ItemsAppended, FlattenAppend, Zenon DEF Written

\* FirstInFirstOut as a relation between values, so that two states can be compared.
InOrder(acc, js, b, h, q) == acc = Written(js) \o b \o h \o q

\* It is FirstInFirstOut.
LEMMA FifoMeans == FirstInFirstOut <=> InOrder(accepted, jobs, batch, held, queue)
  BY Zenon DEF FirstInFirstOut, InOrder, Written, Items

\* At the end of an iteration the rows of b are in a batch of their own or still in `batch`.
LEMMA IterationOrder ==
  ASSUME jobs \in Seq(Job), NEW b \in Seq(Records), NEW due, EndIteration(b, due)
  PROVE  Written(jobs') \o batch' = Written(jobs) \o b
<1>1. \/ jobs' = jobs /\ batch' = b
      \/ jobs' = Append(jobs, NewTask(b)) /\ batch' = <<>>
  BY Zenon DEF EndIteration
<1>2. CASE jobs' = Append(jobs, NewTask(b)) /\ batch' = <<>>
  <2>1. NewTask(b) \in Job /\ NewTask(b).items = b
    BY DEF NewTask, Job
  <2>2. Written(jobs') = Written(jobs) \o b
    BY <1>2, <2>1, WrittenAppended, Zenon
  <2>3. Written(jobs) \o b \in Seq(Records)
    BY WrittenType, ConcatProperties
  <2>4. (Written(jobs) \o b) \o <<>> = Written(jobs) \o b
    BY <2>3
  <2> QED
    BY <1>2, <2>2, <2>4, Zenon
<1> QED
  BY <1>1, <1>2, Zenon

\* Every step keeps the rows in order.
LEMMA FifoStep == IInv /\ FirstInFirstOut /\ [Next]_vars => FirstInFirstOut'
<1> SUFFICES ASSUME IInv, FirstInFirstOut, [Next]_vars
             PROVE  InOrder(accepted', jobs', batch', held', queue')
  BY Zenon DEF FirstInFirstOut, InOrder, Written, Items
<1>1. /\ jobs \in Seq(Job) /\ batch \in Seq(Records) /\ held \in Seq(Records)
      /\ queue \in Seq(Records) /\ accepted \in Seq(Records)
      /\ (wpc # "got" => held = <<>>)
  BY DEF IInv, TypeOK
<1>2. accepted = Written(jobs) \o batch \o held \o queue
  BY FifoMeans DEF InOrder
<1>3. ASSUME UNCHANGED <<accepted, queue, held>>, Written(jobs') \o batch' = Written(jobs) \o batch
      PROVE  InOrder(accepted', jobs', batch', held', queue')
  BY <1>2, <1>3, Zenon DEF InOrder
<1>4. ASSUME UNCHANGED <<accepted, queue, held, batch>>,
             DOMAIN jobs' = DOMAIN jobs, \A i \in DOMAIN jobs : jobs'[i].items = jobs[i].items
      PROVE  InOrder(accepted', jobs', batch', held', queue')
  <2>1. Written(jobs') = Written(jobs)
    BY <1>4, ItemsSame, Zenon DEF Written
  <2> QED
    BY <1>3, <1>4, <2>1, Zenon
<1>5. CASE AttachPublisher \/ (\E r \in Records, valid \in BOOLEAN : Refuse(r, valid)) \/ WriterDrain
           \/ CloseEnd \/ UNCHANGED vars
  BY <1>4, <1>5 DEF AttachPublisher, Refuse, WriterDrain, CloseEnd, intakeVars, writerVars, vars
<1>6. ASSUME NEW r \in Records, Insert(r) PROVE InOrder(accepted', jobs', batch', held', queue')
  <2>1. accepted' = Append(accepted, r) /\ queue' = Append(queue, r)
        /\ jobs' = jobs /\ batch' = batch /\ held' = held
    BY <1>6 DEF Insert, writerVars
  <2>2. PICK w \in Seq(Records) : w = Written(jobs) \o batch \o held /\ accepted = w \o queue
    <3>1. Written(jobs) \o batch \o held \in Seq(Records)
      BY <1>1, WrittenType, ConcatProperties
    <3> QED
      BY <1>2, <3>1, Zenon
  <2>3. Append(w \o queue, r) = w \o Append(queue, r)
    <3>1. PICK q \in Seq(Records), v \in Seq(Records), x \in Seq(Records) :
            q = queue /\ v = w \o q /\ x = <<r>>
      <4>1. <<r>> \in Seq(Records)
        OBVIOUS
      <4>2. w \o queue \in Seq(Records)
        BY <1>1, ConcatProperties
      <4> QED
        BY <1>1, <4>1, <4>2, Zenon
    <3>2. Append(v, r) = v \o x /\ Append(q, r) = q \o x
      BY <3>1, AppendIsConcat
    <3>3. (w \o q) \o x = w \o (q \o x)
      BY ConcatAssociative
    <3> QED
      BY <3>1, <3>2, <3>3, Zenon
  <2> QED
    BY <2>1, <2>2, <2>3, Zenon DEF InOrder
<1>7. CASE WriterGet
  <2>1. queue # <<>> /\ held = <<>> /\ held' = <<Head(queue)>> /\ queue' = Tail(queue)
        /\ accepted' = accepted /\ jobs' = jobs /\ batch' = batch
    BY <1>1, <1>7 DEF WriterGet
  <2>2. held' \in Seq(Records) /\ queue' \in Seq(Records) /\ held' \o queue' = held \o queue
    BY <1>1, <2>1
  <2>3. (Written(jobs) \o batch) \o held \o queue = (Written(jobs) \o batch) \o (held \o queue)
    <3>1. Written(jobs) \o batch \in Seq(Records)
      BY <1>1, WrittenType, ConcatProperties
    <3>2. PICK v, h, q \in Seq(Records) : v = Written(jobs) \o batch /\ h = held /\ q = queue
      BY <1>1, <3>1, Zenon
    <3>3. (v \o h) \o q = v \o (h \o q)
      BY ConcatAssociative
    <3> QED
      BY <3>2, <3>3, Zenon
  <2>4. (Written(jobs) \o batch) \o held' \o queue' = (Written(jobs) \o batch) \o (held' \o queue')
    <3>1. Written(jobs) \o batch \in Seq(Records)
      BY <1>1, WrittenType, ConcatProperties
    <3>2. PICK v, h, q \in Seq(Records) : v = Written(jobs) \o batch /\ h = held' /\ q = queue'
      BY <1>1, <2>2, <3>1, Zenon
    <3>3. (v \o h) \o q = v \o (h \o q)
      BY ConcatAssociative
    <3> QED
      BY <3>2, <3>3, Zenon
  <2> QED
    BY <1>2, <2>1, <2>2, <2>3, <2>4, Zenon DEF InOrder
<1>8. ASSUME NEW due, WriterResume(due) PROVE InOrder(accepted', jobs', batch', held', queue')
  <2>1. EndIteration(batch \o held, due) /\ held' = <<>> /\ queue' = queue /\ accepted' = accepted
    BY <1>8 DEF WriterResume, intakeVars
  <2>2. Written(jobs') \o batch' = Written(jobs) \o (batch \o held)
    BY <1>1, <2>1, ConcatProperties, IterationOrder
  <2>3. PICK w \in Seq(Records) : w = Written(jobs) \o (batch \o held)
    BY <1>1, WrittenType, ConcatProperties
  <2>4. w \o held' = w
    BY <2>1
  <2>5. Written(jobs') \o batch' \o held' \o queue' = w \o queue
    BY <2>1, <2>2, <2>3, <2>4, Zenon
  <2>6. Written(jobs) \o batch \o held \o queue = (Written(jobs) \o (batch \o held)) \o queue
    <3>1. PICK v, b, h \in Seq(Records) : v = Written(jobs) /\ b = batch /\ h = held
      BY <1>1, WrittenType, Zenon
    <3>2. (v \o b) \o h = v \o (b \o h)
      BY ConcatAssociative
    <3> QED
      BY <3>1, <3>2, Zenon
  <2> QED
    BY <1>2, <2>1, <2>3, <2>5, <2>6, Zenon DEF InOrder
<1>9. CASE WriterTimeout
  <2>1. EndIteration(batch, TRUE) /\ UNCHANGED <<accepted, queue, held>>
    BY <1>9 DEF WriterTimeout, intakeVars
  <2>2. Written(jobs') \o batch' = Written(jobs) \o batch
    BY <1>1, <2>1, IterationOrder
  <2> QED
    BY <1>3, <2>1, <2>2
<1>10. CASE WriterWaitEnd
  <2>1. UNCHANGED <<accepted, queue, held, batch>> /\ DOMAIN jobs' = DOMAIN jobs
    BY <1>10 DEF WriterWaitEnd, intakeVars
  <2>2. ASSUME NEW i \in DOMAIN jobs PROVE jobs'[i].items = jobs[i].items
    <3>1. \E q \in {"live", "stale", "out"} : jobs'[i] = [jobs[i] EXCEPT !.pend = q]
                                               \/ jobs'[i] = jobs[i]
      BY <1>10 DEF WriterWaitEnd
    <3>2. jobs[i] \in Job
      BY <1>1
    <3> QED
      BY <3>1, <3>2 DEF Job
  <2> QED
    BY <1>4, <2>1, <2>2
<1>11. ASSUME NEW i \in DOMAIN jobs, JobStep(i) PROVE InOrder(accepted', jobs', batch', held', queue')
  <2>1. UNCHANGED <<accepted, queue, held, batch>>
    BY <1>11 DEF JobStep, Acquire, Retry, AttemptEnds, InsertOk, InsertFail, PublishEnds, PublishOne,
                intakeVars, writerVars
  <2>2. \E j : jobs' = [jobs EXCEPT ![i] = j] /\ j.items = jobs[i].items
    <3>1. jobs[i] \in Job
      BY <1>1
    <3>2. /\ Finished(jobs[i]).items = jobs[i].items /\ Sleeping(jobs[i]).items = jobs[i].items
          /\ [jobs[i] EXCEPT !.st = "exec"].items = jobs[i].items
          /\ [jobs[i] EXCEPT !.st = "pub"].items = jobs[i].items
          /\ [jobs[i] EXCEPT !.next = @ + 1].items = jobs[i].items
      BY <3>1 DEF Job, Finished, Sleeping
    <3> QED
      BY <1>11, <3>2, Zenon
         DEF JobStep, Acquire, Retry, BeginWrite, AttemptEnds, InsertOk, InsertFail, PublishEnds, PublishOne
  <2>3. DOMAIN jobs' = DOMAIN jobs /\ \A k \in DOMAIN jobs : jobs'[k].items = jobs[k].items
    BY <1>1, <2>2, Zenon
  <2> QED
    BY <1>4, <2>1, <2>3
<1>12. CASE CloseBegin
  <2>1. UNCHANGED <<accepted, queue, held>>
    BY <1>12 DEF CloseBegin, intakeVars
  <2>2. CASE UNCHANGED <<batch, jobs>>
    BY <1>3, <2>1, <2>2, Zenon
  <2>3. CASE batch' = <<>> /\ jobs' = Append(jobs, NewFlush(batch))
    <3>1. NewFlush(batch) \in Job /\ NewFlush(batch).items = batch
      BY <1>1 DEF NewFlush, Job
    <3>2. Written(jobs') = Written(jobs) \o batch
      BY <1>1, <2>3, <3>1, WrittenAppended, Zenon
    <3>3. PICK w \in Seq(Records) : w = Written(jobs) \o batch
      BY <1>1, WrittenType, ConcatProperties
    <3>4. w \o <<>> = w
      OBVIOUS
    <3> QED
      BY <1>3, <2>1, <2>3, <3>2, <3>3, <3>4, Zenon
  <2> QED
    BY <1>12, <2>2, <2>3 DEF CloseBegin
<1> QED
  BY <1>5, <1>6, <1>7, <1>8, <1>9, <1>10, <1>11, <1>12 DEF Next, WriterStep

\* Nothing is accepted at first.
LEMMA FifoInit == Init => FirstInFirstOut
<1> SUFFICES ASSUME Init PROVE FirstInFirstOut
  OBVIOUS
<1>1. Items(jobs) = <<>>
  <2>1. jobs \in Seq(Job) /\ DOMAIN jobs = {}
    BY DEF Init
  <2>2. PICK s \in Seq(Seq(Records)) : s = Items(jobs) /\ DOMAIN s = {}
    BY <2>1, ItemsType, Zenon
  <2>3. s = <<>>
    BY <2>2
  <2> QED
    BY <2>2, <2>3, Zenon
<1>2. <<>> = <<>> \o <<>> \o <<>> \o <<>>
  OBVIOUS
<1> QED
  BY <1>1, <1>2, FlattenEmpty, FifoMeans, Zenon DEF Init, InOrder, Written

\* The writer neither loses, duplicates nor reorders a row, for any queue, batch and
\* semaphore size, whatever fails and whenever close() comes.
THEOREM RowsInOrder == Spec => []FirstInFirstOut
<1> QED
  BY InitHolds, StepHolds, FifoInit, FifoStep, PTL DEF Spec

-----------------------------------------------------------------------------
(* Every row is in one place.                                              *)

\* No row is accepted twice, and no row is both accepted and refused.
AcceptedOnce == IsInjective(accepted) /\ Range(accepted) \cap refused = {}

\* What is known of the rows: the types, their order and that they differ.
RowInv == IInv /\ FirstInFirstOut /\ AcceptedOnce

\* A sequence is a prefix of its concatenation with another.
LEMMA Prefix ==
  ASSUME NEW S, NEW s \in Seq(S), NEW t \in Seq(S)
  PROVE  /\ s \o t \in Seq(S) /\ Len(s) <= Len(s \o t)
         /\ \A n \in 1..Len(s) : (s \o t)[n] = s[n]
  OBVIOUS

\* An accepted row is a new one.
LEMMA AcceptedStep == IInv /\ AcceptedOnce /\ [Next]_vars => AcceptedOnce'
<1> SUFFICES ASSUME IInv, AcceptedOnce, [Next]_vars PROVE AcceptedOnce'
  OBVIOUS
<1>1. accepted \in Seq(Records)
  BY DEF IInv, TypeOK
<1>2. CASE UNCHANGED <<accepted, refused>>
  BY <1>2, Zenon DEF AcceptedOnce
<1>3. ASSUME NEW r \in Records, Insert(r) PROVE AcceptedOnce'
  <2>1. r \notin Range(accepted) /\ r \notin refused
        /\ accepted' = Append(accepted, r) /\ refused' = refused
    BY <1>3 DEF Insert
  <2>2. /\ DOMAIN accepted' = DOMAIN accepted \cup {Len(accepted) + 1}
        /\ \A k \in DOMAIN accepted : accepted'[k] = accepted[k]
        /\ accepted'[Len(accepted) + 1] = r
        /\ Range(accepted') = Range(accepted) \cup {r}
    <3>1. /\ DOMAIN Append(accepted, r) = DOMAIN accepted \cup {Len(accepted) + 1}
          /\ \A k \in DOMAIN accepted : Append(accepted, r)[k] = accepted[k]
          /\ Append(accepted, r)[Len(accepted) + 1] = r
          /\ Range(Append(accepted, r)) = Range(accepted) \cup {r}
      BY <1>1, Appended
    <3> QED
      BY <2>1, <3>1, Zenon
  <2>3. \A k \in DOMAIN accepted : accepted[k] # r
    BY <2>1 DEF Range
  <2>4. IsInjective(accepted')
    BY <2>2, <2>3 DEF AcceptedOnce, IsInjective
  <2> QED
    BY <2>1, <2>2, <2>4 DEF AcceptedOnce
<1>4. ASSUME NEW r \in Records, NEW valid \in BOOLEAN, Refuse(r, valid) PROVE AcceptedOnce'
  <2>1. r \notin Range(accepted) /\ accepted' = accepted /\ refused' = refused \cup {r}
    BY <1>4 DEF Refuse
  <2> QED
    BY <2>1 DEF AcceptedOnce
<1>5. ASSUME NEW i \in DOMAIN jobs, JobStep(i) PROVE UNCHANGED <<accepted, refused>>
  BY <1>5 DEF JobStep, Acquire, Retry, AttemptEnds, InsertOk, InsertFail, PublishEnds, PublishOne, intakeVars
<1>6. ASSUME WriterStep PROVE UNCHANGED <<accepted, refused>>
  BY <1>6 DEF WriterStep, WriterGet, WriterResume, WriterTimeout, WriterWaitEnd, WriterDrain, intakeVars
<1>7. ASSUME AttachPublisher \/ CloseBegin \/ CloseEnd \/ UNCHANGED vars
      PROVE UNCHANGED <<accepted, refused>>
  BY <1>7 DEF AttachPublisher, CloseBegin, CloseEnd, vars, intakeVars
<1> QED
  BY <1>2, <1>3, <1>4, <1>5, <1>6, <1>7 DEF Next

\* A manager that has just been initialised has no rows.
LEMMA RowInit == Init => RowInv
<1>1. Init => AcceptedOnce
  BY DEF Init, AcceptedOnce, IsInjective, Range
<1> QED
  BY <1>1, InitHolds, FifoInit DEF RowInv

\* Every step keeps what is known of the rows.
LEMMA RowStep == RowInv /\ [Next]_vars => RowInv'
  BY StepHolds, FifoStep, AcceptedStep DEF RowInv

\* off[i] is the number of rows accepted before the first of job i.
RowPlaces(off) ==
  /\ \A i \in DOMAIN jobs :
       /\ off[i] \in Nat
       /\ \A k \in 1..Len(jobs[i].items) :
            off[i] + k \in DOMAIN accepted /\ accepted[off[i] + k] = jobs[i].items[k]
  /\ \A i, j \in DOMAIN jobs : i < j => off[i] + Len(jobs[i].items) <= off[j]

\* The rows of the jobs are a prefix of the rows accepted, job after job.
LEMMA RowsArePlaced == RowInv => \E off : RowPlaces(off)
<1> SUFFICES ASSUME RowInv PROVE \E off : RowPlaces(off)
  OBVIOUS
<1>1. /\ jobs \in Seq(Job) /\ batch \in Seq(Records) /\ held \in Seq(Records)
      /\ queue \in Seq(Records)
      /\ accepted = Written(jobs) \o batch \o held \o queue
  BY FifoMeans DEF RowInv, IInv, TypeOK, InOrder
<1>2. PICK s \in Seq(Seq(Records)) : s = Items(jobs) /\ DOMAIN s = DOMAIN jobs
  BY <1>1, ItemsType, Zenon
<1>3. PICK w \in Seq(Records) : w = Written(jobs)
  BY <1>1, WrittenType
<1>4. PICK off : Places(off, s) /\ FlattenSeq(s) = w
  BY <1>2, <1>3, FlattenPlaces, Zenon DEF Written
<1>5. PICK a \in Seq(Records) : a = accepted /\ Len(w) <= Len(a) /\ \A n \in 1..Len(w) : a[n] = w[n]
  <2>1. PICK b, h, q \in Seq(Records) : b = batch /\ h = held /\ q = queue
    BY <1>1, Zenon
  <2>2. PICK u \in Seq(Records) : u = w \o b /\ Len(w) <= Len(u) /\ \A n \in 1..Len(w) : u[n] = w[n]
    BY Prefix
  <2>3. PICK v \in Seq(Records) : v = u \o h /\ Len(u) <= Len(v) /\ \A n \in 1..Len(u) : v[n] = u[n]
    BY Prefix
  <2>4. PICK x \in Seq(Records) : x = v \o q /\ Len(v) <= Len(x) /\ \A n \in 1..Len(v) : x[n] = v[n]
    BY Prefix
  <2>5. x = accepted
    BY <1>1, <1>3, <2>1, <2>2, <2>3, <2>4, Zenon
  <2>6. Len(w) <= Len(x) /\ \A n \in 1..Len(w) : x[n] = w[n]
    BY <2>2, <2>3, <2>4
  <2> QED
    BY <2>5, <2>6, Zenon
<1>6. ASSUME NEW i \in DOMAIN jobs
      PROVE  /\ off[i] \in Nat
             /\ \A k \in 1..Len(jobs[i].items) :
                  off[i] + k \in DOMAIN a /\ a[off[i] + k] = jobs[i].items[k]
  <2>1. s[i] = jobs[i].items /\ i \in DOMAIN s
    BY <1>2, Zenon DEF Items
  <2>2. PICK t \in Seq(Records) : t = s[i]
    BY <1>2, <2>1
  <2>3. PICK o \in Nat : o = off[i] /\ o + Len(t) <= Len(w) /\ \A k \in 1..Len(t) : w[o + k] = t[k]
    <3>1. off[i] \in Nat /\ off[i] + Len(s[i]) <= Len(w) /\ \A k \in DOMAIN s[i] : w[off[i] + k] = s[i][k]
      BY <1>4, <2>1, Zenon DEF Places
    <3>2. DOMAIN t = 1..Len(t)
      OBVIOUS
    <3> QED
      BY <2>2, <3>1, <3>2, Zenon
  <2>4. ASSUME NEW k \in 1..Len(t) PROVE o + k \in DOMAIN a /\ a[o + k] = t[k]
    <3>1. o + k \in 1..Len(w)
      BY <2>3
    <3>2. o + k \in 1..Len(a) /\ DOMAIN a = 1..Len(a)
      BY <1>5, <3>1
    <3>3. a[o + k] = w[o + k]
      BY <1>5, <3>1
    <3> QED
      BY <2>3, <3>2, <3>3
  <2> QED
    BY <2>1, <2>2, <2>3, <2>4, Zenon
<1>7. ASSUME NEW i \in DOMAIN jobs, NEW j \in DOMAIN jobs, i < j
      PROVE  off[i] + Len(jobs[i].items) <= off[j]
  <2>1. s[i] = jobs[i].items
    BY <1>2, Zenon DEF Items
  <2> QED
    BY <1>2, <1>4, <1>7, <2>1, Zenon DEF Places
<1>8. RowPlaces(off)
  BY <1>5, <1>6, <1>7, Zenon DEF RowPlaces
<1> QED
  BY <1>8

\* A row is in one batch only, and there once.
LEMMA RowsDiffer ==
  ASSUME RowInv, NEW i \in DOMAIN jobs, NEW j \in DOMAIN jobs,
         NEW k \in 1..Len(jobs[i].items), NEW l \in 1..Len(jobs[j].items),
         jobs[i].items[k] = jobs[j].items[l]
  PROVE  i = j /\ k = l
<1>1. PICK off : RowPlaces(off)
  BY RowsArePlaced
<1>2. IsInjective(accepted)
  BY DEF RowInv, AcceptedOnce
<1>3. /\ off[i] \in Nat /\ off[j] \in Nat
      /\ off[i] + k \in DOMAIN accepted /\ accepted[off[i] + k] = jobs[i].items[k]
      /\ off[j] + l \in DOMAIN accepted /\ accepted[off[j] + l] = jobs[j].items[l]
  BY <1>1, Zenon DEF RowPlaces
<1>4. off[i] + k = off[j] + l
  BY <1>2, <1>3, Zenon DEF IsInjective
<1>5. i \in Nat /\ j \in Nat /\ Len(jobs[i].items) \in Nat /\ Len(jobs[j].items) \in Nat
  <2>1. jobs \in Seq(Job)
    BY DEF RowInv, IInv, TypeOK
  <2>2. jobs[i] \in Job /\ jobs[j] \in Job /\ i \in Nat /\ j \in Nat
    BY <2>1
  <2>3. jobs[i].items \in Seq(Records) /\ jobs[j].items \in Seq(Records)
    BY <2>2 DEF Job
  <2> QED
    BY <2>2, <2>3
<1>6. /\ i < j => off[i] + Len(jobs[i].items) <= off[j]
      /\ j < i => off[j] + Len(jobs[j].items) <= off[i]
  BY <1>1, Zenon DEF RowPlaces
<1>7. k \in Nat /\ l \in Nat /\ 1 <= k /\ 1 <= l /\ k <= Len(jobs[i].items) /\ l <= Len(jobs[j].items)
  BY <1>5
<1>8. ~(i < j) /\ ~(j < i)
  BY <1>3, <1>4, <1>5, <1>6, <1>7
<1>9. i = j
  BY <1>5, <1>8
<1> QED
  BY <1>3, <1>4, <1>7, <1>9

-----------------------------------------------------------------------------
(* What the batches announce.                                              *)

\* A batch keeps its rows, its end and its progress through the announcements.
Advances ==
  \A i \in DOMAIN jobs :
    /\ i \in DOMAIN jobs' /\ jobs'[i].items = jobs[i].items
    /\ jobs[i].st = "done" => jobs'[i].st = "done"
    /\ jobs[i].st = "pub" =>
         jobs'[i].st = "done" \/ (jobs'[i].st = "pub" /\ jobs'[i].next >= jobs[i].next)

\* Batch i announces its next row.
Announces(i) ==
  /\ jobs[i].st = "pub" /\ published' = Append(published, jobs[i].items[jobs[i].next])
  /\ jobs'[i].st = "done" \/ (jobs'[i].st = "pub" /\ jobs'[i].next = jobs[i].next + 1)

\* Starting a batch changes no other.
LEMMA AppendAdvances ==
  ASSUME IInv, NEW STATE j, j \in Job, jobs' = Append(jobs, j) PROVE Advances
<1>1. jobs \in Seq(Job) /\ \A i \in DOMAIN jobs : jobs[i] \in Job
  BY DEF IInv, TypeOK
<1>2. DOMAIN Append(jobs, j) = DOMAIN jobs \cup {Len(jobs) + 1}
      /\ \A k \in DOMAIN jobs : Append(jobs, j)[k] = jobs[k]
  BY <1>1, Appended
<1>3. \A k \in DOMAIN jobs : k \in DOMAIN jobs' /\ jobs'[k] = jobs[k]
  BY <1>2, Zenon
<1>4. \A k \in DOMAIN jobs : jobs[k].next >= jobs[k].next
  BY <1>1 DEF Job
<1> QED
  BY <1>3, <1>4, Zenon DEF Advances

\* So does a step of batch i that takes it to j.
LEMMA ChangeAdvances ==
  ASSUME IInv, NEW i \in DOMAIN jobs, NEW STATE j, jobs' = [jobs EXCEPT ![i] = j],
         j.items = jobs[i].items, jobs[i].st # "done",
         jobs[i].st = "pub" => j.st = "done" \/ (j.st = "pub" /\ j.next >= jobs[i].next)
  PROVE  Advances /\ jobs'[i] = j
<1>1. jobs \in Seq(Job) /\ \A k \in DOMAIN jobs : jobs[k] \in Job
  BY DEF IInv, TypeOK
<1>2. /\ DOMAIN jobs' = DOMAIN jobs /\ jobs'[i] = j
      /\ \A k \in DOMAIN jobs : k # i => jobs'[k] = jobs[k]
  BY <1>1, Zenon
<1>3. \A k \in DOMAIN jobs : jobs[k].next >= jobs[k].next
  BY <1>1 DEF Job
<1>4. ASSUME NEW k \in DOMAIN jobs
      PROVE  /\ k \in DOMAIN jobs' /\ jobs'[k].items = jobs[k].items
             /\ jobs[k].st = "done" => jobs'[k].st = "done"
             /\ jobs[k].st = "pub" =>
                  jobs'[k].st = "done" \/ (jobs'[k].st = "pub" /\ jobs'[k].next >= jobs[k].next)
  <2>1. CASE k = i
    BY <1>2, <2>1, Zenon
  <2>2. CASE k # i
    BY <1>2, <1>3, <2>2, Zenon
  <2> QED
    BY <2>1, <2>2
<1> QED
  BY <1>2, <1>4, Zenon DEF Advances

\* Nor does a step that changes nothing of them.
LEMMA SameAdvances ==
  ASSUME IInv, DOMAIN jobs' = DOMAIN jobs,
         \A i \in DOMAIN jobs : /\ jobs'[i].items = jobs[i].items /\ jobs'[i].st = jobs[i].st
                                /\ jobs'[i].next = jobs[i].next
  PROVE  Advances
<1>1. \A k \in DOMAIN jobs : jobs[k].next >= jobs[k].next
  <2>1. jobs \in Seq(Job) /\ \A k \in DOMAIN jobs : jobs[k] \in Job
    BY DEF IInv, TypeOK
  <2> QED
    BY <2>1 DEF Job
<1> QED
  BY <1>1, Zenon DEF Advances

\* Only a batch that publishes announces rows, each time its next one.
LEMMA StepAnnounces ==
  IInv /\ [Next]_vars => Advances /\ (published' = published \/ \E i \in DOMAIN jobs : Announces(i))
<1> SUFFICES ASSUME IInv, [Next]_vars
             PROVE  Advances /\ (published' = published \/ \E i \in DOMAIN jobs : Announces(i))
  OBVIOUS
<1>1. /\ jobs \in Seq(Job) /\ batch \in Seq(Records) /\ held \in Seq(Records)
      /\ \A k \in DOMAIN jobs : jobs[k] \in Job
  BY DEF IInv, TypeOK
<1>2. ASSUME NEW b \in Seq(Records), NEW due, EndIteration(b, due) PROVE Advances
  <2>1. jobs' = jobs \/ jobs' = Append(jobs, NewTask(b))
    BY <1>2, Zenon DEF EndIteration
  <2>2. NewTask(b) \in Job
    BY DEF NewTask, Job
  <2> QED
    BY <2>1, <2>2, AppendAdvances, SameAdvances, Zenon
<1>3. CASE UNCHANGED <<jobs, published>>
  BY <1>3, SameAdvances, Zenon
<1>4. CASE AttachPublisher \/ (\E r \in Records : Insert(r) \/ (\E valid \in BOOLEAN : Refuse(r, valid)))
           \/ WriterGet \/ WriterDrain \/ CloseEnd \/ UNCHANGED vars
  <2>1. UNCHANGED <<jobs, published>>
    BY <1>4 DEF AttachPublisher, Insert, Refuse, WriterGet, WriterDrain, CloseEnd, outVars, vars
  <2> QED
    BY <1>3, <2>1
<1>5. CASE (\E due \in BOOLEAN : WriterResume(due)) \/ WriterTimeout
  <2>1. published' = published
        /\ ((\E due \in BOOLEAN : EndIteration(batch \o held, due)) \/ EndIteration(batch, TRUE))
    BY <1>5 DEF WriterResume, WriterTimeout, outVars
  <2>2. batch \o held \in Seq(Records)
    BY <1>1, ConcatProperties
  <2> QED
    BY <1>1, <1>2, <2>1, <2>2
<1>6. CASE WriterWaitEnd
  <2>1. published' = published /\ DOMAIN jobs' = DOMAIN jobs
    BY <1>6 DEF WriterWaitEnd, outVars
  <2>2. ASSUME NEW i \in DOMAIN jobs
        PROVE  /\ jobs'[i].items = jobs[i].items /\ jobs'[i].st = jobs[i].st
               /\ jobs'[i].next = jobs[i].next
    <3>1. \E q \in {"live", "stale", "out"} : jobs'[i] = [jobs[i] EXCEPT !.pend = q]
                                               \/ jobs'[i] = jobs[i]
      BY <1>6 DEF WriterWaitEnd
    <3>2. jobs[i] \in Job
      BY <1>1
    <3> QED
      BY <3>1, <3>2 DEF Job
  <2> QED
    BY <2>1, <2>2, SameAdvances
<1>7. CASE CloseBegin
  <2>1. published' = published /\ (jobs' = jobs \/ jobs' = Append(jobs, NewFlush(batch)))
    BY <1>7 DEF CloseBegin, outVars
  <2>2. NewFlush(batch) \in Job
    BY <1>1 DEF NewFlush, Job
  <2> QED
    BY <2>1, <2>2, AppendAdvances, SameAdvances, Zenon
<1>8. ASSUME NEW i \in DOMAIN jobs, JobStep(i)
      PROVE  Advances /\ (published' = published \/ Announces(i))
  <2>1. jobs[i] \in Job
    BY <1>1
  <2>2. /\ Finished(jobs[i]).items = jobs[i].items /\ Finished(jobs[i]).st = "done"
        /\ Sleeping(jobs[i]).items = jobs[i].items
        /\ [jobs[i] EXCEPT !.st = "exec"].items = jobs[i].items
        /\ [jobs[i] EXCEPT !.st = "pub"].items = jobs[i].items
        /\ [jobs[i] EXCEPT !.next = @ + 1].items = jobs[i].items
        /\ [jobs[i] EXCEPT !.next = @ + 1].st = jobs[i].st
        /\ [jobs[i] EXCEPT !.next = @ + 1].next = jobs[i].next + 1
        /\ jobs[i].next + 1 >= jobs[i].next
    BY <2>1 DEF Job, Finished, Sleeping
  <2>3. CASE Acquire(i) \/ Retry(i)
    <3>1. /\ jobs[i].st \in {"sem", "sleep"} /\ published' = published
          /\ \E j \in {[jobs[i] EXCEPT !.st = "exec"], Finished(jobs[i])} : jobs' = [jobs EXCEPT ![i] = j]
      BY <2>3 DEF Acquire, Retry, BeginWrite, outVars
    <3>2. PICK j \in {[jobs[i] EXCEPT !.st = "exec"], Finished(jobs[i])} : jobs' = [jobs EXCEPT ![i] = j]
      BY <3>1
    <3>3. j.items = jobs[i].items
      BY <2>2, <3>2
    <3> QED
      BY <3>1, <3>2, <3>3, ChangeAdvances
  <2>4. CASE AttemptEnds(i)
    <3>1. /\ jobs[i].st = "exec" /\ published' = published
          /\ \E j \in {[jobs[i] EXCEPT !.st = "pub"], Finished(jobs[i]), Sleeping(jobs[i])} :
               jobs' = [jobs EXCEPT ![i] = j]
      BY <2>4 DEF AttemptEnds, InsertOk, InsertFail
    <3>2. PICK j \in {[jobs[i] EXCEPT !.st = "pub"], Finished(jobs[i]), Sleeping(jobs[i])} :
            jobs' = [jobs EXCEPT ![i] = j]
      BY <3>1
    <3>3. j.items = jobs[i].items
      BY <2>2, <3>2
    <3> QED
      BY <3>1, <3>2, <3>3, ChangeAdvances
  <2>5. CASE PublishEnds(i)
    <3>1. /\ jobs[i].st = "pub"
          /\ published' = published \/ published' = Append(published, jobs[i].items[jobs[i].next])
          /\ \E j \in {[jobs[i] EXCEPT !.next = @ + 1], Finished(jobs[i])} : jobs' = [jobs EXCEPT ![i] = j]
      BY <2>5 DEF PublishEnds, PublishOne
    <3>2. PICK j \in {[jobs[i] EXCEPT !.next = @ + 1], Finished(jobs[i])} : jobs' = [jobs EXCEPT ![i] = j]
      BY <3>1
    <3>3. /\ j.items = jobs[i].items
          /\ j.st = "done" \/ (j.st = "pub" /\ j.next = jobs[i].next + 1 /\ j.next >= jobs[i].next)
      BY <2>2, <3>1, <3>2
    <3>4. Advances /\ jobs'[i] = j
      BY <3>1, <3>2, <3>3, ChangeAdvances
    <3> QED
      BY <3>1, <3>3, <3>4, Zenon DEF Announces
  <2> QED
    BY <1>8, <2>3, <2>4, <2>5 DEF JobStep
<1> QED
  BY <1>4, <1>5, <1>6, <1>7, <1>8 DEF Next, WriterStep

\* Row k of batch i has been passed by: the batch is done or further on.
Passed(i, k) == jobs[i].st = "done" \/ (jobs[i].st = "pub" /\ k < jobs[i].next)

\* Every announced row is one that its batch has passed.
Told ==
  \A m \in DOMAIN published :
    \E i \in DOMAIN jobs : \E k \in 1..Len(jobs[i].items) :
      published[m] = jobs[i].items[k] /\ Passed(i, k)

\* A row that was passed stays passed.
LEMMA PassedStays ==
  ASSUME IInv, IInv', Advances, NEW i \in DOMAIN jobs, NEW k \in 1..Len(jobs[i].items), Passed(i, k)
  PROVE  /\ i \in DOMAIN jobs' /\ k \in 1..Len(jobs'[i].items)
         /\ jobs'[i].items[k] = jobs[i].items[k] /\ Passed(i, k)'
<1>1. i \in DOMAIN jobs' /\ jobs'[i].items = jobs[i].items
  BY Zenon DEF Advances
<1>2. CASE jobs'[i].st = "done"
  BY <1>1, <1>2, Zenon DEF Passed
<1>3. CASE jobs[i].st = "pub" /\ k < jobs[i].next /\ jobs'[i].st = "pub" /\ jobs'[i].next >= jobs[i].next
  <2>1. jobs[i].next \in Nat /\ jobs'[i].next \in Nat /\ k \in Nat
    <3>1. jobs \in Seq(Job) /\ jobs' \in Seq(Job)
      BY DEF IInv, TypeOK
    <3>2. jobs[i] \in Job /\ jobs'[i] \in Job
      BY <1>1, <3>1
    <3> QED
      BY <3>2 DEF Job
  <2>2. k < jobs'[i].next
    BY <1>3, <2>1
  <2> QED
    BY <1>1, <1>3, <2>2, Zenon DEF Passed
<1> QED
  BY <1>2, <1>3, Zenon DEF Advances, Passed

\* Every step keeps the announced rows passed.
LEMMA ToldStep == IInv /\ Told /\ IInv' /\ [Next]_vars => Told'
<1> SUFFICES ASSUME IInv, Told, IInv', [Next]_vars,
                    NEW m \in DOMAIN published'
             PROVE  \E i \in DOMAIN jobs' : \E k \in 1..Len(jobs'[i].items) :
                      published'[m] = jobs'[i].items[k] /\ Passed(i, k)'
  BY Zenon DEF Told
<1>1. Advances /\ (published' = published \/ \E i \in DOMAIN jobs : Announces(i))
  BY StepAnnounces
<1>2. CASE m \in DOMAIN published /\ published'[m] = published[m]
  <2>0. PICK i \in DOMAIN jobs :
          \E k \in 1..Len(jobs[i].items) : published[m] = jobs[i].items[k] /\ Passed(i, k)
    BY <1>2, Zenon DEF Told
  <2>1. PICK k \in 1..Len(jobs[i].items) : published[m] = jobs[i].items[k] /\ Passed(i, k)
    BY <2>0
  <2>2. /\ i \in DOMAIN jobs' /\ k \in 1..Len(jobs'[i].items)
        /\ jobs'[i].items[k] = jobs[i].items[k] /\ Passed(i, k)'
    BY <1>1, <2>1, PassedStays
  <2> QED
    BY <1>2, <2>1, <2>2, Zenon
<1>3. ASSUME NEW i \in DOMAIN jobs, Announces(i)
      PROVE  \E j \in DOMAIN jobs' : \E k \in 1..Len(jobs'[j].items) :
               published'[m] = jobs'[j].items[k] /\ Passed(j, k)'
  <2>1. /\ published \in Seq(Records) /\ jobs[i] \in Job
        /\ jobs[i].next \in 1..Len(jobs[i].items)
    BY DEF IInv, TypeOK, WellFormed
  <2>2. PICK r \in Records : r = jobs[i].items[jobs[i].next]
    <3>1. jobs[i].items \in Seq(Records)
      BY <2>1 DEF Job
    <3> QED
      BY <2>1, <3>1
  <2>3. published' = Append(published, r)
    BY <1>3, <2>2, Zenon DEF Announces
  <2>4. CASE m \in DOMAIN published
    <3>1. published'[m] = published[m]
      <4>1. Append(published, r)[m] = published[m]
        BY <2>1, <2>4, Appended
      <4> QED
        BY <2>3, <4>1, Zenon
    <3> QED
      BY <1>2, <2>4, <3>1
  <2>5. CASE m \notin DOMAIN published
    <3>1. published'[m] = r
      <4>1. /\ DOMAIN Append(published, r) = DOMAIN published \cup {Len(published) + 1}
            /\ Append(published, r)[Len(published) + 1] = r
        BY <2>1, Appended
      <4>2. m \in DOMAIN Append(published, r)
        BY <2>3, Zenon
      <4> QED
        BY <2>3, <2>5, <4>1, <4>2, Zenon
    <3>2. i \in DOMAIN jobs' /\ jobs'[i].items = jobs[i].items
      BY <1>1, Zenon DEF Advances
    <3>3. PICK n \in Nat : n = jobs[i].next /\ n \in 1..Len(jobs[i].items)
      BY <2>1
    <3>4. Passed(i, n)'
      BY <1>3, <3>3 DEF Announces, Passed
    <3>5. n \in 1..Len(jobs'[i].items) /\ published'[m] = jobs'[i].items[n]
      BY <2>2, <3>1, <3>2, <3>3, Zenon
    <3> QED
      BY <3>2, <3>4, <3>5, Zenon
  <2> QED
    BY <2>4, <2>5
<1> QED
  BY <1>1, <1>2, <1>3, Zenon

\* The next row of a batch that publishes has not been announced.
LEMMA NextIsNew ==
  ASSUME RowInv, Told, NEW i \in DOMAIN jobs, jobs[i].st = "pub"
  PROVE  \A m \in DOMAIN published : published[m] # jobs[i].items[jobs[i].next]
<1> SUFFICES ASSUME NEW m \in DOMAIN published, published[m] = jobs[i].items[jobs[i].next] PROVE FALSE
  OBVIOUS
<1>0. PICK j \in DOMAIN jobs :
        \E k \in 1..Len(jobs[j].items) : published[m] = jobs[j].items[k] /\ Passed(j, k)
  BY Zenon DEF Told
<1>1. PICK k \in 1..Len(jobs[j].items) : published[m] = jobs[j].items[k] /\ Passed(j, k)
  BY <1>0
<1>2. jobs[i].next \in 1..Len(jobs[i].items)
  BY DEF RowInv, IInv, WellFormed
<1>3. PICK n \in 1..Len(jobs[i].items) : n = jobs[i].next
  BY <1>2
<1>4. jobs[i].items[n] = jobs[j].items[k]
  BY <1>1, <1>3, Zenon
<1>5. i = j /\ n = k
  BY <1>4, RowsDiffer
<1>6. jobs[i] \in Job
  BY DEF RowInv, IInv, TypeOK
<1> QED
  BY <1>1, <1>3, <1>5, <1>6 DEF Passed, Job

\* Every step keeps the announced rows distinct.
LEMMA OnceStep == RowInv /\ Told /\ PublishedOnce /\ [Next]_vars => PublishedOnce'
<1> SUFFICES ASSUME RowInv, Told, PublishedOnce, [Next]_vars PROVE PublishedOnce'
  OBVIOUS
<1>1. CASE published' = published
  BY <1>1, Zenon DEF PublishedOnce
<1>2. ASSUME NEW i \in DOMAIN jobs, Announces(i) PROVE PublishedOnce'
  <2>1. /\ published \in Seq(Records) /\ jobs[i] \in Job
        /\ jobs[i].next \in 1..Len(jobs[i].items)
    BY DEF RowInv, IInv, TypeOK, WellFormed
  <2>2. PICK r \in Records : r = jobs[i].items[jobs[i].next]
    <3>1. jobs[i].items \in Seq(Records)
      BY <2>1 DEF Job
    <3> QED
      BY <2>1, <3>1
  <2>3. published' = Append(published, r)
    BY <1>2, <2>2, Zenon DEF Announces
  <2>4. /\ DOMAIN Append(published, r) = DOMAIN published \cup {Len(published) + 1}
        /\ Append(published, r)[Len(published) + 1] = r
        /\ \A k \in DOMAIN published : Append(published, r)[k] = published[k]
    BY <2>1, Appended
  <2>5. \A m \in DOMAIN published : published[m] # r
    BY <1>2, <2>2, NextIsNew, Zenon DEF Announces
  <2>6. IsInjective(Append(published, r))
    BY <2>4, <2>5, Zenon DEF PublishedOnce, IsInjective
  <2> QED
    BY <2>3, <2>6, Zenon DEF PublishedOnce
<1> QED
  BY <1>1, <1>2, StepAnnounces DEF RowInv

\* Nothing has been announced at first.
LEMMA ToldInit == Init => Told /\ PublishedOnce
  BY DEF Init, Told, PublishedOnce, IsInjective

\* RowInv is the stronger one.
LEMMA RowInvHolds == RowInv => IInv
  BY DEF RowInv

\* No row is announced twice, for any number of concurrent batches and retries.
THEOREM AnnouncedOnce == Spec => []PublishedOnce
<1> QED
  BY RowInit, RowStep, RowInvHolds, ToldInit, ToldStep, OnceStep, PTL DEF Spec

-----------------------------------------------------------------------------
(* One write at a time.  With the single permit of the code and until       *)
(* close(), the batches run one after the other.                           *)

\* Every batch before one that is not done has ended, every batch after it waits;
\* the failure counter is the depth of the one that runs.
OneAtATime ==
  /\ \A i \in DOMAIN jobs : jobs[i].own = "task"
  /\ \A i, j \in DOMAIN jobs : i < j /\ jobs[i].st # "done" => jobs[j].st = "sem"
  /\ \A i \in DOMAIN jobs : jobs[i].st = "sem" => jobs[i].depth = 0
  /\ \A i \in DOMAIN jobs : Active(jobs[i]) => jobs[i].depth = failedBatches
  /\ failedBatches < FailureLimit

\* close() ends it: the flush of the cancelled writer does not take the permit.
SerialInv == IsConnected => OneAtATime

\* Around batch i all others are done or wait.
Alone(i) == \A k \in DOMAIN jobs : (k < i => jobs[k].st = "done") /\ (i < k => jobs[k].st = "sem")

\* A batch that runs is alone.
LEMMA RunningIsAlone ==
  ASSUME IInv, OneAtATime, NEW i \in DOMAIN jobs, Active(jobs[i]) PROVE Alone(i)
<1>1. jobs[i].st # "done" /\ jobs[i].st # "sem"
  BY DEF Active
<1> QED
  BY <1>1, Zenon DEF OneAtATime, Alone

\* So is a batch that gets the free permit, and then the counter is zero.
LEMMA StartedIsAlone ==
  ASSUME MaxConcurrent = 1, IInv, CounterOwned, OneAtATime, NEW i \in DOMAIN jobs, Acquire(i)
  PROVE  Alone(i) /\ failedBatches = 0
<1>1. jobs \in Seq(Job) /\ DOMAIN jobs = 1..Len(jobs) /\ Len(jobs) \in Nat /\ failedBatches \in Nat
  BY DEF IInv, TypeOK
<1>2. Holders = {}
  <2>1. IsFiniteSet(Holders)
    <3>1. IsFiniteSet(1..Len(jobs))
      BY <1>1, FS_Interval
    <3>2. Holders \subseteq 1..Len(jobs)
      BY <1>1 DEF Holders
    <3> QED
      BY <3>1, <3>2, FS_Subset, Zenon
  <2>2. Cardinality(Holders) \in Nat /\ Cardinality(Holders) < 1
    BY <2>1, FS_CardinalityType DEF Acquire
  <2> QED
    BY <2>1, <2>2, FS_EmptySet
<1>3. \A k \in DOMAIN jobs : ~Active(jobs[k])
  BY <1>2 DEF Holders, OneAtATime
<1>4. failedBatches = 0
  BY <1>1, <1>3 DEF CounterOwned
<1>5. jobs[i].st = "sem" /\ \A k \in 1..(i - 1) : jobs[k].st # "sem"
  BY DEF Acquire
<1>6. ASSUME NEW k \in DOMAIN jobs, k < i PROVE jobs[k].st = "done"
  <2>1. k \in 1..(i - 1)
    BY <1>1, <1>6
  <2>2. jobs[k] \in Job
    BY <1>1
  <2> QED
    BY <1>3, <1>5, <2>1, <2>2 DEF Active, Job
<1>7. ASSUME NEW k \in DOMAIN jobs, i < k PROVE jobs[k].st = "sem"
  BY <1>5, <1>7 DEF OneAtATime
<1> QED
  BY <1>4, <1>6, <1>7, Zenon DEF Alone

\* A step of the batch that runs alone keeps it so.
LEMMA AloneStep ==
  ASSUME IInv, OneAtATime, NEW i \in DOMAIN jobs, Alone(i), NEW STATE j,
         jobs' = [jobs EXCEPT ![i] = j], j.own = jobs[i].own, j.st # "sem",
         Active(j) => j.depth = failedBatches', failedBatches' < FailureLimit
  PROVE  OneAtATime'
<1>1. jobs \in Seq(Job) /\ DOMAIN jobs = 1..Len(jobs) /\ Len(jobs) \in Nat
  BY DEF IInv, TypeOK
<1>2. /\ DOMAIN jobs' = DOMAIN jobs /\ jobs'[i] = j
      /\ \A k \in DOMAIN jobs : k # i => jobs'[k] = jobs[k]
  BY <1>1, Zenon
<1>3. ASSUME NEW k \in DOMAIN jobs, k # i
      PROVE  ~Active(jobs[k]) /\ (k < i => jobs[k].st = "done") /\ (i < k => jobs[k].st = "sem")
  <2>1. k < i \/ i < k
    BY <1>1, <1>3
  <2> QED
    BY <2>1 DEF Alone, Active
<1>4. \A k \in DOMAIN jobs' : jobs'[k].own = "task"
  BY <1>2, Zenon DEF OneAtATime
<1>5. ASSUME NEW k \in DOMAIN jobs', NEW l \in DOMAIN jobs', k < l, jobs'[k].st # "done"
      PROVE  jobs'[l].st = "sem"
  <2>1. k \in Nat /\ l \in Nat /\ i \in Nat
    BY <1>1, <1>2
  <2>2. CASE k = i
    BY <1>2, <1>3, <1>5, <2>1, <2>2
  <2>3. CASE k # i
    <3>1. i < k
      BY <1>2, <1>3, <1>5, <2>1, <2>3
    <3>2. l # i /\ i < l
      BY <1>5, <2>1, <3>1
    <3> QED
      BY <1>2, <1>3, <3>2, Zenon
  <2> QED
    BY <2>2, <2>3
<1>6. ASSUME NEW k \in DOMAIN jobs', jobs'[k].st = "sem" PROVE jobs'[k].depth = 0
  BY <1>2, <1>6, Zenon DEF OneAtATime
<1>7. ASSUME NEW k \in DOMAIN jobs', Active(jobs'[k]) PROVE jobs'[k].depth = failedBatches'
  BY <1>2, <1>3, <1>7, Zenon
<1> QED
  BY <1>4, <1>5, <1>6, <1>7 DEF OneAtATime

\* A batch that is started waits for the semaphore after all others.
LEMMA StartKeepsSerial ==
  ASSUME IInv, OneAtATime, NEW b \in Seq(Records), NEW due, EndIteration(b, due), UNCHANGED failedBatches
  PROVE  OneAtATime'
<1>1. jobs \in Seq(Job) /\ DOMAIN jobs = 1..Len(jobs) /\ Len(jobs) \in Nat
  BY DEF IInv, TypeOK
<1>2. CASE jobs' = jobs
  BY <1>2, Zenon DEF OneAtATime
<1>3. CASE jobs' = Append(jobs, NewTask(b))
  <2>1. /\ NewTask(b) \in Job /\ NewTask(b).own = "task" /\ NewTask(b).st = "sem"
        /\ NewTask(b).depth = 0 /\ ~Active(NewTask(b))
    BY DEF NewTask, Job, Active
  <2>2. PICK j \in Job : j = NewTask(b)
    BY <2>1
  <2>3. PICK n \in Nat : n = Len(jobs) + 1
    BY <1>1
  <2>4. /\ DOMAIN jobs' = DOMAIN jobs \cup {n} /\ \A k \in DOMAIN jobs : jobs'[k] = jobs[k] /\ k < n
        /\ jobs'[n] = j
    <3>1. /\ DOMAIN Append(jobs, j) = DOMAIN jobs \cup {n}
          /\ \A k \in DOMAIN jobs : Append(jobs, j)[k] = jobs[k]
          /\ Append(jobs, j)[n] = j
      BY <1>1, <2>3, Appended
    <3>2. \A k \in DOMAIN jobs : k < n
      BY <1>1, <2>3
    <3> QED
      BY <1>3, <2>2, <3>1, <3>2, Zenon
  <2>5. ASSUME NEW k \in DOMAIN jobs', NEW l \in DOMAIN jobs', k < l, jobs'[k].st # "done"
        PROVE  jobs'[l].st = "sem"
    <3>1. CASE l = n
      BY <2>1, <2>2, <2>4, <3>1, Zenon
    <3>2. CASE l \in DOMAIN jobs
      <4>1. k # n
        BY <1>1, <2>3, <2>5, <3>2
      <4> QED
        BY <2>4, <2>5, <3>2, <4>1, Zenon DEF OneAtATime
    <3> QED
      BY <2>4, <3>1, <3>2
  <2>6. \A k \in DOMAIN jobs' : /\ jobs'[k].own = "task"
                                /\ jobs'[k].st = "sem" => jobs'[k].depth = 0
                                /\ Active(jobs'[k]) => jobs'[k].depth = failedBatches'
    BY <2>1, <2>2, <2>4, Zenon DEF OneAtATime
  <2> QED
    BY <2>5, <2>6 DEF OneAtATime
<1> QED
  BY <1>2, <1>3, Zenon DEF EndIteration

\* Nothing that OneAtATime speaks of changes.
LEMMA SerialUntouched ==
  ASSUME OneAtATime, DOMAIN jobs' = DOMAIN jobs, failedBatches' = failedBatches,
         \A i \in DOMAIN jobs : /\ jobs'[i].own = jobs[i].own /\ jobs'[i].st = jobs[i].st
                                /\ jobs'[i].depth = jobs[i].depth
  PROVE  OneAtATime'
<1>1. \A i \in DOMAIN jobs : Active(jobs'[i]) <=> Active(jobs[i])
  BY Zenon DEF Active
<1> QED
  BY <1>1, Zenon DEF OneAtATime

\* The steps of a batch, while the manager is connected.
LEMMA SerialJobStep ==
  ASSUME MaxConcurrent = 1, IInv, CounterOwned, OneAtATime, IsConnected,
         NEW i \in DOMAIN jobs, JobStep(i)
  PROVE  OneAtATime'
<1>1. /\ jobs \in Seq(Job) /\ jobs[i] \in Job /\ failedBatches \in Nat /\ FailureLimit \in Nat
      /\ FailureLimit >= 2 /\ HasClient /\ failedBatches < FailureLimit
  BY LimitAssumption DEF IInv, TypeOK, IsConnected, HasClient, OneAtATime
<1>2. /\ Finished(jobs[i]).own = jobs[i].own /\ Finished(jobs[i]).st = "done"
      /\ ~Active(Finished(jobs[i]))
      /\ Sleeping(jobs[i]).own = jobs[i].own /\ Sleeping(jobs[i]).st = "sleep"
      /\ Sleeping(jobs[i]).depth = jobs[i].depth + 1
      /\ \A x \in {"exec", "pub"} : /\ [jobs[i] EXCEPT !.st = x].own = jobs[i].own
                                    /\ [jobs[i] EXCEPT !.st = x].st = x
                                    /\ [jobs[i] EXCEPT !.st = x].depth = jobs[i].depth
      /\ [jobs[i] EXCEPT !.next = @ + 1].own = jobs[i].own
      /\ [jobs[i] EXCEPT !.next = @ + 1].st = jobs[i].st
      /\ [jobs[i] EXCEPT !.next = @ + 1].depth = jobs[i].depth
  BY <1>1 DEF Job, Finished, Sleeping, Active
<1>3. \A f : f \in Nat /\ f < FailureLimit => Unwind(jobs[i], f) < FailureLimit
  BY <1>1 DEF Unwind
<1>4. CASE Acquire(i)
  <2>1. Alone(i) /\ failedBatches = 0
    BY <1>4, StartedIsAlone
  <2>2. /\ jobs[i].depth = 0 /\ failedBatches' = failedBatches
        /\ jobs' = [jobs EXCEPT ![i] = [jobs[i] EXCEPT !.st = "exec"]]
    BY <1>1, <1>4 DEF Acquire, BeginWrite, OneAtATime
  <2> QED
    BY <1>1, <1>2, <2>1, <2>2, AloneStep
<1>5. CASE Retry(i)
  <2>1. Active(jobs[i]) /\ failedBatches' = failedBatches
        /\ jobs' = [jobs EXCEPT ![i] = [jobs[i] EXCEPT !.st = "exec"]]
    BY <1>1, <1>5 DEF Retry, BeginWrite, Active
  <2>2. Alone(i) /\ jobs[i].depth = failedBatches
    BY <2>1, RunningIsAlone DEF OneAtATime
  <2> QED
    BY <1>1, <1>2, <2>1, <2>2, AloneStep
<1>6. CASE InsertOk(i) \/ PublishEnds(i)
  <2>1. Active(jobs[i])
    BY <1>6 DEF InsertOk, PublishEnds, PublishOne, Active
  <2>2. Alone(i) /\ jobs[i].depth = failedBatches
    BY <2>1, RunningIsAlone DEF OneAtATime
  <2>3. \/ /\ failedBatches' = failedBatches
           /\ \/ jobs' = [jobs EXCEPT ![i] = [jobs[i] EXCEPT !.st = "pub"]]
              \/ /\ jobs[i].st = "pub"
                 /\ jobs' = [jobs EXCEPT ![i] = [jobs[i] EXCEPT !.next = @ + 1]]
        \/ failedBatches' = Unwind(jobs[i], failedBatches) /\ jobs' = [jobs EXCEPT ![i] = Finished(jobs[i])]
    BY <1>6 DEF InsertOk, PublishEnds, PublishOne, statVars
  <2>4. CASE failedBatches' = Unwind(jobs[i], failedBatches) /\ jobs' = [jobs EXCEPT ![i] = Finished(jobs[i])]
    BY <1>1, <1>2, <1>3, <2>2, <2>4, AloneStep
  <2>5. CASE failedBatches' = failedBatches /\ jobs' = [jobs EXCEPT ![i] = [jobs[i] EXCEPT !.st = "pub"]]
    BY <1>1, <1>2, <2>2, <2>5, AloneStep
  <2>6. CASE /\ failedBatches' = failedBatches /\ jobs[i].st = "pub"
             /\ jobs' = [jobs EXCEPT ![i] = [jobs[i] EXCEPT !.next = @ + 1]]
    BY <1>1, <1>2, <2>2, <2>6, AloneStep
  <2> QED
    BY <2>3, <2>4, <2>5, <2>6
<1>7. ASSUME NEW applied, InsertFail(i, applied) PROVE OneAtATime'
  <2>1. Active(jobs[i])
    BY <1>7 DEF InsertFail, Active
  <2>2. Alone(i) /\ jobs[i].depth = failedBatches
    BY <2>1, RunningIsAlone DEF OneAtATime
  <2>3. CASE /\ failedBatches + 1 < FailureLimit /\ failedBatches' = failedBatches + 1
             /\ jobs' = [jobs EXCEPT ![i] = Sleeping(jobs[i])]
    BY <1>1, <1>2, <2>2, <2>3, AloneStep
  <2>4. CASE /\ failedBatches + 1 >= FailureLimit /\ failedBatches' = Unwind(jobs[i], failedBatches + 1)
             /\ jobs' = [jobs EXCEPT ![i] = Finished(jobs[i])]
    <3>1. jobs[i].depth > 0
      BY <1>1, <2>2, <2>4
    <3>2. failedBatches' = 0 /\ failedBatches' < FailureLimit
      BY <1>1, <2>4, <3>1 DEF Unwind
    <3> QED
      BY <1>1, <1>2, <2>2, <2>4, <3>2, AloneStep
  <2> QED
    BY <1>7, <2>3, <2>4 DEF InsertFail
<1> QED
  BY <1>4, <1>5, <1>6, <1>7 DEF JobStep, AttemptEnds

\* close() is final: a manager that is connected was connected before.
LEMMA ConnectedBefore == [Next]_vars /\ IsConnected' => IsConnected
<1> SUFFICES ASSUME [Next]_vars, IsConnected' PROVE lifecycle' = lifecycle
  BY DEF IsConnected
<1>1. CASE CloseBegin \/ CloseEnd
  BY <1>1 DEF CloseBegin, CloseEnd, IsConnected
<1>2. CASE WriterStep
  BY <1>2 DEF WriterStep, WriterGet, WriterResume, WriterTimeout, WriterWaitEnd, WriterDrain
<1>3. ASSUME NEW i \in DOMAIN jobs, JobStep(i) PROVE lifecycle' = lifecycle
  BY <1>3 DEF JobStep, Acquire, Retry, AttemptEnds, InsertOk, InsertFail, PublishEnds, PublishOne
<1>4. CASE AttachPublisher \/ (\E r \in Records : Insert(r) \/ (\E valid \in BOOLEAN : Refuse(r, valid)))
           \/ UNCHANGED vars
  BY <1>4 DEF AttachPublisher, Insert, Refuse, vars
<1> QED
  BY <1>1, <1>2, <1>3, <1>4 DEF Next

\* Every step keeps the writes one at a time until close().
LEMMA SerialStep ==
  ASSUME MaxConcurrent = 1 PROVE IInv /\ CounterOwned /\ SerialInv /\ [Next]_vars => SerialInv'
<1> SUFFICES ASSUME IInv, CounterOwned, SerialInv, [Next]_vars, IsConnected' PROVE OneAtATime'
  BY DEF SerialInv
<1>1. /\ jobs \in Seq(Job) /\ batch \in Seq(Records) /\ held \in Seq(Records)
      /\ batch \o held \in Seq(Records)
  <2>1. jobs \in Seq(Job) /\ batch \in Seq(Records) /\ held \in Seq(Records)
    BY DEF IInv, TypeOK
  <2> QED
    BY <2>1, ConcatProperties
<1>3. IsConnected /\ OneAtATime
  BY ConnectedBefore DEF SerialInv
<1>4. CASE UNCHANGED <<jobs, failedBatches>>
  BY <1>3, <1>4, SerialUntouched, Zenon
<1>5. CASE AttachPublisher \/ (\E r \in Records : Insert(r) \/ (\E valid \in BOOLEAN : Refuse(r, valid)))
           \/ WriterGet \/ WriterDrain \/ UNCHANGED vars
  <2>1. UNCHANGED <<jobs, failedBatches>>
    BY <1>5 DEF AttachPublisher, Insert, Refuse, WriterGet, WriterDrain, statVars, vars
  <2> QED
    BY <1>4, <2>1
<1>6. CASE CloseBegin \/ CloseEnd
  BY <1>6 DEF CloseBegin, CloseEnd, IsConnected
<1>7. CASE (\E due \in BOOLEAN : WriterResume(due)) \/ WriterTimeout
  <2>1. failedBatches' = failedBatches
        /\ ((\E due \in BOOLEAN : EndIteration(batch \o held, due)) \/ EndIteration(batch, TRUE))
    BY <1>7 DEF WriterResume, WriterTimeout, statVars
  <2> QED
    BY <1>1, <1>3, <2>1, StartKeepsSerial
<1>8. CASE WriterWaitEnd
  <2>1. failedBatches' = failedBatches /\ DOMAIN jobs' = DOMAIN jobs
    BY <1>8 DEF WriterWaitEnd, statVars
  <2>2. ASSUME NEW i \in DOMAIN jobs
        PROVE  /\ jobs'[i].own = jobs[i].own /\ jobs'[i].st = jobs[i].st
               /\ jobs'[i].depth = jobs[i].depth
    <3>1. \E q \in {"live", "stale", "out"} : jobs'[i] = [jobs[i] EXCEPT !.pend = q]
                                               \/ jobs'[i] = jobs[i]
      BY <1>8 DEF WriterWaitEnd
    <3>2. jobs[i] \in Job
      BY <1>1
    <3> QED
      BY <3>1, <3>2 DEF Job
  <2> QED
    BY <1>3, <2>1, <2>2, SerialUntouched
<1>9. ASSUME NEW i \in DOMAIN jobs, JobStep(i) PROVE OneAtATime'
  BY <1>3, <1>9, SerialJobStep
<1> QED
  BY <1>5, <1>6, <1>7, <1>8, <1>9 DEF Next, WriterStep

\* At first there is no batch.
LEMMA SerialInit == Init => SerialInv /\ CounterOwned
  BY LimitAssumption DEF Init, SerialInv, OneAtATime, CounterOwned

\* A batch given up while connected has made all its attempts.
LEMMA GiveUpStep ==
  IInv /\ SerialInv /\ [Next]_vars =>
    [\A i \in DOMAIN jobs :
       IsConnected /\ faults' > faults /\ jobs[i].st = "exec" /\ jobs'[i].st = "done"
         => jobs[i].depth = FailureLimit - 1]_vars
<1> SUFFICES ASSUME IInv, SerialInv, [Next]_vars, NEW i \in DOMAIN jobs,
                    IsConnected, faults' > faults, jobs[i].st = "exec", jobs'[i].st = "done"
             PROVE  jobs[i].depth = FailureLimit - 1
  OBVIOUS
<1>1. /\ jobs \in Seq(Job) /\ failedBatches \in Nat /\ faults \in Nat /\ FailureLimit \in Nat
      /\ jobs[i].depth = failedBatches /\ failedBatches < FailureLimit
  BY LimitAssumption, FaultAssumption DEF IInv, TypeOK, SerialInv, OneAtATime, Active
<1>2. faults' # faults
  BY <1>1
<1>3. \E k \in DOMAIN jobs, applied \in BOOLEAN : InsertFail(k, applied)
  <2>1. CASE UNCHANGED faults
    BY <1>2, <2>1
  <2>2. CASE WriterStep
    BY <2>1, <2>2 DEF WriterStep, WriterGet, WriterResume, WriterTimeout, WriterWaitEnd, WriterDrain
  <2>3. CASE AttachPublisher \/ (\E r \in Records : Insert(r) \/ (\E valid \in BOOLEAN : Refuse(r, valid)))
             \/ UNCHANGED vars \/ CloseBegin \/ CloseEnd
    BY <2>1, <2>3 DEF AttachPublisher, Insert, Refuse, CloseBegin, CloseEnd, vars
  <2>4. ASSUME NEW k \in DOMAIN jobs, JobStep(k) PROVE \E applied \in BOOLEAN : InsertFail(k, applied)
    <3>1. CASE Acquire(k) \/ Retry(k) \/ InsertOk(k) \/ PublishEnds(k)
      <4>1. faults' = faults
        BY <3>1 DEF Acquire, Retry, InsertOk, PublishEnds, PublishOne
      <4> QED
        BY <1>2, <4>1
    <3> QED
      BY <2>4, <3>1 DEF JobStep, AttemptEnds
  <2> QED
    BY <2>2, <2>3, <2>4 DEF Next
<1>4. PICK k \in DOMAIN jobs, applied \in BOOLEAN : InsertFail(k, applied)
  BY <1>3
<1>5. CASE jobs' = [jobs EXCEPT ![k] = Sleeping(jobs[k])]
  <2>1. Sleeping(jobs[k]).st = "sleep"
    <3>1. jobs[k] \in Job
      BY <1>1
    <3> QED
      BY <3>1 DEF Sleeping, Job
  <2>2. jobs'[i] = jobs[i] \/ jobs'[i] = Sleeping(jobs[k])
    BY <1>1, <1>5, Zenon
  <2> QED
    BY <2>1, <2>2
<1>6. CASE failedBatches + 1 >= FailureLimit
  BY <1>1, <1>6
<1> QED
  BY <1>4, <1>5, <1>6 DEF InsertFail

\* Until close() and with the single permit of the code, a batch is given up only
\* after its own FailureLimit attempts.
THEOREM GivenUpLate == ASSUME MaxConcurrent = 1 PROVE Spec => GivesUpLate
<1> QED
  BY InitHolds, StepHolds, SerialInit, OwnerStep, SerialStep, GiveUpStep, PTL DEF Spec, GivesUpLate

-----------------------------------------------------------------------------
(* The order of the announcements.                                         *)

\* Rows that were accepted stay where they are.
LEMMA AcceptedGrows ==
  IInv /\ [Next]_vars => \A k \in DOMAIN accepted : k \in DOMAIN accepted' /\ accepted'[k] = accepted[k]
<1> SUFFICES ASSUME IInv, [Next]_vars
             PROVE  \A k \in DOMAIN accepted : k \in DOMAIN accepted' /\ accepted'[k] = accepted[k]
  OBVIOUS
<1>1. accepted \in Seq(Records)
  BY DEF IInv, TypeOK
<1>2. ASSUME NEW r \in Records, Insert(r)
      PROVE  \A k \in DOMAIN accepted : k \in DOMAIN accepted' /\ accepted'[k] = accepted[k]
  <2>1. accepted' = Append(accepted, r)
    BY <1>2 DEF Insert
  <2>2. DOMAIN Append(accepted, r) = DOMAIN accepted \cup {Len(accepted) + 1}
        /\ \A k \in DOMAIN accepted : Append(accepted, r)[k] = accepted[k]
    BY <1>1, Appended
  <2> QED
    BY <2>1, <2>2, Zenon
<1>3. ASSUME NEW i \in DOMAIN jobs, JobStep(i) PROVE accepted' = accepted
  BY <1>3 DEF JobStep, Acquire, Retry, AttemptEnds, InsertOk, InsertFail, PublishEnds, PublishOne, intakeVars
<1>4. ASSUME WriterStep PROVE accepted' = accepted
  BY <1>4 DEF WriterStep, WriterGet, WriterResume, WriterTimeout, WriterWaitEnd, WriterDrain, intakeVars
<1>5. ASSUME AttachPublisher \/ CloseBegin \/ CloseEnd \/ UNCHANGED vars
             \/ (\E r \in Records, valid \in BOOLEAN : Refuse(r, valid))
      PROVE  accepted' = accepted
  BY <1>5 DEF AttachPublisher, CloseBegin, CloseEnd, Refuse, vars, intakeVars
<1> QED
  BY <1>2, <1>3, <1>4, <1>5 DEF Next

\* While batches are written one at a time, whatever was announced before the next
\* row of a batch was also accepted before it.
LEMMA NextIsLater ==
  ASSUME RowInv, Told, OneAtATime, NEW i \in DOMAIN jobs, jobs[i].st = "pub", NEW m \in DOMAIN published
  PROVE  \E k, l \in DOMAIN accepted :
           k < l /\ accepted[k] = published[m] /\ accepted[l] = jobs[i].items[jobs[i].next]
<1>1. PICK off : RowPlaces(off)
  BY RowsArePlaced
<1>2. PICK j \in DOMAIN jobs :
        \E k \in 1..Len(jobs[j].items) : published[m] = jobs[j].items[k] /\ Passed(j, k)
  BY Zenon DEF Told
<1>3. PICK k \in 1..Len(jobs[j].items) : published[m] = jobs[j].items[k] /\ Passed(j, k)
  BY <1>2
<1>4. /\ i \in Nat /\ j \in Nat /\ k \in Nat /\ k <= Len(jobs[j].items)
      /\ Len(jobs[j].items) \in Nat /\ jobs[i].next \in 1..Len(jobs[i].items)
      /\ jobs[i].next \in Nat /\ 1 <= jobs[i].next
  <2>1. jobs \in Seq(Job) /\ jobs[i].next \in 1..Len(jobs[i].items)
    BY DEF RowInv, IInv, TypeOK, WellFormed
  <2>2. jobs[i] \in Job /\ jobs[j] \in Job /\ i \in Nat /\ j \in Nat
    BY <2>1
  <2>3. jobs[j].items \in Seq(Records) /\ jobs[i].next \in Nat
    BY <2>2 DEF Job
  <2>4. Len(jobs[j].items) \in Nat
    BY <2>3
  <2> QED
    BY <1>3, <2>1, <2>2, <2>3, <2>4
<1>5. /\ off[j] \in Nat /\ off[i] \in Nat
      /\ off[j] + k \in DOMAIN accepted /\ accepted[off[j] + k] = published[m]
      /\ off[i] + jobs[i].next \in DOMAIN accepted
      /\ accepted[off[i] + jobs[i].next] = jobs[i].items[jobs[i].next]
  BY <1>1, <1>3, <1>4, Zenon DEF RowPlaces
<1>6. CASE j < i
  <2>1. off[j] + Len(jobs[j].items) <= off[i]
    BY <1>1, <1>6, Zenon DEF RowPlaces
  <2>2. off[j] + k < off[i] + jobs[i].next
    BY <1>4, <1>5, <2>1
  <2> QED
    BY <1>5, <2>2
<1>7. CASE j = i
  <2>1. k < jobs[i].next
    BY <1>3, <1>7 DEF Passed
  <2>2. off[j] + k < off[i] + jobs[i].next
    BY <1>4, <1>5, <1>7, <2>1
  <2> QED
    BY <1>5, <2>2
<1>8. CASE i < j
  <2>1. jobs[j].st = "sem"
    BY <1>8 DEF OneAtATime
  <2> QED
    BY <1>3, <2>1 DEF Passed
<1> QED
  BY <1>4, <1>6, <1>7, <1>8

\* Every step keeps the announcements in order.
LEMMA OrderStep == RowInv /\ Told /\ SerialInv /\ PublishedInOrder /\ [Next]_vars => PublishedInOrder'
<1> SUFFICES ASSUME RowInv, Told, SerialInv, PublishedInOrder, [Next]_vars, IsConnected',
                    NEW m \in DOMAIN published', NEW n \in DOMAIN published', m < n
             PROVE  \E k, l \in DOMAIN accepted' :
                      k < l /\ accepted'[k] = published'[m] /\ accepted'[l] = published'[n]
  BY DEF PublishedInOrder
<1>1. IInv /\ IsConnected /\ OneAtATime /\ published \in Seq(Records)
  BY ConnectedBefore DEF RowInv, IInv, TypeOK, SerialInv
<1>2. \A k \in DOMAIN accepted : k \in DOMAIN accepted' /\ accepted'[k] = accepted[k]
  BY <1>1, AcceptedGrows
<1>3. ASSUME m \in DOMAIN published, n \in DOMAIN published,
             published'[m] = published[m], published'[n] = published[n]
      PROVE  \E k, l \in DOMAIN accepted' :
               k < l /\ accepted'[k] = published'[m] /\ accepted'[l] = published'[n]
  <2>1. PICK k, l \in DOMAIN accepted : k < l /\ accepted[k] = published[m] /\ accepted[l] = published[n]
    BY <1>1, <1>3 DEF PublishedInOrder
  <2> QED
    BY <1>2, <1>3, <2>1
<1>4. ASSUME NEW i \in DOMAIN jobs, Announces(i)
      PROVE  \E k, l \in DOMAIN accepted' :
               k < l /\ accepted'[k] = published'[m] /\ accepted'[l] = published'[n]
  <2>1. PICK r \in Records : r = jobs[i].items[jobs[i].next]
    <3>1. jobs[i] \in Job /\ jobs[i].next \in 1..Len(jobs[i].items)
      BY <1>1 DEF IInv, TypeOK, WellFormed
    <3>2. jobs[i].items \in Seq(Records)
      BY <3>1 DEF Job
    <3> QED
      BY <3>1, <3>2
  <2>2. published' = Append(published, r) /\ jobs[i].st = "pub"
    BY <1>4, <2>1, Zenon DEF Announces
  <2>3. /\ DOMAIN Append(published, r) = DOMAIN published \cup {Len(published) + 1}
        /\ Append(published, r)[Len(published) + 1] = r
        /\ \A k \in DOMAIN published : Append(published, r)[k] = published[k]
    BY <1>1, Appended
  <2>4. /\ DOMAIN published' = DOMAIN published \cup {Len(published) + 1}
        /\ published'[Len(published) + 1] = r
        /\ \A k \in DOMAIN published : published'[k] = published[k]
    BY <2>2, <2>3, Zenon
  <2>5. CASE n \in DOMAIN published
    <3>1. m \in DOMAIN published
      BY <1>1, <2>4, <2>5
    <3> QED
      BY <1>3, <2>4, <2>5, <3>1
  <2>6. CASE n = Len(published) + 1
    <3>1. m \in DOMAIN published
      BY <1>1, <2>4, <2>6
    <3>2. PICK k, l \in DOMAIN accepted : k < l /\ accepted[k] = published[m] /\ accepted[l] = r
      BY <1>1, <2>1, <2>2, <3>1, NextIsLater
    <3> QED
      BY <1>2, <2>4, <2>6, <3>1, <3>2
  <2> QED
    BY <2>4, <2>5, <2>6
<1>5. CASE published' = published
  BY <1>3, <1>5
<1> QED
  BY <1>1, <1>4, <1>5, StepAnnounces

\* Until close() and with the single permit of the code, the rows are announced in
\* the order they were accepted, whatever was retried or given up in between.
THEOREM AnnouncedInOrder == ASSUME MaxConcurrent = 1 PROVE Spec => []PublishedInOrder
<1>1. Init => PublishedInOrder
  BY DEF Init, PublishedInOrder
<1> QED
  BY <1>1, RowInit, RowStep, RowInvHolds, ToldInit, ToldStep, SerialInit, OwnerStep, SerialStep,
     OrderStep, PTL DEF Spec

-----------------------------------------------------------------------------
(* The write path implements Relay.                                        *)

\* A row is in one batch at most, and was accepted then.
OneBatch ==
  /\ \A i, j \in DOMAIN jobs : \A r : r \in Range(jobs[i].items) /\ r \in Range(jobs[j].items) => i = j
  /\ \A i \in DOMAIN jobs : \A r \in Range(jobs[i].items) :
       r \in Records /\ r \in Range(accepted) /\ r \notin refused

\* The order of the rows makes it so.
LEMMA RowsInOneBatch == RowInv => OneBatch
<1> SUFFICES ASSUME RowInv PROVE OneBatch
  OBVIOUS
<1>1. jobs \in Seq(Job) /\ \A i \in DOMAIN jobs : jobs[i] \in Job
  BY DEF RowInv, IInv, TypeOK
<1>2. \A i \in DOMAIN jobs : jobs[i].items \in Seq(Records)
  BY <1>1 DEF Job
<1>3. ASSUME NEW i \in DOMAIN jobs, NEW r \in Range(jobs[i].items)
      PROVE  r \in Records /\ \E k \in 1..Len(jobs[i].items) : r = jobs[i].items[k]
  BY <1>2, <1>3 DEF Range
<1>4. ASSUME NEW i \in DOMAIN jobs, NEW r \in Range(jobs[i].items)
      PROVE  r \in Range(accepted) /\ r \notin refused
  <2>1. PICK off : RowPlaces(off)
    BY RowsArePlaced
  <2>2. PICK k \in 1..Len(jobs[i].items) : r = jobs[i].items[k]
    BY <1>3
  <2>3. off[i] + k \in DOMAIN accepted /\ accepted[off[i] + k] = r
    BY <2>1, <2>2, Zenon DEF RowPlaces
  <2>4. r \in Range(accepted)
    BY <2>3 DEF Range
  <2> QED
    BY <2>4 DEF RowInv, AcceptedOnce
<1>5. ASSUME NEW i \in DOMAIN jobs, NEW j \in DOMAIN jobs, NEW r,
             r \in Range(jobs[i].items), r \in Range(jobs[j].items)
      PROVE  i = j
  <2>1. PICK k \in 1..Len(jobs[i].items) : r = jobs[i].items[k]
    BY <1>3, <1>5
  <2>2. PICK l \in 1..Len(jobs[j].items) : r = jobs[j].items[l]
    BY <1>3, <1>5
  <2> QED
    BY <2>1, <2>2, RowsDiffer
<1> QED
  BY <1>3, <1>4, <1>5, Zenon DEF OneBatch

\* What a move of the rows of S to phase p is.
LEMMA MoveMeans ==
  ASSUME NEW S, NEW p,
         \A r \in Records : phaseOf'[r] = IF r \in S THEN p ELSE phaseOf[r]
  PROVE  R!Move(S, p)
  BY DEF R!Move, phaseOf

\* The phase of a row, case by case.
LEMMA PhaseIs ==
  ASSUME NEW r \in Records
  PROVE  /\ r \in refused => phaseOf[r] = "refused"
         /\ r \notin refused /\ r \notin Range(accepted) => phaseOf[r] = "new"
         /\ r \notin refused /\ r \in Range(accepted) =>
              phaseOf[r] = IF Settled(r) THEN "settled" ELSE IF Started(r) THEN "writing" ELSE "buffered"
  BY Zenon DEF phaseOf

\* The phases depend on nothing but what was accepted, refused, started and settled.
LEMMA PhasesSame ==
  ASSUME UNCHANGED <<accepted, refused>>,
         \A r \in Records : (Settled(r)' <=> Settled(r)) /\ (Started(r)' <=> Started(r))
  PROVE  phaseOf' = phaseOf
<1>1. \A r \in Records : phaseOf'[r] = phaseOf[r]
  BY DEF phaseOf
<1> QED
  BY <1>1, Zenon DEF phaseOf

\* The rows of a batch that is not done are being written.
LEMMA BatchIsWriting ==
  ASSUME OneBatch, NEW i \in DOMAIN jobs, jobs[i].st # "done", NEW r \in Range(jobs[i].items)
  PROVE  r \in Records /\ phaseOf[r] = "writing"
<1>1. r \in Records /\ r \in Range(accepted) /\ r \notin refused
  BY Zenon DEF OneBatch
<1>2. ~Settled(r) /\ Started(r)
  BY Zenon DEF OneBatch, Settled, Started
<1> QED
  BY <1>1, <1>2, PhaseIs, Zenon

\* A batch that changes takes its rows to "settled" when it ends, and leaves the
\* phases alone otherwise.
LEMMA BatchMove ==
  ASSUME IInv, OneBatch, NEW i \in DOMAIN jobs, jobs[i].st # "done", NEW STATE j,
         jobs' = [jobs EXCEPT ![i] = j], j.items = jobs[i].items, UNCHANGED <<accepted, refused>>
  PROVE  R!Move(IF j.st = "done" THEN Range(jobs[i].items) ELSE {}, "settled")
<1>1. /\ DOMAIN jobs' = DOMAIN jobs /\ jobs'[i] = j
      /\ \A k \in DOMAIN jobs : jobs'[k].items = jobs[k].items
      /\ \A k \in DOMAIN jobs : k # i => jobs'[k] = jobs[k]
  <2>1. jobs \in Seq(Job)
    BY DEF IInv, TypeOK
  <2>2. /\ DOMAIN jobs' = DOMAIN jobs /\ jobs'[i] = j
        /\ \A k \in DOMAIN jobs : k # i => jobs'[k] = jobs[k]
    BY <2>1, Zenon
  <2> QED
    BY <2>2, Zenon
<1>2. \A r : Started(r)' <=> Started(r)
  BY <1>1, Zenon DEF Started
<1>3. \A r : Settled(r)' <=> Settled(r) \/ (j.st = "done" /\ r \in Range(jobs[i].items))
  <2>1. ASSUME NEW r, Settled(r)' PROVE Settled(r) \/ (j.st = "done" /\ r \in Range(jobs[i].items))
    <3>1. PICK k \in DOMAIN jobs : jobs'[k].st = "done" /\ r \in Range(jobs[k].items)
      BY <1>1, <2>1, Zenon DEF Settled
    <3>2. CASE k = i
      BY <1>1, <3>1, <3>2, Zenon
    <3>3. CASE k # i
      BY <1>1, <3>1, <3>3, Zenon DEF Settled
    <3> QED
      BY <3>2, <3>3
  <2>2. ASSUME NEW r, Settled(r) PROVE Settled(r)'
    <3>1. PICK k \in DOMAIN jobs : jobs[k].st = "done" /\ r \in Range(jobs[k].items)
      BY <2>2, Zenon DEF Settled
    <3>2. k # i
      BY <3>1
    <3> QED
      BY <1>1, <3>1, <3>2, Zenon DEF Settled
  <2>3. ASSUME NEW r, j.st = "done", r \in Range(jobs[i].items) PROVE Settled(r)'
    BY <1>1, <2>3, Zenon DEF Settled
  <2> QED
    BY <2>1, <2>2, <2>3, Zenon
<1>4. CASE j.st # "done"
  <2>1. phaseOf' = phaseOf
    BY <1>2, <1>3, <1>4, PhasesSame, Zenon
  <2> QED
    <3>1. \A r \in Records : phaseOf'[r] = IF r \in {} THEN "settled" ELSE phaseOf[r]
      BY <2>1
    <3>2. R!Move({}, "settled")
      BY <3>1, MoveMeans
    <3> QED
      BY <1>4, <3>2, Zenon
<1>5. CASE j.st = "done"
  <2>1. ASSUME NEW r \in Records
        PROVE  phaseOf'[r] = IF r \in Range(jobs[i].items) THEN "settled" ELSE phaseOf[r]
    <3>1. CASE r \in Range(jobs[i].items)
      <4>1. r \in Range(accepted) /\ r \notin refused
        BY <3>1, Zenon DEF OneBatch
      <4>2. Settled(r)'
        BY <1>3, <1>5, <3>1, Zenon
      <4> QED
        BY <3>1, <4>1, <4>2, Zenon DEF phaseOf
    <3>2. CASE r \notin Range(jobs[i].items)
      <4>1. (Settled(r)' <=> Settled(r)) /\ (Started(r)' <=> Started(r))
        BY <1>2, <1>3, <3>2, Zenon
      <4> QED
        BY <3>2, <4>1 DEF phaseOf
    <3> QED
      BY <3>1, <3>2
  <2> QED
    BY <1>5, <2>1, MoveMeans, Zenon
<1> QED
  BY <1>4, <1>5

\* An attempt of a batch, whatever comes of it, is a Write of its rows.
LEMMA AttemptIsWrite ==
  ASSUME IInv, OneBatch, NEW i \in DOMAIN jobs, jobs[i].st # "done", NEW STATE j,
         jobs' = [jobs EXCEPT ![i] = j], j.items = jobs[i].items,
         UNCHANGED <<accepted, refused, published>>,
         NEW ok \in BOOLEAN, stored' = IF ok THEN stored \cup Range(jobs[i].items) ELSE stored
  PROVE  R!Next
<1> DEFINE S == Range(jobs[i].items)
<1> DEFINE last == j.st = "done"
<1>1. S # {}
  <2>1. jobs[i].next \in DOMAIN jobs[i].items
    <3>1. jobs[i] \in Job /\ jobs[i].next \in 1..Len(jobs[i].items)
      BY DEF IInv, TypeOK, WellFormed
    <3>2. jobs[i].items \in Seq(Records)
      BY <3>1 DEF Job
    <3> QED
      BY <3>1, <3>2
  <2> QED
    BY <2>1 DEF Range
<1>2. S \subseteq R!In("writing") /\ S \in SUBSET Records
  BY BatchIsWriting, Zenon DEF R!In
<1>3. R!Move(IF last THEN S ELSE {}, "settled")
  BY BatchMove, Zenon
<1>4. last \in BOOLEAN
  OBVIOUS
<1> HIDE DEF S, last
<1>5. stored' = IF ok THEN stored \cup S ELSE stored
  BY DEF S
<1>6. R!Write(S, ok, last)
  BY <1>1, <1>2, <1>3, <1>5, Zenon DEF R!Write
<1> QED
  BY <1>2, <1>4, <1>6, Zenon DEF R!Next

\* A row that is announced by a batch is announced by Relay.
LEMMA SendIsAnnounce ==
  ASSUME RowInv, OneBatch, Told, NEW i \in DOMAIN jobs, jobs[i].st = "pub", NEW STATE j,
         jobs' = [jobs EXCEPT ![i] = j], j.items = jobs[i].items,
         UNCHANGED <<accepted, refused, stored>>,
         published' = Append(published, jobs[i].items[jobs[i].next])
  PROVE  R!Next
<1> DEFINE S == IF j.st = "done" THEN Range(jobs[i].items) ELSE {}
<1> DEFINE r == jobs[i].items[jobs[i].next]
<1>0. IInv /\ published \in Seq(Records)
  BY DEF RowInv, IInv, TypeOK
<1>1. r \in Range(jobs[i].items)
  <2>1. jobs[i].next \in DOMAIN jobs[i].items
    <3>1. jobs[i] \in Job /\ jobs[i].next \in 1..Len(jobs[i].items)
      BY <1>0 DEF IInv, TypeOK, WellFormed
    <3>2. jobs[i].items \in Seq(Records)
      BY <3>1 DEF Job
    <3> QED
      BY <3>1, <3>2
  <2> QED
    BY <2>1 DEF Range
<1>2. Range(jobs[i].items) \subseteq stored
  BY <1>0 DEF IInv, PublisherSafe
<1>3. \A x \in Range(jobs[i].items) : x \in R!In("writing") /\ x \in Records
  BY BatchIsWriting, Zenon DEF R!In
<1>4. r \notin Range(published)
  BY <1>0, NextIsNew DEF Range
<1>5. r \notin R!Range(published)
  BY <1>4, Zenon DEF R!Range, Range
<1>6. R!Move(S, "settled")
  BY <1>0, BatchMove, Zenon
<1>7. r \in R!In("writing") \cap stored /\ r \in Records
      /\ S \subseteq R!In("writing") \cap stored /\ S \in SUBSET Records
  BY <1>1, <1>2, <1>3
<1> HIDE DEF S, r
<1>8. published' = Append(published, r)
  BY DEF r
<1>9. R!Announce(r, S)
  BY <1>5, <1>6, <1>7, <1>8, Zenon DEF R!Announce
<1> QED
  BY <1>7, <1>9, Zenon DEF R!Next

\* A batch that is started takes its rows from the buffer.
LEMMA StartIsTake ==
  ASSUME IInv, OneBatch, OneBatch', NEW STATE j, j \in Job, jobs' = Append(jobs, j),
         j.items # <<>>, j.st # "done", UNCHANGED <<accepted, refused, stored, published>>
  PROVE  R!Next
<1> DEFINE S == Range(j.items)
<1>1. PICK n \in Nat : n = Len(jobs) + 1
  <2>1. jobs \in Seq(Job)
    BY DEF IInv, TypeOK
  <2> QED
    BY <2>1
<1>2. /\ DOMAIN jobs' = DOMAIN jobs \cup {n} /\ jobs'[n] = j /\ n \notin DOMAIN jobs
      /\ \A k \in DOMAIN jobs : jobs'[k] = jobs[k]
  <2>1. jobs \in Seq(Job)
    BY DEF IInv, TypeOK
  <2>2. /\ DOMAIN Append(jobs, j) = DOMAIN jobs \cup {n} /\ Append(jobs, j)[n] = j /\ n \notin DOMAIN jobs
        /\ \A k \in DOMAIN jobs : Append(jobs, j)[k] = jobs[k]
    BY <1>1, <2>1, Appended
  <2> QED
    BY <2>2, Zenon
<1>3. S # {}
  <2>1. j.items \in Seq(Records)
    BY DEF Job
  <2>2. 1 \in DOMAIN j.items
    BY <2>1
  <2> QED
    BY <2>2 DEF Range
<1>4. ASSUME NEW r \in S PROVE r \in Records /\ r \in Range(accepted) /\ r \notin refused
  BY <1>2, Zenon DEF OneBatch
<1>5. ASSUME NEW r \in S, NEW k \in DOMAIN jobs PROVE r \notin Range(jobs[k].items)
  <2>1. SUFFICES ASSUME r \in Range(jobs[k].items) PROVE FALSE
    OBVIOUS
  <2>2. n \in DOMAIN jobs' /\ k \in DOMAIN jobs' /\ r \in Range(jobs'[n].items) /\ r \in Range(jobs'[k].items)
    BY <1>2, <2>1, Zenon
  <2>3. n = k
    BY <2>2, Zenon DEF OneBatch
  <2> QED
    BY <1>2, <2>3
<1>6. ASSUME NEW r \in S PROVE phaseOf[r] = "buffered" /\ phaseOf'[r] = "writing"
  <2>1. ~Settled(r) /\ ~Started(r)
    BY <1>5, Zenon DEF Settled, Started
  <2>2. Started(r)' /\ ~Settled(r)'
    <3>1. Started(r)'
      BY <1>2, Zenon DEF Started
    <3>2. ~Settled(r)'
      BY <1>2, <1>5, Zenon DEF Settled
    <3> QED
      BY <3>1, <3>2
  <2> QED
    BY <1>4, <2>1, <2>2 DEF phaseOf
<1>7. ASSUME NEW r \in Records, r \notin S PROVE phaseOf'[r] = phaseOf[r]
  <2>1. Settled(r)' <=> Settled(r)
    BY <1>2, <1>7, Zenon DEF Settled
  <2>2. Started(r)' <=> Started(r)
    BY <1>2, <1>7, Zenon DEF Started
  <2> QED
    BY <2>1, <2>2 DEF phaseOf
<1> HIDE DEF S
<1>8. R!Move(S, "writing")
  BY <1>6, <1>7, MoveMeans
<1>9. S \in SUBSET Records /\ S \subseteq R!In("buffered")
  BY <1>4, <1>6 DEF R!In
<1>10. R!Take(S)
  BY <1>3, <1>8, <1>9, Zenon DEF R!Take
<1> QED
  BY <1>9, <1>10, Zenon DEF R!Next

\* A row that is offered to the manager is offered to Relay.
LEMMA OfferIsOffer ==
  ASSUME OneBatch, NEW r \in Records, r \notin Range(accepted), r \notin refused,
         UNCHANGED <<jobs, stored, published>>,
         \/ refused' = refused /\ Range(accepted') = Range(accepted) \cup {r}
         \/ refused' = refused \cup {r} /\ accepted' = accepted
  PROVE  R!Next
<1>1. \A x : (Settled(x)' <=> Settled(x)) /\ (Started(x)' <=> Started(x))
  BY Zenon DEF Settled, Started
<1>2. ~Started(r) /\ ~Settled(r)
  BY Zenon DEF OneBatch, Started, Settled
<1>3. phaseOf[r] = "new"
  BY PhaseIs, Zenon
<1>4. CASE refused' = refused /\ Range(accepted') = Range(accepted) \cup {r}
  <2>1. \A x \in Records : phaseOf'[x] = IF x \in {r} THEN "buffered" ELSE phaseOf[x]
    BY <1>1, <1>2, <1>4 DEF phaseOf
  <2> QED
    BY <1>3, <2>1, MoveMeans DEF R!Next, R!Offer, R!In
<1>5. CASE refused' = refused \cup {r} /\ accepted' = accepted
  <2>1. \A x \in Records : phaseOf'[x] = IF x \in {r} THEN "refused" ELSE phaseOf[x]
    BY <1>1, <1>2, <1>5 DEF phaseOf
  <2> QED
    BY <1>3, <2>1, MoveMeans DEF R!Next, R!Offer, R!In
<1> QED
  BY <1>4, <1>5

\* Every step of the write path is one of Relay or leaves it alone.
LEMMA RelayStep ==
  RowInv /\ Told /\ OneBatch /\ OneBatch' /\ [Next]_vars => [R!Next]_(R!relayVars)
<1> SUFFICES ASSUME RowInv, Told, OneBatch, OneBatch', [Next]_vars
             PROVE  R!Next \/ UNCHANGED <<phaseOf, stored, published>>
  BY DEF R!relayVars
<1>1. /\ IInv /\ jobs \in Seq(Job) /\ batch \in Seq(Records) /\ held \in Seq(Records)
      /\ accepted \in Seq(Records) /\ \A k \in DOMAIN jobs : jobs[k] \in Job
  BY DEF RowInv, IInv, TypeOK
<1>2. ASSUME UNCHANGED <<accepted, refused, jobs>> PROVE phaseOf' = phaseOf
  BY <1>2, Zenon DEF phaseOf, Settled, Started
<1>3. ASSUME UNCHANGED <<accepted, refused, stored, published>>, NEW b \in Seq(Records), NEW due,
             EndIteration(b, due)
      PROVE  R!Next \/ UNCHANGED <<phaseOf, stored, published>>
  <2>1. jobs' = jobs \/ (b # <<>> /\ jobs' = Append(jobs, NewTask(b)))
    BY <1>3, Zenon DEF EndIteration
  <2>2. NewTask(b) \in Job /\ NewTask(b).items = b /\ NewTask(b).st # "done"
    BY DEF NewTask, Job
  <2> QED
    BY <1>1, <1>2, <1>3, <2>1, <2>2, StartIsTake
<1>4. CASE AttachPublisher \/ WriterGet \/ WriterDrain \/ CloseEnd \/ UNCHANGED vars
  <2>1. UNCHANGED <<accepted, refused, jobs, stored, published>>
    BY <1>4 DEF AttachPublisher, WriterGet, WriterDrain, CloseEnd, intakeVars, outVars, vars
  <2> QED
    BY <1>2, <2>1
<1>5. ASSUME NEW r \in Records, Insert(r) \/ (\E valid \in BOOLEAN : Refuse(r, valid)) PROVE R!Next
  <2>1. r \notin Range(accepted) /\ r \notin refused /\ UNCHANGED <<jobs, stored, published>>
    BY <1>5 DEF Insert, Refuse, outVars
  <2>2. \/ refused' = refused /\ accepted' = Append(accepted, r)
        \/ refused' = refused \cup {r} /\ accepted' = accepted
    BY <1>5 DEF Insert, Refuse
  <2>3. Range(Append(accepted, r)) = Range(accepted) \cup {r}
    BY <1>1, Appended
  <2> QED
    BY <2>1, <2>2, <2>3, OfferIsOffer, Zenon
<1>6. CASE (\E due \in BOOLEAN : WriterResume(due)) \/ WriterTimeout
  <2>1. UNCHANGED <<accepted, refused, stored, published>>
        /\ ((\E due \in BOOLEAN : EndIteration(batch \o held, due)) \/ EndIteration(batch, TRUE))
    BY <1>6 DEF WriterResume, WriterTimeout, intakeVars, outVars
  <2>2. batch \o held \in Seq(Records)
    BY <1>1, ConcatProperties
  <2> QED
    BY <1>1, <1>3, <2>1, <2>2
<1>7. CASE WriterWaitEnd
  <2>1. UNCHANGED <<accepted, refused, stored, published>> /\ DOMAIN jobs' = DOMAIN jobs
    BY <1>7 DEF WriterWaitEnd, intakeVars, outVars
  <2>2. ASSUME NEW i \in DOMAIN jobs
        PROVE  jobs'[i].items = jobs[i].items /\ jobs'[i].st = jobs[i].st
    <3>1. \E q \in {"live", "stale", "out"} : jobs'[i] = [jobs[i] EXCEPT !.pend = q]
                                               \/ jobs'[i] = jobs[i]
      BY <1>7 DEF WriterWaitEnd
    <3>2. jobs[i] \in Job
      BY <1>1
    <3> QED
      BY <3>1, <3>2 DEF Job
  <2>3. \A r \in Records : (Settled(r)' <=> Settled(r)) /\ (Started(r)' <=> Started(r))
    BY <2>1, <2>2, Zenon DEF Settled, Started
  <2> QED
    BY <2>1, <2>3, PhasesSame
<1>8. CASE CloseBegin
  <2>1. UNCHANGED <<accepted, refused, stored, published>>
        /\ (jobs' = jobs \/ (batch # <<>> /\ jobs' = Append(jobs, NewFlush(batch))))
    BY <1>8 DEF CloseBegin, intakeVars, outVars
  <2>2. NewFlush(batch) \in Job /\ NewFlush(batch).items = batch /\ NewFlush(batch).st # "done"
    BY <1>1 DEF NewFlush, Job
  <2> QED
    BY <1>1, <1>2, <2>1, <2>2, StartIsTake
<1>9. ASSUME NEW i \in DOMAIN jobs, JobStep(i) PROVE R!Next
  <2>1. /\ Finished(jobs[i]).items = jobs[i].items /\ Sleeping(jobs[i]).items = jobs[i].items
        /\ [jobs[i] EXCEPT !.st = "exec"].items = jobs[i].items
        /\ [jobs[i] EXCEPT !.st = "pub"].items = jobs[i].items
        /\ [jobs[i] EXCEPT !.next = @ + 1].items = jobs[i].items
    <3>1. jobs[i] \in Job
      BY <1>1
    <3> QED
      BY <3>1 DEF Job, Finished, Sleeping
  <2>2. UNCHANGED <<accepted, refused>>
    BY <1>9 DEF JobStep, Acquire, Retry, AttemptEnds, InsertOk, InsertFail, PublishEnds, PublishOne, intakeVars
  <2>3. CASE Acquire(i) \/ Retry(i)
    <3>1. /\ jobs[i].st # "done" /\ published' = published /\ stored' = stored
          /\ \E j \in {[jobs[i] EXCEPT !.st = "exec"], Finished(jobs[i])} : jobs' = [jobs EXCEPT ![i] = j]
      BY <2>3 DEF Acquire, Retry, BeginWrite, outVars
    <3>2. PICK j \in {[jobs[i] EXCEPT !.st = "exec"], Finished(jobs[i])} : jobs' = [jobs EXCEPT ![i] = j]
      BY <3>1
    <3>3. j.items = jobs[i].items
      BY <2>1, <3>2
    <3>4. stored' = IF FALSE THEN stored \cup Range(jobs[i].items) ELSE stored
      BY <3>1
    <3> QED
      BY <1>1, <2>2, <3>1, <3>2, <3>3, <3>4, AttemptIsWrite
  <2>4. CASE AttemptEnds(i)
    <3>1. /\ jobs[i].st # "done" /\ published' = published
          /\ \E ok \in BOOLEAN : stored' = IF ok THEN stored \cup Range(jobs[i].items) ELSE stored
      BY <2>4 DEF AttemptEnds, InsertOk, InsertFail
    <3>2. PICK ok \in BOOLEAN : stored' = IF ok THEN stored \cup Range(jobs[i].items) ELSE stored
      BY <3>1
    <3>3. \E j \in {[jobs[i] EXCEPT !.st = "pub"], Finished(jobs[i]), Sleeping(jobs[i])} :
            jobs' = [jobs EXCEPT ![i] = j]
      BY <2>4 DEF AttemptEnds, InsertOk, InsertFail
    <3>4. PICK j \in {[jobs[i] EXCEPT !.st = "pub"], Finished(jobs[i]), Sleeping(jobs[i])} :
            jobs' = [jobs EXCEPT ![i] = j]
      BY <3>3
    <3>5. j.items = jobs[i].items
      BY <2>1, <3>4
    <3> QED
      BY <1>1, <2>2, <3>1, <3>2, <3>4, <3>5, AttemptIsWrite
  <2>5. CASE PublishEnds(i)
    <3>1. /\ jobs[i].st = "pub" /\ stored' = stored
          /\ published' = published \/ published' = Append(published, jobs[i].items[jobs[i].next])
          /\ \E j \in {[jobs[i] EXCEPT !.next = @ + 1], Finished(jobs[i])} : jobs' = [jobs EXCEPT ![i] = j]
      BY <2>5 DEF PublishEnds, PublishOne
    <3>2. PICK j \in {[jobs[i] EXCEPT !.next = @ + 1], Finished(jobs[i])} : jobs' = [jobs EXCEPT ![i] = j]
      BY <3>1
    <3>3. j.items = jobs[i].items /\ jobs[i].st # "done"
      BY <2>1, <3>1, <3>2
    <3>4. CASE published' = published
      <4>1. stored' = IF FALSE THEN stored \cup Range(jobs[i].items) ELSE stored
        BY <3>1
      <4> QED
        BY <1>1, <2>2, <3>2, <3>3, <3>4, <4>1, AttemptIsWrite
    <3>5. CASE published' = Append(published, jobs[i].items[jobs[i].next])
      BY <2>2, <3>1, <3>2, <3>3, <3>5, SendIsAnnounce
    <3> QED
      BY <3>1, <3>4, <3>5
  <2> QED
    BY <1>9, <2>3, <2>4, <2>5 DEF JobStep
<1> QED
  BY <1>4, <1>5, <1>6, <1>7, <1>8, <1>9 DEF Next, WriterStep

\* At first every row is new.
LEMMA RelayInit == Init => R!Init
  BY DEF Init, R!Init, phaseOf, Range, Settled, Started

\* Every behaviour of the write path is one Relay allows.
THEOREM PathImplementsRelay == Spec => ImplementsRelay
<1> QED
  BY RowInit, RowStep, RowInvHolds, ToldInit, ToldStep, RowsInOneBatch, RelayInit, RelayStep,
     PTL DEF Spec, ImplementsRelay, R!Spec
=============================================================================
