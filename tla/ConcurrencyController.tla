----------------------- MODULE ConcurrencyController -----------------------
(***************************************************************************)
(* SmartConcurrencyController, kept in src/docs/legacy/src_utils_enhanced/ *)
(* smart_concurrency_controller.py with its tests: a priority queue of     *)
(* tasks, a worker loop that starts them within limits, retries, a circuit *)
(* breaker and the adjustment of the limit to the load.                    *)
(*                                                                         *)
(* A step is what runs between two awaits; the queue lock is held over an  *)
(* await only while the worker sleeps with it, and whoever finds it held or *)
(* others waiting waits too.  What a task does, how long it takes and the  *)
(* load are external: a coroutine may return, raise, or end in             *)
(* CancelledError, as one that awaits something cancelled does.  Metrics   *)
(* that only get_stats() reads are left out, and so is the monitor loop,   *)
(* which logs them.                                                        *)
(***************************************************************************)
EXTENDS Integers, FiniteSets

CONSTANTS
  Tasks,        \* the tasks that may be submitted, each once
  Urgent,       \* those with priority 1; the others have 2
  Cpu, Memory,  \* those with these resource types; the others are "general"
  Retried,      \* those with max_retries above 0
  Cancelled,    \* those whose coroutine may end in CancelledError
  MinConcurrent, AbsoluteMax,
  Threshold,    \* failure_threshold
  Workers,      \* slots for _worker_loop tasks
  None

ASSUME TaskAssumption ==
  /\ IsFiniteSet(Tasks) /\ Urgent \subseteq Tasks /\ Retried \subseteq Tasks
  /\ Cancelled \subseteq Tasks
  /\ Cpu \subseteq Tasks /\ Memory \subseteq Tasks /\ Cpu \cap Memory = {}
ASSUME LimitAssumption ==
  MinConcurrent \in Nat \ {0} /\ AbsoluteMax \in Nat /\ MinConcurrent <= AbsoluteMax
ASSUME ThresholdAssumption == Threshold \in Nat \ {0}
ASSUME WorkerAssumption == IsFiniteSet(Workers) /\ None \notin Workers

VARIABLES
  isRunning,    \* is_running
  awaited,      \* the futures stop() gathers
  stopping,     \* stop() has not returned yet
  worker,       \* slot -> "loop", "waiting" (for the lock), "blocked" (asleep with it) or "ended"
  current,      \* _worker_task
  queue,        \* _task_queue
  pushes,       \* the entries whose submit() or retry waits for _queue_lock
  started,      \* _running_tasks
  lost,         \* those of them whose coroutine has ended in CancelledError
  concurrent,   \* current_concurrent
  usage,        \* _resource_usage
  max,          \* max_concurrent
  open,         \* _circuit_breaker_open
  failures,     \* _consecutive_failures
  future,       \* task -> "none", "pending", "ok" or "error"
  inARow        \* history: how many tasks have failed for good since one succeeded

lifeVars    == <<isRunning, awaited, stopping, worker, current>>
queueVars   == <<queue, pushes>>
slotVars    == <<started, lost, concurrent, usage>>
breakerVars == <<open, failures, inARow>>
vars == <<lifeVars, queueVars, slotVars, max, breakerVars, future>>

Types == {"cpu", "memory", "general"}
TypeOf(t) == IF t \in Cpu THEN "cpu" ELSE IF t \in Memory THEN "memory" ELSE "general"

\* resource_limits of a limit m
Share(k, m) == CASE k = "cpu" -> m \div 2 [] k = "memory" -> m \div 3 [] OTHER -> m

Larger(a, b) == IF a >= b THEN a ELSE b
Smaller(a, b) == IF a <= b THEN a ELSE b

\* a queue entry: a task as submitted, or again, as its retry
Entry(t, again) == [task |-> t, again |-> again]
PriorityOf(e) ==
  LET p == IF e.task \in Urgent THEN 1 ELSE 2 IN IF e.again THEN Larger(1, p - 1) ELSE p

LockFree == \A w \in Workers : worker[w] # "blocked"
NobodyWaits == pushes = {} /\ \A w \in Workers : worker[w] # "waiting"

Init ==
  /\ isRunning = FALSE /\ awaited = {} /\ stopping = FALSE
  /\ worker = [w \in Workers |-> "ended"] /\ current = None
  /\ queue = {} /\ pushes = {}
  /\ started = {} /\ lost = {} /\ concurrent = 0 /\ usage = [k \in Types |-> 0]
  /\ max \in MinConcurrent..AbsoluteMax
  /\ open = FALSE /\ failures = 0 /\ inARow = 0
  /\ future = [t \in Tasks |-> "none"]

-----------------------------------------------------------------------------
(* start() and stop().                                                     *)

Start ==
  /\ ~isRunning /\ isRunning' = TRUE
  /\ \E w \in Workers :
       worker[w] = "ended" /\ worker' = [worker EXCEPT ![w] = "loop"] /\ current' = w
  /\ UNCHANGED <<awaited, stopping, queueVars, slotVars, max, breakerVars, future>>

\* Faulty variant: the tasks still in the queue are awaited as well.
StopBeginsForAll ==
  /\ isRunning /\ ~stopping /\ isRunning' = FALSE /\ stopping' = TRUE
  /\ awaited' = {t \in Tasks : future[t] = "pending"}
  /\ UNCHANGED <<worker, current, queueVars, slotVars, max, breakerVars, future>>

\* stop() gathers the futures of the running tasks (a second stop() meanwhile is left out)
StopBegins ==
  /\ isRunning /\ ~stopping /\ isRunning' = FALSE /\ stopping' = TRUE
  /\ awaited' = {t \in started : future[t] = "pending"}
  /\ UNCHANGED <<worker, current, queueVars, slotVars, max, breakerVars, future>>

\* the futures are done: the control tasks are cancelled and awaited
StopEnds ==
  /\ stopping /\ \A t \in awaited : future[t] # "pending"
  /\ stopping' = FALSE /\ awaited' = {}
  /\ worker' = [worker EXCEPT ![current] = "ended"]
  /\ UNCHANGED <<isRunning, current, queueVars, slotVars, max, breakerVars, future>>

-----------------------------------------------------------------------------
(* submit().                                                               *)

\* _is_circuit_breaker_open says no, after the timeout by closing the breaker
PassesBreaker(late) ==
  /\ ~open \/ late
  /\ open' = FALSE /\ failures' = IF open THEN 0 ELSE failures
  /\ inARow' = IF open THEN 0 ELSE inARow

\* the entry e goes on the queue now, or after a wait for the lock
Push(e) ==
  \/ LockFree /\ NobodyWaits /\ queue' = queue \cup {e} /\ UNCHANGED pushes
  \/ ~(LockFree /\ NobodyWaits) /\ pushes' = pushes \cup {e} /\ UNCHANGED queue

\* submit() of a running controller; otherwise, or behind the breaker, it raises
Submit(t, late) ==
  /\ isRunning /\ future[t] = "none"
  /\ PassesBreaker(late) /\ Push(Entry(t, FALSE))
  /\ future' = [future EXCEPT ![t] = "pending"]
  /\ UNCHANGED <<lifeVars, slotVars, max>>

\* the lock is handed to a caller that waited for it
PushLate(e) ==
  /\ e \in pushes /\ LockFree
  /\ queue' = queue \cup {e} /\ pushes' = pushes \ {e}
  /\ UNCHANGED <<lifeVars, slotVars, max, breakerVars, future>>

-----------------------------------------------------------------------------
(* _worker_loop.                                                           *)

\* Faulty variant: the limits are compared with what runs altogether.
CanScheduleByTotal(t) == concurrent < Share(TypeOf(t), max) - 1

\* _can_schedule_task
CanSchedule(t) == usage[TypeOf(t)] < Share(TypeOf(t), max)

Head(e) == e \in queue /\ \A f \in queue : PriorityOf(e) <= PriorityOf(f)

\* the loop wakes up and finds a slot free and an entry
Wakes(w) == worker[w] = "loop" /\ isRunning /\ concurrent < max /\ queue # {}

\* it has to wait for the lock
Waits(w) ==
  /\ Wakes(w) /\ ~(LockFree /\ NobodyWaits)
  /\ worker' = [worker EXCEPT ![w] = "waiting"]
  /\ UNCHANGED <<isRunning, awaited, stopping, current, queueVars, slotVars, max, breakerVars, future>>

\* with the lock it takes the first entry; after a wait it looks again at the queue only
Takes(w, e) ==
  /\ Head(e) /\ LockFree
  /\ \/ Wakes(w) /\ NobodyWaits
     \/ worker[w] = "waiting"

\* another one has emptied the queue meanwhile
FindsNone(w) ==
  /\ worker[w] = "waiting" /\ LockFree /\ queue = {}
  /\ worker' = [worker EXCEPT ![w] = "loop"]
  /\ UNCHANGED <<isRunning, awaited, stopping, current, queueVars, slotVars, max, breakerVars, future>>

\* no share of its resource is free: back on the queue, and sleep with the lock held
Blocks(w, e) ==
  /\ Takes(w, e) /\ ~CanSchedule(e.task)
  /\ worker' = [worker EXCEPT ![w] = "blocked"]
  /\ UNCHANGED <<isRunning, awaited, stopping, current, queueVars, slotVars, max, breakerVars, future>>

Unblocks(w) ==
  /\ worker[w] = "blocked" /\ worker' = [worker EXCEPT ![w] = "loop"]
  /\ UNCHANGED <<isRunning, awaited, stopping, current, queueVars, slotVars, max, breakerVars, future>>

\* _start_task
Starts(w, e) ==
  /\ Takes(w, e) /\ CanSchedule(e.task) /\ ~e.again
  /\ queue' = queue \ {e} /\ worker' = [worker EXCEPT ![w] = "loop"]
  /\ started' = started \cup {e.task} /\ concurrent' = concurrent + 1
  /\ usage' = [usage EXCEPT ![TypeOf(e.task)] = @ + 1]
  /\ UNCHANGED <<isRunning, awaited, stopping, current, pushes, lost, max, breakerVars, future>>

\* Faulty variant: the slot is not given back.
StartRetryLeaks(w, e) ==
  /\ Takes(w, e) /\ CanSchedule(e.task) /\ e.again
  /\ queue' = queue \ {e} /\ worker' = [worker EXCEPT ![w] = "loop"]
  /\ concurrent' = concurrent + 1
  /\ UNCHANGED <<isRunning, awaited, stopping, current, pushes, started, lost, usage, max, breakerVars, future>>

\* _start_task of a retry: its id has no metrics, so it raises, and so does _task_failed,
\* but only after it has given back the slot and the share of the resource
StartsRetry(w, e) ==
  /\ Takes(w, e) /\ CanSchedule(e.task) /\ e.again
  /\ queue' = queue \ {e} /\ worker' = [worker EXCEPT ![w] = "loop"]
  /\ UNCHANGED <<isRunning, awaited, stopping, current, pushes, slotVars, max, breakerVars, future>>

LoopEnds(w) ==
  /\ worker[w] = "loop" /\ ~isRunning /\ worker' = [worker EXCEPT ![w] = "ended"]
  /\ UNCHANGED <<isRunning, awaited, stopping, current, queueVars, slotVars, max, breakerVars, future>>

-----------------------------------------------------------------------------
(* The end of a task.                                                      *)

Leaves(t) ==
  /\ t \in started \ lost /\ started' = started \ {t} /\ concurrent' = concurrent - 1
  /\ usage' = [usage EXCEPT ![TypeOf(t)] = @ - 1] /\ UNCHANGED lost

\* _task_completed
Completes(t) ==
  /\ Leaves(t)
  /\ failures' = 0 /\ inARow' = 0 /\ UNCHANGED open
  /\ future' = [future EXCEPT ![t] = "ok"]
  /\ UNCHANGED <<lifeVars, queueVars, max>>

\* _task_failed, also after _task_timeout: a task with retries goes on the queue again
Fails(t) ==
  /\ Leaves(t)
  /\ \/ t \in Retried /\ Push(Entry(t, TRUE)) /\ UNCHANGED <<breakerVars, future>>
     \/ /\ t \notin Retried /\ UNCHANGED queueVars
        /\ failures' = failures + 1 /\ inARow' = inARow + 1
        /\ open' = (open \/ failures + 1 >= Threshold)
        /\ future' = [future EXCEPT ![t] = "error"]
  /\ UNCHANGED <<lifeVars, max>>

\* task_wrapper catches no CancelledError: nobody takes the task out of _running_tasks,
\* gives back its slot or settles its future
Vanishes(t) ==
  /\ t \in (started \ lost) \cap Cancelled /\ lost' = lost \cup {t}
  /\ UNCHANGED <<lifeVars, queueVars, started, concurrent, usage, max, breakerVars, future>>

\* _adjust_concurrency: the limit after m under a high, a low or a moderate load
Adjusted(m, load) ==
  LET want == CASE load = "high" -> Larger(MinConcurrent, (m * 8) \div 10)
                [] load = "low"  -> Smaller(AbsoluteMax, (m * 12) \div 10)
                [] OTHER -> m
  IN  Larger(MinConcurrent, Smaller(AbsoluteMax, want))

\* the adjustment task lives as long as the worker of its start()
Adjusts(w, load) ==
  /\ worker[w] # "ended" /\ max' = Adjusted(max, load)
  /\ UNCHANGED <<lifeVars, queueVars, slotVars, breakerVars, future>>

-----------------------------------------------------------------------------
Entries == {Entry(t, FALSE) : t \in Tasks} \cup {Entry(t, TRUE) : t \in Retried}
WorkerStep(w) ==
  \/ Unblocks(w) \/ LoopEnds(w) \/ Waits(w) \/ FindsNone(w)
  \/ \E e \in queue : Blocks(w, e) \/ Starts(w, e) \/ StartsRetry(w, e)
TaskEnds(t) == Completes(t) \/ Fails(t) \/ Vanishes(t)

Next ==
  \/ Start \/ StopBegins \/ StopEnds
  \/ \E t \in Tasks : TaskEnds(t) \/ \E late \in BOOLEAN : Submit(t, late)
  \/ \E e \in Entries : PushLate(e)
  \/ \E w \in Workers : WorkerStep(w) \/ \E load \in {"high", "low", "moderate"} : Adjusts(w, load)

Spec == Init /\ [][Next]_vars

\* Ready tasks run, and what the tasks of the controller do ends.  The lock is first come
\* first served, so whoever waits for it gets it although the worker comes back for it;
\* a worker that finds all slots taken looks again and again.
Fairness ==
  /\ WF_vars(StopEnds)
  /\ \A w \in Workers : SF_vars(WorkerStep(w))
  /\ \A t \in Tasks : WF_vars(TaskEnds(t))
  /\ \A e \in Entries : SF_vars(PushLate(e))
FairSpec == Spec /\ Fairness

-----------------------------------------------------------------------------
(* Properties.                                                             *)

\* Every variable has its type; the limit stays between its bounds.
TypeOK ==
  /\ isRunning \in BOOLEAN /\ stopping \in BOOLEAN /\ awaited \subseteq Tasks
  /\ worker \in [Workers -> {"loop", "waiting", "blocked", "ended"}] /\ current \in Workers \cup {None}
  /\ queue \subseteq Entries /\ pushes \subseteq Entries
  /\ started \subseteq Tasks /\ lost \subseteq started \cap Cancelled
  /\ concurrent \in Int /\ usage \in [Types -> Int] /\ max \in MinConcurrent..AbsoluteMax
  /\ open \in BOOLEAN /\ failures \in Nat /\ inARow \in Nat
  /\ future \in [Tasks -> {"none", "pending", "ok", "error"}]

Running == started \ lost
Of(S, k) == {t \in S : TypeOf(t) = k}

\* A slot and a share of a resource are taken by the tasks that run, and for good by each
\* task whose coroutine has ended in CancelledError.  Nothing else costs one: not a
\* failure, a timeout, a retry that cannot start, or a stop and a new start in between.
SlotsAreReturned ==
  /\ concurrent = Cardinality(Running) + Cardinality(lost)
  /\ \A k \in Types : usage[k] = Cardinality(Of(Running, k)) + Cardinality(Of(lost, k))

\* The breaker opens only after Threshold tasks in a row have failed for good.
OpensAfterARow == [][~open /\ open' => inARow' >= Threshold]_vars

\* the tasks that are lost leave no share of some resource at the smallest limit
Exhausted ==
  \/ \E k \in Types : Cardinality(Of(lost, k)) >= Share(k, MinConcurrent)
  \/ Cardinality(lost) >= MinConcurrent

\* Of finitely many tasks each one without retries settles while the controller runs,
\* although the head of the queue may block it, unless its own coroutine ends in
\* CancelledError or those of others that did have used up the slots or a share, or a
\* stop() has cancelled the worker of a start() that came while it waited.
EveryTaskSettles ==
  \A t \in Tasks \ Retried :
    future[t] = "pending" ~> \/ future[t] # "pending" \/ t \in lost \/ Exhausted
                              \/ ~isRunning \/ \A w \in Workers : worker[w] = "ended"

\* stop() returns, unless a task it waits for may be retried or is lost.
StopReturns == stopping /\ awaited \cap Retried = {} ~> ~stopping \/ awaited \cap lost # {}

-----------------------------------------------------------------------------
(* What the comments and tests say and the code does not do.               *)

\* test_smart_concurrency_controller.py:333 "Success after 3 attempts": an entry that
\* leaves the queue is started.
EveryEntryIsStarted == [][\A e \in queue \ queue' : e.task \in started']_vars

\* test_smart_concurrency_controller.py:72, "should be 0 after the task is done": a task
\* whose coroutine has ended has no slot.
EndedTasksFreeTheirSlots == concurrent = Cardinality(Running)

\* smart_concurrency_controller.py:192 "wait for the running tasks to complete":
\* stop() returns.
StopAlwaysReturns == stopping ~> ~stopping

\* smart_concurrency_controller.py:488 "load is low, concurrency can be increased": an
\* adjustment under a low load raises a limit below the maximum.
LimitCanGrow == max < AbsoluteMax => Adjusted(max, "low") > max

\* smart_concurrency_controller.py:277, the worker loop handles the queue: a controller
\* that runs has a worker.
RunningHasAWorker == isRunning => \E w \in Workers : worker[w] # "ended"
=============================================================================
