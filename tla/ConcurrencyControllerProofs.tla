--------------------- MODULE ConcurrencyControllerProofs ---------------------
(***************************************************************************)
(* Proofs about ConcurrencyController: the types, that slots and shares of *)
(* a resource are taken by the tasks that run and by those that have ended *)
(* in CancelledError alone, and that the circuit breaker opens only after  *)
(* a row of failures.                                                      *)
(*                                                                         *)
(* A slot is taken once for a task because a task that has not been        *)
(* started has one entry, on the queue or waiting for the lock.            *)
(***************************************************************************)
EXTENDS ConcurrencyController, FiniteSetTheorems, TLAPS

First(t) == Entry(t, FALSE)

\* a task is started from one entry, which is there from submit() to the start
EntriesAreSingle ==
  /\ \A t \in Tasks : First(t) \in queue \cup pushes => t \notin started /\ future[t] # "none"
  /\ \A t \in started : future[t] # "none"
  /\ \A t \in Tasks : ~(First(t) \in queue /\ First(t) \in pushes)

\* the failures counted are those in a row
FailuresInARow == failures = inARow

\* the slots and shares that are taken
SlotsAreTaken ==
  /\ concurrent = Cardinality(started)
  /\ \A k \in Types : usage[k] = Cardinality(Of(started, k))

IInv == TypeOK /\ EntriesAreSingle /\ SlotsAreTaken /\ FailuresInARow

-----------------------------------------------------------------------------
LEMMA EntryIsEntry ==
  /\ \A t \in Tasks : Entry(t, FALSE) \in Entries
  /\ \A t \in Retried : Entry(t, TRUE) \in Entries
  BY DEF Entries

LEMMA TypeOfIsType == \A t : TypeOf(t) \in Types
  BY DEF TypeOf, Types

\* Starting a task takes one share, of its own type.
LEMMA ShareTaken ==
  ASSUME NEW S, IsFiniteSet(S), NEW t, t \notin S, NEW k
  PROVE  /\ IsFiniteSet(S \cup {t}) /\ Cardinality(S \cup {t}) = Cardinality(S) + 1
         /\ Cardinality(Of(S \cup {t}, k)) = Cardinality(Of(S, k)) + (IF TypeOf(t) = k THEN 1 ELSE 0)
<1>1. IsFiniteSet(S \cup {t}) /\ Cardinality(S \cup {t}) = Cardinality(S) + 1
  BY FS_AddElement
<1>2. IsFiniteSet(Of(S, k)) /\ Cardinality(Of(S, k)) \in Nat
  BY FS_Subset, FS_CardinalityType DEF Of
<1>3. CASE TypeOf(t) = k
  <2>1. Of(S \cup {t}, k) = Of(S, k) \cup {t}
    BY <1>3 DEF Of
  <2>2. t \notin Of(S, k)
    BY DEF Of
  <2> QED
    BY <1>1, <1>2, <1>3, <2>1, <2>2, FS_AddElement
<1>4. CASE TypeOf(t) # k
  <2>1. Of(S \cup {t}, k) = Of(S, k)
    BY <1>4 DEF Of
  <2> QED
    BY <1>1, <1>2, <1>4, <2>1
<1> QED
  BY <1>3, <1>4

\* The end of a task gives it back.
LEMMA ShareReturned ==
  ASSUME NEW S, IsFiniteSet(S), NEW t, t \in S, NEW k
  PROVE  /\ IsFiniteSet(S \ {t}) /\ Cardinality(S \ {t}) = Cardinality(S) - 1
         /\ Cardinality(Of(S \ {t}, k)) = Cardinality(Of(S, k)) - (IF TypeOf(t) = k THEN 1 ELSE 0)
<1>1. IsFiniteSet(S \ {t}) /\ t \notin S \ {t} /\ (S \ {t}) \cup {t} = S
  BY FS_Subset
<1>2. Cardinality(S) = Cardinality(S \ {t}) + 1
      /\ Cardinality(Of(S, k)) = Cardinality(Of(S \ {t}, k)) + (IF TypeOf(t) = k THEN 1 ELSE 0)
  <2>1. ASSUME NEW R, IsFiniteSet(R), t \notin R, R \cup {t} = S
        PROVE  /\ Cardinality(S) = Cardinality(R) + 1
               /\ Cardinality(Of(S, k)) = Cardinality(Of(R, k)) + (IF TypeOf(t) = k THEN 1 ELSE 0)
    BY <2>1, ShareTaken
  <2> QED
    BY <1>1, <2>1, Zenon
<1>3. Cardinality(S \ {t}) \in Nat
  BY <1>1, FS_CardinalityType
<1>4. IsFiniteSet(Of(S \ {t}, k)) /\ Cardinality(Of(S \ {t}, k)) \in Nat
  BY <1>1, FS_Subset, FS_CardinalityType DEF Of
<1> QED
  BY <1>1, <1>2, <1>3, <1>4

-----------------------------------------------------------------------------
LEMMA InitHolds == Init => IInv
<1> SUFFICES ASSUME Init PROVE IInv
  OBVIOUS
<1>1. TypeOK
  <2>1. worker \in [Workers -> {"loop", "waiting", "blocked", "ended"}] /\ usage \in [Types -> Int]
        /\ future \in [Tasks -> {"none", "pending", "ok", "error"}]
    BY DEF Init
  <2>2. isRunning \in BOOLEAN /\ stopping \in BOOLEAN /\ open \in BOOLEAN
    BY DEF Init
  <2>3. awaited \subseteq Tasks /\ current \in Workers \cup {None} /\ queue \subseteq Entries
        /\ pushes \subseteq Entries /\ started \subseteq Tasks /\ lost \subseteq started \cap Cancelled
    BY DEF Init
  <2>4. concurrent \in Int /\ max \in MinConcurrent..AbsoluteMax /\ failures \in Nat /\ inARow \in Nat
    BY DEF Init
  <2> QED
    BY <2>1, <2>2, <2>3, <2>4, Zenon DEF TypeOK
<1>2. EntriesAreSingle /\ FailuresInARow
  BY DEF Init, EntriesAreSingle, FailuresInARow
<1>3. SlotsAreTaken
  <2>1. \A k \in Types : Of(started, k) = {}
    BY DEF Init, Of
  <2> QED
    BY <2>1, FS_EmptySet DEF Init, SlotsAreTaken
<1> QED
  BY <1>1, <1>2, <1>3 DEF IInv

-----------------------------------------------------------------------------
(* What the steps do to the entries, the slots and the counter.            *)

\* The steps other than Starts and the end of a task leave the slots alone.
LEMMA SlotsKept ==
  ASSUME SlotsAreTaken, UNCHANGED slotVars PROVE SlotsAreTaken'
  BY DEF SlotsAreTaken, slotVars

LEMMA EntriesKept ==
  ASSUME EntriesAreSingle, UNCHANGED <<queueVars, started, future>> PROVE EntriesAreSingle'
  BY DEF EntriesAreSingle, queueVars

LEMMA PriorityFree == \A t, u, a, b : Entry(t, a) = Entry(u, b) => t = u /\ a = b
  BY DEF Entry

\* Pushing the entry of a task that has none.
LEMMA PushIsTyped ==
  ASSUME TypeOK, NEW e \in Entries, Push(e)
  PROVE  queue' \subseteq Entries /\ pushes' \subseteq Entries
<1>1. queue \subseteq Entries /\ pushes \subseteq Entries
  BY DEF TypeOK
<1>2. CASE queue' = queue \cup {e} /\ UNCHANGED pushes
  BY <1>1, <1>2
<1>3. CASE pushes' = pushes \cup {e} /\ UNCHANGED queue
  BY <1>1, <1>3
<1> QED
  BY <1>2, <1>3 DEF Push

LEMMA SubmitHolds ==
  ASSUME IInv, NEW t \in Tasks, NEW late \in BOOLEAN, Submit(t, late) PROVE IInv'
<1> USE DEF IInv
<1>1. Entry(t, FALSE) \in Entries
  BY EntryIsEntry
<1>2. TypeOK'
  <2>1. queue' \subseteq Entries /\ pushes' \subseteq Entries
    BY <1>1, PushIsTyped DEF Submit
  <2> QED
    BY <2>1 DEF TypeOK, Submit, PassesBreaker, lifeVars, slotVars
<1>3. EntriesAreSingle'
  <2>1. future' = [future EXCEPT ![t] = "pending"] /\ future \in [Tasks -> {"none", "pending", "ok", "error"}]
        /\ started' = started /\ future[t] = "none" /\ started \subseteq Tasks
    BY DEF Submit, slotVars, TypeOK
  <2>2. First(t) \notin queue \cup pushes /\ t \notin started
    BY <2>1 DEF EntriesAreSingle
  <2>3. \/ queue' = queue \cup {First(t)} /\ pushes' = pushes
        \/ queue' = queue /\ pushes' = pushes \cup {First(t)}
    BY DEF Submit, Push, First
  <2>4. \A u \in Tasks : First(u) = First(t) => u = t
    BY PriorityFree DEF First
  <2> QED
    BY <2>1, <2>2, <2>3, <2>4 DEF EntriesAreSingle
<1>4. SlotsAreTaken'
  BY SlotsKept DEF Submit
<1>5. FailuresInARow'
  BY DEF Submit, PassesBreaker, FailuresInARow
<1> QED
  BY <1>2, <1>3, <1>4, <1>5

LEMMA PushLateHolds ==
  ASSUME IInv, NEW e \in Entries, PushLate(e) PROVE IInv'
<1> USE DEF IInv
<1>1. TypeOK'
  BY DEF TypeOK, PushLate, lifeVars, slotVars, breakerVars
<1>2. EntriesAreSingle'
  BY DEF EntriesAreSingle, PushLate, slotVars
<1>3. SlotsAreTaken' /\ FailuresInARow'
  BY SlotsKept DEF PushLate, FailuresInARow, breakerVars
<1> QED
  BY <1>1, <1>2, <1>3

LEMMA StartsHolds ==
  ASSUME IInv, NEW w \in Workers, NEW e \in queue, Starts(w, e) PROVE IInv'
<1> USE DEF IInv
<1>1. PICK t \in Tasks : e = First(t)
  BY DEF TypeOK, Entries, Entry, First, Starts
<1>2. e.task = t
  BY <1>1 DEF First, Entry
<1>3. t \notin started /\ First(t) \notin pushes /\ future[t] # "none"
  BY <1>1 DEF EntriesAreSingle
<1>4. started \subseteq Tasks /\ IsFiniteSet(started)
  BY FS_Subset, TaskAssumption DEF TypeOK
<1>5. started' = started \cup {t} /\ concurrent' = concurrent + 1
      /\ usage' = [usage EXCEPT ![TypeOf(t)] = @ + 1] /\ queue' = queue \ {First(t)}
      /\ UNCHANGED <<pushes, lost, future, failures, inARow>>
  BY <1>1, <1>2 DEF Starts, breakerVars
<1>6. TypeOK'
  <2>1. usage' \in [Types -> Int] /\ concurrent' \in Int /\ started' \subseteq Tasks /\ queue' \subseteq Entries
    <3>1. queue \subseteq Entries /\ concurrent \in Int /\ usage \in [Types -> Int] /\ TypeOf(t) \in Types
      BY TypeOfIsType DEF TypeOK
    <3>2. usage' \in [Types -> Int]
      BY <1>5, <3>1
    <3>3. queue' \subseteq Entries /\ started' \subseteq Tasks
      BY <1>4, <1>5, <3>1
    <3> QED
      BY <1>5, <3>1, <3>2, <3>3
  <2> QED
    <3>1. worker' \in [Workers -> {"loop", "waiting", "blocked", "ended"}]
      BY DEF TypeOK, Starts
    <3>2. lost' \subseteq started' \cap Cancelled
      BY <1>5 DEF TypeOK
    <3> QED
      BY <2>1, <3>1, <3>2 DEF TypeOK, Starts, breakerVars
<1>7. EntriesAreSingle'
  <2>1. \A u \in Tasks : First(u) = First(t) => u = t
    BY PriorityFree DEF First
  <2> QED
    BY <1>1, <1>3, <1>4, <1>5, <2>1 DEF EntriesAreSingle
<1>8. SlotsAreTaken'
  <2>1. concurrent' = Cardinality(started')
    BY <1>3, <1>4, <1>5, ShareTaken DEF SlotsAreTaken
  <2>2. ASSUME NEW k \in Types PROVE usage'[k] = Cardinality(Of(started', k))
    <3>1. usage[k] = Cardinality(Of(started, k)) /\ usage[k] \in Int /\ usage \in [Types -> Int]
      BY DEF SlotsAreTaken, TypeOK
    <3>2. Cardinality(Of(started \cup {t}, k)) = Cardinality(Of(started, k)) + (IF TypeOf(t) = k THEN 1 ELSE 0)
      <4>1. IsFiniteSet(started) /\ t \notin started
        BY <1>3, <1>4
      <4> QED
        BY ONLY <4>1, ShareTaken
    <3>3. usage'[k] = usage[k] + (IF TypeOf(t) = k THEN 1 ELSE 0)
      BY <1>5, <3>1
    <3>4. Cardinality(Of(started', k)) = Cardinality(Of(started, k)) + (IF TypeOf(t) = k THEN 1 ELSE 0)
      BY <1>5, <3>2, Zenon
    <3> QED
      BY <3>1, <3>3, <3>4
  <2> QED
    BY <2>1, <2>2 DEF SlotsAreTaken
<1>9. FailuresInARow'
  BY <1>5 DEF FailuresInARow
<1> QED
  BY <1>6, <1>7, <1>8, <1>9

\* The end of a task that returns or raises.
LEMMA LeavesHolds ==
  ASSUME IInv, NEW t \in Tasks, Leaves(t)
  PROVE  /\ SlotsAreTaken'
         /\ started' \subseteq started /\ concurrent' \in Int /\ usage' \in [Types -> Int]
         /\ lost' \subseteq started' \cap Cancelled
<1> USE DEF IInv
<1>1. started \subseteq Tasks /\ IsFiniteSet(started) /\ t \in started
  BY FS_Subset, TaskAssumption DEF TypeOK, Leaves
<1>2. started' = started \ {t} /\ concurrent' = concurrent - 1
      /\ usage' = [usage EXCEPT ![TypeOf(t)] = @ - 1]
  BY DEF Leaves
<1>3. concurrent' = Cardinality(started')
  BY <1>1, <1>2, ShareReturned DEF SlotsAreTaken
<1>4. ASSUME NEW k \in Types PROVE usage'[k] = Cardinality(Of(started', k))
  <2>1. usage[k] = Cardinality(Of(started, k)) /\ usage[k] \in Int /\ usage \in [Types -> Int]
    BY DEF SlotsAreTaken, TypeOK
  <2>2. Cardinality(Of(started', k)) = Cardinality(Of(started, k)) - (IF TypeOf(t) = k THEN 1 ELSE 0)
    BY <1>1, <1>2, ShareReturned
  <2> QED
    BY <1>2, <2>1, <2>2
<1>5. SlotsAreTaken'
  BY <1>3, <1>4 DEF SlotsAreTaken
<1>6. concurrent' \in Int /\ usage' \in [Types -> Int]
  <2>1. concurrent \in Int /\ usage \in [Types -> Int] /\ TypeOf(t) \in Types
    BY TypeOfIsType DEF TypeOK
  <2> QED
    BY <1>2, <2>1
<1>7. lost' \subseteq started' \cap Cancelled
  BY DEF Leaves, TypeOK
<1> QED
  BY <1>2, <1>5, <1>6, <1>7

LEMMA CompletesHolds ==
  ASSUME IInv, NEW t \in Tasks, Completes(t) PROVE IInv'
<1> USE DEF IInv
<1>1. SlotsAreTaken' /\ started' \subseteq started /\ concurrent' \in Int /\ usage' \in [Types -> Int]
      /\ lost' \subseteq started' \cap Cancelled
  BY LeavesHolds DEF Completes
<1>2. TypeOK'
  BY <1>1 DEF TypeOK, Completes, lifeVars, queueVars
<1>3. EntriesAreSingle'
  BY <1>1 DEF EntriesAreSingle, Completes, queueVars, TypeOK
<1>4. FailuresInARow'
  BY DEF FailuresInARow, Completes
<1> QED
  BY <1>1, <1>2, <1>3, <1>4

LEMMA FailsHolds ==
  ASSUME IInv, NEW t \in Tasks, Fails(t) PROVE IInv'
<1> USE DEF IInv
<1>1. SlotsAreTaken' /\ started' \subseteq started /\ concurrent' \in Int /\ usage' \in [Types -> Int]
      /\ lost' \subseteq started' \cap Cancelled
  BY LeavesHolds DEF Fails
<1>2. CASE t \in Retried /\ Push(Entry(t, TRUE)) /\ UNCHANGED <<breakerVars, future>>
  <2>1. Entry(t, TRUE) \in Entries
    BY <1>2, EntryIsEntry
  <2>2. queue' \subseteq Entries /\ pushes' \subseteq Entries
    BY <1>2, <2>1, PushIsTyped
  <2>3. TypeOK'
    BY <1>1, <1>2, <2>2 DEF TypeOK, Fails, lifeVars, breakerVars
  <2>4. \A u \in Tasks : First(u) # Entry(t, TRUE)
    BY PriorityFree DEF First
  <2>5. \A u \in Tasks : /\ First(u) \in queue' <=> First(u) \in queue
                         /\ First(u) \in pushes' <=> First(u) \in pushes
    BY <1>2, <2>4 DEF Push
  <2>6. EntriesAreSingle'
    BY <1>1, <1>2, <2>5 DEF EntriesAreSingle
  <2>7. FailuresInARow'
    BY <1>2 DEF FailuresInARow, breakerVars
  <2> QED
    BY <1>1, <2>3, <2>6, <2>7
<1>3. CASE /\ UNCHANGED queueVars
           /\ failures' = failures + 1 /\ inARow' = inARow + 1
           /\ open' = (open \/ failures + 1 >= Threshold)
           /\ future' = [future EXCEPT ![t] = "error"]
  <2>1. open' \in BOOLEAN
    BY <1>3
  <2>2. TypeOK'
    BY <1>1, <1>3, <2>1 DEF TypeOK, Fails, lifeVars, queueVars
  <2>3. EntriesAreSingle'
    BY <1>1, <1>3 DEF EntriesAreSingle, queueVars, TypeOK
  <2>4. FailuresInARow'
    BY <1>3 DEF FailuresInARow
  <2> QED
    BY <1>1, <2>2, <2>3, <2>4
<1> QED
  BY <1>2, <1>3 DEF Fails

\* A coroutine that ends in CancelledError leaves everything as it is.
LEMMA VanishesHolds ==
  ASSUME IInv, NEW t \in Tasks, Vanishes(t) PROVE IInv'
<1> USE DEF IInv
<1>1. TypeOK'
  BY DEF TypeOK, Vanishes, lifeVars, queueVars, breakerVars
<1>2. EntriesAreSingle' /\ SlotsAreTaken' /\ FailuresInARow'
  BY DEF EntriesAreSingle, SlotsAreTaken, FailuresInARow, Vanishes, queueVars, breakerVars
<1> QED
  BY <1>1, <1>2

LEMMA AdjustsHolds ==
  ASSUME IInv, NEW w \in Workers, NEW load, Adjusts(w, load) PROVE IInv'
<1> USE DEF IInv
<1>1. PICK want : max' = Larger(MinConcurrent, Smaller(AbsoluteMax, want))
                  /\ (want \in Int)
  <2>1. max \in Int /\ MinConcurrent \in Int /\ AbsoluteMax \in Int
    BY LimitAssumption DEF TypeOK
  <2>2. (max * 8) \div 10 \in Int /\ (max * 12) \div 10 \in Int
    BY <2>1
  <2> QED
    BY <2>1, <2>2 DEF Adjusts, Adjusted, Larger, Smaller
<1>2. max' \in MinConcurrent..AbsoluteMax
  BY <1>1, LimitAssumption DEF Larger, Smaller
<1>3. TypeOK'
  BY <1>2 DEF TypeOK, Adjusts, lifeVars, queueVars, slotVars, breakerVars
<1>4. EntriesAreSingle' /\ SlotsAreTaken' /\ FailuresInARow'
  BY EntriesKept, SlotsKept DEF Adjusts, slotVars, breakerVars, FailuresInARow
<1> QED
  BY <1>3, <1>4

\* The steps that move only the life of the controller and its worker, or take a retry
\* off the queue.
Quiet ==
  /\ UNCHANGED <<pushes, slotVars, max, breakerVars, future>>
  /\ queue' = queue \/ \E e \in queue : e.again /\ queue' = queue \ {e}

LEMMA QuietHolds ==
  ASSUME IInv, Quiet,
         isRunning' \in BOOLEAN, stopping' \in BOOLEAN, awaited' \subseteq Tasks,
         worker' \in [Workers -> {"loop", "waiting", "blocked", "ended"}], current' \in Workers \cup {None}
  PROVE  IInv'
<1> USE DEF IInv
<1>1. queue' \subseteq queue
  BY DEF Quiet
<1>2. TypeOK'
  BY <1>1 DEF TypeOK, Quiet, slotVars, breakerVars
<1>3. EntriesAreSingle'
  BY <1>1 DEF EntriesAreSingle, Quiet, slotVars
<1>4. SlotsAreTaken' /\ FailuresInARow'
  BY SlotsKept DEF Quiet, FailuresInARow, breakerVars
<1> QED
  BY <1>2, <1>3, <1>4

LEMMA NextHolds == IInv /\ [Next]_vars => IInv'
<1> SUFFICES ASSUME IInv, [Next]_vars PROVE IInv'
  OBVIOUS
<1>0. TypeOK
  BY DEF IInv
<1> USE DEF Quiet, lifeVars, queueVars
<1>1. CASE Start
  BY <1>0, <1>1, QuietHolds DEF Start, TypeOK
<1>2. CASE StopBegins
  <2>1. {t \in started : future[t] = "pending"} \subseteq Tasks
    BY <1>0 DEF TypeOK
  <2> QED
    BY <1>0, <1>2, <2>1, QuietHolds DEF StopBegins, TypeOK
<1>3. CASE StopEnds
  BY <1>0, <1>3, QuietHolds DEF StopEnds, TypeOK
<1>4. ASSUME NEW t \in Tasks, TaskEnds(t) PROVE IInv'
  BY <1>4, CompletesHolds, FailsHolds, VanishesHolds DEF TaskEnds
<1>5. ASSUME NEW t \in Tasks, NEW late \in BOOLEAN, Submit(t, late) PROVE IInv'
  BY <1>5, SubmitHolds
<1>6. ASSUME NEW e \in Entries, PushLate(e) PROVE IInv'
  BY <1>6, PushLateHolds
<1>7. ASSUME NEW w \in Workers, WorkerStep(w) PROVE IInv'
  <2>1. CASE Unblocks(w)
    BY <1>0, <2>1, QuietHolds DEF Unblocks, TypeOK
  <2>2. CASE LoopEnds(w)
    BY <1>0, <2>2, QuietHolds DEF LoopEnds, TypeOK
  <2>3. ASSUME NEW e \in queue, Blocks(w, e) PROVE IInv'
    BY <1>0, <2>3, QuietHolds DEF Blocks, TypeOK
  <2>4. ASSUME NEW e \in queue, Starts(w, e) PROVE IInv'
    BY <2>4, StartsHolds
  <2>5. ASSUME NEW e \in queue, StartsRetry(w, e) PROVE IInv'
    BY <1>0, <2>5, QuietHolds DEF StartsRetry, TypeOK
  <2>6. CASE Waits(w)
    BY <1>0, <2>6, QuietHolds DEF Waits, TypeOK
  <2>7. CASE FindsNone(w)
    BY <1>0, <2>7, QuietHolds DEF FindsNone, TypeOK
  <2> QED
    BY <1>7, <2>1, <2>2, <2>3, <2>4, <2>5, <2>6, <2>7 DEF WorkerStep
<1>8. ASSUME NEW w \in Workers, NEW load, Adjusts(w, load) PROVE IInv'
  BY <1>8, AdjustsHolds
<1>9. CASE UNCHANGED vars
  <2>1. /\ UNCHANGED <<isRunning, stopping, awaited, worker, current>>
        /\ UNCHANGED <<queue, pushes, slotVars, max, breakerVars, future>>
    BY <1>9 DEF vars
  <2> QED
    BY <1>0, <2>1, QuietHolds DEF TypeOK
<1> QED
  BY <1>1, <1>2, <1>3, <1>4, <1>5, <1>6, <1>7, <1>8, <1>9 DEF Next

LEMMA InvHolds == Spec => []IInv
<1>1. Init => IInv
  BY InitHolds
<1>2. IInv /\ [Next]_vars => IInv'
  BY NextHolds
<1> QED
  BY <1>1, <1>2, PTL DEF Spec

-----------------------------------------------------------------------------
\* The types; the limit stays between its bounds however the load changes.
THEOREM TypeCorrect == Spec => []TypeOK
<1>1. IInv => TypeOK
  BY DEF IInv
<1> QED
  BY <1>1, InvHolds, PTL

\* The tasks that run and those that are lost are all that have been started.
LEMMA StartedSplit ==
  ASSUME NEW S, IsFiniteSet(S), NEW L, L \subseteq S
  PROVE  Cardinality(S) = Cardinality(S \ L) + Cardinality(L)
<1>1. IsFiniteSet(L) /\ IsFiniteSet(S \ L) /\ (S \ L) \cup L = S /\ (S \ L) \cap L = {}
  BY FS_Subset
<1>2. Cardinality(L) \in Nat /\ Cardinality(S \ L) \in Nat /\ Cardinality({}) = 0
  BY <1>1, FS_CardinalityType, FS_EmptySet
<1>3. Cardinality(S) = Cardinality(S \ L) + Cardinality(L) - Cardinality({})
  <2>1. Cardinality((S \ L) \cup L)
          = Cardinality(S \ L) + Cardinality(L) - Cardinality((S \ L) \cap L)
    BY ONLY <1>1, FS_Union
  <2> QED
    BY <1>1, <2>1, Zenon
<1>4. ASSUME NEW a, NEW b \in Nat, NEW c \in Nat, NEW d, a = b + c - d, d = 0 PROVE a = b + c
  BY <1>4
<1> QED
  BY <1>2, <1>3, <1>4, Zenon

\* A slot and a share of a resource are taken by the tasks that run, and for good by each
\* task whose coroutine has ended in CancelledError; nothing else costs one.
THEOREM NoSlotLeaks == Spec => []SlotsAreReturned
<1>1. IInv => SlotsAreReturned
  <2> SUFFICES ASSUME IInv PROVE SlotsAreReturned
    OBVIOUS
  <2>1. IsFiniteSet(started) /\ lost \subseteq started
    BY FS_Subset, TaskAssumption DEF IInv, TypeOK
  <2>2. concurrent = Cardinality(Running) + Cardinality(lost)
    BY <2>1, StartedSplit DEF IInv, SlotsAreTaken, Running
  <2>3. ASSUME NEW k \in Types
        PROVE usage[k] = Cardinality(Of(Running, k)) + Cardinality(Of(lost, k))
    <3>1. IsFiniteSet(Of(started, k)) /\ Of(lost, k) \subseteq Of(started, k)
      BY <2>1, FS_Subset DEF Of
    <3>2. Of(Running, k) = Of(started, k) \ Of(lost, k)
      BY DEF Of, Running
    <3>3. Cardinality(Of(started, k)) = Cardinality(Of(Running, k)) + Cardinality(Of(lost, k))
      BY <3>1, <3>2, StartedSplit
    <3> QED
      BY <3>3 DEF IInv, SlotsAreTaken
  <2> QED
    BY <2>2, <2>3 DEF SlotsAreReturned
<1> QED
  BY <1>1, InvHolds, PTL

\* The breaker opens only after Threshold tasks in a row have failed for good.
THEOREM BreakerOpensLate == Spec => OpensAfterARow
<1>1. IInv /\ [Next]_vars => [~open /\ open' => inARow' >= Threshold]_vars
  <2> SUFFICES ASSUME IInv, Next, ~open, open' PROVE inARow' >= Threshold
    BY DEF vars
  <2>1. PICK t \in Tasks : Fails(t)
    BY DEF Next, Start, StopBegins, StopEnds, TaskEnds, Completes, Submit, PassesBreaker, PushLate,
           WorkerStep, Unblocks, LoopEnds, Waits, FindsNone, Vanishes, Blocks, Starts, StartsRetry, Adjusts, breakerVars
  <2>2. open' = (open \/ failures + 1 >= Threshold) /\ inARow' = inARow + 1
    BY <2>1 DEF Fails, breakerVars
  <2> QED
    BY <2>2 DEF IInv, FailuresInARow
<1> QED
  BY <1>1, InvHolds, PTL DEF Spec, OpensAfterARow
=============================================================================
