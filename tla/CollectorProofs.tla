--------------------------- MODULE CollectorProofs ---------------------------
(***************************************************************************)
(* Proofs about Collector, for any number of clients, start slots and      *)
(* requests.  Whether or not callers overlap: is_running never outlives    *)
(* the start() tasks, since only a start() under way sets the flag and it  *)
(* leaves by the finally clause alone; and the types hold.  Until the      *)
(* first overlap: one connection task per client, every open socket is     *)
(* registered, and what stop() has stopped is stopped.                     *)
(***************************************************************************)
EXTENDS Collector, FiniteSetTheorems, TLAPS

\* What a start() task may be, and when it will still run its finally clause.
StartStates == {"new", "starting", "gather", "cancelled", "done"}
UnderWay == {"starting", "gather", "cancelled"}

\* The invariant of the flag, which needs the types of start alone.
IInv == start \in [Starts -> StartStates] /\ RunningHasAStart

-----------------------------------------------------------------------------
\* A step that sets no flag and ends no start() under way.
LEMMA Kept ==
  ASSUME IInv, start' \in [Starts -> StartStates], running' => running,
         \A s \in Starts : start[s] \in UnderWay => start'[s] \in UnderWay
  PROVE  IInv'
  BY DEF IInv, RunningHasAStart, UnderWay

\* A step after which the flag is down.
LEMMA Cleared ==
  ASSUME start' \in [Starts -> StartStates], running' = FALSE PROVE IInv'
  BY DEF IInv, RunningHasAStart

\* A step that leaves the start() tasks alone.
LEMMA StartUnchanged ==
  ASSUME IInv, UNCHANGED start, running' = running \/ running' = FALSE PROVE IInv'
  BY DEF IInv, RunningHasAStart

\* A new start() task takes a free slot.
LEMMA NewStartHolds ==
  ASSUME IInv, NewStart, UNCHANGED running PROVE IInv'
<1>1. PICK s \in Free : start' = [start EXCEPT ![s] = "new"]
  BY DEF NewStart
<1>2. s \in Starts /\ start[s] = "done"
  BY DEF Free
<1>3. start' \in [Starts -> StartStates] /\ \A r \in Starts : start[r] \in UnderWay => start'[r] \in UnderWay
  BY <1>1, <1>2 DEF IInv, StartStates, UnderWay
<1> QED
  BY <1>3, Kept

\* A step of a start() task.
LEMMA StartStepHolds == ASSUME IInv, NEW s \in Starts, StartStep(s) PROVE IInv'
<1>0. start \in [Starts -> StartStates]
  BY DEF IInv
<1>1. CASE StartRuns(s)
  <2>1. CASE running /\ start' = [start EXCEPT ![s] = "done"] /\ UNCHANGED running
    BY <1>0, <1>1, <2>1, Kept DEF StartRuns, StartStates, UnderWay
  <2>2. CASE start' = [start EXCEPT ![s] = "starting"]
    BY <1>0, <2>2 DEF IInv, RunningHasAStart, StartStates
  <2> QED
    BY <1>1, <2>1, <2>2 DEF StartRuns
<1>2. CASE StartGathers(s)
  <2>1. start' = [start EXCEPT ![s] = "gather"] /\ running' = running
    BY <1>2 DEF StartGathers
  <2> QED
    BY <1>0, <2>1, Kept DEF StartStates, UnderWay
<1>3. CASE HelpersEnd(s)
  BY <1>3, StartUnchanged DEF HelpersEnd
<1>4. CASE StartEnds(s)
  BY <1>0, <1>4, Cleared DEF StartEnds, StartStates
<1> QED
  BY <1>1, <1>2, <1>3, <1>4 DEF StartStep

\* A step of a connection task.
LEMMA ConnectionHolds ==
  ASSUME IInv, NEW s \in Starts, NEW c \in Clients, ConnStep(s, c) \/ Dropped(s, c) \/ Message(s, c)
  PROVE  IInv'
<1>1. UNCHANGED <<start, running>>
  BY DEF ConnStep, LoopTop, Connected, ConnectFails, Closed, Dropped, Message, Failed, Others
<1> QED
  BY <1>1, StartUnchanged

\* stop() has returned: the start() task it cancels is under way, or has not begun.
LEMMA StopReturnsHolds == ASSUME IInv, NEW p \in Callers, StopReturns(p) PROVE IInv'
<1>0. start \in [Starts -> StartStates] /\ running' = running
  BY DEF IInv, StopReturns
<1>1. CASE UNCHANGED start
  BY <1>0, <1>1, StartUnchanged
<1>2. CASE start[tasks] # "done" /\ start' = [start EXCEPT ![tasks] = IF @ = "new" THEN "done" ELSE "cancelled"]
  <2>1. start' \in [Starts -> StartStates] /\ \A s \in Starts : start[s] \in UnderWay => start'[s] \in UnderWay
    BY <1>0, <1>2 DEF StartStates, UnderWay
  <2> QED
    BY <1>0, <2>1, Kept
<1> QED
  BY <1>1, <1>2 DEF StopReturns

\* A step of a caller.
LEMMA CallerHolds ==
  ASSUME IInv, NEW p \in Callers, BeginRecover(p) \/ BeginRestart(p) \/ CallerStep(p) PROVE IInv'
<1>1. CASE BeginRecover(p) \/ BeginRestart(p)
  BY <1>1, StartUnchanged DEF BeginRecover, BeginRestart, BeginStop
<1>2. CASE StopCancelled(p) \/ StopClosed(p) \/ TaskEnded(p)
  BY <1>2, StartUnchanged DEF StopCancelled, StopClosed, TaskEnded, taskVars
<1>3. CASE StopReturns(p)
  BY <1>3, StopReturnsHolds
<1>4. CASE Initialized(p) \/ PauseEnds(p)
  BY <1>4, StartUnchanged, NewStartHolds DEF Initialized, PauseEnds
<1> QED
  BY <1>1, <1>2, <1>3, <1>4 DEF CallerStep

-----------------------------------------------------------------------------
\* is_running never outlives the start() tasks, also when callers overlap.
THEOREM FlagHasAnOwner == Spec => []RunningHasAStart
<1>1. Init => IInv
  BY DEF Init, IInv, StartStates, RunningHasAStart
<1>2. IInv /\ [Next]_vars => IInv'
  <2> SUFFICES ASSUME IInv, [Next]_vars PROVE IInv'
    OBVIOUS
  <2>1. CASE ExchangeChanges \/ UNCHANGED vars
    BY <2>1, StartUnchanged DEF ExchangeChanges, vars, taskVars
  <2> QED
    BY <2>1, StartStepHolds, ConnectionHolds, CallerHolds DEF Next
<1>3. IInv => RunningHasAStart
  BY DEF IInv
<1> QED
  BY <1>1, <1>2, <1>3, PTL DEF Spec

-----------------------------------------------------------------------------
(* Type correctness.                                                       *)

\* The states of a connection task, the places of a caller, the two dictionaries.
ConnStates == {"loop", "connecting", "listening", "closing", "ended"}
Places == {"idle", "cancel", "close", "status", "await", "init", "pause", "done"}
Entries == [Clients -> Starts \cup {None}]

\* A connection task that may still fail has retries left: the overflow ends it.
RetriesLeft ==
  \A s \in Starts, c \in Clients :
    conn[s][c] \in {"loop", "connecting", "listening"} => retry[s][c] < OverflowAt

\* The types of what the connection tasks use.
ConnTypes ==
  /\ conn \in [Starts -> [Clients -> ConnStates]] /\ retry \in [Starts -> [Clients -> 0..OverflowAt]]
  /\ owner \in Entries /\ ws \in Entries /\ sockets \subseteq Starts \X Clients /\ heard \in BOOLEAN

\* The types of what the callers use besides.
CallerTypes ==
  /\ managed \in BOOLEAN /\ running \in BOOLEAN /\ up \in BOOLEAN
  /\ tasks \in Starts \cup {None} /\ helpers \subseteq Starts /\ start \in [Starts -> StartStates]
  /\ pc \in [Callers -> Places] /\ op \in [Callers -> {"restart", "recover"}]
  /\ left \in [Callers -> SUBSET Clients] /\ awaited \in [Callers -> Starts \cup Clients \cup {None}]

\* The types of the tables and the callers, with what keeps the retry counts in theirs.
TypeInv == ConnTypes /\ CallerTypes /\ RetriesLeft

\* With the count of the overlaps they are the types.
LEMMA TypesAre == TypeInv /\ overlaps \in Nat => TypeOK
  BY DEF TypeInv, TypeOK, ConnTypes, CallerTypes, ConnStates, Places, Entries, StartStates

\* The count of the overlaps only grows.
LEMMA Counted == overlaps \in Nat /\ [Next]_vars => overlaps' \in Nat /\ overlaps' >= overlaps
<1> SUFFICES ASSUME overlaps \in Nat, [Next]_vars PROVE overlaps' = overlaps \/ overlaps' = overlaps + 1
  OBVIOUS
<1>1. ASSUME NEW s \in Starts, StartStep(s) PROVE overlaps' = overlaps
  BY <1>1 DEF StartStep, StartRuns, StartGathers, HelpersEnd, StartEnds, callerVars
<1>2. ASSUME NEW s \in Starts, NEW c \in Clients, ConnStep(s, c) \/ Dropped(s, c) \/ Message(s, c)
      PROVE  overlaps' = overlaps
  BY <1>2 DEF ConnStep, LoopTop, Connected, ConnectFails, Closed, Dropped, Message, Failed, Others, callerVars
<1>3. ASSUME NEW p \in Callers, BeginRecover(p) \/ BeginRestart(p)
      PROVE  overlaps' = overlaps \/ overlaps' = overlaps + 1
  BY <1>3 DEF BeginRecover, BeginRestart, CountsOverlap
<1>4. ASSUME NEW p \in Callers, CallerStep(p) PROVE overlaps' = overlaps
  BY <1>4 DEF CallerStep, StopCancelled, StopClosed, StopReturns, TaskEnded, Initialized, PauseEnds
<1>5. CASE ExchangeChanges \/ UNCHANGED vars
  BY <1>5 DEF ExchangeChanges, vars, callerVars
<1> QED
  BY <1>1, <1>2, <1>3, <1>4, <1>5 DEF Next

\* One entry of a table of tables is set.
LEMMA SetAt ==
  ASSUME NEW V, NEW f \in [Starts -> [Clients -> V]], NEW s \in Starts, NEW c \in Clients, NEW v \in V
  PROVE  /\ [f EXCEPT ![s][c] = v] \in [Starts -> [Clients -> V]]
         /\ \A r \in Starts, d \in Clients :
              [f EXCEPT ![s][c] = v][r][d] = IF r = s /\ d = c THEN v ELSE f[r][d]
  OBVIOUS

\* The state of one connection task and its retries change.
LEMMA ConnSet ==
  ASSUME TypeInv, NEW s \in Starts, NEW c \in Clients, NEW v \in ConnStates, NEW n \in 0..OverflowAt,
         conn' = [conn EXCEPT ![s][c] = v], retry' = [retry EXCEPT ![s][c] = n],
         v \in {"loop", "connecting", "listening"} => n < OverflowAt
  PROVE  /\ conn' \in [Starts -> [Clients -> ConnStates]]
         /\ retry' \in [Starts -> [Clients -> 0..OverflowAt]] /\ RetriesLeft'
<1>1. conn \in [Starts -> [Clients -> ConnStates]] /\ retry \in [Starts -> [Clients -> 0..OverflowAt]]
  BY DEF TypeInv, ConnTypes
<1>2. /\ conn' \in [Starts -> [Clients -> ConnStates]]
      /\ \A r \in Starts, d \in Clients : conn'[r][d] = IF r = s /\ d = c THEN v ELSE conn[r][d]
  BY <1>1
<1>3. /\ retry' \in [Starts -> [Clients -> 0..OverflowAt]]
      /\ \A r \in Starts, d \in Clients : retry'[r][d] = IF r = s /\ d = c THEN n ELSE retry[r][d]
  BY <1>1
<1>4. RetriesLeft'
  BY <1>2, <1>3 DEF TypeInv, RetriesLeft
<1> QED
  BY <1>2, <1>3, <1>4

\* The same when the retries stay.
LEMMA ConnMoved ==
  ASSUME TypeInv, NEW s \in Starts, NEW c \in Clients, NEW v \in ConnStates,
         conn' = [conn EXCEPT ![s][c] = v], retry' = retry,
         v \in {"loop", "connecting", "listening"} =>
           conn[s][c] \in {"loop", "connecting", "listening"}
  PROVE  /\ conn' \in [Starts -> [Clients -> ConnStates]]
         /\ retry' \in [Starts -> [Clients -> 0..OverflowAt]] /\ RetriesLeft'
<1>1. conn \in [Starts -> [Clients -> ConnStates]] /\ retry \in [Starts -> [Clients -> 0..OverflowAt]]
  BY DEF TypeInv, ConnTypes
<1>2. retry[s][c] \in 0..OverflowAt /\ retry' = [retry EXCEPT ![s][c] = retry[s][c]]
  BY <1>1
<1>3. v \in {"loop", "connecting", "listening"} => retry[s][c] < OverflowAt
  BY DEF TypeInv, RetriesLeft
<1> QED
  BY <1>2, <1>3, ConnSet

\* What a cleanup leaves.
LEMMA CleanupType ==
  ASSUME NEW s \in Starts, NEW c \in Clients, NEW cl \in Entries, NEW socks \in SUBSET (Starts \X Clients),
         Cleanup(s, c, cl, socks)
  PROVE  /\ ws' \in Entries /\ sockets' \subseteq Starts \X Clients
         /\ \E v \in {"closing", "ended"} : conn' = [conn EXCEPT ![s][c] = v]
  BY DEF Cleanup

\* A step of a connection task keeps the types.
LEMMA ConnTypeStep ==
  ASSUME TypeInv, NEW s \in Starts, NEW c \in Clients, ConnStep(s, c) \/ Dropped(s, c) \/ Message(s, c)
  PROVE  TypeInv'
<1>1. ConnTypes /\ CallerTypes
  BY DEF TypeInv
<1>2. CallerTypes'
  <2>1. UNCHANGED <<managed, tasks, start, helpers, running, pc, op, left, awaited>> /\ up' = up
    BY DEF ConnStep, LoopTop, Connected, ConnectFails, Closed, Dropped, Message, Failed, Others, callerVars
  <2> QED
    BY <1>1, <2>1 DEF CallerTypes
<1>3. owner' = owner
  BY DEF ConnStep, LoopTop, Connected, ConnectFails, Closed, Dropped, Message, Failed
<1>4. [ws EXCEPT ![c] = s] \in Entries /\ [ws EXCEPT ![c] = None] \in Entries
      /\ sockets \cup {<<s, c>>} \in SUBSET (Starts \X Clients)
      /\ sockets \ {<<s, c>>} \in SUBSET (Starts \X Clients)
      /\ sockets \in SUBSET (Starts \X Clients) /\ ws \in Entries
      /\ 0 \in 0..OverflowAt /\ OverflowAt \in Nat \ {0}
  BY <1>1, BoundAssumption DEF ConnTypes, Entries
<1>5. SUFFICES /\ conn' \in [Starts -> [Clients -> ConnStates]]
               /\ retry' \in [Starts -> [Clients -> 0..OverflowAt]] /\ RetriesLeft'
               /\ ws' \in Entries /\ sockets' \subseteq Starts \X Clients /\ heard' \in BOOLEAN
  BY <1>1, <1>2, <1>3 DEF TypeInv, ConnTypes
<1>6. ASSUME NEW cl \in Entries, NEW socks \in SUBSET (Starts \X Clients), Cleanup(s, c, cl, socks),
             NEW n \in 0..OverflowAt, retry' = [retry EXCEPT ![s][c] = n], heard' \in BOOLEAN
      PROVE  /\ conn' \in [Starts -> [Clients -> ConnStates]]
             /\ retry' \in [Starts -> [Clients -> 0..OverflowAt]] /\ RetriesLeft'
             /\ ws' \in Entries /\ sockets' \subseteq Starts \X Clients /\ heard' \in BOOLEAN
  <2>1. PICK v \in {"closing", "ended"} : conn' = [conn EXCEPT ![s][c] = v]
    BY <1>6, CleanupType
  <2>2. v \in ConnStates /\ v \notin {"loop", "connecting", "listening"}
    BY <2>1 DEF ConnStates
  <2>3. ws' \in Entries /\ sockets' \subseteq Starts \X Clients
    BY <1>6, CleanupType
  <2> QED
    BY <1>6, <2>1, <2>2, <2>3, ConnSet
<1>7. retry[s][c] \in 0..OverflowAt /\ retry = [retry EXCEPT ![s][c] = retry[s][c]]
  BY <1>1 DEF ConnTypes
<1>8. CASE LoopTop(s, c)
  <2>1. CASE conn' = [conn EXCEPT ![s][c] = "connecting"] /\ UNCHANGED <<ws, sockets>>
    <3>1. conn[s][c] = "loop" /\ "connecting" \in ConnStates /\ UNCHANGED <<retry, heard>>
      BY <1>8 DEF LoopTop, ConnStates
    <3> QED
      BY <1>1, <2>1, <3>1, ConnMoved DEF ConnTypes
  <2>2. CASE Cleanup(s, c, ws, sockets)
    BY <1>1, <1>4, <1>6, <1>7, <1>8, <2>2 DEF LoopTop, ConnTypes
  <2> QED
    BY <1>8, <2>1, <2>2 DEF LoopTop
<1>9. CASE Connected(s, c)
  <2>0. heard' \in BOOLEAN /\ conn[s][c] = "connecting" /\ "listening" \in ConnStates
    BY <1>1, <1>9 DEF Connected, ConnTypes, ConnStates
  <2>1. CASE /\ conn' = [conn EXCEPT ![s][c] = "listening"] /\ retry' = retry
             /\ ws' = [ws EXCEPT ![c] = s] /\ sockets' = sockets \cup {<<s, c>>}
    BY <1>4, <2>0, <2>1, ConnMoved
  <2>2. CASE /\ Cleanup(s, c, [ws EXCEPT ![c] = s], sockets \cup {<<s, c>>})
             /\ retry' = [retry EXCEPT ![s][c] = 0]
    BY <1>4, <1>6, <2>0, <2>2
  <2> QED
    BY <1>9, <2>1, <2>2 DEF Connected
<1>10. ASSUME NEW socks \in SUBSET (Starts \X Clients), Failed(s, c, socks),
              conn[s][c] \in {"connecting", "listening"}
       PROVE  /\ conn' \in [Starts -> [Clients -> ConnStates]]
              /\ retry' \in [Starts -> [Clients -> 0..OverflowAt]] /\ RetriesLeft'
              /\ ws' \in Entries /\ sockets' \subseteq Starts \X Clients /\ heard' \in BOOLEAN
  <2>1. retry[s][c] + 1 \in 0..OverflowAt
    BY <1>4, <1>7, <1>10 DEF TypeInv, RetriesLeft
  <2>2. retry' = [retry EXCEPT ![s][c] = retry[s][c] + 1] /\ heard' \in BOOLEAN
    BY <1>1, <1>10 DEF Failed, ConnTypes
  <2>3. CASE Cleanup(s, c, ws, socks)
    BY <1>4, <1>6, <1>10, <2>1, <2>2, <2>3
  <2>4. CASE /\ sockets' = socks /\ ws' = ws
             /\ conn' = [conn EXCEPT ![s][c] = IF retry[s][c] + 1 < OverflowAt THEN "loop" ELSE "ended"]
    <3>1. PICK v : v = IF retry[s][c] + 1 < OverflowAt THEN "loop" ELSE "ended"
      OBVIOUS
    <3>2. v \in ConnStates /\ (v \in {"loop", "connecting", "listening"} => retry[s][c] + 1 < OverflowAt)
      BY <3>1 DEF ConnStates
    <3>3. conn' = [conn EXCEPT ![s][c] = v]
      BY <2>4, <3>1, Zenon
    <3>4. PICK n \in 0..OverflowAt : n = retry[s][c] + 1
      BY <2>1
    <3>5. retry' = [retry EXCEPT ![s][c] = n]
      BY <2>2, <3>4, Zenon
    <3>6. /\ conn' \in [Starts -> [Clients -> ConnStates]]
          /\ retry' \in [Starts -> [Clients -> 0..OverflowAt]] /\ RetriesLeft'
      BY <3>2, <3>3, <3>4, <3>5, ConnSet
    <3> QED
      BY <1>4, <1>10, <2>2, <2>4, <3>6
  <2> QED
    BY <1>10, <2>3, <2>4 DEF Failed
<1>11. CASE ConnectFails(s, c)
  BY <1>4, <1>10, <1>11 DEF ConnectFails
<1>12. CASE Dropped(s, c)
  BY <1>4, <1>10, <1>12 DEF Dropped
<1>13. CASE Message(s, c)
  <2>1. heard' \in BOOLEAN
    BY <1>13 DEF Message
  <2>2. CASE UNCHANGED <<conn, retry, ws, sockets>>
    BY <1>1, <2>1, <2>2 DEF TypeInv, RetriesLeft, ConnTypes
  <2>3. CASE Cleanup(s, c, ws, sockets) /\ retry' = [retry EXCEPT ![s][c] = 0]
    BY <1>4, <1>6, <2>1, <2>3
  <2> QED
    BY <1>13, <2>2, <2>3 DEF Message
<1>14. CASE Closed(s, c)
  <2>1. /\ conn' = [conn EXCEPT ![s][c] = "ended"] /\ ws' = [ws EXCEPT ![c] = None]
        /\ UNCHANGED <<retry, sockets, heard>> /\ "ended" \in ConnStates
    BY <1>14 DEF Closed, ConnStates
  <2> QED
    BY <1>1, <1>4, <2>1, ConnMoved DEF ConnTypes
<1> QED
  BY <1>8, <1>9, <1>11, <1>12, <1>13, <1>14 DEF ConnStep

\* Connection tasks end, and nothing else becomes of them.
LEMMA ConnEnded ==
  ASSUME TypeInv, UNCHANGED retry, conn' \in [Starts -> [Clients -> ConnStates]],
         \A s \in Starts, c \in Clients : conn'[s][c] \in {conn[s][c], "ended"}
  PROVE  RetriesLeft'
  BY DEF TypeInv, RetriesLeft

\* A step that leaves the connection tasks alone.
LEMMA ConnKept == TypeInv /\ UNCHANGED <<conn, retry>> => RetriesLeft'
  BY DEF TypeInv, RetriesLeft

\* A step of a start() task keeps the types.
LEMMA StartTypeStep ==
  ASSUME TypeInv, NEW s \in Starts, StartStep(s) PROVE TypeInv'
<1>1. ConnTypes /\ CallerTypes
  BY DEF TypeInv
<1>2. UNCHANGED <<managed, tasks, ws, sockets, up, heard, pc, op, left, awaited>>
  BY DEF StartStep, StartRuns, StartGathers, HelpersEnd, StartEnds, dictVars, callerVars
<1>3. CallerTypes'
  <2>1. start' \in [Starts -> StartStates]
    BY <1>1 DEF CallerTypes, StartStep, StartRuns, StartGathers, HelpersEnd, StartEnds, StartStates
  <2>2. helpers' \subseteq Starts /\ running' \in BOOLEAN
    BY <1>1 DEF CallerTypes, StartStep, StartRuns, StartGathers, HelpersEnd, StartEnds
  <2> QED
    BY <1>1, <1>2, <2>1, <2>2 DEF CallerTypes
<1>4. CASE UNCHANGED <<conn, retry, owner>>
  <2>1. RetriesLeft' /\ ConnTypes'
    BY <1>1, <1>2, <1>4, ConnKept DEF ConnTypes
  <2> QED
    BY <1>3, <2>1 DEF TypeInv
<1>5. CASE /\ conn' = [conn EXCEPT ![s] = [c \in Clients |-> "loop"]]
           /\ retry' = [retry EXCEPT ![s] = [c \in Clients |-> 0]] /\ owner' = [c \in Clients |-> s]
  <2>1. /\ [c \in Clients |-> "loop"] \in [Clients -> ConnStates]
        /\ [c \in Clients |-> 0] \in [Clients -> 0..OverflowAt]
        /\ [c \in Clients |-> s] \in Entries /\ 0 < OverflowAt
    BY BoundAssumption DEF ConnStates, Entries
  <2>2. /\ conn' \in [Starts -> [Clients -> ConnStates]]
        /\ \A r \in Starts, d \in Clients : conn'[r][d] = IF r = s THEN "loop" ELSE conn[r][d]
    BY <1>1, <1>5, <2>1 DEF ConnTypes
  <2>3. /\ retry' \in [Starts -> [Clients -> 0..OverflowAt]]
        /\ \A r \in Starts, d \in Clients : retry'[r][d] = IF r = s THEN 0 ELSE retry[r][d]
    BY <1>1, <1>5, <2>1 DEF ConnTypes
  <2>4. RetriesLeft'
    BY <2>1, <2>2, <2>3 DEF TypeInv, RetriesLeft
  <2>5. ConnTypes'
    BY <1>1, <1>2, <1>5, <2>1, <2>2, <2>3 DEF ConnTypes
  <2> QED
    BY <1>3, <2>4, <2>5 DEF TypeInv
<1>6. UNCHANGED <<conn, retry, owner>> \/
      (/\ conn' = [conn EXCEPT ![s] = [c \in Clients |-> "loop"]]
       /\ retry' = [retry EXCEPT ![s] = [c \in Clients |-> 0]] /\ owner' = [c \in Clients |-> s])
  BY DEF StartStep, StartRuns, StartGathers, HelpersEnd, StartEnds, dictVars
<1> QED
  BY <1>4, <1>5, <1>6

\* A caller goes on.
LEMMA AtType ==
  ASSUME CallerTypes, NEW p \in Callers, NEW where \in Places, NEW rest \in SUBSET Clients,
         At(p, where, rest)
  PROVE  /\ pc' \in [Callers -> Places] /\ left' \in [Callers -> SUBSET Clients]
         /\ \A q \in Callers : pc'[q] = (IF q = p THEN where ELSE pc[q])
                                 /\ left'[q] = (IF q = p THEN rest ELSE left[q])
  BY DEF CallerTypes, At

\* What closing the next socket leaves.
LEMMA CloseNextType ==
  ASSUME ConnTypes, CallerTypes, NEW p \in Callers, NEW keys \in SUBSET Clients, NEW cl \in Entries,
         CloseNext(p, keys, cl)
  PROVE  /\ owner' \in Entries /\ ws' \in Entries /\ sockets' \subseteq Starts \X Clients
         /\ pc' \in [Callers -> Places] /\ left' \in [Callers -> SUBSET Clients]
         /\ awaited' \in [Callers -> Starts \cup Clients \cup {None}]
<1>1. Nobody \in Entries /\ "close" \in Places /\ "status" \in Places /\ {} \in SUBSET Clients
  BY DEF Nobody, Entries, Places
<1>2. ASSUME NEW c \in keys, ws' = cl, sockets' = sockets \ {<<cl[c], c>>},
             awaited' = [awaited EXCEPT ![p] = c], At(p, "close", keys \ {c}), UNCHANGED owner
      PROVE  /\ owner' \in Entries /\ ws' \in Entries /\ sockets' \subseteq Starts \X Clients
             /\ pc' \in [Callers -> Places] /\ left' \in [Callers -> SUBSET Clients]
             /\ awaited' \in [Callers -> Starts \cup Clients \cup {None}]
  <2>1. pc' \in [Callers -> Places] /\ left' \in [Callers -> SUBSET Clients]
    BY <1>1, <1>2, AtType
  <2>2. awaited' \in [Callers -> Starts \cup Clients \cup {None}]
    BY <1>2 DEF CallerTypes
  <2> QED
    BY <1>2, <2>1, <2>2 DEF ConnTypes
<1>3. CASE /\ ws' = Nobody /\ owner' = Nobody /\ UNCHANGED <<sockets, awaited>> /\ At(p, "status", {})
  <2>1. pc' \in [Callers -> Places] /\ left' \in [Callers -> SUBSET Clients]
    BY <1>1, <1>3, AtType
  <2> QED
    BY <1>1, <1>3, <2>1 DEF ConnTypes, CallerTypes
<1> QED
  BY <1>2, <1>3 DEF CloseNext

\* What cancelling the next task leaves.
LEMMA CancelNextType ==
  ASSUME ConnTypes, CallerTypes, NEW p \in Callers, NEW keys \in SUBSET Clients, CancelNext(p, keys)
  PROVE  /\ owner' \in Entries /\ ws' \in Entries /\ sockets' \subseteq Starts \X Clients
         /\ pc' \in [Callers -> Places] /\ left' \in [Callers -> SUBSET Clients]
         /\ awaited' \in [Callers -> Starts \cup Clients \cup {None}]
         /\ conn' \in [Starts -> [Clients -> ConnStates]]
         /\ \A s \in Starts, c \in Clients : conn'[s][c] \in {conn[s][c], "ended"}
<1>1. CASE \E c \in keys :
             /\ Registered(c) /\ conn' = [conn EXCEPT ![owner[c]][c] = "ended"]
             /\ ws' = IF conn[owner[c]][c] = "closing" THEN [ws EXCEPT ![c] = None] ELSE ws
             /\ At(p, "cancel", keys \ {c}) /\ UNCHANGED <<sockets, owner, awaited>>
  <2>1. PICK c \in keys :
          /\ Registered(c) /\ conn' = [conn EXCEPT ![owner[c]][c] = "ended"]
          /\ ws' = IF conn[owner[c]][c] = "closing" THEN [ws EXCEPT ![c] = None] ELSE ws
          /\ At(p, "cancel", keys \ {c}) /\ UNCHANGED <<sockets, owner, awaited>>
    BY <1>1
  <2>2. pc' \in [Callers -> Places] /\ left' \in [Callers -> SUBSET Clients]
    BY <2>1, AtType DEF Places
  <2>3. PICK s \in Starts : s = owner[c]
    BY <2>1 DEF Registered, ConnTypes, Entries
  <2>4. /\ conn' \in [Starts -> [Clients -> ConnStates]]
        /\ \A r \in Starts, d \in Clients : conn'[r][d] = IF r = s /\ d = c THEN "ended" ELSE conn[r][d]
    BY <2>1, <2>3 DEF ConnTypes, ConnStates
  <2>5. ws' \in Entries
    BY <2>1 DEF ConnTypes, Entries
  <2> QED
    BY <2>1, <2>2, <2>4, <2>5 DEF ConnTypes, CallerTypes
<1>2. CASE CloseNext(p, {c \in Clients : ws[c] # None}, ws) /\ UNCHANGED conn
  <2>1. {c \in Clients : ws[c] # None} \in SUBSET Clients /\ ws \in Entries
    BY DEF ConnTypes
  <2>2. /\ owner' \in Entries /\ ws' \in Entries /\ sockets' \subseteq Starts \X Clients
        /\ pc' \in [Callers -> Places] /\ left' \in [Callers -> SUBSET Clients]
        /\ awaited' \in [Callers -> Starts \cup Clients \cup {None}]
    BY <1>2, <2>1, CloseNextType
  <2> QED
    BY <1>2, <2>2 DEF ConnTypes
<1> QED
  BY <1>1, <1>2 DEF CancelNext

\* A slot is taken by a new start() task.
LEMMA NewStartType ==
  ASSUME CallerTypes, NewStart
  PROVE  /\ tasks' \in Starts /\ start' \in [Starts -> StartStates]
         /\ start'[tasks'] = "new" /\ \A r \in Starts : r # tasks' => start'[r] = start[r]
<1>1. PICK s \in Starts : tasks' = s /\ start' = [start EXCEPT ![s] = "new"]
  BY DEF NewStart, Free
<1> QED
  BY <1>1 DEF CallerTypes, StartStates

\* stop_all and restart_collector begin.
LEMMA BeginTypeStep ==
  ASSUME TypeInv, NEW p \in Callers, BeginRecover(p) \/ BeginRestart(p) PROVE TypeInv'
<1>1. ConnTypes /\ CallerTypes
  BY DEF TypeInv
<1>2. /\ UNCHANGED <<tasks, start, helpers, retry, up, heard>>
      /\ op' = [op EXCEPT ![p] = "restart"] \/ op' = [op EXCEPT ![p] = "recover"]
      /\ managed' \in BOOLEAN
  BY <1>1 DEF BeginRecover, BeginRestart, CallerTypes
<1>3. op' \in [Callers -> {"restart", "recover"}]
  BY <1>1, <1>2 DEF CallerTypes
<1>4. CASE BeginStop(p)
  <2>1. {c \in Clients : owner[c] # None} \in SUBSET Clients /\ running' = FALSE
    BY <1>4 DEF BeginStop
  <2>2. /\ owner' \in Entries /\ ws' \in Entries /\ sockets' \subseteq Starts \X Clients
        /\ pc' \in [Callers -> Places] /\ left' \in [Callers -> SUBSET Clients]
        /\ awaited' \in [Callers -> Starts \cup Clients \cup {None}]
        /\ conn' \in [Starts -> [Clients -> ConnStates]]
        /\ \A s \in Starts, c \in Clients : conn'[s][c] \in {conn[s][c], "ended"}
    BY <1>1, <1>4, <2>1, CancelNextType DEF BeginStop
  <2>3. RetriesLeft'
    BY <1>2, <2>2, ConnEnded
  <2>4. ConnTypes' /\ CallerTypes'
    BY <1>1, <1>2, <1>3, <2>1, <2>2 DEF ConnTypes, CallerTypes
  <2> QED
    BY <2>3, <2>4 DEF TypeInv
<1>5. CASE At(p, "pause", {}) /\ UNCHANGED <<managed, running, conn, dictVars, awaited>>
  <2>1. pc' \in [Callers -> Places] /\ left' \in [Callers -> SUBSET Clients]
    BY <1>1, <1>5, AtType DEF Places
  <2>2. ConnTypes' /\ CallerTypes' /\ RetriesLeft'
    BY <1>1, <1>2, <1>3, <1>5, <2>1, ConnKept DEF ConnTypes, CallerTypes, dictVars
  <2> QED
    BY <2>2 DEF TypeInv
<1> QED
  BY <1>4, <1>5 DEF BeginRecover, BeginRestart

\* A step of a caller keeps the types.
LEMMA CallerTypeStep ==
  ASSUME TypeInv, NEW p \in Callers, CallerStep(p) PROVE TypeInv'
<1>1. ConnTypes /\ CallerTypes
  BY DEF TypeInv
<1>2. UNCHANGED <<running, retry, up, heard, op>>
  BY DEF CallerStep, StopCancelled, StopClosed, StopReturns, TaskEnded, Initialized, PauseEnds, taskVars
<1>3. \A q \in Callers : Returned(q) \in Places /\ AfterStop(q) \in Places
  BY DEF Returned, AfterStop, Places
<1>4. {} \in SUBSET Clients /\ {"status", "await"} \subseteq Places
  BY DEF Places
<1>5. [awaited EXCEPT ![p] = None] \in [Callers -> Starts \cup Clients \cup {None}]
  BY <1>1 DEF CallerTypes
<1>6. ASSUME ConnTypes', CallerTypes', \A s \in Starts, c \in Clients : conn'[s][c] \in {conn[s][c], "ended"}
      PROVE  TypeInv'
  BY <1>2, <1>6, ConnEnded DEF TypeInv, ConnTypes
<1>7. CASE StopCancelled(p)
  <2>1. UNCHANGED <<managed, tasks, running, start, helpers, retry, up, heard, op>>
    BY <1>7 DEF StopCancelled
  <2>2. CASE CancelNext(p, left[p])
    <3>1. left[p] \in SUBSET Clients
      BY <1>1 DEF CallerTypes
    <3>2. /\ owner' \in Entries /\ ws' \in Entries /\ sockets' \subseteq Starts \X Clients
          /\ pc' \in [Callers -> Places] /\ left' \in [Callers -> SUBSET Clients]
          /\ awaited' \in [Callers -> Starts \cup Clients \cup {None}]
          /\ conn' \in [Starts -> [Clients -> ConnStates]]
          /\ \A s \in Starts, c \in Clients : conn'[s][c] \in {conn[s][c], "ended"}
      BY <1>1, <2>2, <3>1, CancelNextType
    <3> QED
      BY <1>1, <1>6, <2>1, <3>2 DEF ConnTypes, CallerTypes
  <2>3. CASE /\ UNCHANGED <<conn, dictVars>>
             /\ Raises(p) \/ (At(p, "status", {}) /\ UNCHANGED awaited)
    <3>1. pc' \in [Callers -> Places] /\ left' \in [Callers -> SUBSET Clients]
      BY <1>1, <1>3, <1>4, <2>3, AtType DEF Raises
    <3>2. awaited' \in [Callers -> Starts \cup Clients \cup {None}]
      BY <1>1, <1>5, <2>3 DEF Raises, CallerTypes
    <3> QED
      BY <1>1, <1>6, <2>1, <2>3, <3>1, <3>2 DEF ConnTypes, CallerTypes, dictVars
  <2>4. owner = Nobody => /\ UNCHANGED <<conn, dictVars>>
                          /\ Raises(p) \/ (At(p, "status", {}) /\ UNCHANGED awaited)
    <3>1. CASE op[p] = "restart"
      BY <1>7, <3>1, Zenon DEF StopCancelled
    <3>2. CASE op[p] # "restart"
      BY <1>7, <3>2, Zenon DEF StopCancelled
    <3> QED
      BY <3>1, <3>2
  <2>5. CASE owner = Nobody
    BY <2>3, <2>4, <2>5
  <2>6. CASE owner # Nobody
    BY <1>7, <2>2, <2>6, Zenon DEF StopCancelled
  <2> QED
    BY <2>5, <2>6
<1>8. CASE StopClosed(p)
  <2>1. left[p] \in SUBSET Clients /\ [ws EXCEPT ![awaited[p]] = None] \in Entries
    BY <1>1 DEF CallerTypes, ConnTypes, Entries
  <2>2. /\ owner' \in Entries /\ ws' \in Entries /\ sockets' \subseteq Starts \X Clients
        /\ pc' \in [Callers -> Places] /\ left' \in [Callers -> SUBSET Clients]
        /\ awaited' \in [Callers -> Starts \cup Clients \cup {None}]
    BY <1>1, <1>8, <2>1, CloseNextType DEF StopClosed
  <2>3. UNCHANGED <<managed, tasks, running, start, helpers, conn, retry, up, heard, op>>
    BY <1>8 DEF StopClosed, taskVars
  <2> QED
    BY <1>1, <1>6, <2>2, <2>3 DEF ConnTypes, CallerTypes
<1>9. CASE StopReturns(p)
  <2>1. UNCHANGED <<managed, running, retry, owner, ws, sockets, up, heard, op>>
    BY <1>9 DEF StopReturns, dictVars
  <2>2. CASE /\ tasks' = None /\ awaited' = [awaited EXCEPT ![p] = None] /\ At(p, AfterStop(p), {})
             /\ UNCHANGED <<start, helpers, conn>>
    <3>1. pc' \in [Callers -> Places] /\ left' \in [Callers -> SUBSET Clients]
      BY <1>1, <1>3, <1>4, <2>2, AtType
    <3> QED
      BY <1>1, <1>5, <1>6, <2>1, <2>2, <3>1 DEF ConnTypes, CallerTypes
  <2>3. CASE /\ ~(tasks = None \/ start[tasks] = "done")
             /\ awaited' = [awaited EXCEPT ![p] = tasks] /\ At(p, "await", {}) /\ UNCHANGED tasks
             /\ start' = [start EXCEPT ![tasks] = IF @ = "new" THEN "done" ELSE "cancelled"]
             /\ IF start[tasks] = "gather"
                THEN /\ helpers' = helpers \ {tasks}
                     /\ conn' = [conn EXCEPT ![tasks] = [c \in Clients |-> "ended"]]
                ELSE UNCHANGED <<helpers, conn>>
    <3>1. pc' \in [Callers -> Places] /\ left' \in [Callers -> SUBSET Clients]
      BY <1>1, <1>4, <2>3, AtType
    <3>2. tasks \in Starts /\ awaited' \in [Callers -> Starts \cup Clients \cup {None}]
      BY <1>1, <2>3 DEF CallerTypes
    <3>3. start' \in [Starts -> StartStates] /\ helpers' \subseteq Starts
      BY <1>1, <2>3, <3>2 DEF CallerTypes, StartStates
    <3>4. /\ conn' \in [Starts -> [Clients -> ConnStates]]
          /\ \A s \in Starts, c \in Clients : conn'[s][c] \in {conn[s][c], "ended"}
      <4>1. [c \in Clients |-> "ended"] \in [Clients -> ConnStates]
        BY DEF ConnStates
      <4>2. CASE conn' = [conn EXCEPT ![tasks] = [c \in Clients |-> "ended"]]
        <5>1. \A s \in Starts : conn'[s] = IF s = tasks THEN [c \in Clients |-> "ended"] ELSE conn[s]
          BY <1>1, <4>2 DEF ConnTypes
        <5>2. conn' \in [Starts -> [Clients -> ConnStates]]
          BY <1>1, <4>1, <4>2 DEF ConnTypes
        <5> QED
          BY <5>1, <5>2
      <4>3. CASE conn' = conn
        BY <1>1, <4>3 DEF ConnTypes
      <4> QED
        BY <2>3, <4>2, <4>3
    <3> QED
      BY <1>1, <1>6, <2>1, <2>3, <3>1, <3>2, <3>3, <3>4 DEF ConnTypes, CallerTypes
  <2> QED
    BY <1>9, <2>2, <2>3 DEF StopReturns
<1>10. CASE TaskEnded(p)
  <2>1. /\ UNCHANGED <<managed, running, start, helpers, conn, retry, owner, ws, sockets, up, heard, op>>
        /\ awaited' = [awaited EXCEPT ![p] = None] /\ tasks' \in {tasks, None}
        /\ At(p, Returned(p), {}) \/ At(p, AfterStop(p), {})
    BY <1>10 DEF TaskEnded, Raises, taskVars, dictVars
  <2>2. pc' \in [Callers -> Places] /\ left' \in [Callers -> SUBSET Clients]
    BY <1>1, <1>3, <1>4, <2>1, AtType
  <2> QED
    BY <1>1, <1>5, <1>6, <2>1, <2>2 DEF ConnTypes, CallerTypes
<1>11. CASE Initialized(p) \/ PauseEnds(p)
  <2>1. /\ UNCHANGED <<running, helpers, conn, retry, owner, ws, sockets, up, heard, op, awaited>>
        /\ managed' \in {managed, TRUE} /\ At(p, Returned(p), {})
        /\ NewStart \/ UNCHANGED <<tasks, start>>
    BY <1>11 DEF Initialized, PauseEnds, dictVars
  <2>2. pc' \in [Callers -> Places] /\ left' \in [Callers -> SUBSET Clients]
    BY <1>1, <1>3, <1>4, <2>1, AtType
  <2>3. tasks' \in Starts \cup {None} /\ start' \in [Starts -> StartStates]
    BY <1>1, <2>1, NewStartType DEF CallerTypes
  <2> QED
    BY <1>1, <1>6, <2>1, <2>2, <2>3 DEF ConnTypes, CallerTypes
<1> QED
  BY <1>7, <1>8, <1>9, <1>10, <1>11 DEF CallerStep

\* Every step keeps the types.
LEMMA TypeStep == TypeInv /\ [Next]_vars => TypeInv'
<1> SUFFICES ASSUME TypeInv, [Next]_vars PROVE TypeInv'
  OBVIOUS
<1>1. ConnTypes /\ CallerTypes
  BY DEF TypeInv
<1>2. CASE ExchangeChanges \/ UNCHANGED vars
  <2>1. /\ UNCHANGED <<managed, tasks, running, start, helpers, conn, retry, owner, ws, sockets, heard>>
        /\ UNCHANGED <<pc, op, left, awaited>> /\ up' \in BOOLEAN
    BY <1>1, <1>2 DEF ExchangeChanges, vars, taskVars, dictVars, callerVars, CallerTypes
  <2>2. ConnTypes' /\ CallerTypes' /\ RetriesLeft'
    BY <1>1, <2>1, ConnKept DEF ConnTypes, CallerTypes
  <2> QED
    BY <2>2 DEF TypeInv
<1> QED
  BY <1>2, StartTypeStep, ConnTypeStep, BeginTypeStep, CallerTypeStep DEF Next

\* The initial state has the types.
LEMMA TypeInit == Init => TypeInv
<1> SUFFICES ASSUME Init PROVE TypeInv
  OBVIOUS
<1>1. ConnTypes
  <2>1. Nobody \in Entries /\ 0 \in 0..OverflowAt
    BY BoundAssumption DEF Nobody, Entries
  <2> QED
    BY <2>1 DEF Init, ConnTypes, ConnStates
<1>2. CallerTypes
  BY DEF Init, CallerTypes, StartStates, Places
<1>3. RetriesLeft
  BY DEF Init, RetriesLeft
<1> QED
  BY <1>1, <1>2, <1>3 DEF TypeInv

\* The types hold, also when callers overlap: no retry count passes the overflow, and
\* every entry of the dictionaries is that of a start() task.
THEOREM TypeCorrect == Spec => []TypeOK
<1>1. Init => TypeInv /\ overlaps \in Nat
  BY TypeInit DEF Init
<1>2. TypeInv /\ overlaps \in Nat /\ [Next]_vars => (TypeInv /\ overlaps \in Nat)'
  BY TypeStep, Counted
<1> QED
  BY <1>1, <1>2, TypesAre, PTL DEF Spec

-----------------------------------------------------------------------------
(* Until two callers overlap.                                              *)

\* No connection task is left and no socket is open.
Quiet == sockets = {} /\ \A s \in Starts, c \in Clients : ~Live(s, c)

\* A live connection task is the one registered for its client, and no other start()
\* has a socket of that client.
Owned ==
  \A s \in Starts, c \in Clients :
    Live(s, c) => owner[c] = s /\ \A r \in Starts : <<r, c>> \in sockets => r = s

\* Every open socket is registered.
Reg == \A s \in Starts, c \in Clients : <<s, c>> \in sockets => ws[c] = s

\* A task that awaits the close() of its cleanup has no socket of its client left.
Closing ==
  \A s \in Starts, c \in Clients :
    conn[s][c] = "closing" => \A r \in Starts : <<r, c>> \notin sockets

\* A start() task that has not begun is that of the manager, and nothing else runs.
NewAlone == \A s \in Starts : start[s] = "new" => s = tasks /\ Quiet

\* How far a caller that is in stop() has come.
Cancelling(p) ==
  pc[p] = "cancel" =>
    owner # Nobody /\ \A s \in Starts, c \in Clients : Live(s, c) => c \in left[p]
ClosingAll(p) ==
  pc[p] = "close" => \A s \in Starts, c \in Clients :
    ~Live(s, c) /\ (<<s, c>> \in sockets => c \in left[p] /\ c # awaited[p])

\* What a caller finds that has come out of stop().
Stopped(p) ==
  /\ pc[p] \in {"status", "await", "init", "pause"} => Quiet
  /\ pc[p] = "await" => tasks # None
  /\ pc[p] = "init" => op[p] = "restart"

\* Where a caller is, and what it may count on there.
Stage(p) == Cancelling(p) /\ ClosingAll(p) /\ Stopped(p)

\* Nobody but p is at work.
Alone(p) == \A q \in Callers : q # p => Resting(q)

\* One caller is at work at most, it has found every start() begun, and only a recovery
\* finds the manager stopped.
OneCaller ==
  /\ \A p \in Callers : Resting(p) \/ (Alone(p) /\ Stage(p) /\ \A s \in Starts : start[s] # "new")
  /\ managed \/ \E p \in Callers : ~Resting(p) /\ op[p] = "recover"

\* What is inductive together with the types.
SerInv == Owned /\ Reg /\ Closing /\ NewAlone /\ OneCaller

\* A step that touches nothing but flags and start() tasks, and creates none.
LEMMA SerKept ==
  ASSUME SerInv, UNCHANGED <<managed, conn, owner, ws, sockets, tasks, pc, op, left, awaited>>,
         \A s \in Starts : start'[s] = "new" => start[s] = "new"
  PROVE  SerInv'
<1>1. Quiet' = Quiet /\ (\A p \in Callers : Stage(p)' = Stage(p) /\ Alone(p)' = Alone(p) /\ Resting(p)' = Resting(p))
  BY DEF Quiet, Live, Stage, Cancelling, ClosingAll, Stopped, Alone, Resting
<1>2. Owned' /\ Reg' /\ Closing'
  BY DEF SerInv, Owned, Reg, Closing, Live
<1>3. NewAlone'
  BY <1>1 DEF SerInv, NewAlone
<1>4. OneCaller'
  BY <1>1 DEF SerInv, OneCaller
<1> QED
  BY <1>2, <1>3, <1>4 DEF SerInv

\* What a step of the connection task of s and c leaves alone, and what it makes of the
\* sockets of c.
Touches(s, c) ==
  /\ \A r \in Starts, d \in Clients : r # s \/ d # c => conn'[r][d] = conn[r][d]
  /\ \A d \in Clients : d # c =>
       /\ ws'[d] = ws[d]
       /\ \A r \in Starts : <<r, d>> \in sockets' <=> <<r, d>> \in sockets
  /\ \A r \in Starts : <<r, c>> \in sockets' => r = s /\ ws'[c] = s /\ conn'[s][c] # "closing"

\* A connection task enters a state other than closing.
LEMMA TaskMoves ==
  ASSUME TypeInv, NEW s \in Starts, NEW c \in Clients, NEW v, v # "closing",
         conn' = [conn EXCEPT ![s][c] = v],
         \A d \in Clients : d # c =>
           ws'[d] = ws[d] /\ \A r \in Starts : <<r, d>> \in sockets' <=> <<r, d>> \in sockets,
         \A r \in Starts : <<r, c>> \in sockets' => r = s /\ ws'[c] = s
  PROVE  Touches(s, c)
<1>1. \A r \in Starts, d \in Clients : conn'[r][d] = IF r = s /\ d = c THEN v ELSE conn[r][d]
  BY DEF TypeInv, ConnTypes
<1> QED
  BY <1>1 DEF Touches

\* A connection task cleans up: it closes the socket of its client.
LEMMA CleanupTouches ==
  ASSUME TypeInv, NEW s \in Starts, NEW c \in Clients, NEW cl, NEW socks, Cleanup(s, c, cl, socks),
         \A d \in Clients : d # c =>
           cl[d] = ws[d] /\ \A r \in Starts : <<r, d>> \in socks <=> <<r, d>> \in sockets,
         \A r \in Starts : <<r, c>> \in socks => cl[c] = r
  PROVE  Touches(s, c)
<1>1. PICK v : conn' = [conn EXCEPT ![s][c] = v]
  BY DEF Cleanup
<1>2. \A r \in Starts, d \in Clients : r # s \/ d # c => conn'[r][d] = conn[r][d]
  BY <1>1 DEF TypeInv, ConnTypes
<1>3. ws' = cl /\ sockets' = socks \ {<<cl[c], c>>}
  BY DEF Cleanup
<1>4. \A r \in Starts : <<r, c>> \notin sockets'
  BY <1>3
<1> QED
  BY <1>2, <1>3, <1>4 DEF Touches

\* What a step of a connection task does.
LEMMA ConnTouches ==
  ASSUME TypeInv, SerInv, NEW s \in Starts, NEW c \in Clients,
         ConnStep(s, c) \/ Dropped(s, c) \/ Message(s, c)
  PROVE  Live(s, c) /\ Touches(s, c)
<1>1. Live(s, c)
  BY DEF Live, ConnStep, LoopTop, Connected, ConnectFails, Closed, Dropped, Message
<1>2. \A r \in Starts : <<r, c>> \in sockets => r = s /\ ws[c] = s
  BY <1>1 DEF SerInv, Owned, Reg
<1>3. ConnTypes
  BY DEF TypeInv
<1>4. \A d \in Clients : /\ [ws EXCEPT ![c] = s][d] = IF d = c THEN s ELSE ws[d]
                         /\ [ws EXCEPT ![c] = None][d] = IF d = c THEN None ELSE ws[d]
  BY <1>3 DEF ConnTypes, Entries
<1> SUFFICES Touches(s, c)
  BY <1>1
<1>5. CASE Cleanup(s, c, ws, sockets)
  BY <1>2, <1>5, CleanupTouches
<1>6. CASE LoopTop(s, c)
  <2>1. CASE conn' = [conn EXCEPT ![s][c] = "connecting"] /\ UNCHANGED <<ws, sockets>>
    BY <1>2, <2>1, TaskMoves
  <2> QED
    BY <1>5, <1>6, <2>1 DEF LoopTop
<1>7. CASE Connected(s, c)
  <2>1. CASE /\ conn' = [conn EXCEPT ![s][c] = "listening"]
             /\ ws' = [ws EXCEPT ![c] = s] /\ sockets' = sockets \cup {<<s, c>>}
    BY <1>2, <1>4, <2>1, TaskMoves
  <2>2. CASE Cleanup(s, c, [ws EXCEPT ![c] = s], sockets \cup {<<s, c>>})
    <3>1. PICK cl, socks : cl = [ws EXCEPT ![c] = s] /\ socks = sockets \cup {<<s, c>>}
      OBVIOUS
    <3>2. Cleanup(s, c, cl, socks)
      BY <2>2, <3>1, Zenon
    <3>3. /\ \A d \in Clients : d # c =>
               cl[d] = ws[d] /\ \A r \in Starts : <<r, d>> \in socks <=> <<r, d>> \in sockets
          /\ \A r \in Starts : <<r, c>> \in socks => cl[c] = r
      BY <1>2, <1>4, <3>1
    <3> QED
      BY <3>2, <3>3, CleanupTouches
  <2> QED
    BY <1>7, <2>1, <2>2 DEF Connected
<1>8. ASSUME NEW socks, Failed(s, c, socks), socks = sockets \/ socks = sockets \ {<<s, c>>}
      PROVE  Touches(s, c)
  <2>1. CASE Cleanup(s, c, ws, socks)
    BY <1>2, <1>8, <2>1, CleanupTouches
  <2>2. CASE Cleanup(s, c, ws, sockets)
    BY <1>5, <2>2
  <2>3. CASE /\ sockets' = socks /\ UNCHANGED ws
             /\ conn' = [conn EXCEPT ![s][c] = IF retry[s][c] + 1 < OverflowAt THEN "loop" ELSE "ended"]
    <3>1. PICK v : v = IF retry[s][c] + 1 < OverflowAt THEN "loop" ELSE "ended"
      OBVIOUS
    <3>2. conn' = [conn EXCEPT ![s][c] = v]
      BY <2>3, <3>1, Zenon
    <3> QED
      BY <1>2, <1>8, <2>3, <3>1, <3>2, TaskMoves
  <2> QED
    BY <1>8, <2>1, <2>2, <2>3 DEF Failed
<1>9. CASE ConnectFails(s, c)
  BY <1>8, <1>9 DEF ConnectFails
<1>10. CASE Dropped(s, c)
  BY <1>8, <1>10 DEF Dropped
<1>11. CASE Message(s, c)
  <2>1. CASE UNCHANGED <<conn, ws, sockets>>
    BY <1>2, <1>11, <2>1 DEF Touches, Message
  <2> QED
    BY <1>5, <1>11, <2>1 DEF Message
<1>12. CASE Closed(s, c)
  <2>1. \A r \in Starts : <<r, c>> \notin sockets
    BY <1>12 DEF Closed, SerInv, Closing
  <2> QED
    BY <1>4, <1>12, <2>1, TaskMoves DEF Closed
<1> QED
  BY <1>6, <1>7, <1>9, <1>10, <1>11, <1>12 DEF ConnStep

\* A step of a connection task keeps the invariant.
LEMMA ConnSerStep ==
  ASSUME TypeInv, SerInv, NEW s \in Starts, NEW c \in Clients,
         ConnStep(s, c) \/ Dropped(s, c) \/ Message(s, c)
  PROVE  SerInv'
<1>1. Live(s, c) /\ Touches(s, c)
  BY ConnTouches
<1>2. UNCHANGED <<managed, tasks, start, pc, op, left, awaited, owner>>
  BY DEF ConnStep, LoopTop, Connected, ConnectFails, Closed, Dropped, Message, Failed, Others, callerVars
<1>3. \A r \in Starts, d \in Clients : Live(r, d)' => Live(r, d)
  BY <1>1 DEF Touches, Live
<1>4. Owned' /\ Reg' /\ Closing'
  <2>1. Owned'
    BY <1>1, <1>2, <1>3 DEF SerInv, Owned, Touches
  <2>2. Reg'
    BY <1>1 DEF SerInv, Reg, Touches
  <2>3. Closing'
    BY <1>1 DEF SerInv, Owned, Closing, Touches, Live
  <2> QED
    BY <2>1, <2>2, <2>3
<1>5. NewAlone'
  BY <1>1, <1>2 DEF SerInv, NewAlone, Quiet
<1>6. \A p \in Callers : Alone(p)' = Alone(p) /\ Resting(p)' = Resting(p)
  BY <1>2 DEF Alone, Resting
<1>7. ASSUME NEW p \in Callers, ~Resting(p) PROVE Stage(p)'
  <2>1. Stage(p)
    BY <1>7 DEF SerInv, OneCaller
  <2>2. pc[p] = "cancel"
    BY <1>1, <1>7, <2>1 DEF Stage, ClosingAll, Stopped, Quiet, Resting, TypeInv, CallerTypes, Places
  <2> QED
    BY <1>2, <1>3, <2>1, <2>2 DEF Stage, Cancelling, ClosingAll, Stopped
<1>8. OneCaller'
  BY <1>2, <1>6, <1>7 DEF SerInv, OneCaller
<1> QED
  BY <1>4, <1>5, <1>8 DEF SerInv

-----------------------------------------------------------------------------
\* A start() task that begins finds nothing that runs.
LEMMA StartRunsAlone ==
  ASSUME TypeInv, SerInv, NEW s \in Starts, StartRuns(s) PROVE SerInv'
<1>1. ConnTypes /\ CallerTypes
  BY DEF TypeInv
<1>2. /\ start[s] = "new" /\ s = tasks /\ Quiet
      /\ UNCHANGED <<managed, tasks, ws, sockets, up, heard, pc, op, left, awaited>>
  BY DEF StartRuns, SerInv, NewAlone, callerVars
<1>3. \A p \in Callers : Resting(p)
  BY <1>2 DEF SerInv, OneCaller
<1>4. CASE start' = [start EXCEPT ![s] = "done"] /\ UNCHANGED <<conn, owner>>
  <2>1. \A r \in Starts : start'[r] = "new" => start[r] = "new"
    BY <1>1, <1>4 DEF CallerTypes
  <2> QED
    BY <1>2, <1>4, <2>1, SerKept
<1>5. CASE /\ start' = [start EXCEPT ![s] = "starting"] /\ owner' = [c \in Clients |-> s]
           /\ conn' = [conn EXCEPT ![s] = [c \in Clients |-> "loop"]]
  <2>1. \A r \in Starts, c \in Clients : conn'[r][c] = IF r = s THEN "loop" ELSE conn[r][c]
    BY <1>1, <1>5 DEF ConnTypes
  <2>2. \A r \in Starts, c \in Clients : Live(r, c)' => r = s
    BY <1>2, <2>1 DEF Quiet, Live
  <2>3. sockets' = {} /\ Owned' /\ Reg' /\ Closing'
    BY <1>2, <1>5, <2>2 DEF Quiet, Owned, Reg, Closing
  <2>4. \A r \in Starts : start'[r] # "new"
    BY <1>1, <1>2, <1>5 DEF CallerTypes, SerInv, NewAlone
  <2>5. NewAlone' /\ OneCaller'
    BY <1>2, <1>3, <2>4 DEF SerInv, NewAlone, OneCaller, Resting
  <2> QED
    BY <2>3, <2>5 DEF SerInv
<1> QED
  BY <1>4, <1>5 DEF StartRuns

\* A step of a start() task keeps the invariant.
LEMMA StartSerStep ==
  ASSUME TypeInv, SerInv, NEW s \in Starts, StartStep(s) PROVE SerInv'
<1>1. CASE StartGathers(s) \/ HelpersEnd(s) \/ StartEnds(s)
  <2>1. UNCHANGED <<managed, conn, owner, ws, sockets, tasks, pc, op, left, awaited>>
    BY <1>1 DEF StartGathers, HelpersEnd, StartEnds, dictVars, callerVars
  <2>2. start \in [Starts -> StartStates]
    BY DEF TypeInv, CallerTypes
  <2>3. \A r \in Starts : start'[r] = "new" => start[r] = "new"
    BY <1>1, <2>2 DEF StartGathers, HelpersEnd, StartEnds
  <2> QED
    BY <2>1, <2>3, SerKept
<1> QED
  BY <1>1, StartRunsAlone DEF StartStep

-----------------------------------------------------------------------------
\* A step of the only caller at work, or of one that begins when nobody is.
LEMMA CallerSer ==
  ASSUME NEW p \in Callers, Alone(p), \A q \in Callers : q # p => pc'[q] = pc[q],
         Owned', Reg', Closing', NewAlone', Stage(p)',
         Resting(p)' \/ (\A s \in Starts : start'[s] # "new"),
         managed' \/ (~Resting(p)' /\ op'[p] = "recover")
  PROVE  SerInv'
<1>1. \A q \in Callers : q # p => Resting(q)'
  BY DEF Alone, Resting
<1>2. OneCaller'
  BY <1>1 DEF OneCaller, Alone
<1> QED
  BY <1>2 DEF SerInv

\* Closing the next socket: the sockets that are open are among those of the keys left.
LEMMA CloseNextStage ==
  ASSUME TypeInv, NEW p \in Callers, NEW keys \in SUBSET Clients, NEW cl \in Entries,
         CloseNext(p, keys, cl), UNCHANGED conn, Reg,
         \A s \in Starts, c \in Clients :
           ~Live(s, c) /\ (<<s, c>> \in sockets => c \in keys /\ cl[c] = s)
  PROVE  /\ Owned' /\ Reg' /\ Closing' /\ Stage(p)' /\ pc'[p] \in {"close", "status"}
         /\ \A q \in Callers : q # p => pc'[q] = pc[q]
<1>1. ConnTypes /\ CallerTypes
  BY DEF TypeInv
<1>2. \A s \in Starts, c \in Clients : ~Live(s, c)' /\ conn'[s][c] # "closing"
  BY DEF Live
<1>3. Owned' /\ Closing'
  BY <1>2 DEF Owned, Closing
<1>4. CASE \E c \in keys :
             /\ cl[c] # None /\ ws' = cl /\ sockets' = sockets \ {<<cl[c], c>>}
             /\ awaited' = [awaited EXCEPT ![p] = c] /\ At(p, "close", keys \ {c})
             /\ UNCHANGED owner
  <2>1. PICK c \in keys :
          /\ cl[c] # None /\ ws' = cl /\ sockets' = sockets \ {<<cl[c], c>>}
          /\ awaited' = [awaited EXCEPT ![p] = c] /\ At(p, "close", keys \ {c})
    BY <1>4
  <2>2. /\ pc'[p] = "close" /\ left'[p] = keys \ {c} /\ awaited'[p] = c
        /\ \A q \in Callers : q # p => pc'[q] = pc[q]
    BY <1>1, <2>1 DEF CallerTypes, At
  <2>3. \A s \in Starts, d \in Clients : <<s, d>> \in sockets' => <<s, d>> \in sockets /\ d # c
    BY <2>1
  <2>4. Reg'
    BY <2>1, <2>3 DEF Reg
  <2>5. Stage(p)'
    BY <1>2, <2>2, <2>3 DEF Stage, Cancelling, ClosingAll, Stopped
  <2> QED
    BY <1>3, <2>2, <2>4, <2>5
<1>5. CASE /\ \A c \in keys : cl[c] = None
           /\ ws' = Nobody /\ owner' = Nobody /\ UNCHANGED <<sockets, awaited>> /\ At(p, "status", {})
  <2>1. pc'[p] = "status" /\ \A q \in Callers : q # p => pc'[q] = pc[q]
    BY <1>1, <1>5 DEF CallerTypes, At
  <2>2. \A s \in Starts, c \in Clients : <<s, c>> \notin sockets
    BY <1>5, StartsAssumption
  <2>3. sockets = {}
    BY <1>1, <2>2 DEF ConnTypes
  <2>4. Quiet' /\ Reg'
    BY <1>2, <1>5, <2>3 DEF Quiet, Reg
  <2>5. Stage(p)'
    BY <2>1, <2>4 DEF Stage, Cancelling, ClosingAll, Stopped
  <2> QED
    BY <1>3, <2>1, <2>4, <2>5
<1> QED
  BY <1>4, <1>5 DEF CloseNext

\* Cancelling the next task: the tasks that are live are among those of the keys left.
LEMMA CancelNextStage ==
  ASSUME TypeInv, SerInv, NEW p \in Callers, NEW keys \in SUBSET Clients, CancelNext(p, keys),
         \A s \in Starts, c \in Clients : Live(s, c) => c \in keys,
         keys = {c \in Clients : owner[c] # None} \/ owner # Nobody
  PROVE  /\ Owned' /\ Reg' /\ Closing' /\ Stage(p)' /\ pc'[p] \in {"cancel", "close", "status"}
         /\ \A q \in Callers : q # p => pc'[q] = pc[q]
<1>1. ConnTypes /\ CallerTypes
  BY DEF TypeInv
<1>2. CASE \E c \in keys :
             /\ Registered(c) /\ conn' = [conn EXCEPT ![owner[c]][c] = "ended"]
             /\ ws' = IF conn[owner[c]][c] = "closing" THEN [ws EXCEPT ![c] = None] ELSE ws
             /\ At(p, "cancel", keys \ {c}) /\ UNCHANGED <<sockets, owner, awaited>>
  <2>1. PICK c \in keys :
          /\ Registered(c) /\ conn' = [conn EXCEPT ![owner[c]][c] = "ended"]
          /\ ws' = IF conn[owner[c]][c] = "closing" THEN [ws EXCEPT ![c] = None] ELSE ws
          /\ At(p, "cancel", keys \ {c}) /\ UNCHANGED <<sockets, owner, awaited>>
    BY <1>2
  <2>2. PICK s \in Starts : s = owner[c]
    BY <1>1, <2>1 DEF Registered, ConnTypes, Entries
  <2>3. Live(s, c) /\ owner # Nobody
    BY <2>1, <2>2, StartsAssumption DEF Registered, Nobody
  <2>4. \A r \in Starts, d \in Clients : conn'[r][d] = IF r = s /\ d = c THEN "ended" ELSE conn[r][d]
    BY <1>1, <2>1, <2>2 DEF ConnTypes
  <2>5. \A r \in Starts, d \in Clients : Live(r, d)' => Live(r, d) /\ d # c
    BY <2>1, <2>2, <2>4 DEF Live, SerInv, Owned
  <2>6. \A d \in Clients : ws'[d] = ws[d] \/ (d = c /\ conn[s][c] = "closing")
    BY <1>1, <2>1, <2>2 DEF ConnTypes, Entries
  <2>7. Owned'
    BY <2>1, <2>5 DEF SerInv, Owned
  <2>8. Reg' /\ Closing'
    BY <2>1, <2>4, <2>6 DEF SerInv, Reg, Closing
  <2>9. /\ pc'[p] = "cancel" /\ left'[p] = keys \ {c}
        /\ \A q \in Callers : q # p => pc'[q] = pc[q]
    BY <1>1, <2>1 DEF CallerTypes, At
  <2>10. Stage(p)'
    BY <2>1, <2>3, <2>5, <2>9 DEF Stage, Cancelling, ClosingAll, Stopped, Nobody
  <2> QED
    BY <2>7, <2>8, <2>9, <2>10
<1>3. CASE /\ \A c \in keys : ~Registered(c)
           /\ CloseNext(p, {c \in Clients : ws[c] # None}, ws) /\ UNCHANGED conn
  <2>1. \A s \in Starts, c \in Clients : ~Live(s, c)
    BY <1>3, StartsAssumption DEF Registered, SerInv, Owned
  <2>2. {c \in Clients : ws[c] # None} \in SUBSET Clients /\ ws \in Entries /\ Reg
    BY <1>1 DEF ConnTypes, SerInv
  <2>3. \A s \in Starts, c \in Clients :
          ~Live(s, c) /\ (<<s, c>> \in sockets => c \in {d \in Clients : ws[d] # None} /\ ws[c] = s)
    BY <2>1, StartsAssumption DEF SerInv, Reg
  <2> QED
    BY <1>3, <2>2, <2>3, CloseNextStage
<1> QED
  BY <1>2, <1>3 DEF CancelNext

\* stop_all and restart_collector begin and count no overlap: nobody else is at work.
LEMMA BeginSerStep ==
  ASSUME TypeInv, SerInv, overlaps \in Nat, overlaps' = 0,
         NEW p \in Callers, BeginRecover(p) \/ BeginRestart(p)
  PROVE  SerInv'
<1>1. ConnTypes /\ CallerTypes
  BY DEF TypeInv
<1>2. (\A q \in Callers : Resting(q)) /\ (\A s \in Starts : start[s] # "new") /\ UNCHANGED start
  BY DEF BeginRecover, BeginRestart, CountsOverlap, MayBegin
<1>3. managed
  BY <1>2 DEF SerInv, OneCaller
<1>4. BeginStop(p) /\ (managed' \/ op'[p] = "recover")
  <2>1. CASE BeginRestart(p)
    BY <1>3, <2>1 DEF BeginRestart
  <2>2. CASE BeginRecover(p)
    <3>1. BeginStop(p) /\ op' = [op EXCEPT ![p] = "recover"]
      BY <1>3, <2>2 DEF BeginRecover
    <3> QED
      BY <1>1, <3>1 DEF CallerTypes
  <2> QED
    BY <2>1, <2>2
<1>5. \A s \in Starts, c \in Clients : Live(s, c) => c \in {d \in Clients : owner[d] # None}
  BY StartsAssumption DEF SerInv, Owned
<1>6. /\ Owned' /\ Reg' /\ Closing' /\ Stage(p)' /\ pc'[p] \in {"cancel", "close", "status"}
      /\ \A q \in Callers : q # p => pc'[q] = pc[q]
  <2>1. PICK keys \in SUBSET Clients : keys = {c \in Clients : owner[c] # None}
    OBVIOUS
  <2>2. CancelNext(p, keys)
    BY <1>4, <2>1, Zenon DEF BeginStop
  <2>3. \A s \in Starts, c \in Clients : Live(s, c) => c \in keys
    BY <1>5, <2>1
  <2> QED
    BY <2>1, <2>2, <2>3, CancelNextStage
<1>7. NewAlone' /\ ~Resting(p)' /\ Alone(p)
  BY <1>2, <1>6 DEF NewAlone, Resting, Alone
<1> QED
  BY <1>2, <1>4, <1>6, <1>7, CallerSer

\* A caller at work is alone, and knows where it is.
LEMMA AtWork ==
  ASSUME SerInv, NEW p \in Callers, ~Resting(p)
  PROVE  /\ Alone(p) /\ Stage(p) /\ (\A s \in Starts : start[s] # "new")
         /\ managed \/ op[p] = "recover"
  BY DEF SerInv, OneCaller, Alone

\* stop() goes on.
LEMMA StopSerStep ==
  ASSUME TypeInv, SerInv, NEW p \in Callers, StopCancelled(p) \/ StopClosed(p) PROVE SerInv'
<1>1. ConnTypes /\ CallerTypes
  BY DEF TypeInv
<1>2. UNCHANGED <<managed, tasks, start, op>> /\ ~Resting(p)
  BY DEF StopCancelled, StopClosed, Resting, taskVars
<1>3. Alone(p) /\ Stage(p) /\ (\A s \in Starts : start[s] # "new") /\ (managed \/ op[p] = "recover")
  BY <1>2, AtWork
<1>4. left[p] \in SUBSET Clients
  BY <1>1 DEF CallerTypes
<1>5. /\ Owned' /\ Reg' /\ Closing' /\ Stage(p)' /\ pc'[p] \in {"cancel", "close", "status"}
      /\ \A q \in Callers : q # p => pc'[q] = pc[q]
  <2>1. CASE StopCancelled(p)
    <3>1. owner # Nobody /\ \A s \in Starts, c \in Clients : Live(s, c) => c \in left[p]
      BY <1>3, <2>1 DEF StopCancelled, Stage, Cancelling
    <3>2. CancelNext(p, left[p])
      BY <2>1, <3>1 DEF StopCancelled
    <3> QED
      BY <1>4, <3>1, <3>2, CancelNextStage
  <2>2. CASE StopClosed(p)
    <3>1. PICK cl \in Entries : cl = [ws EXCEPT ![awaited[p]] = None]
      BY <1>1 DEF ConnTypes, Entries
    <3>2. CloseNext(p, left[p], cl) /\ UNCHANGED conn /\ Reg
      BY <2>2, <3>1 DEF StopClosed, taskVars, SerInv
    <3>3. \A s \in Starts, c \in Clients :
            ~Live(s, c) /\ (<<s, c>> \in sockets => c \in left[p] /\ c # awaited[p])
      BY <1>3, <2>2 DEF StopClosed, Stage, ClosingAll
    <3>4. \A c \in Clients : c # awaited[p] => cl[c] = ws[c]
      BY <1>1, <3>1 DEF ConnTypes, Entries
    <3>5. \A s \in Starts, c \in Clients :
            ~Live(s, c) /\ (<<s, c>> \in sockets => c \in left[p] /\ cl[c] = s)
      BY <3>2, <3>3, <3>4 DEF Reg
    <3> QED
      BY <1>4, <3>2, <3>5, CloseNextStage
  <2> QED
    BY <2>1, <2>2
<1>6. NewAlone' /\ ~Resting(p)'
  BY <1>2, <1>3, <1>5 DEF NewAlone, Resting
<1> QED
  BY <1>2, <1>3, <1>5, <1>6, CallerSer

\* What stop() has found stopped stays so.
LEMMA QuietKept ==
  ASSUME Quiet, Reg, UNCHANGED <<owner, ws, sockets>>,
         \A s \in Starts, c \in Clients : conn'[s][c] \in {conn[s][c], "ended"}
  PROVE  Quiet' /\ Owned' /\ Reg' /\ Closing'
<1>1. Quiet'
  BY DEF Quiet, Live
<1> QED
  BY <1>1 DEF Quiet, Owned, Reg, Closing

\* stop() has returned, or the start() task that was cancelled has ended.
LEMMA AwaitSerStep ==
  ASSUME TypeInv, SerInv, NEW p \in Callers, StopReturns(p) \/ TaskEnded(p) PROVE SerInv'
<1>1. ConnTypes /\ CallerTypes
  BY DEF TypeInv
<1>2. /\ UNCHANGED <<managed, owner, ws, sockets, op>> /\ ~Resting(p)
      /\ pc[p] \in {"status", "await"}
  BY DEF StopReturns, TaskEnded, Resting, taskVars, dictVars
<1>3. Alone(p) /\ Stage(p) /\ (\A s \in Starts : start[s] # "new") /\ (managed \/ op[p] = "recover")
  BY <1>2, AtWork
<1>4. Quiet /\ Reg
  BY <1>2, <1>3 DEF Stage, Stopped, SerInv
<1>5. ASSUME NEW where, At(p, where, {}),
             where = AfterStop(p) \/ (where = "await" /\ tasks' # None),
             \A s \in Starts, c \in Clients : conn'[s][c] \in {conn[s][c], "ended"},
             \A s \in Starts : start'[s] # "new"
      PROVE  SerInv'
  <2>1. Quiet' /\ Owned' /\ Reg' /\ Closing'
    BY <1>2, <1>4, <1>5, QuietKept
  <2>2. pc'[p] = where /\ \A q \in Callers : q # p => pc'[q] = pc[q]
    BY <1>1, <1>5 DEF CallerTypes, At
  <2>3. where \in {"init", "pause", "await"} /\ (where = "init" => op[p] = "restart")
    BY <1>5 DEF AfterStop
  <2>4. Stage(p)'
    <3>1. op'[p] = op[p]
      BY <1>2
    <3>2. where = "await" => tasks' # None
      BY <1>5 DEF AfterStop
    <3> QED
      BY <2>1, <2>2, <2>3, <3>1, <3>2 DEF Stage, Cancelling, ClosingAll, Stopped
  <2>5. NewAlone' /\ ~Resting(p)'
    BY <1>5, <2>2, <2>3 DEF NewAlone, Resting
  <2> QED
    BY <1>2, <1>3, <1>5, <2>1, <2>2, <2>4, <2>5, CallerSer
<1>6. CASE StopReturns(p)
  <2>1. CASE tasks = None \/ start[tasks] = "done"
    BY <1>3, <1>5, <1>6, <2>1 DEF StopReturns
  <2>2. CASE ~(tasks = None \/ start[tasks] = "done")
    <3>1. tasks \in Starts /\ At(p, "await", {}) /\ tasks' # None
      BY <1>1, <1>6, <2>2 DEF StopReturns, CallerTypes
    <3>2. \A s \in Starts, c \in Clients : conn'[s][c] \in {conn[s][c], "ended"}
      <4>1. CASE conn' = [conn EXCEPT ![tasks] = [c \in Clients |-> "ended"]]
        <5>1. \A s \in Starts : conn'[s] = IF s = tasks THEN [c \in Clients |-> "ended"] ELSE conn[s]
          BY <1>1, <4>1 DEF ConnTypes
        <5> QED
          BY <5>1
      <4> QED
        BY <1>6, <2>2, <4>1 DEF StopReturns
    <3>3. \A s \in Starts : start'[s] # "new"
      BY <1>1, <1>3, <1>6, <2>2, <3>1 DEF StopReturns, CallerTypes
    <3> QED
      BY <1>5, <3>1, <3>2, <3>3
  <2> QED
    BY <2>1, <2>2
<1>7. CASE TaskEnded(p)
  <2>1. tasks # None
    BY <1>3, <1>7 DEF TaskEnded, Stage, Stopped
  <2>2. At(p, AfterStop(p), {}) /\ UNCHANGED <<conn, start>>
    BY <1>7, <2>1 DEF TaskEnded, taskVars
  <2> QED
    BY <1>3, <1>5, <2>2
<1> QED
  BY <1>6, <1>7

\* initialize() goes on, or the pause of a recovery ends: a start() task is made.
LEMMA RestartSerStep ==
  ASSUME TypeInv, SerInv, NEW p \in Callers, Initialized(p) \/ PauseEnds(p) PROVE SerInv'
<1>1. ConnTypes /\ CallerTypes
  BY DEF TypeInv
<1>2. /\ UNCHANGED <<conn, owner, ws, sockets>> /\ ~Resting(p) /\ pc[p] \in {"init", "pause"}
      /\ At(p, Returned(p), {}) /\ (NewStart \/ UNCHANGED <<tasks, start>>)
      /\ managed' = TRUE \/ (pc[p] = "init" /\ managed' = managed)
  BY DEF Initialized, PauseEnds, Resting, dictVars
<1>3. Alone(p) /\ Stage(p) /\ (\A s \in Starts : start[s] # "new") /\ (managed \/ op[p] = "recover")
  BY <1>2, AtWork
<1>4. Quiet /\ Reg /\ managed'
  BY <1>2, <1>3 DEF Stage, Stopped, SerInv
<1>5. Quiet' /\ Owned' /\ Reg' /\ Closing'
  BY <1>2, <1>4, QuietKept
<1>6. pc'[p] = Returned(p) /\ \A q \in Callers : q # p => pc'[q] = pc[q]
  BY <1>1, <1>2 DEF CallerTypes, At
<1>7. Resting(p)' /\ Stage(p)'
  BY <1>6 DEF Returned, Resting, Stage, Cancelling, ClosingAll, Stopped
<1>8. NewAlone'
  BY <1>1, <1>2, <1>3, <1>5, NewStartType DEF NewAlone
<1> QED
  BY <1>3, <1>4, <1>5, <1>6, <1>7, <1>8, CallerSer

-----------------------------------------------------------------------------
\* The initial state.
LEMMA SerInit == Init => SerInv
<1> SUFFICES ASSUME Init PROVE SerInv
  OBVIOUS
<1>1. Quiet /\ \A p \in Callers : Resting(p)
  BY DEF Init, Quiet, Live, Resting
<1>2. Owned /\ Reg /\ Closing
  BY <1>1 DEF Quiet, Owned, Reg, Closing, Init
<1>3. NewAlone /\ OneCaller
  BY <1>1 DEF NewAlone, OneCaller, Init
<1> QED
  BY <1>2, <1>3 DEF SerInv

\* Every step keeps it that leaves the callers without an overlap.
LEMMA SerStep ==
  TypeInv /\ overlaps \in Nat /\ (overlaps = 0 => SerInv) /\ [Next]_vars => (overlaps = 0 => SerInv)'
<1> SUFFICES ASSUME TypeInv, overlaps \in Nat, overlaps = 0 => SerInv, [Next]_vars, overlaps' = 0
             PROVE  SerInv'
  OBVIOUS
<1>0. SerInv
  BY Counted
<1>1. CASE ExchangeChanges \/ UNCHANGED vars
  <2>1. UNCHANGED <<managed, conn, owner, ws, sockets, tasks, pc, op, left, awaited, start>>
    BY <1>1 DEF ExchangeChanges, vars, taskVars, dictVars, callerVars
  <2> QED
    BY <1>0, <2>1, SerKept
<1>2. ASSUME NEW p \in Callers, CallerStep(p) PROVE SerInv'
  BY <1>0, <1>2, StopSerStep, AwaitSerStep, RestartSerStep DEF CallerStep
<1> QED
  BY <1>0, <1>1, <1>2, StartSerStep, ConnSerStep, BeginSerStep DEF Next

\* At most one connection task per client: its start() is the registered one.
LEMMA OneOwner == SerInv /\ overlaps = 0 => OneTaskPerClient
<1> SUFFICES ASSUME SerInv, NEW c \in Clients PROVE Cardinality({s \in Starts : Live(s, c)}) <= 1
  BY DEF OneTaskPerClient
<1>1. {s \in Starts : Live(s, c)} \subseteq {owner[c]}
  BY DEF SerInv, Owned
<1>2. IsFiniteSet({owner[c]}) /\ Cardinality({owner[c]}) = 1
  BY FS_Singleton
<1>3. Cardinality({s \in Starts : Live(s, c)}) <= Cardinality({owner[c]})
  BY <1>1, <1>2, FS_Subset
<1>4. Cardinality({s \in Starts : Live(s, c)}) \in Nat
  BY <1>1, <1>2, FS_Subset, FS_CardinalityType
<1> QED
  BY <1>2, <1>3, <1>4

\* Every open socket is in websocket_clients.
LEMMA AllRegistered == TypeInv /\ (overlaps = 0 => SerInv) => SocketsAreRegistered
<1> SUFFICES ASSUME TypeInv, SerInv, NEW k \in sockets PROVE ws[k[2]] = k[1]
  BY DEF SocketsAreRegistered
<1>1. PICK s \in Starts, c \in Clients : k = <<s, c>>
  BY DEF TypeInv, ConnTypes
<1> QED
  BY <1>1 DEF SerInv, Reg

\* What a caller has stopped is stopped.
LEMMA IsStopped == (overlaps = 0 => SerInv) => StopIsComplete
<1> SUFFICES ASSUME SerInv, NEW p \in Requests, pc[p] \in {"status", "await", "init"} PROVE Quiet
  BY DEF StopIsComplete, Quiet
<1>1. p \in Callers /\ ~Resting(p)
  BY DEF Callers, Resting
<1> QED
  BY <1>1 DEF SerInv, OneCaller, Stage, Stopped

\* The invariant, with the types.
LEMMA SerAlways == Spec => [](TypeInv /\ (overlaps = 0 => SerInv))
<1>1. Init => TypeInv /\ overlaps \in Nat /\ (overlaps = 0 => SerInv)
  BY SerInit, TypeInit DEF Init
<1>2. TypeInv /\ overlaps \in Nat /\ (overlaps = 0 => SerInv) /\ [Next]_vars =>
        (TypeInv /\ overlaps \in Nat /\ (overlaps = 0 => SerInv))'
  BY SerStep, TypeStep, Counted
<1> QED
  BY <1>1, <1>2, PTL DEF Spec

\* Until a request or recovery begins while another is at work, every batch of symbols has
\* at most one connection task, for any number of clients and restarts and however
\* connections fail: no candle is collected twice.
THEOREM CollectedOnce == Spec => [](overlaps = 0 => OneTaskPerClient)
<1>1. TypeInv /\ (overlaps = 0 => SerInv) => (overlaps = 0 => OneTaskPerClient)
  BY OneOwner
<1> QED
  BY <1>1, SerAlways, PTL

\* Until callers overlap, every open socket is in websocket_clients, where the next stop()
\* finds it, also while tasks clean up and stop() closes them.
THEOREM NoSocketIsLost == Spec => []SocketsAreRegistered
<1>1. TypeInv /\ (overlaps = 0 => SerInv) => SocketsAreRegistered
  BY AllRegistered
<1> QED
  BY <1>1, SerAlways, PTL

\* Until callers overlap, one that has stopped the collector finds no connection task and
\* no open socket until the next start().
THEOREM StoppedIsStopped == Spec => []StopIsComplete
<1>1. TypeInv /\ (overlaps = 0 => SerInv) => StopIsComplete
  BY IsStopped
<1> QED
  BY <1>1, SerAlways, PTL
=============================================================================
