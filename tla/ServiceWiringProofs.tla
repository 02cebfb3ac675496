------------------------- MODULE ServiceWiringProofs -------------------------
(***************************************************************************)
(* Proofs about ServiceWiring: one manager connected, routes that see it,  *)
(* a shutdown that leaves nothing behind.                                  *)
(*                                                                         *)
(* The first and the last hold because a manager that is alive is the one  *)
(* of the service, which the handler under way closes or opens.  A forced  *)
(* recovery breaks this for good, so the invariant is conditional on there *)
(* having been none, and no step makes that condition true again.          *)
(***************************************************************************)
EXTENDS ServiceWiring, FiniteSetTheorems, TLAPS

Shape ==
  /\ conn \in [Managers -> {"unborn", "new", "connected", "closing", "closed"}]
  /\ handler \in [Runners -> {"idle", "closing", "opening", "pausing", "done", "off"}]
  /\ target \in [Runners -> Slots]
  /\ serviceDb \in Slots

\* nothing has happened before startup()
Fresh ==
  phase = "start" =>
    /\ \A m \in Managers : conn[m] = "unborn"
    /\ \A p \in Runners : Idle(p) /\ target[p] = None
    /\ serviceDb = None /\ routesDb = None /\ collectorDb = None /\ recoveryDb = None
    /\ collecting = FALSE

\* a manager that is alive is that of the service, and the monitor works on no other
Owned ==
  Unforced =>
    /\ \A m \in Managers : conn[m] \in {"new", "connected", "closing"} => m = serviceDb
    /\ handler["monitor"] \in {"closing", "opening"} => target["monitor"] = serviceDb

\* after the end nobody is there who could connect a manager
Over ==
  phase = "stopped" /\ Unforced =>
    /\ handler["monitor"] \in {"off", "idle"}
    /\ \A m \in Managers : conn[m] # "connected"
    /\ collecting = FALSE

IInv == Shape /\ Fresh /\ Owned /\ Over /\ RoutesSeeTheLiveManager

-----------------------------------------------------------------------------
LEMMA MonitorRuns == "monitor" \in Runners /\ \A q \in Requests : q \in Runners /\ q # "monitor"
  BY RequestsAssumption DEF Runners

LEMMA NewSlotIsFree == Free # {} => NewSlot \in Managers /\ NewSlot \in Free
  BY DEF NewSlot, Free

\* At the start every slot is free.
LEMMA StartIsFree == IInv /\ phase = "start" => NewSlot \in Managers
<1> SUFFICES ASSUME IInv, phase = "start" PROVE NewSlot \in Managers
  OBVIOUS
<1>1. Free = Managers
  BY ManagersAssumption DEF IInv, Fresh, Free
<1> QED
  BY <1>1, ManagersAssumption, NewSlotIsFree

\* A request that has forced a recovery stays forced.
LEMMA UnforcedBefore == ASSUME Shape, [Next]_vars, Unforced' PROVE Unforced
<1> SUFFICES ASSUME NEW q \in Requests, ~Idle(q) PROVE ~Idle(q)'
  BY DEF Unforced
<1>1. q \in Runners /\ q # "monitor" /\ handler \in [Runners -> {"idle", "closing", "opening", "pausing", "done", "off"}]
  BY MonitorRuns DEF Shape
<1>2. ASSUME NEW p \in Runners, NEW x, handler' = [handler EXCEPT ![p] = x], p = q => x # "idle"
      PROVE  ~Idle(q)'
  BY <1>1, <1>2 DEF Idle
<1>3. ASSUME UNCHANGED handler PROVE ~Idle(q)'
  BY <1>3 DEF Idle
<1>4. CASE UNCHANGED vars
  BY <1>3, <1>4 DEF vars
<1>5. CASE StartupFails \/ \E natsOk \in BOOLEAN : Startup(natsOk)
  BY <1>3, <1>5 DEF StartupFails, Startup
<1>6. CASE DbChanges \/ MonitorSeesDb \/ GapLoopEnds \/ ShutdownEnd
  BY <1>3, <1>6 DEF DbChanges, MonitorSeesDb, GapLoopEnds, ShutdownEnd
<1>7. CASE MonitorRecoversDb \/ MonitorRestartsGap \/ MonitorEnds
  BY <1>1, <1>2, <1>7, MonitorRuns
     DEF MonitorRecoversDb, BeginRecoverDb, BeginClose, MonitorRestartsGap, BeginRestartGap, MonitorEnds
<1>8. ASSUME NEW r \in Requests, RequestRecoversDb(r) \/ RequestRestartsGap(r) PROVE ~Idle(q)'
  BY <1>2, <1>8, MonitorRuns
     DEF RequestRecoversDb, BeginRecoverDb, BeginClose, RequestRestartsGap, BeginRestartGap
<1>9. ASSUME NEW p \in Runners, HandlerStep(p) PROVE ~Idle(q)'
  BY <1>1, <1>2, <1>9
     DEF HandlerStep, ReplaceDb, RecoverDbOk, RecoverDbFails, RestartGap, Return, Rest
<1>10. CASE ShutdownBegin
  BY <1>1, <1>2, <1>3, <1>10, MonitorRuns DEF ShutdownBegin, BeginClose
<1> QED
  BY <1>4, <1>5, <1>6, <1>7, <1>8, <1>9, <1>10 DEF Next, MonitorDbStep, Shutdown

-----------------------------------------------------------------------------
LEMMA InitHolds == Init => IInv
<1> SUFFICES ASSUME Init PROVE IInv
  OBVIOUS
<1>1. Shape
  BY DEF Init, Shape, Slots
<1>2. Fresh
  BY DEF Init, Fresh, Idle
<1>3. Owned /\ Over
  BY MonitorRuns DEF Init, Owned, Over
<1>4. RoutesSeeTheLiveManager
  BY DEF Init, RoutesSeeTheLiveManager, Connected
<1> QED
  BY <1>1, <1>2, <1>3, <1>4 DEF IInv

LEMMA StartupHolds ==
  ASSUME IInv, StartupFails \/ \E natsOk \in BOOLEAN : Startup(natsOk) PROVE IInv'
<1>1. NewSlot \in Managers /\ phase = "start"
  BY StartIsFree DEF StartupFails, Startup
<1>2. /\ \A m \in Managers : conn[m] = "unborn"
      /\ \A p \in Runners : handler[p] = "idle"
      /\ collecting = FALSE
  BY <1>1 DEF IInv, Fresh, Idle
<1>3. /\ serviceDb' = NewSlot /\ UNCHANGED <<handler, target>> /\ phase' \in {"running", "stopped"}
      /\ \/ conn' = [conn EXCEPT ![NewSlot] = "connected"] /\ phase' = "running" /\ routesDb' = NewSlot
         \/ conn' = [conn EXCEPT ![NewSlot] = "closed"] /\ UNCHANGED collecting
  BY DEF StartupFails, Startup
<1>4. Shape'
  BY <1>1, <1>3 DEF IInv, Shape, Slots
<1>5. Fresh'
  BY <1>3 DEF Fresh
<1>6. Owned'
  BY <1>1, <1>2, <1>3, MonitorRuns DEF IInv, Shape, Owned
<1>7. Over'
  BY <1>1, <1>2, <1>3, MonitorRuns DEF IInv, Shape, Over
<1>8. RoutesSeeTheLiveManager'
  BY <1>1, <1>2, <1>3 DEF IInv, Shape, RoutesSeeTheLiveManager, Connected
<1> QED
  BY <1>4, <1>5, <1>6, <1>7, <1>8 DEF IInv

\* Steps that leave the managers, the handlers and the phase alone.
LEMMA QuietHolds ==
  ASSUME IInv, UNCHANGED <<phase, conn, refs, handler, target, collecting>> PROVE IInv'
  BY DEF IInv, refs, Shape, Fresh, Owned, Over, Unforced, Idle, RoutesSeeTheLiveManager, Connected

\* A handler of the runner p begins, goes on or ends without touching a manager.
LEMMA HandlerMoves ==
  ASSUME IInv, [Next]_vars, NEW p \in Runners, NEW x \in {"idle", "pausing", "done", "off"},
         handler' = [handler EXCEPT ![p] = x],
         target' = target \/ target' = [target EXCEPT ![p] = None],
         UNCHANGED <<phase, conn, refs, collecting>>,
         handler[p] = "pausing" \/ phase \in {"running", "stopping"}
  PROVE  IInv'
<1>1. Shape'
  BY DEF IInv, Shape, Slots, refs
<1>2. Fresh'
  BY DEF IInv, Fresh, Idle
<1>3. Owned'
  BY UnforcedBefore, MonitorRuns DEF IInv, Shape, Owned, refs
<1>4. Over'
  <2> SUFFICES ASSUME phase = "stopped", Unforced, handler[p] = "pausing" PROVE FALSE
    BY UnforcedBefore DEF IInv, Over
  <2> QED
    BY MonitorRuns DEF IInv, Over, Unforced, Idle, Runners
<1>5. RoutesSeeTheLiveManager'
  BY DEF IInv, RoutesSeeTheLiveManager, Connected, refs
<1> QED
  BY <1>1, <1>2, <1>3, <1>4, <1>5 DEF IInv

\* A handler begins with close() of the manager of the service.
LEMMA CloseHolds ==
  ASSUME IInv, [Next]_vars, NEW p \in Runners, BeginClose(p),
         UNCHANGED <<refs, collecting>>, phase # "stopped", phase # "start",
         phase' \in {"running", "stopping"}
  PROVE  IInv'
<1>1. /\ conn \in [Managers -> {"unborn", "new", "connected", "closing", "closed"}]
      /\ serviceDb \in Slots
  BY DEF IInv, Shape
<1>2. /\ conn' \in [Managers -> {"unborn", "new", "connected", "closing", "closed"}]
      /\ \A m \in Managers : conn'[m] \in {"new", "connected", "closing"} =>
                              conn[m] \in {"new", "connected", "closing"}
      /\ serviceDb \in Managers => conn'[serviceDb] # "connected"
  BY <1>1 DEF BeginClose
<1>3. Shape'
  BY <1>1, <1>2 DEF IInv, Shape, Slots, BeginClose, refs
<1>4. Fresh' /\ Over'
  BY DEF Fresh, Over
<1>5. Owned'
  BY <1>1, <1>2, UnforcedBefore, MonitorRuns DEF IInv, Shape, Owned, BeginClose, refs
<1>6. RoutesSeeTheLiveManager'
  BY <1>2 DEF RoutesSeeTheLiveManager, Connected, refs
<1> QED
  BY <1>3, <1>4, <1>5, <1>6 DEF IInv

LEMMA ReplaceDbHolds ==
  ASSUME IInv, [Next]_vars, NEW p \in Runners, ReplaceDb(p) PROVE IInv'
<1>1. /\ conn \in [Managers -> {"unborn", "new", "connected", "closing", "closed"}]
      /\ handler \in [Runners -> {"idle", "closing", "opening", "pausing", "done", "off"}]
      /\ target \in [Runners -> Slots] /\ NewSlot \in Managers
  BY NewSlotIsFree DEF IInv, Shape, ReplaceDb
<1>2. /\ conn' = [conn EXCEPT ![target[p]] = "closed", ![NewSlot] = "new"]
      /\ handler' = [handler EXCEPT ![p] = "opening"] /\ target' = [target EXCEPT ![p] = NewSlot]
      /\ serviceDb' = NewSlot /\ handler[p] = "closing"
      /\ UNCHANGED <<phase, routesDb, collecting>>
  BY DEF ReplaceDb
<1>3. Shape'
  BY <1>1, <1>2 DEF Shape, Slots
<1>4. Fresh'
  BY <1>2 DEF IInv, Fresh, Idle
<1>5. ASSUME Unforced'
      PROVE  p = "monitor" /\ Unforced /\ phase # "stopped"
             /\ \A m \in Managers : conn'[m] \in {"new", "connected", "closing"} => m = NewSlot
  <2>1. p = "monitor" /\ Unforced
    BY <1>1, <1>2, <1>5, UnforcedBefore DEF IInv, Unforced, Idle, Runners
  <2>2. target[p] = serviceDb /\ phase # "stopped"
    BY <1>2, <2>1 DEF IInv, Owned, Over
  <2> QED
    BY <1>1, <1>2, <2>1, <2>2 DEF IInv, Owned
<1>6. Owned'
  BY <1>1, <1>2, <1>5 DEF Owned
<1>7. Over'
  BY <1>2, <1>5 DEF Over
<1>8. RoutesSeeTheLiveManager'
  BY <1>1, <1>2 DEF RoutesSeeTheLiveManager, Connected
<1> QED
  BY <1>3, <1>4, <1>6, <1>7, <1>8 DEF IInv

LEMMA OpeningEnds ==
  ASSUME IInv, [Next]_vars, NEW p \in Runners, RecoverDbOk(p) \/ RecoverDbFails(p) PROVE IInv'
<1>1. /\ conn \in [Managers -> {"unborn", "new", "connected", "closing", "closed"}]
      /\ handler \in [Runners -> {"idle", "closing", "opening", "pausing", "done", "off"}]
      /\ target \in [Runners -> Slots] /\ serviceDb \in Slots
  BY DEF IInv, Shape
<1>2. /\ handler[p] = "opening"
      /\ handler' = [handler EXCEPT ![p] = Rest(p)] /\ target' = [target EXCEPT ![p] = None]
      /\ \/ conn' = [conn EXCEPT ![target[p]] = "connected"] /\ routesDb' = serviceDb
            /\ conn[target[p]] = "new"
         \/ conn' = [conn EXCEPT ![target[p]] = "closed"] /\ routesDb' = routesDb
      /\ UNCHANGED <<phase, serviceDb, collecting>>
  BY DEF RecoverDbOk, RecoverDbFails, Return, refs
<1>3. Shape'
  BY <1>1, <1>2 DEF Shape, Slots, Rest
<1>4. Fresh'
  BY <1>2 DEF IInv, Fresh, Idle
<1>5. ASSUME Unforced' PROVE Unforced /\ p = "monitor" /\ phase # "stopped" /\ target[p] = serviceDb
  <2>1. p = "monitor" /\ Unforced
    BY <1>1, <1>2, <1>5, UnforcedBefore DEF IInv, Unforced, Idle, Runners
  <2> QED
    BY <1>2, <2>1 DEF IInv, Owned, Over
<1>6. Owned'
  <2> SUFFICES ASSUME Unforced'
               PROVE  /\ \A m \in Managers : conn'[m] \in {"new", "connected", "closing"} => m = serviceDb'
                      /\ handler'["monitor"] \notin {"closing", "opening"}
    BY DEF Owned
  <2>1. Unforced /\ p = "monitor" /\ target[p] = serviceDb
    BY <1>5
  <2> QED
    BY <1>1, <1>2, <2>1, MonitorRuns DEF IInv, Owned, Rest
<1>7. Over'
  BY <1>2, <1>5 DEF Over
<1>8. RoutesSeeTheLiveManager'
  BY <1>1, <1>2 DEF IInv, RoutesSeeTheLiveManager, Connected
<1> QED
  BY <1>3, <1>4, <1>6, <1>7, <1>8 DEF IInv

LEMMA ShutdownEndHolds == ASSUME IInv, [Next]_vars, ShutdownEnd PROVE IInv'
<1>1. /\ conn \in [Managers -> {"unborn", "new", "connected", "closing", "closed"}]
      /\ serviceDb \in Slots
  BY DEF IInv, Shape
<1>2. /\ handler["monitor"] = "off" /\ phase' = "stopped" /\ collecting' = FALSE
      /\ conn' = [conn EXCEPT ![serviceDb] = "closed"]
      /\ UNCHANGED <<serviceDb, routesDb, handler, target>>
  BY DEF ShutdownEnd, refs
<1>3. Shape' /\ Fresh'
  BY <1>1, <1>2 DEF IInv, Shape, Fresh
<1>4. Owned'
  BY <1>1, <1>2, UnforcedBefore DEF IInv, Owned
<1>5. Over'
  BY <1>1, <1>2, UnforcedBefore DEF IInv, Owned, Over
<1>6. RoutesSeeTheLiveManager'
  BY <1>1, <1>2 DEF IInv, RoutesSeeTheLiveManager, Connected
<1> QED
  BY <1>3, <1>4, <1>5, <1>6 DEF IInv

-----------------------------------------------------------------------------
LEMMA ShutdownBeginHolds == ASSUME IInv, [Next]_vars, ShutdownBegin PROVE IInv'
<1>1. phase = "running" /\ phase' = "stopping" /\ UNCHANGED <<refs, collecting>>
  BY DEF ShutdownBegin
<1>2. CASE BeginClose("monitor")
  BY <1>1, <1>2, CloseHolds, MonitorRuns
<1>3. CASE UNCHANGED <<conn, handler, target>>
  BY <1>1, <1>3, UnforcedBefore
     DEF IInv, refs, Shape, Fresh, Owned, Over, Unforced, Idle, RoutesSeeTheLiveManager, Connected
<1>4. CASE /\ handler' = [handler EXCEPT !["monitor"] = "off"]
           /\ target' = [target EXCEPT !["monitor"] = None] /\ UNCHANGED <<conn, attempts>>
  <2>1. Shape'
    BY <1>1, <1>4, MonitorRuns DEF IInv, Shape, Slots, refs
  <2>2. Fresh' /\ Over'
    BY <1>1 DEF Fresh, Over
  <2>3. Owned'
    BY <1>1, <1>4, UnforcedBefore, MonitorRuns DEF IInv, Shape, Owned, refs
  <2>4. RoutesSeeTheLiveManager'
    BY <1>1, <1>4 DEF IInv, RoutesSeeTheLiveManager, Connected, refs
  <2> QED
    BY <2>1, <2>2, <2>3, <2>4 DEF IInv
<1> QED
  BY <1>2, <1>3, <1>4 DEF ShutdownBegin

LEMMA NextHolds == IInv /\ [Next]_vars => IInv'
<1> SUFFICES ASSUME IInv, [Next]_vars PROVE IInv'
  OBVIOUS
<1>1. CASE StartupFails \/ \E natsOk \in BOOLEAN : Startup(natsOk)
  BY <1>1, StartupHolds
<1>2. CASE DbChanges \/ MonitorSeesDb \/ GapLoopEnds
  BY <1>2, QuietHolds DEF DbChanges, MonitorSeesDb, GapLoopEnds
<1>3. CASE MonitorRecoversDb
  BY <1>3, CloseHolds, MonitorRuns DEF MonitorRecoversDb, BeginRecoverDb
<1>4. ASSUME NEW q \in Requests, RequestRecoversDb(q) PROVE IInv'
  BY <1>4, CloseHolds, MonitorRuns DEF RequestRecoversDb, BeginRecoverDb
<1>5. CASE MonitorRestartsGap
  BY <1>5, HandlerMoves, MonitorRuns DEF MonitorRestartsGap, BeginRestartGap
<1>6. ASSUME NEW q \in Requests, RequestRestartsGap(q) PROVE IInv'
  BY <1>6, HandlerMoves, MonitorRuns DEF RequestRestartsGap, BeginRestartGap
<1>7. ASSUME NEW p \in Runners, HandlerStep(p) PROVE IInv'
  <2>1. CASE ReplaceDb(p)
    BY <2>1, ReplaceDbHolds
  <2>2. CASE RecoverDbOk(p) \/ RecoverDbFails(p)
    BY <2>2, OpeningEnds
  <2>3. CASE RestartGap(p)
    BY <2>3, HandlerMoves DEF RestartGap, Return, Rest
  <2> QED
    BY <1>7, <2>1, <2>2, <2>3 DEF HandlerStep
<1>8. CASE ShutdownBegin
  BY <1>8, ShutdownBeginHolds
<1>9. CASE MonitorEnds
  BY <1>9, HandlerMoves, MonitorRuns DEF MonitorEnds
<1>10. CASE ShutdownEnd
  BY <1>10, ShutdownEndHolds
<1>11. CASE UNCHANGED vars
  BY <1>11, QuietHolds DEF vars
<1> QED
  BY <1>1, <1>2, <1>3, <1>4, <1>5, <1>6, <1>7, <1>8, <1>9, <1>10, <1>11
     DEF Next, MonitorDbStep, Shutdown

LEMMA InvHolds == Spec => []IInv
<1>1. Init => IInv
  BY InitHolds
<1>2. IInv /\ [Next]_vars => IInv'
  BY NextHolds
<1> QED
  BY <1>1, <1>2, PTL DEF Spec

-----------------------------------------------------------------------------
\* Two managers are never connected at once, however many recoveries the monitor makes.
THEOREM OneConnected == Spec => []OneManagerConnected
<1>1. IInv => OneManagerConnected
  <2> SUFFICES ASSUME IInv, Unforced PROVE Cardinality(Connected) <= 1
    BY DEF OneManagerConnected
  <2>1. Connected \subseteq {serviceDb}
    BY DEF IInv, Owned, Connected
  <2>2. IsFiniteSet({serviceDb}) /\ Cardinality({serviceDb}) = 1
    BY FS_Singleton
  <2>3. Cardinality(Connected) <= Cardinality({serviceDb})
    BY <2>1, <2>2, FS_Subset
  <2> QED
    BY <2>2, <2>3
<1> QED
  BY <1>1, InvHolds, PTL

\* The API answers from the manager of the service whenever that one is connected.
THEOREM RoutesAreTold == Spec => []RoutesSeeTheLiveManager
<1>1. IInv => RoutesSeeTheLiveManager
  BY DEF IInv
<1> QED
  BY <1>1, InvHolds, PTL

\* A shutdown that has ended left no manager connected and no collector running.
THEOREM NothingIsLeft == Spec => []ShutdownIsComplete
<1>1. IInv => ShutdownIsComplete
  BY DEF IInv, Over, ShutdownIsComplete, Connected
<1> QED
  BY <1>1, InvHolds, PTL
=============================================================================
