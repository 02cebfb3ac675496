---------------------------- MODULE ServiceWiring ----------------------------
(***************************************************************************)
(* DataService (src/src/main.py): which ClickHouseManager object each part *)
(* of the service holds while the recovery handlers of clickhouse_db and   *)
(* recovery_service replace and restart things, until shutdown().          *)
(*                                                                         *)
(* A handler is run by the monitor or by a force_recovery request; it is   *)
(* suspended in close(), in initialize() or in asyncio.sleep(2).  A slot   *)
(* of Managers stands for an object; a closed object nobody refers to any  *)
(* more is garbage, and its slot is used again.  The cooldown between two  *)
(* attempts is left to chance (AutoRecovery has it).                       *)
(***************************************************************************)
EXTENDS Integers, FiniteSets

CONSTANTS
  Managers,      \* slots for ClickHouseManager objects (bound when they leak)
  Requests,      \* bound: the force_recovery requests of a behaviour
  MaxAttempts,   \* max_recovery_attempts of the recovery manager (5)
  None           \* a reference to nothing

ASSUME ManagersAssumption == IsFiniteSet(Managers) /\ Managers # {} /\ None \notin Managers
ASSUME RequestsAssumption == IsFiniteSet(Requests) /\ "monitor" \notin Requests
ASSUME AttemptsAssumption == MaxAttempts \in Nat \ {0}

VARIABLES
  phase,        \* "start", "running", "stopping" or "stopped"
  dbUp,         \* the ClickHouse server answers
  conn,         \* manager -> "unborn", "new", "connected", "closing" or "closed"
  hasPublisher, \* the managers set_publisher() was called on
  publisher,    \* self.publisher is not None
  serviceDb,    \* self.db_manager
  routesDb,     \* the manager routes.set_managers was given
  collectorDb,  \* the db_manager of the collector manager and the collectors
  recoveryDb,   \* the db_manager of the recovery service
  handler,      \* who runs a handler -> where it is suspended
  target,       \* who runs a handler -> the manager it closes or initialises
  attempts,     \* recovery_attempts of clickhouse_db
  monitoring,   \* auto_recovery.is_running
  collecting,   \* the collectors run
  gapRunning,   \* recovery_service.is_running
  gapLoops      \* the loops of recovery_service.start() alive

refs  == <<serviceDb, routesDb, collectorDb, recoveryDb>>
gap   == <<gapRunning, gapLoops>>
vars  == <<phase, dbUp, conn, hasPublisher, publisher, refs, handler, target, attempts,
           monitoring, collecting, gap>>

Runners == {"monitor"} \cup Requests
Idle(p) == handler[p] = "idle"

\* slots no live object occupies
Free == {m \in Managers : /\ conn[m] \in {"unborn", "closed"}
                          /\ m \notin {serviceDb, routesDb, collectorDb, recoveryDb}
                          /\ \A p \in Runners : target[p] # m}

\* the slot of a new object; any free one would do
NewSlot == CHOOSE m \in Free : TRUE

Init ==
  /\ phase = "start" /\ dbUp \in BOOLEAN
  /\ conn = [m \in Managers |-> "unborn"] /\ hasPublisher = {} /\ publisher = FALSE
  /\ serviceDb = None /\ routesDb = None /\ collectorDb = None /\ recoveryDb = None
  /\ handler = [p \in Runners |-> "idle"] /\ target = [p \in Runners |-> None]
  /\ attempts = 0 /\ monitoring = FALSE /\ collecting = FALSE
  /\ gapRunning = FALSE /\ gapLoops = 0

-----------------------------------------------------------------------------
(* startup(): nothing else runs before it is over.  NATS may be missing;   *)
(* without ClickHouse it raises and the process ends.                      *)

Startup(natsOk) ==
  /\ phase = "start" /\ dbUp /\ phase' = "running"
  /\ conn' = [conn EXCEPT ![NewSlot] = "connected"]
  /\ publisher' = natsOk /\ hasPublisher' = IF natsOk THEN {NewSlot} ELSE {}
  /\ serviceDb' = NewSlot /\ collectorDb' = NewSlot /\ recoveryDb' = NewSlot /\ routesDb' = NewSlot
  /\ monitoring' = TRUE /\ collecting' = TRUE
  /\ UNCHANGED <<dbUp, handler, target, attempts, gap>>

StartupFails ==
  /\ phase = "start" /\ ~dbUp /\ phase' = "stopped"
  /\ conn' = [conn EXCEPT ![NewSlot] = "closed"] /\ serviceDb' = NewSlot
  /\ UNCHANGED <<dbUp, hasPublisher, publisher, routesDb, collectorDb, recoveryDb, handler,
                 target, attempts, monitoring, collecting, gap>>

DbChanges ==
  /\ dbUp' = ~dbUp
  /\ UNCHANGED <<phase, conn, hasPublisher, publisher, refs, handler, target, attempts,
                 monitoring, collecting, gap>>

-----------------------------------------------------------------------------
(* _recover_db.                                                            *)

\* Faulty variant: only the server is asked.
DbHealthyByServer == dbUp

\* _check_db_health: a manager without client is "disconnected"
DbHealthy == conn[serviceDb] # "closed" /\ dbUp

\* the check of clickhouse_db finds it healthy: _check_component resets its attempts
MonitorSeesDb ==
  /\ phase = "running" /\ monitoring /\ Idle("monitor") /\ DbHealthy
  /\ attempts' = 0
  /\ UNCHANGED <<phase, dbUp, conn, hasPublisher, publisher, refs, handler, target,
                 monitoring, collecting, gap>>

\* close() of the current manager begins: is_connected is False at once
BeginClose(p) ==
  /\ conn' = IF conn[serviceDb] = "connected" THEN [conn EXCEPT ![serviceDb] = "closing"] ELSE conn
  /\ handler' = [handler EXCEPT ![p] = "closing"] /\ target' = [target EXCEPT ![p] = serviceDb]

BeginRecoverDb(p) ==
  /\ BeginClose(p)
  /\ UNCHANGED <<phase, dbUp, hasPublisher, publisher, refs, monitoring, collecting, gap>>

MonitorRecoversDb ==
  /\ phase = "running" /\ monitoring /\ Idle("monitor") /\ ~DbHealthy
  /\ attempts < MaxAttempts /\ attempts' = attempts + 1
  /\ BeginRecoverDb("monitor")

\* force_recovery begins a new count of attempts
RequestRecoversDb(q) ==
  /\ phase = "running" /\ Idle(q) /\ attempts' = 1
  /\ BeginRecoverDb(q)

\* Faulty variant: the old manager is replaced but not closed.
ReplaceDbKeepsOld(p) ==
  /\ handler[p] = "closing" /\ Free # {}
  /\ conn' = [conn EXCEPT ![target[p]] = IF @ = "closing" THEN "connected" ELSE @, ![NewSlot] = "new"]
  /\ hasPublisher' = hasPublisher \ {NewSlot} /\ serviceDb' = NewSlot
  /\ handler' = [handler EXCEPT ![p] = "opening"] /\ target' = [target EXCEPT ![p] = NewSlot]
  /\ UNCHANGED <<phase, dbUp, publisher, routesDb, collectorDb, recoveryDb, attempts,
                 monitoring, collecting, gap>>

\* close() has ended; a new manager takes its place and initialize() begins
ReplaceDb(p) ==
  /\ handler[p] = "closing" /\ Free # {}
  /\ conn' = [conn EXCEPT ![target[p]] = "closed", ![NewSlot] = "new"]
  /\ hasPublisher' = hasPublisher \ {NewSlot} /\ serviceDb' = NewSlot
  /\ handler' = [handler EXCEPT ![p] = "opening"] /\ target' = [target EXCEPT ![p] = NewSlot]
  /\ UNCHANGED <<phase, dbUp, publisher, routesDb, collectorDb, recoveryDb, attempts,
                 monitoring, collecting, gap>>

\* a request is used once; the monitor goes on to the next component
Rest(p) == IF p = "monitor" THEN "idle" ELSE "done"
Return(p) == handler' = [handler EXCEPT ![p] = Rest(p)] /\ target' = [target EXCEPT ![p] = None]

\* Faulty variant: the routes are not told of the new manager.
RecoverDbOkKeepsRoutes(p) ==
  /\ handler[p] = "opening" /\ dbUp /\ conn[target[p]] = "new"
  /\ conn' = [conn EXCEPT ![target[p]] = "connected"]
  /\ attempts' = 0 /\ Return(p)
  /\ UNCHANGED <<phase, dbUp, hasPublisher, publisher, refs, monitoring, collecting, gap>>

\* initialize() succeeds, if nobody closed the new manager meanwhile: the routes are
\* given whatever manager the service has by now; collectors and publisher are not told
RecoverDbOk(p) ==
  /\ handler[p] = "opening" /\ dbUp /\ conn[target[p]] = "new"
  /\ conn' = [conn EXCEPT ![target[p]] = "connected"]
  /\ routesDb' = serviceDb /\ attempts' = 0
  /\ Return(p)
  /\ UNCHANGED <<phase, dbUp, hasPublisher, publisher, serviceDb, collectorDb, recoveryDb,
                 monitoring, collecting, gap>>

\* initialize() fails and closes the new manager, which stays self.db_manager
RecoverDbFails(p) ==
  /\ handler[p] = "opening" /\ (~dbUp \/ conn[target[p]] # "new")
  /\ conn' = [conn EXCEPT ![target[p]] = "closed"]
  /\ Return(p)
  /\ UNCHANGED <<phase, dbUp, hasPublisher, publisher, refs, attempts, monitoring, collecting, gap>>

-----------------------------------------------------------------------------
(* _recover_recovery_service.                                              *)

\* stop() clears the flag, and the handler sleeps for two seconds
BeginRestartGap(p) ==
  /\ gapRunning' = FALSE /\ handler' = [handler EXCEPT ![p] = "pausing"]
  /\ UNCHANGED <<phase, dbUp, conn, hasPublisher, publisher, refs, target, attempts,
                 monitoring, collecting, gapLoops>>

\* _check_recovery_health is the flag; a monitor whose cancellation was swallowed
\* still checks the rest of its cycle
MonitorRestartsGap ==
  phase \in {"running", "stopping"} /\ Idle("monitor") /\ ~gapRunning /\ BeginRestartGap("monitor")
RequestRestartsGap(q) == phase = "running" /\ Idle(q) /\ BeginRestartGap(q)

\* start() as a new task: it returns at once if the service is running
RestartGap(p) ==
  /\ handler[p] = "pausing"
  /\ gapLoops' = IF gapRunning THEN gapLoops ELSE gapLoops + 1
  /\ gapRunning' = TRUE /\ Return(p)
  /\ UNCHANGED <<phase, dbUp, conn, hasPublisher, publisher, refs, attempts, monitoring, collecting>>

\* a loop of start() comes round, sees the flag cleared and ends
GapLoopEnds ==
  /\ gapLoops > 0 /\ ~gapRunning /\ gapLoops' = gapLoops - 1
  /\ UNCHANGED <<phase, dbUp, conn, hasPublisher, publisher, refs, handler, target, attempts,
                 monitoring, collecting, gapRunning>>

-----------------------------------------------------------------------------
(* shutdown(), once uvicorn has finished the open requests.                *)

\* stop_monitoring cancels the monitor.  Two places swallow the cancellation: the
\* "except CancelledError: pass" in close(), after which the handler goes on, and the bare
\* "except:" of _check_db_health, which turns it into an unhealthy database and so
\* into a recovery.  Anywhere else it ends the monitor.
ShutdownBegin ==
  /\ phase = "running" /\ \A q \in Requests : handler[q] \in {"idle", "done"}
  /\ phase' = "stopping" /\ monitoring' = FALSE
  /\ \/ /\ handler["monitor"] = "closing" /\ UNCHANGED <<conn, handler, target, attempts>>
     \/ /\ Idle("monitor") /\ conn[serviceDb] # "closed" /\ attempts < MaxAttempts
        /\ attempts' = attempts + 1 /\ BeginClose("monitor")
     \/ /\ handler' = [handler EXCEPT !["monitor"] = "off"]
        /\ target' = [target EXCEPT !["monitor"] = None] /\ UNCHANGED <<conn, attempts>>
  /\ UNCHANGED <<dbUp, hasPublisher, publisher, refs, collecting, gap>>

\* Faulty variant: the monitor only ends when the database is healthy.
MonitorEndsWhenHealthy ==
  /\ phase = "stopping" /\ Idle("monitor") /\ ~monitoring /\ DbHealthy
  /\ handler' = [handler EXCEPT !["monitor"] = "off"]
  /\ UNCHANGED <<phase, dbUp, conn, hasPublisher, publisher, refs, target, attempts,
                 monitoring, collecting, gap>>

\* the monitoring loop comes round and sees is_running cleared
MonitorEnds ==
  /\ phase = "stopping" /\ Idle("monitor") /\ ~monitoring
  /\ handler' = [handler EXCEPT !["monitor"] = "off"]
  /\ UNCHANGED <<phase, dbUp, conn, hasPublisher, publisher, refs, target, attempts,
                 monitoring, collecting, gap>>

\* Faulty variant: shutdown does not wait for the monitor it cancelled.
ShutdownEndAtOnce ==
  /\ phase = "stopping" /\ phase' = "stopped"
  /\ collecting' = FALSE /\ gapRunning' = FALSE
  /\ conn' = [conn EXCEPT ![serviceDb] = "closed"]
  /\ UNCHANGED <<dbUp, hasPublisher, publisher, refs, handler, target, attempts, monitoring, gapLoops>>

\* the rest of shutdown(): collectors, recovery service, self.db_manager, publisher
ShutdownEnd ==
  /\ phase = "stopping" /\ handler["monitor"] = "off" /\ phase' = "stopped"
  /\ collecting' = FALSE /\ gapRunning' = FALSE
  /\ conn' = [conn EXCEPT ![serviceDb] = "closed"]
  /\ UNCHANGED <<dbUp, hasPublisher, publisher, refs, handler, target, attempts, monitoring, gapLoops>>

-----------------------------------------------------------------------------
HandlerStep(p) == ReplaceDb(p) \/ RecoverDbOk(p) \/ RecoverDbFails(p)
                    \/ RestartGap(p)
MonitorDbStep == MonitorSeesDb \/ MonitorRecoversDb
Shutdown == ShutdownBegin \/ MonitorEnds \/ ShutdownEnd

Next ==
  \/ StartupFails \/ \E natsOk \in BOOLEAN : Startup(natsOk)
  \/ DbChanges
  \/ MonitorDbStep \/ MonitorRestartsGap
  \/ \E q \in Requests : RequestRecoversDb(q) \/ RequestRestartsGap(q)
  \/ \E p \in Runners : HandlerStep(p)
  \/ GapLoopEnds
  \/ Shutdown

Spec == Init /\ [][Next]_vars

\* The event loop runs the handlers, and the monitor comes round to every component.
Fairness ==
  /\ \A p \in Runners : WF_vars(HandlerStep(p))
  /\ SF_vars(MonitorRecoversDb) /\ WF_vars(MonitorSeesDb)
  /\ WF_vars(MonitorEnds) /\ WF_vars(ShutdownEnd)
FairSpec == Spec /\ Fairness

-----------------------------------------------------------------------------
(* Properties.                                                             *)

Slots == Managers \cup {None}

\* The types; a service that runs always has a manager.
TypeOK ==
  /\ phase \in {"start", "running", "stopping", "stopped"}
  /\ conn \in [Managers -> {"unborn", "new", "connected", "closing", "closed"}]
  /\ hasPublisher \subseteq Managers
  /\ {serviceDb, routesDb, collectorDb, recoveryDb} \subseteq Slots
  /\ phase # "start" => serviceDb \in Managers
  /\ handler \in [Runners -> {"idle", "closing", "opening", "pausing", "done", "off"}]
  /\ target \in [Runners -> Slots]
  /\ \A p \in Runners : handler[p] \in {"closing", "opening"} => target[p] \in Managers
  /\ attempts \in 0..MaxAttempts
  /\ {dbUp, publisher, monitoring, collecting, gapRunning} \subseteq BOOLEAN
  /\ gapLoops \in 0..(1 + Cardinality(Requests))

Connected == {m \in Managers : conn[m] = "connected"}

\* no request has forced a recovery
Unforced == \A q \in Requests : Idle(q)

\* However recoveries of the monitor fail or succeed, two managers are never
\* connected at once, unless requests force recoveries of their own: no writer task of
\* an earlier manager lives on.
OneManagerConnected == Unforced => Cardinality(Connected) <= 1

\* The API answers from the manager of the service whenever that one is connected,
\* although set_managers is called by several handlers that replace each other's manager.
RoutesSeeTheLiveManager == serviceDb \in Connected => routesDb = serviceDb

\* A shutdown that has ended left no manager connected and no collector running,
\* wherever it interrupted the monitor, if no request interfered.
ShutdownIsComplete == phase = "stopped" /\ Unforced => Connected = {} /\ ~collecting

\* A server that comes back before the attempts are used up is connected again, whether
\* the monitor or a request recovers it, or both do at once.
ReconnectsWithinBudget ==
  (<>[]dbUp /\ [](attempts < MaxAttempts)) => <>[](phase = "running" => serviceDb \in Connected)

\* shutdown() ends, also when the monitor swallowed its cancellation.
ShutdownEnds == phase = "stopping" ~> phase = "stopped"

-----------------------------------------------------------------------------
(* What the comments of the code promise and the code does not do.         *)

AllRest == phase = "running" /\ \A p \in Runners : handler[p] \in {"idle", "done"}

\* main.py:170 "ClickHouse connection recovered": with the connection recovered, the
\* collectors write to a connected manager.
CollectorsAreReconnected == AllRest /\ serviceDb \in Connected => collectorDb \in Connected

\* main.py:67 "Attached to db_manager so successful inserts also broadcast to
\* subscribers": the connected manager of a service with a publisher has it.
PublisherIsAttached == AllRest /\ publisher /\ serviceDb \in Connected => serviceDb \in hasPublisher

\* main.py:112 "Recovery service temporarily disabled", README.md:160 "currently
\* dormant": no loop of the recovery service runs.
RecoveryServiceIsDormant == gapLoops = 0

\* recovery.py:33 "Recovery service is already running": never two loops at once.
OneGapLoop == gapLoops <= 1

\* main.py:223 "Cleanup all services", also with force_recovery requests before it.
CleanupIsComplete == phase = "stopped" => Connected = {} /\ ~collecting

\* recovery_manager.py:86 "stop the monitoring service": once it is asked to stop, the
\* monitor starts no recovery.
StoppedMonitorRecoversNothing ==
  [][handler["monitor"] = "idle" /\ handler'["monitor"] \in {"closing", "pausing"} => monitoring']_vars
=============================================================================
