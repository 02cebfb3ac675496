---------------------------- MODULE HealthReport ----------------------------
(***************************************************************************)
(* GET /api/v1/health (src/src/main.py) and what it reads: the NATS        *)
(* publisher (src/src/events/nats_publisher.py) from connect() to close(), *)
(* the loop of the recovery service, the database and the sockets of the   *)
(* collectors.  get_status() awaits one query to the database; everything  *)
(* else is read, and the verdict taken, when that answer has come.         *)
(*                                                                         *)
(* Ages count Ticks since the last publish or gap cycle, up to just over   *)
(* the limit.  uvicorn serves requests between startup() and shutdown()    *)
(* only, and one request shares nothing with another: one is modelled.     *)
(***************************************************************************)
EXTENDS Integers

CONSTANTS
  FailureLimit,   \* _HEALTH_FAILURE_DEGRADED_THRESHOLD                   (100)
  StaleAfter      \* _HEALTH_LAST_PUBLISH_DEGRADED_AGE_SECONDS, and the 300 s
                  \* of _compute_recovery_health, in Ticks

ASSUME LimitAssumption == FailureLimit \in Nat /\ StaleAfter \in Nat

VARIABLES
  phase,      \* the service: "starting", "up" or "down"
  enabled,    \* settings.NATS_ENABLE
  publisher,  \* service.publisher: "attached" to the database manager, "detached"
              \* from the one in use, or "absent"
  bus,        \* the NATS client: "none", "connected", "reconnecting" or "closed"
  failures,   \* _publish_failure_count, up to just over its limit
  published,  \* the age of _last_publish_ts
  running,    \* is_running of the recovery service
  looping,    \* whether a start() task of it exists
  cycled,     \* the age of last_cycle_ts
  database,   \* whether ClickHouse answers queries
  sockets,    \* the sub-probe of the collectors (WsStatus of Collector)
  request,    \* a request for /health: "none", "asking" the database, or "replied"
  reply,      \* what health_check() of the manager found
  answer      \* the last verdict sent, "none" before the first

pubVars == <<publisher, bus, failures, published>>
loopVars == <<running, looping, cycled>>
world == <<database, sockets>>
probeVars == <<request, reply, answer>>
vars == <<phase, enabled, pubVars, loopVars, world, probeVars>>

Never == -1
Ages == Never..(StaleAfter + 1)
Older(age) == IF age = Never \/ age > StaleAfter THEN age ELSE age + 1
SubStatuses == {"ok", "degraded", "failed"}

Init ==
  /\ phase = "starting" /\ enabled \in BOOLEAN
  /\ publisher = "absent" /\ bus = "none" /\ failures = 0 /\ published = Never
  /\ running = FALSE /\ looping = FALSE /\ cycled = Never
  /\ database \in BOOLEAN /\ sockets \in SubStatuses
  /\ request = "none" /\ reply = FALSE /\ answer = "none"

-----------------------------------------------------------------------------
(* The publisher: connect() within startup(), publish_kline(), close().    *)

Started(p, b) ==
  /\ phase = "starting" /\ phase' = "up" /\ publisher' = p /\ bus' = b
  /\ UNCHANGED <<enabled, failures, published, loopVars, world, probeVars>>

SkipConnect == ~enabled /\ Started("attached", "none")
ConnectOk == enabled /\ Started("attached", "connected")
ConnectRefused == enabled /\ Started("absent", "none")

\* add_stream() raises after the client is connected: startup() drops the publisher
\* and the connection stays open
StreamRejected == enabled /\ Started("absent", "connected")

Publishing == phase = "up" /\ enabled /\ publisher = "attached" /\ bus # "none"

\* the client buffers what is published while it reconnects
PublishOk ==
  /\ Publishing /\ bus # "closed"
  /\ published' = 0
  /\ UNCHANGED <<phase, enabled, publisher, bus, failures, loopVars, world, probeVars>>

\* the client refuses (closed, buffer full), or the row cannot be encoded
PublishFails ==
  /\ Publishing
  /\ failures' = IF failures > FailureLimit THEN failures ELSE failures + 1
  /\ UNCHANGED <<phase, enabled, publisher, bus, published, loopVars, world, probeVars>>

\* _recover_db puts a new manager in place, to which no publisher is attached
ManagerReplaced ==
  /\ phase = "up" /\ publisher = "attached"
  /\ publisher' = "detached"
  /\ UNCHANGED <<phase, enabled, bus, failures, published, loopVars, world, probeVars>>

\* the client of nats-py reconnects by itself and gives up after 60 attempts
BusChanges ==
  /\ \/ bus = "connected" /\ bus' = "reconnecting"
     \/ bus = "reconnecting" /\ bus' \in {"connected", "closed"}
  /\ UNCHANGED <<phase, enabled, publisher, failures, published, loopVars, world, probeVars>>

\* shutdown(): the recovery service is stopped, the publisher drains and drops its client
Shutdown ==
  /\ phase = "up" /\ request = "none"
  /\ phase' = "down" /\ running' = FALSE
  /\ bus' = IF publisher = "absent" THEN bus ELSE "none"
  /\ UNCHANGED <<enabled, publisher, failures, published, looping, cycled, world, probeVars>>

-----------------------------------------------------------------------------
(* The loop of the recovery service, started and stopped by the monitor.   *)

LoopStarts ==
  /\ phase = "up" /\ ~running
  /\ running' = TRUE /\ looping' = TRUE
  /\ UNCHANGED <<phase, enabled, pubVars, cycled, world, probeVars>>

LoopStops ==
  /\ running
  /\ running' = FALSE
  /\ UNCHANGED <<phase, enabled, pubVars, looping, cycled, world, probeVars>>

\* a cycle is counted when it ends, also by a loop that was stopped meanwhile
CycleEnds ==
  /\ looping
  /\ cycled' = 0
  /\ UNCHANGED <<phase, enabled, pubVars, running, looping, world, probeVars>>

LoopEnds ==
  /\ looping /\ ~running
  /\ looping' = FALSE
  /\ UNCHANGED <<phase, enabled, pubVars, running, cycled, world, probeVars>>

-----------------------------------------------------------------------------
(* The environment.                                                        *)

WorldChanges ==
  /\ phase = "up"
  /\ \/ database' = ~database /\ UNCHANGED sockets
     \/ sockets' \in SubStatuses \ {sockets} /\ UNCHANGED database
  /\ UNCHANGED <<phase, enabled, pubVars, loopVars, probeVars>>

Tick ==
  /\ published' = Older(published) /\ cycled' = Older(cycled)
  /\ <<published, cycled>>' # <<published, cycled>>
  /\ UNCHANGED <<phase, enabled, publisher, bus, failures, running, looping, world, probeVars>>

-----------------------------------------------------------------------------
(* The report.                                                             *)

\* Faulty variant: the age of the last publish is not looked at.
NatsStatusAgeless ==
  CASE publisher = "absent" -> "failed"
    [] publisher # "absent" /\ ~enabled -> "ok"
    [] publisher # "absent" /\ enabled /\ bus = "none" -> "failed"
    [] OTHER -> IF bus # "connected" \/ failures > FailureLimit THEN "degraded" ELSE "ok"

\* health() of the publisher; never to have published is no reason for concern
NatsStatus ==
  CASE publisher = "absent" -> "failed"
    [] publisher # "absent" /\ ~enabled -> "ok"
    [] publisher # "absent" /\ enabled /\ bus = "none" -> "failed"
    [] OTHER -> IF bus # "connected" \/ failures > FailureLimit \/ published > StaleAfter
                THEN "degraded" ELSE "ok"

\* Faulty variant: a loop that runs is taken to advance.
RecoveryStatusByFlag == IF running THEN "ok" ELSE "degraded"

\* _compute_recovery_health
RecoveryStatus ==
  IF running /\ cycled # Never /\ cycled <= StaleAfter THEN "ok" ELSE "degraded"

\* _absorb
Absorb(verdict, status) ==
  CASE status = "failed" -> "unhealthy"
    [] status = "degraded" /\ verdict = "healthy" -> "degraded"
    [] OTHER -> verdict

DatabaseStatus == IF reply THEN "ok" ELSE "degraded"

\* in the order in which health_check() asks them
Verdict == Absorb(Absorb(Absorb(Absorb("healthy", DatabaseStatus), sockets), RecoveryStatus), NatsStatus)

Asks ==
  /\ phase = "up" /\ request = "none"
  /\ request' = "asking"
  /\ UNCHANGED <<phase, enabled, pubVars, loopVars, world, reply, answer>>

\* health_check() of the manager turns every error into an answer
DatabaseReplies ==
  /\ request = "asking"
  /\ request' = "replied" /\ reply' = database
  /\ UNCHANGED <<phase, enabled, pubVars, loopVars, world, answer>>

Answers ==
  /\ request = "replied"
  /\ request' = "none"
  /\ answer' = Verdict
  /\ UNCHANGED <<phase, enabled, pubVars, loopVars, world, reply>>

-----------------------------------------------------------------------------
Next ==
  \/ SkipConnect \/ ConnectOk \/ ConnectRefused \/ StreamRejected
  \/ PublishOk \/ PublishFails \/ ManagerReplaced \/ BusChanges \/ Shutdown
  \/ LoopStarts \/ LoopStops \/ CycleEnds \/ LoopEnds
  \/ WorldChanges \/ Tick
  \/ Asks \/ DatabaseReplies \/ Answers

Spec == Init /\ [][Next]_vars

\* docker-compose.yml asks every 30 s, the query has a timeout, and time passes
Fairness == WF_vars(Asks) /\ WF_vars(DatabaseReplies) /\ WF_vars(Answers) /\ WF_vars(Tick)
FairSpec == Spec /\ Fairness

-----------------------------------------------------------------------------
(* Properties.                                                             *)

\* a recovery service that says it runs has a loop
LoopOK == running \in BOOLEAN /\ looping \in BOOLEAN /\ (running => looping)

\* The types, and LoopOK: the counters stop just over their limits.
TypeOK ==
  /\ phase \in {"starting", "up", "down"} /\ enabled \in BOOLEAN
  /\ publisher \in {"attached", "detached", "absent"}
  /\ bus \in {"none", "connected", "reconnecting", "closed"}
  /\ failures \in 0..(FailureLimit + 1) /\ published \in Ages /\ cycled \in Ages
  /\ LoopOK /\ database \in BOOLEAN /\ reply \in BOOLEAN
  /\ sockets \in SubStatuses
  /\ request \in {"none", "asking", "replied"}
  /\ answer \in {"none", "healthy", "degraded", "unhealthy"}

StaysUp == <>[](phase = "up")

\* If publishing stops for good after it had begun, for whatever reason (the bus, its
\* client, or a replaced manager that has no publisher), /health ends up not healthy.
SilenceIsReported ==
  StaysUp /\ <>(published # Never) /\ <>[][~PublishOk]_vars => <>[](answer # "healthy")

\* If the database, a socket or the recovery loop breaks for good, or the loop hangs in a
\* cycle while its flag says it runs, /health ends up not healthy; and while a part has
\* failed it is unhealthy, whatever else is only degraded.
BreakageIsReported ==
  StaysUp =>
    /\ <>[](~database) \/ <>[](sockets # "ok") \/ <>[][~CycleEnds]_vars => <>[](answer # "healthy")
    /\ <>[](sockets = "failed" \/ publisher = "absent") => <>[](answer = "unhealthy")

-----------------------------------------------------------------------------
(* What the documents promise and the code does not do.                    *)

\* openspec/specs/nats-event-bus/spec.md:89 after an outage the status "flips back to
\* "ok"": once the bus is back for good and rows are published, the sub-probe is ok.
OutageIsForgotten ==
  StaysUp /\ <>[](bus = "connected") /\ []<><<PublishOk>>_vars /\ <>[][~PublishFails]_vars
    => []<>(NatsStatus = "ok")

\* README.md:95 "anything failing returns HTTP 503", and baseline-infrastructure
\* spec.md:60, success "only when ClickHouse connectivity is verified".
NoDatabaseNoSuccess == [][Answers /\ ~reply => answer' = "unhealthy"]_vars

\* main.py:223 shutdown: "Cleanup all services"; no connection to the bus outlives it.
BusIsClosed == phase = "down" => bus # "connected"
=============================================================================
