---------------------------- MODULE AutoRecovery ----------------------------
(***************************************************************************)
(* AutoRecoveryManager (src/src/utils/recovery_manager.py): one monitoring *)
(* task checks the registered components in turn and runs the recovery     *)
(* handler of an unhealthy one, while the HTTP API may force a recovery or *)
(* reset a component at any suspension point of the monitor.               *)
(*                                                                         *)
(* Time is abstracted: next_recovery is "none", "later" (in the future) or *)
(* "past".  error_count only matters up to its threshold and stops there.  *)
(* recovery_stats, last_check and last_error are reporting and left out.   *)
(***************************************************************************)
EXTENDS Integers, Sequences, FiniteSets, SequencesExt

CONSTANTS
  Registered,      \* the components, in the order they were registered
  MaxAttempts,     \* max_recovery_attempts                      (5 in the code)
  FailedAt,        \* errors that make a component FAILED        (3)
  Requests,        \* bound: the force_recovery requests of a behaviour
  MaxResets,       \* bound: the reset_component requests
  CanStop          \* whether stop_monitoring may be called

Components == Range(Registered)

ASSUME RegisteredAssumption == Registered \in Seq(Components) /\ Registered # <<>>
ASSUME MarkAssumption == "new" \notin Components /\ "done" \notin Components
ASSUME LimitAssumption == MaxAttempts \in Nat \ {0} /\ FailedAt \in Nat \ {0}
ASSUME BoundAssumption == MaxResets \in Nat /\ CanStop \in BOOLEAN

VARIABLES
  health,     \* component -> its ComponentHealth
  up,         \* component -> what its health checker would answer now
  monitor,    \* the monitoring task: "between" checks, awaiting a check
              \* ("checking") or a handler ("recovering"), or "off"
  running,    \* is_running, the condition of the monitoring loop
  todo,       \* the components this cycle has yet to check, the current one first
  request,    \* force_recovery requests: "new", "done", or the component recovered
  resets      \* reset_component requests so far

vars == <<health, up, monitor, running, todo, request, resets>>

Statuses == {"healthy", "degraded", "failed", "recovering"}
Health == [status : Statuses, errors : 0..FailedAt, attempts : 0..MaxAttempts,
           next : {"none", "later", "past"}]

Fresh == [status |-> "healthy", errors |-> 0, attempts |-> 0, next |-> "none"]

\* register_component of every component and start_monitoring
Init ==
  /\ health = [c \in Components |-> Fresh]
  /\ up \in [Components -> BOOLEAN]
  /\ monitor = "between" /\ running = TRUE /\ todo = Registered
  /\ request = [q \in Requests |-> "new"] /\ resets = 0

-----------------------------------------------------------------------------
(* The shared parts of the handlers, as functions of a ComponentHealth.    *)

\* _attempt_recovery refuses after too many attempts and during the cooldown
MayAttempt(h) == h.attempts < MaxAttempts /\ h.next # "later"

\* _attempt_recovery up to the call of the handler
Attempting(h) == [h EXCEPT !.status = "recovering", !.attempts = @ + 1]

\* Faulty variant: a failure sets no time for the next attempt.
AttemptedWithoutBackoff(h, success) == IF success THEN Fresh ELSE h

\* _attempt_recovery after the handler returned: only a success touches the status
Attempted(h, success) == IF success THEN Fresh ELSE [h EXCEPT !.next = "later"]

\* _handle_unhealthy_component up to its call of _attempt_recovery
Unhealthy(h) ==
  LET e == IF h.errors < FailedAt THEN h.errors + 1 ELSE FailedAt
  IN  [h EXCEPT !.errors = e, !.status = IF e >= FailedAt THEN "failed" ELSE "degraded"]

-----------------------------------------------------------------------------
(* The monitoring task.                                                    *)

Current == Head(todo)
NextComponent == monitor' = "between" /\ todo' = Tail(todo)

\* Faulty variant: a new cycle leaves the first component out.
NewCycleSkipsFirst ==
  /\ monitor = "between" /\ todo = <<>> /\ running
  /\ todo' = Tail(Registered)
  /\ UNCHANGED <<health, up, monitor, running, request, resets>>

\* the cycle is over: after the sleep of check_interval the loop tests is_running
NewCycle ==
  /\ monitor = "between" /\ todo = <<>> /\ running
  /\ todo' = Registered
  /\ UNCHANGED <<health, up, monitor, running, request, resets>>

LoopEnds ==
  /\ monitor = "between" /\ todo = <<>> /\ ~running
  /\ monitor' = "off"
  /\ UNCHANGED <<health, up, running, todo, request, resets>>

\* Faulty variant: a component out of attempts is not checked any more.
CoolsDownForEver(h) == (h.status = "recovering" /\ h.next = "later") \/ h.attempts >= MaxAttempts

CoolsDown(h) == h.status = "recovering" /\ h.next = "later"

\* _check_component returns at once while a recovery cools down
SkipCheck ==
  /\ monitor = "between" /\ todo # <<>> /\ CoolsDown(health[Current])
  /\ NextComponent
  /\ UNCHANGED <<health, up, running, request, resets>>

\* otherwise it awaits the health checker
BeginCheck ==
  /\ monitor = "between" /\ todo # <<>> /\ ~CoolsDown(health[Current])
  /\ monitor' = "checking"
  /\ UNCHANGED <<health, up, running, todo, request, resets>>

\* Faulty variant: only the status is set, the counters stay.
CheckHealthyStatusOnly ==
  /\ monitor = "checking" /\ up[Current]
  /\ health' = [health EXCEPT ![Current].status = "healthy"]
  /\ NextComponent
  /\ UNCHANGED <<up, running, request, resets>>

\* the checker answers that the component is healthy
CheckHealthy ==
  /\ monitor = "checking" /\ up[Current]
  /\ health' = IF health[Current].status = "healthy" THEN health
               ELSE [health EXCEPT ![Current] = Fresh]
  /\ NextComponent
  /\ UNCHANGED <<up, running, request, resets>>

\* an unhealthy component is marked and, unless its attempts are used up or cool
\* down, its handler is awaited
MarkUnhealthy ==
  LET h == Unhealthy(health[Current]) IN
  /\ \/ /\ MayAttempt(h)
        /\ health' = [health EXCEPT ![Current] = Attempting(h)]
        /\ monitor' = "recovering" /\ UNCHANGED todo
     \/ /\ ~MayAttempt(h)
        /\ health' = [health EXCEPT ![Current] = h]
        /\ NextComponent
  /\ UNCHANGED <<up, request, resets>>

\* the checker answers otherwise, or raises
CheckUnhealthy ==
  monitor = "checking" /\ ~up[Current] /\ MarkUnhealthy /\ UNCHANGED running

\* the handler the monitor awaits returns, or raises (a failure)
MonitorRecovered(success) ==
  /\ monitor = "recovering"
  /\ health' = [health EXCEPT ![Current] = Attempted(@, success)]
  /\ NextComponent
  /\ UNCHANGED <<up, running, request, resets>>

\* stop_monitoring.  The cancellation passes every except clause of this file and ends
\* the task, a component whose handler was running staying as it is.  But the checkers
\* and handlers of main.py may swallow it (a bare "except:" makes it an unhealthy
\* answer); then the rest of the cycle still runs.
StopMonitoring ==
  /\ CanStop /\ running /\ running' = FALSE
  /\ \/ monitor' = "off" /\ UNCHANGED <<health, up, todo, request, resets>>
     \/ monitor = "checking" /\ MarkUnhealthy
     \/ monitor = "recovering" /\ UNCHANGED <<health, up, monitor, todo, request, resets>>

-----------------------------------------------------------------------------
(* The HTTP API and the world outside.                                     *)

\* force_recovery clears attempts and cooldown and runs the handler in any case
ForceRecovery(q, c) ==
  /\ request[q] = "new"
  /\ health' = [health EXCEPT ![c] = Attempting([@ EXCEPT !.attempts = 0, !.next = "none"])]
  /\ request' = [request EXCEPT ![q] = c]
  /\ UNCHANGED <<up, monitor, running, todo, resets>>

\* the handler a request awaits returns
ForceRecovered(q, success) ==
  /\ request[q] \in Components
  /\ health' = [health EXCEPT ![request[q]] = Attempted(@, success)]
  /\ request' = [request EXCEPT ![q] = "done"]
  /\ UNCHANGED <<up, monitor, running, todo, resets>>

ResetComponent(c) ==
  /\ resets < MaxResets /\ resets' = resets + 1
  /\ health' = [health EXCEPT ![c] = Fresh]
  /\ UNCHANGED <<up, monitor, running, todo, request>>

\* the component breaks or mends
UpChanges(c) ==
  /\ up' = [up EXCEPT ![c] = ~@]
  /\ UNCHANGED <<health, monitor, running, todo, request, resets>>

\* the time of next_recovery comes
CooldownEnds(c) ==
  /\ health[c].next = "later"
  /\ health' = [health EXCEPT ![c].next = "past"]
  /\ UNCHANGED <<up, monitor, running, todo, request, resets>>

-----------------------------------------------------------------------------
MonitorStep == NewCycle \/ LoopEnds \/ SkipCheck \/ BeginCheck \/ CheckHealthy \/ CheckUnhealthy
                 \/ \E success \in BOOLEAN : MonitorRecovered(success)
RequestStep(q) == \E success \in BOOLEAN : ForceRecovered(q, success)

Next ==
  \/ MonitorStep
  \/ StopMonitoring
  \/ \E q \in Requests : RequestStep(q) \/ \E c \in Components : ForceRecovery(q, c)
  \/ \E c \in Components : ResetComponent(c) \/ UpChanges(c) \/ CooldownEnds(c)

Spec == Init /\ [][Next]_vars

\* The event loop runs the monitor and the requests, and time passes.  That the
\* checkers and handlers return is what the code assumes of them: none has a timeout.
Fairness ==
  /\ WF_vars(MonitorStep)
  /\ \A q \in Requests : WF_vars(RequestStep(q))
  /\ \A c \in Components : WF_vars(CooldownEnds(c))
FairSpec == Spec /\ Fairness

-----------------------------------------------------------------------------
(* Properties.                                                             *)

\* The types; attempts never pass max_recovery_attempts, whoever starts them.
TypeOK ==
  /\ health \in [Components -> Health]
  /\ up \in [Components -> BOOLEAN] /\ running \in BOOLEAN
  /\ monitor \in {"between", "checking", "recovering", "off"}
  /\ todo \in Seq(Components)
  /\ monitor \in {"checking", "recovering"} => todo # <<>>
  /\ request \in [Requests -> Components \cup {"new", "done"}]
  /\ resets \in 0..MaxResets

MonitorRecovers(c) == monitor = "recovering" /\ Current = c
Recoveries(c) == (IF MonitorRecovers(c) THEN {"monitor"} ELSE {})
                   \cup {q \in Requests : request[q] = c}

\* While the monitor runs no component is left RECOVERING with no handler at work and
\* no time set for the next attempt, however requests and resets interleave.
RecoveringIsPursued ==
  monitor # "off" =>
    \A c \in Components :
      health[c].status = "recovering" => Recoveries(c) # {} \/ health[c].next # "none"

\* no API request has been made yet
Untouched == resets = 0 /\ \A q \in Requests : request[q] = "new"

\* Until the first API request a healthy component has no error, attempt or cooldown
\* left over, so its next failure is recovered at once and with the whole budget.
HealthyIsFresh ==
  Untouched => \A c \in Components : health[c].status = "healthy" => health[c] = Fresh

\* A component that works again for good is reported healthy again, even after its
\* recovery was given up, unless the monitoring is stopped.
MendedIsSeen ==
  \A c \in Components : <>[](up[c] /\ running) => <>[](health[c].status = "healthy")

\* A component broken for good does not stay healthy in the report for ever, even
\* if its handler keeps claiming success, unless the monitoring is stopped.
BrokenIsSeen ==
  \A c \in Components : <>[](~up[c] /\ running) => []<>(health[c].status # "healthy")

-----------------------------------------------------------------------------
(* What the comments of the code promise and the code does not do.         *)

\* recovery_manager.py:125 "if the component is being recovered, check whether the
\* next recovery time has come": a component is recovered by one handler at a time.
OneRecoveryAtATime ==
  \A c \in Components : Cardinality(Recoveries(c)) <= 1

\* recovery_manager.py:307 reset_component "reset the component's status": a healthy
\* component has no cooldown pending, also when a reset meets a running handler.
ResetIsClean == \A c \in Components : health[c].status = "healthy" => health[c] = Fresh

\* get_all_status, recovery_manager.py:279 "determine the overall health": it is
\* 'healthy' only if no recovery has failed and waits for its next attempt.
OverallHealth ==
  IF \E c \in Components : health[c].status = "failed" THEN "critical"
  ELSE IF \E c \in Components : health[c].status = "degraded" THEN "degraded"
  ELSE "healthy"
OverallIsHonest ==
  OverallHealth = "healthy" =>
    \A c \in Components : ~(health[c].status = "recovering" /\ health[c].next # "none")
=============================================================================
