------------------------- MODULE AutoRecoveryProofs -------------------------
(***************************************************************************)
(* What holds of the recovery manager for every list of components, every  *)
(* limit and any number of API requests.                                   *)
(***************************************************************************)
EXTENDS AutoRecovery, SequenceTheorems, TLAPS

\* What the four functions of a ComponentHealth make of one.
LEMMA HealthFunctions ==
  ASSUME NEW h \in Health
  PROVE  /\ Fresh \in Health /\ Fresh.status = "healthy"
         /\ h.attempts < MaxAttempts =>
              Attempting(h) \in Health /\ Attempting(h).status = "recovering"
         /\ \A success \in BOOLEAN :
              /\ Attempted(h, success) \in Health
              /\ Attempted(h, success).status = "recovering" => Attempted(h, success).next # "none"
         /\ Unhealthy(h) \in Health /\ Unhealthy(h).attempts = h.attempts
         /\ Unhealthy(h).status # "recovering"
<1>1. Fresh \in Health /\ Fresh.status = "healthy"
  BY LimitAssumption DEF Fresh, Health, Statuses
<1>2. ASSUME h.attempts < MaxAttempts
      PROVE  Attempting(h) \in Health /\ Attempting(h).status = "recovering"
  <2> DEFINE a == h.attempts + 1
  <2>1. a \in 0..MaxAttempts /\ Attempting(h) = [h EXCEPT !.status = "recovering", !.attempts = a]
    BY <1>2, LimitAssumption DEF Health, Attempting
  <2> HIDE DEF a
  <2> QED
    BY <2>1 DEF Health, Statuses
<1>3. ASSUME NEW success \in BOOLEAN
      PROVE  /\ Attempted(h, success) \in Health
             /\ Attempted(h, success).status = "recovering" => Attempted(h, success).next # "none"
  BY <1>1 DEF Attempted, Health
<1>4. /\ Unhealthy(h) \in Health /\ Unhealthy(h).attempts = h.attempts
      /\ Unhealthy(h).status # "recovering"
  <2> DEFINE e == IF h.errors < FailedAt THEN h.errors + 1 ELSE FailedAt
             s == IF e >= FailedAt THEN "failed" ELSE "degraded"
  <2>1. e \in 0..FailedAt /\ s \in {"failed", "degraded"}
    BY LimitAssumption DEF Health
  <2>2. Unhealthy(h) = [h EXCEPT !.errors = e, !.status = s]
    BY DEF Unhealthy
  <2> HIDE DEF e, s
  <2> QED
    BY <2>1, <2>2 DEF Health, Statuses
<1> QED
  BY <1>1, <1>2, <1>3, <1>4

\* The monitor's current component is a registered one.
LEMMA CurrentType ==
  ASSUME TypeOK, todo # <<>>
  PROVE  Current \in Components /\ Tail(todo) \in Seq(Components)
  BY DEF TypeOK, Current

\* The invariant is inductive as it stands, given the types.
IInv == TypeOK /\ RecoveringIsPursued

\* With every component just registered the invariant holds.
LEMMA InitHolds == Init => IInv
<1> SUFFICES ASSUME Init PROVE IInv
  OBVIOUS
<1>1. Fresh \in Health /\ Fresh.status = "healthy"
  BY LimitAssumption DEF Fresh, Health, Statuses
<1>2. todo \in Seq(Components) /\ resets \in 0..MaxResets
  BY RegisteredAssumption, BoundAssumption DEF Init
<1>3. health \in [Components -> Health] /\ request \in [Requests -> Components \cup {"new", "done"}]
  BY <1>1 DEF Init
<1>4. TypeOK
  BY <1>2, <1>3 DEF Init, TypeOK
<1>5. RecoveringIsPursued
  BY <1>1 DEF Init, RecoveringIsPursued
<1> QED
  BY <1>4, <1>5 DEF IInv

\* A checker's unhealthy answer keeps the invariant, whoever gives it.
LEMMA MarkUnhealthyHolds ==
  ASSUME IInv, monitor = "checking", running' \in BOOLEAN, MarkUnhealthy
  PROVE  IInv'
<1>a. /\ health \in [Components -> Health] /\ todo \in Seq(Components)
      /\ request \in [Requests -> Components \cup {"new", "done"}] /\ resets \in 0..MaxResets
      /\ up \in [Components -> BOOLEAN] /\ running \in BOOLEAN
  BY DEF IInv, TypeOK
<1>b. todo # <<>> => Current \in Components /\ Tail(todo) \in Seq(Components)
  BY CurrentType DEF IInv
<1> DEFINE h == Unhealthy(health[Current])
<1>1. todo # <<>> /\ Current \in Components /\ health[Current] \in Health
  BY <1>a, <1>b DEF MarkUnhealthy, IInv, TypeOK
<1>2. h \in Health /\ h.status # "recovering"
  BY <1>1, HealthFunctions
<1>3. CASE /\ MayAttempt(h) /\ health' = [health EXCEPT ![Current] = Attempting(h)]
           /\ monitor' = "recovering" /\ UNCHANGED todo
  <2>1. Attempting(h) \in Health
    BY <1>2, <1>3, HealthFunctions DEF MayAttempt
  <2> HIDE DEF h
  <2>2. health' \in [Components -> Health]
    BY <1>a, <1>1, <1>3, <2>1
  <2>3. TypeOK'
    BY <1>a, <1>1, <1>3, <2>2 DEF MarkUnhealthy, TypeOK
  <2>4. \A c \in Components : c # Current => health'[c] = health[c]
    BY <1>a, <1>1, <1>3
  <2>5. RecoveringIsPursued'
    BY <1>3, <2>4 DEF MarkUnhealthy, IInv, RecoveringIsPursued, Recoveries,
                            MonitorRecovers, Current
  <2> QED
    BY <2>3, <2>5 DEF IInv
<1>4. CASE ~MayAttempt(h) /\ health' = [health EXCEPT ![Current] = h] /\ NextComponent
  <2> HIDE DEF h
  <2>1. health' \in [Components -> Health]
    BY <1>a, <1>1, <1>2, <1>4
  <2>2. TypeOK'
    BY <1>a, <1>b, <1>1, <1>4, <2>1 DEF MarkUnhealthy, NextComponent, TypeOK
  <2>3. \A c \in Components : health'[c] = health[c] \/ health'[c] = h
    BY <1>a, <1>1, <1>4
  <2>4. RecoveringIsPursued'
    BY <1>2, <1>4, <2>3 DEF MarkUnhealthy, NextComponent, IInv, RecoveringIsPursued,
                                  Recoveries, MonitorRecovers
  <2> QED
    BY <2>2, <2>4 DEF IInv
<1> QED
  BY <1>3, <1>4 DEF MarkUnhealthy

\* Every step of the monitoring task keeps the invariant.
LEMMA MonitorStepHolds == IInv /\ MonitorStep => IInv'
<1> SUFFICES ASSUME IInv, MonitorStep PROVE IInv'
  OBVIOUS
<1>1. /\ health \in [Components -> Health] /\ todo \in Seq(Components)
      /\ request \in [Requests -> Components \cup {"new", "done"}] /\ resets \in 0..MaxResets
      /\ up \in [Components -> BOOLEAN] /\ running \in BOOLEAN
  BY DEF IInv, TypeOK
<1>2. todo # <<>> => Current \in Components /\ Tail(todo) \in Seq(Components)
  BY CurrentType DEF IInv
<1>3. CASE NewCycle
  <2>1. TypeOK'
    BY <1>1, <1>3, RegisteredAssumption DEF NewCycle, TypeOK
  <2>2. RecoveringIsPursued'
    BY <1>3 DEF NewCycle, IInv, RecoveringIsPursued, Recoveries, MonitorRecovers
  <2> QED
    BY <2>1, <2>2 DEF IInv
<1>9. CASE LoopEnds
  BY <1>1, <1>9 DEF LoopEnds, IInv, TypeOK, RecoveringIsPursued
<1>4. CASE SkipCheck
  <2>1. TypeOK'
    BY <1>1, <1>2, <1>4 DEF SkipCheck, CoolsDown, NextComponent, TypeOK
  <2>2. RecoveringIsPursued'
    BY <1>4 DEF SkipCheck, CoolsDown, NextComponent, IInv, RecoveringIsPursued, Recoveries, MonitorRecovers
  <2> QED
    BY <2>1, <2>2 DEF IInv
<1>5. CASE BeginCheck
  <2>1. TypeOK'
    BY <1>1, <1>5 DEF BeginCheck, TypeOK
  <2>2. RecoveringIsPursued'
    BY <1>5 DEF BeginCheck, IInv, RecoveringIsPursued, Recoveries, MonitorRecovers
  <2> QED
    BY <2>1, <2>2 DEF IInv
<1>6. CASE CheckHealthy
  <2>1. todo # <<>> /\ Fresh \in Health /\ Fresh.status = "healthy"
    BY <1>1, <1>6, HealthFunctions, LimitAssumption DEF CheckHealthy, IInv, TypeOK, Fresh, Health, Statuses
  <2>2. health' \in [Components -> Health]
    BY <1>1, <1>2, <1>6, <2>1 DEF CheckHealthy
  <2>3. TypeOK'
    BY <1>1, <1>2, <1>6, <2>1, <2>2 DEF CheckHealthy, NextComponent, TypeOK
  <2>4. \A c \in Components : health'[c] = health[c] \/ health'[c] = Fresh
    BY <1>1, <1>6 DEF CheckHealthy
  <2>5. RecoveringIsPursued'
    BY <1>6, <2>1, <2>4 DEF CheckHealthy, NextComponent, IInv, RecoveringIsPursued,
                            Recoveries, MonitorRecovers
  <2> QED
    BY <2>3, <2>5 DEF IInv
<1>7. CASE CheckUnhealthy
  BY <1>7, MarkUnhealthyHolds DEF CheckUnhealthy, IInv, TypeOK
<1>8. ASSUME NEW success \in BOOLEAN, MonitorRecovered(success) PROVE IInv'
  <2> DEFINE h == Attempted(health[Current], success)
  <2>1. todo # <<>> /\ Current \in Components /\ health[Current] \in Health
    BY <1>1, <1>2, <1>8 DEF MonitorRecovered, IInv, TypeOK
  <2>2. h \in Health /\ (h.status = "recovering" => h.next # "none")
    BY <2>1, HealthFunctions
  <2>3. health' = [health EXCEPT ![Current] = h]
    BY <1>8 DEF MonitorRecovered
  <2> HIDE DEF h
  <2>4. health' \in [Components -> Health]
    BY <1>1, <2>1, <2>2, <2>3
  <2>5. TypeOK'
    BY <1>1, <1>2, <1>8, <2>1, <2>4 DEF MonitorRecovered, NextComponent, TypeOK
  <2>6. \A c \in Components : health'[c] = IF c = Current THEN h ELSE health[c]
    BY <1>1, <2>1, <2>3
  <2>7. RecoveringIsPursued'
    BY <1>8, <2>2, <2>6 DEF MonitorRecovered, NextComponent, IInv, RecoveringIsPursued,
                            Recoveries, MonitorRecovers
  <2> QED
    BY <2>5, <2>7 DEF IInv
<1> QED
  BY <1>3, <1>4, <1>5, <1>6, <1>7, <1>8, <1>9 DEF MonitorStep

\* The end of a handler that force_recovery awaits keeps the invariant.
LEMMA RequestStepHolds == IInv /\ (\E q \in Requests : RequestStep(q)) => IInv'
<1> SUFFICES ASSUME IInv, NEW q \in Requests, NEW success \in BOOLEAN, ForceRecovered(q, success)
             PROVE  IInv'
  BY DEF RequestStep
<1>1. /\ health \in [Components -> Health] /\ request \in [Requests -> Components \cup {"new", "done"}]
      /\ request[q] \in Components /\ health[request[q]] \in Health
  BY DEF IInv, TypeOK, ForceRecovered
<1> DEFINE h == Attempted(health[request[q]], success)
<1>2. h \in Health /\ (h.status = "recovering" => h.next # "none")
  BY <1>1, HealthFunctions
<1>3. health' = [health EXCEPT ![request[q]] = h]
  BY DEF ForceRecovered
<1> HIDE DEF h
<1>4. TypeOK'
  <2>1. health' \in [Components -> Health]
    BY <1>1, <1>2, <1>3
  <2>2. request' \in [Requests -> Components \cup {"new", "done"}]
    BY <1>1 DEF ForceRecovered
  <2> QED
    BY <2>1, <2>2 DEF IInv, TypeOK, ForceRecovered
<1>5. RecoveringIsPursued'
  <2>1. \A c \in Components : health'[c] = IF c = request[q] THEN h ELSE health[c]
    BY <1>1, <1>3
  <2>2. \A p \in Requests : p # q => request'[p] = request[p]
    BY <1>1 DEF ForceRecovered
  <2> QED
    BY <1>2, <2>1, <2>2 DEF ForceRecovered, IInv, RecoveringIsPursued, Recoveries,
                            MonitorRecovers, Current
<1> QED
  BY <1>4, <1>5 DEF IInv

\* The start of a force_recovery keeps the invariant.
LEMMA ForceHolds ==
  ASSUME IInv, NEW q \in Requests, NEW c \in Components, ForceRecovery(q, c)
  PROVE  IInv'
<1>1. /\ health \in [Components -> Health] /\ health[c] \in Health
      /\ request \in [Requests -> Components \cup {"new", "done"}]
  BY DEF IInv, TypeOK
<1> DEFINE g == [health[c] EXCEPT !.attempts = 0, !.next = "none"]
           h == Attempting(g)
<1>2. health' = [health EXCEPT ![c] = h]
  BY DEF ForceRecovery
<1>3. g \in Health /\ g.attempts < MaxAttempts
  <2>1. 0 \in 0..MaxAttempts /\ 0 < MaxAttempts
    BY LimitAssumption
  <2>2. \A k \in Health : LET m == [k EXCEPT !.attempts = 0, !.next = "none"]
                         IN  m \in Health /\ m.attempts = 0
    BY <2>1 DEF Health
  <2> QED
    BY <1>1, <2>1, <2>2
<1> HIDE DEF g
<1>4. h \in Health
  BY <1>3, HealthFunctions
<1> HIDE DEF h
<1>5. health' \in [Components -> Health] /\ request' \in [Requests -> Components \cup {"new", "done"}]
  BY <1>1, <1>2, <1>4 DEF ForceRecovery
<1>6. TypeOK'
  BY <1>5 DEF IInv, TypeOK, ForceRecovery
<1>7. RecoveringIsPursued'
  <2>1. /\ \A d \in Components : d # c => health'[d] = health[d]
        /\ request'[q] = c
        /\ \A p \in Requests : p # q => request'[p] = request[p]
    BY <1>1, <1>2 DEF ForceRecovery
  <2>2. ASSUME NEW d \in Components, monitor' # "off", health'[d].status = "recovering"
        PROVE  Recoveries(d)' # {} \/ health'[d].next # "none"
    <3>1. CASE d = c
      BY <2>1, <3>1 DEF Recoveries
    <3>2. CASE d # c
      <4>1. Recoveries(d) # {} \/ health[d].next # "none"
        BY <2>1, <2>2, <3>2 DEF IInv, RecoveringIsPursued, ForceRecovery
      <4>2. request[q] # d
        BY MarkAssumption DEF ForceRecovery
      <4> QED
        BY <2>1, <3>2, <4>1, <4>2 DEF Recoveries, MonitorRecovers, ForceRecovery, Current
    <3> QED
      BY <3>1, <3>2
  <2> QED
    BY <2>2 DEF RecoveringIsPursued
<1> QED
  BY <1>6, <1>7 DEF IInv

\* stop_monitoring, reset_component and the passing of time keep the invariant.
LEMMA OtherStepHolds ==
  ASSUME IInv,
         StopMonitoring \/ \E c \in Components : ResetComponent(c) \/ UpChanges(c) \/ CooldownEnds(c)
  PROVE  IInv'
<1>1. /\ health \in [Components -> Health] /\ up \in [Components -> BOOLEAN] /\ running \in BOOLEAN
      /\ resets \in 0..MaxResets
  BY DEF IInv, TypeOK
<1>2. CASE StopMonitoring
  <2>1. CASE monitor' = "off" /\ UNCHANGED <<health, up, todo, request, resets>>
    BY <1>2, <2>1 DEF StopMonitoring, IInv, TypeOK, RecoveringIsPursued
  <2>2. CASE monitor = "checking" /\ MarkUnhealthy
    BY <1>2, <2>2, MarkUnhealthyHolds DEF StopMonitoring
  <2>3. CASE monitor = "recovering" /\ UNCHANGED <<health, up, monitor, todo, request, resets>>
    BY <1>2, <2>3 DEF StopMonitoring, IInv, TypeOK, RecoveringIsPursued, Recoveries,
                      MonitorRecovers, Current
  <2> QED
    BY <1>2, <2>1, <2>2, <2>3 DEF StopMonitoring
<1>3. ASSUME NEW c \in Components, ResetComponent(c) PROVE IInv'
  <2>1. Fresh \in Health /\ Fresh.status = "healthy"
    BY <1>1, HealthFunctions
  <2>2. health' \in [Components -> Health] /\ resets' \in 0..MaxResets
    BY <1>1, <1>3, <2>1, BoundAssumption DEF ResetComponent
  <2>3. \A d \in Components : health'[d] = IF d = c THEN Fresh ELSE health[d]
    BY <1>1, <1>3 DEF ResetComponent
  <2>4. TypeOK'
    BY <1>3, <2>2 DEF ResetComponent, IInv, TypeOK
  <2>5. RecoveringIsPursued'
    BY <1>3, <2>1, <2>3 DEF ResetComponent, IInv, RecoveringIsPursued, Recoveries,
                            MonitorRecovers, Current
  <2> QED
    BY <2>4, <2>5 DEF IInv
<1>4. ASSUME NEW c \in Components, UpChanges(c) PROVE IInv'
  <2>1. up' \in [Components -> BOOLEAN]
    BY <1>1, <1>4 DEF UpChanges
  <2>2. TypeOK'
    BY <1>4, <2>1 DEF UpChanges, IInv, TypeOK
  <2>3. RecoveringIsPursued'
    BY <1>4 DEF UpChanges, IInv, RecoveringIsPursued, Recoveries, MonitorRecovers, Current
  <2> QED
    BY <2>2, <2>3 DEF IInv
<1>5. ASSUME NEW c \in Components, CooldownEnds(c) PROVE IInv'
  <2> DEFINE h == [health[c] EXCEPT !.next = "past"]
  <2>1. h \in Health /\ h.next = "past"
    <3>1. health[c] \in Health
      BY <1>1
    <3> QED
      BY <3>1 DEF Health
  <2>2. health' = [health EXCEPT ![c] = h]
    BY <1>5 DEF CooldownEnds
  <2> HIDE DEF h
  <2>3. health' \in [Components -> Health]
        /\ \A d \in Components : health'[d] = IF d = c THEN h ELSE health[d]
    BY <1>1, <2>1, <2>2
  <2>4. TypeOK'
    BY <1>5, <2>3 DEF CooldownEnds, IInv, TypeOK
  <2>5. RecoveringIsPursued'
    BY <1>5, <2>1, <2>3 DEF CooldownEnds, IInv, RecoveringIsPursued, Recoveries,
                            MonitorRecovers, Current
  <2> QED
    BY <2>4, <2>5 DEF IInv
<1> QED
  BY <1>2, <1>3, <1>4, <1>5

\* The invariant is inductive.
LEMMA StepHolds == IInv /\ [Next]_vars => IInv'
<1> SUFFICES ASSUME IInv, [Next]_vars PROVE IInv'
  OBVIOUS
<1>1. CASE MonitorStep
  BY <1>1, MonitorStepHolds
<1>2. CASE \E q \in Requests : RequestStep(q)
  BY <1>2, RequestStepHolds
<1>3. CASE \E q \in Requests : \E c \in Components : ForceRecovery(q, c)
  BY <1>3, ForceHolds
<1>4. CASE StopMonitoring \/ \E c \in Components : ResetComponent(c) \/ UpChanges(c) \/ CooldownEnds(c)
  BY <1>4, OtherStepHolds
<1>5. CASE UNCHANGED vars
  BY <1>5 DEF vars, IInv, TypeOK, RecoveringIsPursued, Recoveries, MonitorRecovers, Current
<1> QED
  BY <1>1, <1>2, <1>3, <1>4, <1>5 DEF Next

\* While the monitor runs no component stays RECOVERING without a handler at work or a
\* time set for the next attempt, for any number of concurrent requests and resets.
THEOREM AlwaysPursued == Spec => []RecoveringIsPursued
<1>1. IInv => RecoveringIsPursued
  BY DEF IInv
<1> QED
  BY <1>1, InitHolds, StepHolds, PTL DEF Spec

\* The attempts of a component never pass max_recovery_attempts, whoever starts them.
THEOREM TypeCorrect == Spec => []TypeOK
<1>1. IInv => TypeOK
  BY DEF IInv
<1> QED
  BY <1>1, InitHolds, StepHolds, PTL DEF Spec

-----------------------------------------------------------------------------
(* Until the first request of the API.                                     *)

\* The monitor's own handler runs for a component marked RECOVERING: a request could
\* change that while the handler is awaited, nothing else can.
HandlerIsMarked ==
  Untouched /\ monitor = "recovering" => health[Current].status = "recovering"

\* What is inductive together with IInv.
FreshInv == HealthyIsFresh /\ HandlerIsMarked

\* A request is not taken back.
LEMMA UntouchedBefore == IInv /\ [Next]_vars /\ Untouched' => Untouched /\ UNCHANGED <<request, resets>>
<1> SUFFICES ASSUME IInv, [Next]_vars, Untouched' PROVE Untouched /\ UNCHANGED <<request, resets>>
  OBVIOUS
<1>1. request \in [Requests -> Components \cup {"new", "done"}] /\ resets \in Nat
  BY BoundAssumption DEF IInv, TypeOK
<1>2. CASE UNCHANGED <<request, resets>>
  BY <1>2, Zenon DEF Untouched
<1>3. ASSUME NEW q \in Requests, RequestStep(q) \/ (\E c \in Components : ForceRecovery(q, c)) PROVE FALSE
  <2>1. request'[q] # "new"
    BY <1>1, <1>3, MarkAssumption DEF RequestStep, ForceRecovered, ForceRecovery
  <2> QED
    BY <2>1 DEF Untouched
<1>4. ASSUME NEW c \in Components, ResetComponent(c) PROVE FALSE
  BY <1>1, <1>4 DEF ResetComponent, Untouched
<1>5. CASE MonitorStep \/ StopMonitoring
  BY <1>2, <1>5 DEF MonitorStep, NewCycle, LoopEnds, SkipCheck, BeginCheck, CheckHealthy, CheckUnhealthy,
                    MarkUnhealthy, MonitorRecovered, StopMonitoring
<1>6. ASSUME NEW c \in Components, UpChanges(c) \/ CooldownEnds(c)
      PROVE  Untouched /\ UNCHANGED <<request, resets>>
  BY <1>2, <1>6 DEF UpChanges, CooldownEnds
<1>7. CASE UNCHANGED vars
  BY <1>2, <1>7 DEF vars
<1> QED
  BY <1>3, <1>4, <1>5, <1>6, <1>7 DEF Next

\* A component that stays as it is, becomes fresh or ceases to be healthy is no harm.
LEMMA FreshAfter ==
  ASSUME HealthyIsFresh, Untouched, NEW d \in Components, health \in [Components -> Health],
         NEW STATE h, health' = [health EXCEPT ![d] = h], h.status = "healthy" => h = Fresh
  PROVE  HealthyIsFresh' /\ health'[d] = h
<1>1. \A c \in Components : health'[c] = IF c = d THEN h ELSE health[c]
  BY Zenon
<1> QED
  BY <1>1, Zenon DEF HealthyIsFresh

\* The same of a step that marks the current component unhealthy.
LEMMA FreshAfterMark ==
  ASSUME IInv, FreshInv, Untouched, monitor = "checking", MarkUnhealthy
  PROVE  FreshInv'
<1> DEFINE h == Unhealthy(health[Current])
<1>1. /\ todo # <<>> /\ Current \in Components /\ health \in [Components -> Health]
      /\ health[Current] \in Health
  <2>1. todo # <<>> /\ Current \in Components /\ health \in [Components -> Health]
    BY CurrentType DEF IInv, TypeOK
  <2> QED
    BY <2>1
<1>2. h \in Health /\ h.status \in {"failed", "degraded"}
  BY <1>1, HealthFunctions DEF Unhealthy, Health
<1> HIDE DEF h
<1>3. CASE MayAttempt(h) /\ health' = [health EXCEPT ![Current] = Attempting(h)] /\ todo' = todo
  <2>1. Attempting(h).status = "recovering"
    BY <1>2 DEF Attempting, Health
  <2>2. HealthyIsFresh' /\ health'[Current] = Attempting(h)
    BY <1>1, <1>3, <2>1, FreshAfter DEF FreshInv
  <2>3. Current' = Current
    BY <1>3 DEF Current
  <2> QED
    BY <2>1, <2>2, <2>3 DEF FreshInv, HandlerIsMarked
<1>4. CASE health' = [health EXCEPT ![Current] = h] /\ monitor' = "between"
  <2>1. HealthyIsFresh'
    BY <1>1, <1>2, <1>4, FreshAfter DEF FreshInv
  <2> QED
    BY <1>4, <2>1 DEF FreshInv, HandlerIsMarked
<1> QED
  BY <1>3, <1>4 DEF MarkUnhealthy, NextComponent, h

\* Every step keeps it.
LEMMA FreshStep == IInv /\ FreshInv /\ [Next]_vars => FreshInv'
<1> SUFFICES ASSUME IInv, FreshInv, [Next]_vars, Untouched' PROVE FreshInv'
  BY DEF FreshInv, HealthyIsFresh, HandlerIsMarked
<1>1. Untouched /\ UNCHANGED <<request, resets>>
  BY UntouchedBefore
<1>2. health \in [Components -> Health] /\ (todo # <<>> => Current \in Components)
  BY CurrentType DEF IInv, TypeOK
<1>3. ASSUME UNCHANGED health, monitor' # "recovering" PROVE FreshInv'
  BY <1>1, <1>3, Zenon DEF FreshInv, HealthyIsFresh, HandlerIsMarked
<1>4. ASSUME UNCHANGED <<health, monitor, todo>> PROVE FreshInv'
  BY <1>1, <1>4, Zenon DEF FreshInv, HealthyIsFresh, HandlerIsMarked, Current
<1>5. CASE NewCycle \/ LoopEnds \/ SkipCheck \/ BeginCheck
  BY <1>3, <1>5 DEF NewCycle, LoopEnds, SkipCheck, BeginCheck, NextComponent
<1>6. CASE CheckHealthy
  <2>1. /\ monitor' = "between" /\ Current \in Components
        /\ health' = health \/ health' = [health EXCEPT ![Current] = Fresh]
    BY <1>2, <1>6 DEF CheckHealthy, NextComponent, IInv, TypeOK
  <2>2. CASE health' = [health EXCEPT ![Current] = Fresh]
    <3>1. HealthyIsFresh'
      BY <1>1, <1>2, <2>1, <2>2, FreshAfter DEF FreshInv
    <3> QED
      BY <2>1, <3>1 DEF FreshInv, HandlerIsMarked
  <2> QED
    BY <1>3, <2>1, <2>2
<1>7. CASE CheckUnhealthy
  BY <1>1, <1>7, FreshAfterMark DEF CheckUnhealthy
<1>8. ASSUME NEW success \in BOOLEAN, MonitorRecovered(success) PROVE FreshInv'
  <2> DEFINE h == Attempted(health[Current], success)
  <2>1. /\ monitor' = "between" /\ Current \in Components /\ monitor = "recovering"
        /\ health' = [health EXCEPT ![Current] = h]
    BY <1>2, <1>8 DEF MonitorRecovered, NextComponent, IInv, TypeOK
  <2>2. h.status = "healthy" => h = Fresh
    <3>1. health[Current].status = "recovering" /\ health[Current] \in Health
      BY <1>1, <1>2, <2>1 DEF FreshInv, HandlerIsMarked
    <3> QED
      BY <3>1 DEF Attempted, Health
  <2> HIDE DEF h
  <2>3. HealthyIsFresh'
    BY <1>1, <1>2, <2>1, <2>2, FreshAfter DEF FreshInv
  <2> QED
    BY <2>1, <2>3 DEF FreshInv, HandlerIsMarked
<1>9. CASE StopMonitoring
  BY <1>1, <1>3, <1>4, <1>9, FreshAfterMark DEF StopMonitoring
<1>10. ASSUME NEW q \in Requests, RequestStep(q) \/ (\E c \in Components : ForceRecovery(q, c))
       PROVE  FreshInv'
  <2>1. request'[q] # "new"
    BY <1>10, MarkAssumption DEF RequestStep, ForceRecovered, ForceRecovery, IInv, TypeOK
  <2> QED
    BY <2>1 DEF Untouched
<1>11. ASSUME NEW c \in Components, ResetComponent(c) \/ UpChanges(c) PROVE FreshInv'
  <2>1. resets \in Nat
    BY BoundAssumption DEF IInv, TypeOK
  <2> QED
    BY <1>1, <1>4, <1>11, <2>1 DEF ResetComponent, UpChanges
<1>12. ASSUME NEW c \in Components, CooldownEnds(c) PROVE FreshInv'
  <2> DEFINE h == [health[c] EXCEPT !.next = "past"]
  <2>1. /\ health[c] \in Health /\ health[c].next = "later"
        /\ health' = [health EXCEPT ![c] = h] /\ UNCHANGED <<monitor, todo>>
    BY <1>2, <1>12 DEF CooldownEnds
  <2>2. h.status = health[c].status
    BY <2>1 DEF Health
  <2>3. h.status # "healthy"
    BY <1>1, <2>1, <2>2 DEF FreshInv, HealthyIsFresh, Fresh
  <2> HIDE DEF h
  <2>4. HealthyIsFresh' /\ health'[c] = h
    BY <1>1, <1>2, <2>1, <2>3, FreshAfter DEF FreshInv
  <2>5. \A d \in Components : health'[d].status = health[d].status
    BY <1>2, <2>1, <2>2, <2>4
  <2>6. Current' = Current /\ (monitor = "recovering" => Current \in Components)
    BY <1>2, <2>1 DEF Current, IInv, TypeOK
  <2> QED
    BY <1>1, <2>1, <2>4, <2>5, <2>6 DEF FreshInv, HandlerIsMarked
<1>13. CASE UNCHANGED vars
  BY <1>4, <1>13 DEF vars
<1> QED
  BY <1>5, <1>6, <1>7, <1>8, <1>9, <1>10, <1>11, <1>12, <1>13 DEF Next, MonitorStep

\* Until the first API request a healthy component has nothing left over of an earlier
\* failure, for any components, limits and handlers.
THEOREM HealthyStartsAfresh == Spec => []HealthyIsFresh
<1>1. Init => FreshInv
  BY DEF Init, FreshInv, HealthyIsFresh, HandlerIsMarked, Fresh
<1>2. FreshInv => HealthyIsFresh
  BY DEF FreshInv
<1> QED
  BY <1>1, <1>2, InitHolds, StepHolds, FreshStep, PTL DEF Spec
=============================================================================
