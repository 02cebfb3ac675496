---------------------------- MODULE RateLimiter ----------------------------
(***************************************************************************)
(* RateLimiter of src/src/collectors/exchange_collector.py: two sliding    *)
(* windows over the times of the requests granted.  Nothing is awaited     *)
(* between the test that lets a caller pass and the record of its request, *)
(* so one round of acquire() is one step.                                  *)
(*                                                                         *)
(* A request is an identity with an age, the Ticks since it was granted.   *)
(* Identities are used again once they are a Minute old.                   *)
(***************************************************************************)
EXTENDS Integers, FiniteSets

CONSTANTS
  Tokens,   \* the identities
  Rpm,      \* requests_per_minute  (30)
  Rps,      \* requests_per_second  (2)
  Minute,   \* the two windows, in Ticks
  Second

ASSUME TokenAssumption == IsFiniteSet(Tokens) /\ Rpm \in Nat /\ Cardinality(Tokens) > Rpm
ASSUME RateAssumption == Rps \in Nat
ASSUME WindowAssumption == Minute \in Nat /\ Second \in 1..Minute

VARIABLES
  minuteRequests,   \* minute_requests and second_requests, which keep what has
  secondRequests,   \* expired until the next call of acquire()
  age

limiterVars == <<minuteRequests, secondRequests, age>>

LimiterInit ==
  /\ minuteRequests = {} /\ secondRequests = {}
  /\ age = [r \in Tokens |-> Minute]

Tick ==
  /\ \E r \in Tokens : age[r] < Minute
  /\ age' = [r \in Tokens |-> IF age[r] < Minute THEN age[r] + 1 ELSE Minute]
  /\ UNCHANGED <<minuteRequests, secondRequests>>

\* Faulty variant: once a caller waits the lists are not purged any more.
WithinForEver(requests, window) == requests

\* the records that are no older than the window
Within(requests, window) == {r \in requests : age[r] < window}

\* Faulty variant: the minute is not looked at.
SlotsFreeBySecond == Cardinality(Within(secondRequests, Second)) < Rps

\* the condition of the loop is false
SlotsFree ==
  /\ Cardinality(Within(minuteRequests, Minute)) < Rpm
  /\ Cardinality(Within(secondRequests, Second)) < Rps

Unused == CHOOSE r \in Tokens : age[r] = Minute

\* acquire() returns
Grant ==
  /\ SlotsFree
  /\ minuteRequests' = Within(minuteRequests, Minute) \cup {Unused}
  /\ secondRequests' = Within(secondRequests, Second) \cup {Unused}
  /\ age' = [age EXCEPT ![Unused] = 0]

\* acquire() sleeps for 0.1 s and will look again
Refusal ==
  /\ ~SlotsFree
  /\ minuteRequests' = Within(minuteRequests, Minute)
  /\ secondRequests' = Within(secondRequests, Second)
  /\ UNCHANGED age

LimiterNext == Tick \/ Grant \/ Refusal

LimiterSpec == LimiterInit /\ [][LimiterNext]_limiterVars

-----------------------------------------------------------------------------
\* Both lists hold identities, and an age never passes the Minute.
LimiterTypeOK ==
  /\ minuteRequests \subseteq Tokens /\ secondRequests \subseteq Tokens
  /\ age \in [Tokens -> 0..Minute]

\* However many callers poll the limiter, no window of a minute or of a second has
\* more grants than its limit.
WithinRate ==
  /\ Cardinality({r \in Tokens : age[r] < Minute}) <= Rpm
  /\ Cardinality({r \in Tokens : age[r] < Second}) <= Rps
=============================================================================
