------------------------ MODULE CircuitBreaker_proofs ------------------------
(***************************************************************************)
(* The safety properties of CircuitBreaker, for any number of calls, any   *)
(* threshold, timeout and number of parse retries.                         *)
(***************************************************************************)
EXTENDS CircuitBreaker, TLAPS

USE BreakerAssumption

\* State, count and the calls at the provider stay in step.
BreakerInv == TypeOK /\ OpenIffThresholdReached /\ OpenAdmitsNobody

\* The breaker starts CLOSED with nothing counted.
LEMMA InitBreaker == Init => BreakerInv
  BY DEF Init, BreakerInv, TypeOK, OpenIffThresholdReached, OpenAdmitsNobody

\* The failures that on_failure counts stay within the threshold, and reach it
\* whenever it opens the breaker: a HALF_OPEN breaker is at the threshold.
LEMMA OnFailureFacts ==
    ASSUME BreakerInv, OnFailure
    PROVE  /\ state' \in {"CLOSED", "OPEN", "HALF_OPEN"}
           /\ failures' \in 0..FailThreshold /\ remaining' \in 0..ResetTicks
           /\ state' # "CLOSED" <=> failures' = FailThreshold
           /\ state' # "HALF_OPEN"
  <1>1. CASE state = "HALF_OPEN" \/ failures + 1 >= FailThreshold
    BY <1>1 DEF OnFailure, BreakerInv, TypeOK, OpenIffThresholdReached
  <1>2. CASE ~(state = "HALF_OPEN" \/ failures + 1 >= FailThreshold)
    BY <1>2 DEF OnFailure, BreakerInv, TypeOK, OpenIffThresholdReached
  <1>. QED BY <1>1, <1>2

\* Every step of a call, of the clock and of an operator keeps BreakerInv.
LEMMA NextBreaker == BreakerInv /\ [Next]_vars => BreakerInv'
  <1>. SUFFICES ASSUME BreakerInv, [Next]_vars PROVE BreakerInv'
    OBVIOUS
  <1>. USE DEF BreakerInv, TypeOK, OpenIffThresholdReached, OpenAdmitsNobody,
               Inside
  <1>1. ASSUME NEW c \in Calls, Start(c) PROVE BreakerInv'
    BY <1>1 DEF Start, breaker
  <1>2. ASSUME NEW c \in Calls, Enter(c) PROVE BreakerInv'
    BY <1>2 DEF Enter, StateAtEntry, Admits, Rejected
  <1>3. ASSUME NEW c \in Calls, Answers(c) PROVE BreakerInv'
    BY <1>3 DEF Answers, OnSuccess, StaleAfter, MayRetry
  <1>4. ASSUME NEW c \in Calls, FailsCounted(c) PROVE BreakerInv'
    <2>1. TypeOK' /\ OpenIffThresholdReached'
      BY <1>4, OnFailureFacts DEF FailsCounted, StaleAfter
    <2>2. OpenAdmitsNobody'
      BY <1>4 DEF FailsCounted, StaleAfter
    <2>. QED BY <2>1, <2>2
  <1>5. ASSUME NEW c \in Calls, FailsUncounted(c) PROVE BreakerInv'
    BY <1>5 DEF FailsUncounted
  <1>6. CASE Tick
    BY <1>6 DEF Tick
  <1>7. CASE Reset
    BY <1>7 DEF Reset
  <1>8. CASE UNCHANGED vars
    BY <1>8 DEF vars, breaker
  <1>. QED BY <1>1, <1>2, <1>3, <1>4, <1>5, <1>6, <1>7, <1>8 DEF Next

\* BreakerInv is an invariant of the breaker.
THEOREM BreakerInvariance == Spec => []BreakerInv
  BY InitBreaker, NextBreaker, PTL DEF Spec

\* State, count, timer and calls keep their types: the count never passes the
\* threshold, whatever answers late.
THEOREM TypeCorrect == Spec => []TypeOK
  <1>1. BreakerInv => TypeOK
    BY DEF BreakerInv
  <1>. QED BY <1>1, BreakerInvariance, PTL

\* The breaker is away from CLOSED exactly while the threshold is reached.
THEOREM StateMatchesCount == Spec => []OpenIffThresholdReached
  <1>1. BreakerInv => OpenIffThresholdReached
    BY DEF BreakerInv
  <1>. QED BY <1>1, BreakerInvariance, PTL

\* No call reaches the provider while the breaker is OPEN.
THEOREM OpenKeepsCallsOut == Spec => []OpenAdmitsNobody
  <1>1. BreakerInv => OpenAdmitsNobody
    BY DEF BreakerInv
  <1>. QED BY <1>1, BreakerInvariance, PTL
=============================================================================
