--------------------------- MODULE CircuitBreaker ---------------------------
(***************************************************************************)
(* The circuit breaker of the LLM client (utils/llm/circuit_breaker.py) and *)
(* the calls that go through it: llm_call_with_parse_retry makes up to     *)
(* 1 + MaxParseRetries attempts, each inside breaker.guard().              *)
(*                                                                         *)
(* The client is a singleton, so the turns of all sessions share one       *)
(* breaker.  Its lock is only held between awaits: the entry of guard() is *)
(* one step, and the end of the guarded block with on_success or           *)
(* on_failure another; the LLM answers in between.                         *)
(*                                                                         *)
(* As in ReasoningLoop, "_..." variants of a definition carry one slip.    *)
(***************************************************************************)
EXTENDS Naturals, FiniteSets

CONSTANTS
    Calls,           \* LLM calls that may be in progress at the same time
    FailThreshold,   \* settings.llm_cb_fail_threshold
    ResetTicks,      \* settings.llm_cb_reset_timeout_sec, in ticks of the clock
    MaxParseRetries  \* settings.llm_parse_max_retry

ASSUME BreakerAssumption ==
    /\ FailThreshold \in Nat \ {0}
    /\ ResetTicks \in Nat
    /\ MaxParseRetries \in Nat

VARIABLES
    state,     \* _state
    failures,  \* _consecutive_failures, up to the threshold it is compared with
    remaining, \* _remaining_reset_sec(), in ticks since _opened_at
    pc,        \* pc[c]: "idle", "calling" (before guard) or "inside"
    attempt,   \* attempt[c]: parse retries already made
    stale      \* calls inside the guard when the breaker last opened (history)

breaker == <<state, failures, remaining, stale>>
vars == <<breaker, pc, attempt>>

Inside == {c \in Calls : pc[c] = "inside"}

TypeOK ==
    /\ state \in {"CLOSED", "OPEN", "HALF_OPEN"}
    /\ failures \in 0..FailThreshold
    /\ remaining \in 0..ResetTicks
    /\ pc \in [Calls -> {"idle", "calling", "inside"}]
    /\ attempt \in [Calls -> 0..MaxParseRetries]
    /\ stale \subseteq Calls

\* _opened_at is 0.0: the timeout is long over.
Init ==
    /\ state = "CLOSED" /\ failures = 0 /\ remaining = 0
    /\ pc = [c \in Calls |-> "idle"] /\ attempt = [c \in Calls |-> 0]
    /\ stale = {}

Start(c) ==
    /\ pc[c] = "idle"
    /\ pc' = [pc EXCEPT ![c] = "calling"]
    /\ attempt' = [attempt EXCEPT ![c] = 0]
    /\ UNCHANGED breaker

\* _maybe_transition_to_half_open
StateAtEntry == IF state = "OPEN" /\ remaining = 0 THEN "HALF_OPEN" ELSE state

Admits == StateAtEntry # "OPEN"

\* A rejected call ends with CircuitOpenError, which nothing retries.
Rejected_ExtendsOpen(c) ==
    /\ pc' = [pc EXCEPT ![c] = "idle"]
    /\ remaining' = ResetTicks
Rejected(c) ==
    /\ pc' = [pc EXCEPT ![c] = "idle"]
    /\ UNCHANGED remaining

Enter(c) ==
    /\ pc[c] = "calling"
    /\ state' = StateAtEntry
    /\ IF Admits
       THEN pc' = [pc EXCEPT ![c] = "inside"] /\ UNCHANGED remaining
       ELSE Rejected(c)
    /\ UNCHANGED <<failures, attempt, stale>>

OnSuccess_KeepsCount ==
    /\ state' = "CLOSED" /\ remaining' = 0
    /\ UNCHANGED failures

OnSuccess == state' = "CLOSED" /\ failures' = 0 /\ remaining' = 0

OnFailure ==
    LET count == IF failures < FailThreshold THEN failures + 1 ELSE failures
    IN  /\ failures' = count
        /\ IF state = "HALF_OPEN" \/ count >= FailThreshold
           THEN state' = "OPEN" /\ remaining' = ResetTicks
           ELSE UNCHANGED <<state, remaining>>

\* Calls that were inside when the breaker opened and have not ended yet.
StaleAfter(c) ==
    stale' = IF state # "OPEN" /\ state' = "OPEN" THEN Inside \ {c}
                                                  ELSE stale \ {c}

MayRetry(c) == attempt[c] < MaxParseRetries

\* The provider answers.  The guard counts a success before the answer is
\* parsed; an answer that cannot be parsed is asked for again.
Answers(c) ==
    /\ pc[c] = "inside"
    /\ OnSuccess
    /\ StaleAfter(c)
    /\ \/ pc' = [pc EXCEPT ![c] = "idle"] /\ UNCHANGED attempt
       \/ /\ MayRetry(c)
          /\ attempt' = [attempt EXCEPT ![c] = @ + 1]
          /\ pc' = [pc EXCEPT ![c] = "calling"]

\* Timeout, network error or 5xx.
FailsCounted(c) ==
    /\ pc[c] = "inside"
    /\ OnFailure
    /\ StaleAfter(c)
    /\ pc' = [pc EXCEPT ![c] = "idle"]
    /\ UNCHANGED attempt

\* 4xx, any other exception, or a stream that is dropped: not counted.
FailsUncounted(c) ==
    /\ pc[c] = "inside"
    /\ pc' = [pc EXCEPT ![c] = "idle"]
    /\ stale' = stale \ {c}
    /\ UNCHANGED <<state, failures, remaining, attempt>>

Tick ==
    /\ remaining > 0
    /\ remaining' = remaining - 1
    /\ UNCHANGED <<state, failures, stale, pc, attempt>>

\* reset(), for tests and operators.
Reset ==
    /\ state' = "CLOSED" /\ failures' = 0 /\ remaining' = 0
    /\ UNCHANGED <<stale, pc, attempt>>

Next ==
    \/ \E c \in Calls : \/ Start(c) \/ Enter(c) \/ Answers(c)
                        \/ FailsCounted(c) \/ FailsUncounted(c)
    \/ Tick
    \/ Reset

\* Time passes; providers may hang and nobody has to call.
Spec == Init /\ [][Next]_vars /\ WF_vars(Tick)

-----------------------------------------------------------------------------
(* Properties                                                               *)

\* The breaker is away from CLOSED exactly while the last FailThreshold counted
\* outcomes were failures, whichever calls they came from: answers and failures
\* of calls of different ages never leave the state and the count apart.
OpenIffThresholdReached == state # "CLOSED" <=> failures = FailThreshold

\* While the breaker is OPEN every call at the provider was there before it
\* opened: nothing is sent to a provider known to fail before the timeout.
OpenAdmitsNobody == state = "OPEN" => Inside \subseteq stale

\* If calls keep coming, an OPEN breaker lets one through some day: late
\* failures restart the timeout, rejected calls do not.
OpenIsLeft ==
    []<><<\E c \in Calls : Enter(c)>>_vars
        => (state = "OPEN" ~> state # "OPEN")

=============================================================================
