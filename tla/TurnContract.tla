---------------------------- MODULE TurnContract ----------------------------
(***************************************************************************)
(* What the reason layer promises the rest of the program of one turn,     *)
(* without its loops: it works, may ask the user a bounded number of       *)
(* questions, and either stops or presents the result of the one query     *)
(* that it has passed before.                                              *)
(***************************************************************************)
EXTENDS Naturals

CONSTANTS
    Queries,   \* SQL texts, each with the database it is meant for
    NoQuery,
    MaxAsks

VARIABLES
    stage,     \* what the session sees of the turn
    asks,      \* questions asked so far
    passed,    \* the query that validation has passed
    result     \* the query whose result is presented

vars == <<stage, asks, passed, result>>

Init ==
    /\ stage = "working" /\ asks = 0
    /\ passed = NoQuery /\ result = NoQuery

\* A question of a turn that was cancelled meanwhile is counted and withheld.
Ask ==
    /\ stage = "working" /\ passed = NoQuery
    /\ asks < MaxAsks /\ asks' = asks + 1
    /\ stage' \in {"asking", "working"}
    /\ UNCHANGED <<passed, result>>

Answer ==
    /\ stage = "asking" /\ stage' = "working"
    /\ UNCHANGED <<asks, passed, result>>

Abandon ==
    /\ stage = "asking" /\ stage' = "stopped"
    /\ UNCHANGED <<asks, passed, result>>

\* A query is passed once, on the database it ran on, and never exchanged.
Pass ==
    /\ stage = "working" /\ passed = NoQuery
    /\ passed' \in Queries
    /\ UNCHANGED <<stage, asks, result>>

Present ==
    /\ stage = "working" /\ passed # NoQuery
    /\ result' = passed
    /\ stage' = "presented"
    /\ UNCHANGED <<asks, passed>>

\* An error text, a cancellation or an exception.
Stop ==
    /\ stage = "working" /\ stage' = "stopped"
    /\ UNCHANGED <<asks, passed, result>>

Next == Ask \/ Answer \/ Abandon \/ Pass \/ Present \/ Stop

Spec == Init /\ [][Next]_vars
=============================================================================
