----------------------------- MODULE ReasonTurn -----------------------------
(***************************************************************************)
(* The reason layer implements TurnContract: how a state of ReasoningLoop  *)
(* looks from outside the layer.                                           *)
(***************************************************************************)
EXTENDS ReasoningLoop

Stage ==
    CASE node \in {"clarification_handler", "awaiting_answer"} -> "asking"
      [] node = "present"                        -> "presented"
      [] node \in {"end", "aborted", "abandoned"} -> "stopped"
      [] OTHER                                   -> "working"

Passed == IF validatedSql = NoSql THEN <<NoSql, NoDb>>
                                  ELSE <<validatedSql, checkedDb>>

\* sql_executor runs the validated SQL on the database of target_db.
Presented == IF node = "present" THEN <<validatedSql, QueryDb(targetDb)>>
                                 ELSE <<NoSql, NoDb>>

Contract == INSTANCE TurnContract WITH
    Queries <- Sqls \X Systems, NoQuery <- <<NoSql, NoDb>>,
    MaxAsks <- MaxAskUserRounds,
    stage <- Stage, asks <- loopGuard.asks,
    passed <- Passed, result <- Presented

\* Whatever its nested loops do, a turn asks at most MAX_ASK_USER_ROUNDS
\* questions, passes at most one query, never exchanges or forgets it, and
\* presents that query run on the database it was validated on.
ContractKept == Contract!Spec
=============================================================================
