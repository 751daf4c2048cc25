-------------------------- MODULE MCReasoningLoop --------------------------
(* ReasoningLoop on small instances; the values are in the .cfg files.      *)
EXTENDS ReasonTurn
=============================================================================
