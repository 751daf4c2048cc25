-------------------------- MODULE MCCircuitBreaker --------------------------
(* CircuitBreaker on small instances.  The calls are interchangeable; the   *)
(* run that checks liveness does without the symmetry.                      *)
EXTENDS CircuitBreaker, TLC

CallSymmetry == Permutations(Calls)
=============================================================================
