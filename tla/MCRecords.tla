----------------------------- MODULE MCRecords -----------------------------
(***************************************************************************)
(* The modules of Records on small instances.  In a behaviour one of them  *)
(* moves, the others stay in an initial state.  They share no variable, so *)
(* that interleaving them would show nothing more.                         *)
(***************************************************************************)
EXTENDS Records, TLC

CONSTANTS t1, t2, u1, u2, c1, c2, c3, s1, s2

\* One use case whose SQL reads one table, one that reads both.
TablesOfCase == u1 :> {t1} @@ u2 :> {t1, t2}

\* Two connections of one session, one of another.
ThreeConns == c1 :> s1 @@ c2 :> s1 @@ c3 :> s2

\* The sessions that the list of a user has at first.
TwoThreads == <<2, 1>>

allVars == <<part, vars, snapshotVars, cacheVars, trackerVars, reembedVars, indexVars>>

AllInit ==
    /\ part \in {"Knowledge", "TurnSnapshots", "ResultCache", "Tracker", "Reembed", "SessionIndex"}
    /\ Init /\ C!Init /\ E!Init /\ X!Init
    /\ T!Init /\ (part # "TurnSnapshots" => rows = <<>>)
    /\ R!Init /\ (part # "Tracker" => enabled)

AllNext ==
    \/ /\ part = "Knowledge" /\ Next
       /\ UNCHANGED <<part, snapshotVars, cacheVars, trackerVars, reembedVars, indexVars>>
    \/ /\ part = "TurnSnapshots" /\ T!Next
       /\ UNCHANGED <<part, vars, cacheVars, trackerVars, reembedVars, indexVars>>
    \/ /\ part = "ResultCache" /\ C!Next
       /\ UNCHANGED <<part, vars, snapshotVars, trackerVars, reembedVars, indexVars>>
    \/ /\ part = "Tracker" /\ R!Next
       /\ UNCHANGED <<part, vars, snapshotVars, cacheVars, reembedVars, indexVars>>
    \/ /\ part = "Reembed" /\ E!Next
       /\ UNCHANGED <<part, vars, snapshotVars, cacheVars, trackerVars, indexVars>>
    \/ /\ part = "SessionIndex" /\ X!Next
       /\ UNCHANGED <<part, vars, snapshotVars, cacheVars, trackerVars, reembedVars>>

AllSpec == AllInit /\ [][AllNext]_allVars
=============================================================================
