------------------------------ MODULE Records ------------------------------
(***************************************************************************)
(* What a turn learns and, beside it, what is kept and read again later,   *)
(* from turn to turn: the snapshots of turns, the rows for a download, the *)
(* trace of a run, the index of the SQL history and the list of sessions,  *)
(* with variables of their own, and what they promise together.            *)
(***************************************************************************)
EXTENDS Knowledge

CONSTANTS
    Limit, OldTurns, MaxTurns, Channels, Faults,               \* TurnSnapshots
    Conns, Sessions, SessionOf, MaxCache, MaxCachedTurns,      \* ResultCache
    Nodes, Shown, MaxChains, MaxEvents, MaxRuns,               \* Tracker
    Rows, BatchSizes, MaxClock, MaxBatches, MaxPoints,         \* Reembed
    Threads, OldThreads, PageSize, MaxQuestions                \* SessionIndex

VARIABLES
    part,  \* the module that moves
    rows, turn, list, pc, route, shown, fault,
    turns, running, due, cache, newest, announced, mishap, overlap,
    enabled, graph, stack, chains, handler, trace, file, pending, screen, runs, resumed,
    clock, table, points, saved, run, recon, ids, batches, late, doubt, debris,
    lastActive, archived, titles, written, busy, asked, next, pageFull, read, steady,
    left, renamed, unindexed

T == INSTANCE TurnSnapshots
C == INSTANCE ResultCache WITH MaxTurns <- MaxCachedTurns, turn <- running
R == INSTANCE Tracker
E == INSTANCE Reembed WITH runs <- batches, MaxRuns <- MaxBatches
X == INSTANCE SessionIndex WITH Sessions <- Threads, Old <- OldThreads

ASSUME KnowledgeAssumed == KnowledgeAssumption
ASSUME SnapshotsAssumed == T!SnapshotsAssumption
ASSUME CacheAssumed == C!CacheAssumption
ASSUME TrackerAssumed == R!TrackerAssumption
ASSUME ReembedAssumed == E!ReembedAssumption
ASSUME SessionIndexAssumed == X!SessionIndexAssumption

snapshotVars == <<rows, turn, list, pc, route, shown, fault>>
cacheVars == <<turns, running, due, cache, newest, announced, mishap, overlap>>
trackerVars == <<enabled, graph, stack, chains, handler, trace, file, pending,
                 screen, runs, resumed>>
reembedVars == <<clock, table, points, saved, run, recon, ids, batches, late,
                 doubt, debris>>
indexVars == <<lastActive, archived, titles, written, busy, asked, next, pageFull, read, steady,
               left, renamed, unindexed>>

-----------------------------------------------------------------------------
(* The properties of the modules, under their names there and with their      *)
(* types; those of Knowledge are FindingsReachState and KnowledgeOnlyGrows    *)

\* What a turn refers to is the newest of the turns it restored, and the rows
\* shown again are those of this turn; the list of sessions is shown as a whole,
\* page by page, whatever the sessions do meanwhile.
ShownAreOfReference ==
    /\ T!TypeOK /\ T!PrimaryIsNewest /\ T!ShownAreOfReference
    /\ X!TypeOK /\ X!SessionsHold

\* "Finds the recent successful turns and restores the list of TurnSnapshots".
FreshTurnIsRestored == T!FreshTurnIsRestored

\* A session downloads the rows it was told of last, or none; those are the rows
\* it found last, unless two of its answers were on their way at once.
DownloadIsNewest == C!TypeOK /\ C!DownloadIsNewest

\* The timeline of a trace is one story and its report tells it, also across a
\* question to the user; the client sees every visit of a node begin and end once.
TraceTellsRun == R!TypeOK /\ R!TraceTellsRun /\ R!AddsAreDone

\* The index of the SQL history follows the table as far as the state file says.
IndexFollowsTable == E!TypeOK /\ E!IndexFollowsTable
=============================================================================
