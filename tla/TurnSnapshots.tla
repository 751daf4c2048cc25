--------------------------- MODULE TurnSnapshots ---------------------------
(***************************************************************************)
(* What a turn of a session can refer back to: state.turn_snapshots, read  *)
(* from the message table when a turn begins (turn_snapshot_store.py),     *)
(* used by continue_orchestrator_node, and extended by save_turn_snapshot  *)
(* when a turn has been formatted.                                         *)
(*                                                                         *)
(* The turns of the session follow one another.  Rows reach the table in   *)
(* the order of MessageStore; which node follows which inside a turn is    *)
(* Interpret and ReasoningLoop.                                            *)
(***************************************************************************)
EXTENDS Naturals, Sequences, FiniteSets, SequencesExt

CONSTANTS
    Limit,     \* _MAX_SNAPSHOTS
    OldTurns,  \* bound: turns in the table when the process starts
    MaxTurns,  \* bound: turns in all
    Channels,  \* of "ws" and "rest": only the first restores snapshots
    Faults     \* of "history", "seqs" and "skip": reads that may fail

SnapshotsAssumption ==
    /\ Limit \in Nat \ {0} /\ MaxTurns \in Nat /\ OldTurns \in 0..MaxTurns
    /\ Channels \subseteq {"ws", "rest"}
    /\ Faults \subseteq {"history", "seqs", "skip"}

VARIABLES
    rows,    \* checkpoint_dc_messages of the session; seq is the index
    turn,    \* the number of the turn that runs or ran last
    list,    \* state.turn_snapshots, as the checkpoint keeps it
    pc,      \* "idle", "asked", "classify", "reason" or "display"
    route,   \* the route of continue_orchestrator, or "new"
    shown,   \* the turn whose rows this turn shows again, 0 for none
    fault    \* a read failed when this turn began

vars == <<rows, turn, list, pc, route, shown, fault>>

Routes == {"redisplay", "analyze", "regenerate", "refine"}
Turns == 1..MaxTurns

\* `rows' and `nq' are what metadata holds, `ok' whether the SQL ran; `intent'
\* is the text of the column: empty in rows of earlier releases.
Row == [role : {"user", "assistant"}, turn : Turns,
        type : {"normal", "clarification", "error"},
        status : {"success", "cancelled", "failure"},
        sql : BOOLEAN, ok : BOOLEAN, rows : BOOLEAN, nq : BOOLEAN,
        intent : {"", "IntentType.X"}]

\* TurnSnapshot: generated_sql is that of the turn.
Snapshot == [turn : Turns, userSeq : Nat, nq : BOOLEAN]

TypeOK ==
    /\ rows \in Seq(Row) /\ turn \in 0..MaxTurns
    /\ list \in Seq(Snapshot) /\ Len(list) <= Limit + 1
    /\ pc \in {"idle", "asked", "classify", "reason", "display"}
    /\ route \in Routes \cup {"new"}
    /\ shown \in 0..MaxTurns /\ fault \in BOOLEAN

-----------------------------------------------------------------------------
(* Rows that save_message writes                                            *)

UserRow(t) ==
    [role |-> "user", turn |-> t, type |-> "normal", status |-> "success",
     sql |-> FALSE, ok |-> FALSE, rows |-> FALSE, nq |-> FALSE, intent |-> ""]

AnswerRow(t, sql, ok, kept) ==
    [role |-> "assistant", turn |-> t, type |-> "normal", status |-> "success",
     sql |-> sql, ok |-> ok, rows |-> ok /\ kept, nq |-> kept,
     intent |-> "IntentType.X"]

\* Each turn in the table has the row of its question and that of its answer.
OldRow(i, kept) ==
    LET t == (i + 1) \div 2
    IN IF i % 2 = 1 THEN UserRow(t)
       ELSE [AnswerRow(t, TRUE, TRUE, kept[t]) EXCEPT !.intent = ""]

Init ==
    /\ \E n \in 0..OldTurns : \E kept \in [1..n -> BOOLEAN] :
          /\ rows = [i \in 1..2 * n |-> OldRow(i, kept)]
          /\ turn = n
    /\ list = <<>> /\ pc = "idle" /\ route = "new"
    /\ shown = 0 /\ fault = FALSE

-----------------------------------------------------------------------------
(* restore_from_db                                                          *)

IsReference(r) ==
    /\ r.role = "assistant" /\ r.type = "normal" /\ r.status = "success"
    /\ r.sql

References == {i \in DOMAIN rows : IsReference(rows[i])}

\* _fetch_assistant_rows: the seqs of the last `limit' such rows.
Fetched == {i \in References : Cardinality({j \in References : j > i}) < Limit}

\* _fetch_user_seqs: the last question before the row, 0 when the read failed.
UserSeq(i, seqsRead) ==
    LET before == SelectLastInSubSeq(rows, 1, i - 1,
                      LAMBDA r : r.role = "user" /\ r.type = "normal")
    IN IF seqsRead THEN before ELSE 0

\* _build_snapshot_from_row raises unless _parse_intent knows the text.
Parsed(i) == rows[i].intent = ""

SnapshotOf(i, seqsRead) ==
    [turn |-> rows[i].turn, userSeq |-> UserSeq(i, seqsRead), nq |-> rows[i].nq]

\* list.sort(key=user_message_seq), which is stable, of rows that come newest first.
Before(i, j, seqsRead) ==
    \/ UserSeq(i, seqsRead) < UserSeq(j, seqsRead)
    \/ UserSeq(i, seqsRead) = UserSeq(j, seqsRead) /\ i > j
Sorted(built, seqsRead) ==
    {order \in [1..Cardinality(built) -> built] :
        \A p, q \in 1..Cardinality(built) : p < q => Before(order[p], order[q], seqsRead)}

\* The list that is restored, the only one of this set; `skipped' are rows whose
\* snapshot cannot be built for another reason.
Restored(seqsRead, skipped) ==
    LET built == {i \in Fetched \ skipped : Parsed(i)}
    IN {[p \in DOMAIN order |-> SnapshotOf(order[p], seqsRead)] :
           order \in Sorted(built, seqsRead)}

-----------------------------------------------------------------------------
(* A message arrives: main.py restores, run_pipeline saves the question and *)
(* starts the graph with the list it was given                              *)

Begin(restored, failed) ==
    /\ turn < MaxTurns
    /\ turn' = turn + 1
    /\ rows' = Append(rows, UserRow(turn'))
    /\ list' = restored /\ fault' = failed
    /\ pc' = "classify" /\ route' = "new" /\ shown' = 0

\* POST /api/query passes no snapshots; reading the history may fail.
BeginWithout ==
    /\ pc = "idle"
    /\ \/ "rest" \in Channels /\ Begin(<<>>, TRUE)
       \/ "history" \in Faults /\ Begin(<<>>, TRUE)

BeginRestored ==
    /\ pc = "idle" /\ "ws" \in Channels
    /\ \/ \E restored \in Restored(TRUE, {}) : Begin(restored, FALSE)
       \/ "seqs" \in Faults /\ \E restored \in Restored(FALSE, {}) : Begin(restored, TRUE)
       \/ /\ "skip" \in Faults
          /\ \E i \in Fetched : \E restored \in Restored(TRUE, {i}) : Begin(restored, TRUE)

\* A clarification interrupts the turn; the answer resumes it with the list of
\* the checkpoint.
Ask ==
    /\ pc \in {"classify", "reason"}
    /\ rows' = Append(rows, [AnswerRow(turn, FALSE, FALSE, FALSE)
                                EXCEPT !.type = "clarification", !.intent = ""])
    /\ pc' = "asked"
    /\ UNCHANGED <<turn, list, route, shown, fault>>

Answer ==
    /\ pc = "asked" /\ turn < MaxTurns
    /\ turn' = turn + 1
    /\ rows' = Append(rows, UserRow(turn'))
    /\ pc' = "classify"
    /\ UNCHANGED <<list, route, shown, fault>>

\* The process restarts on a checkpointer in memory, or the pending question
\* was cancelled: the next message begins a turn.
Forget ==
    /\ pc \in {"idle", "asked"}
    /\ list' = <<>> /\ pc' = "idle"
    /\ UNCHANGED <<rows, turn, route, shown, fault>>

-----------------------------------------------------------------------------
(* continue_orchestrator_node                                               *)

Primary == Last(list)

\* A question that continues nothing, or a list that is empty.
ClassifyNew ==
    /\ pc = "classify"
    /\ pc' = "reason" /\ route' = "new"
    /\ UNCHANGED <<rows, turn, list, shown, fault>>

\* The first reference row after the question; 0 for none.
MetadataRow(userSeq) ==
    SelectInSeq([i \in DOMAIN rows |-> i],
                LAMBDA i : i > userSeq /\ IsReference(rows[i]))

RowsFromMetadata_Unguarded(snap) ==
    LET i == MetadataRow(snap.userSeq)
    IN IF i # 0 /\ rows[i].rows THEN rows[i].turn ELSE 0

\* _fetch_rows_from_metadata: the turn whose rows it returns, 0 for None.
RowsFromMetadata(snap) ==
    LET i == MetadataRow(snap.userSeq)
    IN IF snap.userSeq > 0 /\ i # 0 /\ rows[i].rows THEN rows[i].turn ELSE 0

\* REDISPLAY and ANALYZE restore the rows, else run the SQL of the snapshot
\* again; when that fails too the turn ends in error_end.
ShowRows ==
    /\ pc = "classify" /\ list # <<>>
    /\ route' \in {"redisplay", "analyze"}
    /\ \/ /\ RowsFromMetadata(Primary) # 0
          /\ shown' = RowsFromMetadata(Primary)
          /\ pc' = "display" /\ UNCHANGED rows
       \/ /\ RowsFromMetadata(Primary) = 0
          /\ shown' = Primary.turn
          /\ pc' = "display" /\ UNCHANGED rows
       \/ /\ RowsFromMetadata(Primary) = 0
          /\ rows' = Append(rows, AnswerRow(turn, FALSE, FALSE, TRUE))
          /\ pc' = "idle" /\ UNCHANGED shown
    /\ UNCHANGED <<turn, list, fault>>

\* REGENERATE needs the normalized query; target_db is stored with the SQL.
Downgrades(snap) == ~snap.nq

\* REGENERATE goes to sql_generator with the query of the snapshot, REFINE to
\* query_normalizer.
Regenerate ==
    /\ pc = "classify" /\ list # <<>>
    /\ \/ ~Downgrades(Primary) /\ route' = "regenerate"
       \/ route' = "refine"
    /\ pc' = "reason"
    /\ UNCHANGED <<rows, turn, list, shown, fault>>

\* The model's answer cannot be used.
OrchestratorFails ==
    /\ pc = "classify" /\ list # <<>>
    /\ rows' = Append(rows, AnswerRow(turn, FALSE, FALSE, TRUE))
    /\ pc' = "idle"
    /\ UNCHANGED <<turn, list, route, shown, fault>>

-----------------------------------------------------------------------------
(* The turn ends: save_turn_snapshot, and the row of the answer             *)

\* turn_reset has cleared current_user_message_seq.
Saved == Append(list, [turn |-> turn, userSeq |-> 0, nq |-> TRUE])

\* `kept' is whether update_message_metadata succeeds after the row is saved.
End(row, saved) ==
    /\ rows' = Append(rows, row)
    /\ list' = saved
    /\ pc' = "idle"
    /\ UNCHANGED <<turn, route, shown, fault>>

\* validated_sql is set: its rows are shown and the snapshot is saved.
EndWithRows ==
    /\ pc = "reason"
    /\ \E kept \in BOOLEAN : End(AnswerRow(turn, TRUE, TRUE, kept), Saved)

\* Executing the SQL failed; error_end saves no snapshot.
EndWithError ==
    /\ pc = "reason"
    /\ \E kept \in BOOLEAN : End(AnswerRow(turn, TRUE, FALSE, kept), list)

\* No SQL was validated: an answer in words, or an error before that.
EndWithoutSql ==
    /\ pc = "reason"
    /\ \E kept \in BOOLEAN : End(AnswerRow(turn, FALSE, FALSE, kept), list)

\* Cancelled before or while the rows are presented.
EndCancelled ==
    /\ pc = "reason"
    /\ \E saved \in {list, Saved} :
          End([AnswerRow(turn, TRUE, TRUE, TRUE) EXCEPT !.status = "cancelled"], saved)

\* The run raised.
EndRaised ==
    /\ pc \in {"reason", "display"}
    /\ End([AnswerRow(turn, FALSE, FALSE, FALSE)
              EXCEPT !.type = "error", !.status = "failure", !.intent = ""], list)

\* Rows shown again: validated_sql is empty, so nothing is saved.  A cancelled
\* turn differs in the status of a row that is not a reference either way.
EndDisplay ==
    /\ pc = "display"
    /\ \E kept \in BOOLEAN : End(AnswerRow(turn, FALSE, FALSE, kept), list)

Next ==
    \/ BeginWithout \/ BeginRestored \/ Ask \/ Answer \/ Forget
    \/ ClassifyNew \/ ShowRows \/ Regenerate \/ OrchestratorFails
    \/ EndWithRows \/ EndWithError \/ EndWithoutSql \/ EndCancelled
    \/ EndRaised \/ EndDisplay

Spec == Init /\ [][Next]_vars

-----------------------------------------------------------------------------
(* Properties                                                               *)

\* Whatever was asked, cancelled, regenerated or lost between, the rows shown
\* again are those of the turn the orchestrator refers to, also when the seq of
\* its question could not be read or a newer turn could not be restored.
ShownAreOfReference == shown # 0 /\ pc = "display" => shown = Primary.turn

\* What a turn refers to is the newest turn of those it restored, and these are
\* in the order of time, if no read failed when it began.
PrimaryIsNewest ==
    ~fault /\ pc \in {"classify", "asked"} =>
        \A i, j \in DOMAIN list : i < j => list[i].turn < list[j].turn

-----------------------------------------------------------------------------
(* What the repository says and the code does not do                        *)

\* "Finds the recent successful turns and restores the list of TurnSnapshots":
\* a turn that found rows and whose row is complete is in the next list.
FreshTurnIsRestored ==
    ~fault /\ pc = "classify" /\ turn > 1 =>
        \A i \in DOMAIN rows :
            /\ rows[i].turn = turn - 1 /\ IsReference(rows[i]) /\ rows[i].rows
            => \E k \in DOMAIN list : list[k].turn = turn - 1
=============================================================================
