------------------------------ MODULE Reembed ------------------------------
(***************************************************************************)
(* The batch that embeds the SQL history for the search                    *)
(* (devtools/scripts/enrich_sql_history.py, --source postgres).  A run     *)
(* reads the rows of a Postgres table that changed after the cursor of the *)
(* state file, writes a point for each of them to Qdrant, or deletes it,   *)
(* then writes the ids of the points back to the rows, and last saves the  *)
(* cursor.  --reconcile-deletes deletes the points that no row refers to.  *)
(*                                                                         *)
(* One run at a time.  Postgres and Qdrant have no transaction in common:  *)
(* a run may fail or die between any two writes, and rows change meanwhile *)
(* (external: the program only reads and updates the table).  Retries of   *)
(* one call are part of the call; cursor and rows compare by a time.       *)
(***************************************************************************)
EXTENDS Naturals, FiniteSetsExt

CONSTANTS
    Rows,       \* keys of the table, ordered: the second key of the query
    BatchSizes, \* the values of --embed-batch-size
    MaxClock,   \* bound on the changes of rows
    MaxRuns,    \* bound on the runs
    MaxPoints   \* bound on the new points

ReembedAssumption ==
    /\ Rows \subseteq Nat /\ IsFiniteSet(Rows) /\ BatchSizes \subseteq Nat \ {0}
    /\ MaxClock \in Nat /\ MaxRuns \in Nat /\ MaxPoints \in Nat

VARIABLES
    clock,   \* the time of the last change
    table,   \* at (0: no such row), text, desc (0: none), active, point (0: NULL)
    points,  \* Qdrant: [id, row, text, desc]
    saved,   \* last_updated_at of the state file
    run,     \* the run in progress
    recon,   \* the reconciliation in progress: on, ids (those it has read)
    ids,     \* the number of ids given so far
    runs,    \* the number of runs so far
    late,    \* rows whose last change came late: only --full is sure to see it
    doubt,   \* points were lost behind the cursor: only --full writes them again
    debris   \* ids of points left behind: only a reconciliation deletes them

reembedVars == <<clock, table, points, saved, run, recon, ids, runs, late, doubt, debris>>

NoRow == [at |-> 0, text |-> 0, desc |-> 0, active |-> FALSE, point |-> 0]
NoRun == [stage |-> "off", mode |-> "", full |-> FALSE, write |-> FALSE, size |-> 1,
          todo |-> {}, up |-> {}, down |-> {}, done |-> {}, gone |-> {},
          failed |-> FALSE, upto |-> 0, sees |-> {}, alone |-> TRUE]
NoRecon == [on |-> FALSE, ids |-> {}]

Init ==
    /\ clock = 0 /\ table = [r \in Rows |-> NoRow] /\ points = {} /\ saved = 0
    /\ run = NoRun /\ recon = NoRecon /\ ids = 0 /\ runs = 0
    /\ late = {} /\ doubt = FALSE /\ debris = {}

-----------------------------------------------------------------------------
(* The table                                                                *)

\* A row is inserted or changed.  Its time is that of the change, or, when it was
\* set in a transaction that commits late, an earlier one.
ChangeRow(r, at, described, active) ==
    /\ clock < MaxClock
    /\ clock' = clock + 1
    /\ table' = [table EXCEPT ![r] =
           [at |-> at, text |-> clock', desc |-> IF described THEN clock' ELSE 0,
            active |-> active, point |-> @.point]]
    /\ LET isLate == at <= saved \/ (run.stage # "off" /\ at <= run.upto)
       IN  late' = IF isLate THEN late \union {r} ELSE late \ {r}
    /\ run' = [run EXCEPT !.sees = @ \ {r}]
    /\ UNCHANGED <<points, saved, recon, ids, runs, doubt, debris>>

\* A row is deleted: the point goes only when a reconciliation runs.
DeleteRow(r) ==
    /\ table[r].at # 0 /\ clock < MaxClock
    /\ clock' = clock + 1
    /\ table' = [table EXCEPT ![r] = NoRow]
    /\ late' = late \ {r} /\ debris' = debris \union {table[r].point}
    /\ UNCHANGED <<points, saved, run, recon, ids, runs, doubt>>

-----------------------------------------------------------------------------
(* A run                                                                    *)

\* _build_incremental_query: the rows changed after the cursor ...
Changed(since) ==
    {[row |-> r, at |-> table[r].at, text |-> table[r].text, desc |-> table[r].desc,
      active |-> table[r].active, point |-> table[r].point] :
        r \in {s \in Rows : table[s].at > since}}

\* ... oldest first.
Before(d, e) == d.at < e.at \/ (d.at = e.at /\ d.row < e.row)

\* The cursor is the state file's, or the epoch with --full.  The query reads one
\* state of the table, however long the run goes on.
Start(mode, full, write, size) ==
    LET since == IF full THEN 0 ELSE saved
        todo == Changed(since)
    IN  /\ run.stage = "off" /\ runs < MaxRuns
        /\ runs' = runs + 1
        /\ run' = [NoRun EXCEPT !.stage = "read", !.mode = mode, !.full = full,
                     !.write = write, !.size = size, !.todo = todo,
                     !.upto = Max({since} \union {d.at : d \in todo}),
                     !.sees = IF full THEN late ELSE {}, !.alone = ~recon.on]
        /\ doubt' = (doubt \/ recon.on)
        /\ UNCHANGED <<clock, table, points, saved, recon, ids, late, debris>>

Ids(batch) == {d.point : d \in batch}

\* The run ends before its cursor is saved: the next one starts where it did.
Stopped ==
    /\ run' = NoRun
    /\ debris' = debris \union Ids(run.done)
    /\ UNCHANGED saved

\* A crash, or an exception that nothing catches.
Die == /\ run.stage # "off" /\ Stopped
       /\ UNCHANGED <<clock, table, points, recon, ids, runs, late, doubt>>

Written(batch) ==
    {p \in points : p.id \notin Ids(batch)}
    \union {[id |-> b.point, row |-> b.row, text |-> b.text, desc |-> b.desc] : b \in batch}

\* One batch of _flush_upsert.  An embedding that fails is counted and the run goes
\* on; an upsert that fails ends it, and may have been carried out all the same.
FlushUpsert(r, outcome) ==
    CASE outcome = "ok" ->
            /\ run' = [r EXCEPT !.up = {}, !.done = @ \union r.up]
            /\ points' = IF r.write THEN Written(r.up) ELSE points
            /\ UNCHANGED <<saved, debris>>
      [] outcome = "not_embedded" ->
            /\ run' = [r EXCEPT !.up = {}, !.failed = TRUE]
            /\ UNCHANGED <<points, saved, debris>>
      [] OTHER ->
            /\ r.write
            /\ run' = NoRun /\ debris' = debris \union Ids(r.done \union r.up)
            /\ points' = IF outcome = "lost" THEN Written(r.up) ELSE points
            /\ UNCHANGED saved

\* _flush_delete: rows without a point are passed over; a failure is counted.
FlushDelete(r, outcome) ==
    LET own == {d \in r.down : d.point # 0}
    IN  /\ outcome \in {"ok", "lost", "refused"}
        /\ points' = IF r.write /\ outcome # "refused"
                     THEN {p \in points : p.id \notin Ids(own)} ELSE points
        /\ run' = IF outcome = "ok" \/ ~r.write \/ own = {}
                  THEN [r EXCEPT !.down = {}, !.gone = @ \union {d.row : d \in own}]
                  ELSE [r EXCEPT !.down = {}, !.failed = TRUE]
        /\ UNCHANGED <<saved, debris>>

\* Slip: the id of a row that has a point already is not used again.
Target_New(d) == ids + 1
\* The point of a row: its own, or a new one.
Target(d) == IF d.point # 0 THEN d.point ELSE ids + 1

\* The oldest row that is left.  "Y" means a point: without a description direct
\* mode passes over the row, generate-desc has it written by the LLM.  Anything else
\* means no point.  A full queue is flushed at once.
Read(d, outcome) ==
    LET generated == IF d.desc = 0 THEN d.text ELSE d.desc
        q == [run EXCEPT !.todo = @ \ {d}]
        up == [q EXCEPT !.up = @ \union {[d EXCEPT !.point = Target(d), !.desc = generated]}]
        down == [q EXCEPT !.down = @ \union {d}]
        Queued(r) == outcome = "ok" /\ run' = r /\ UNCHANGED <<points, saved, debris>>
    IN  /\ run.stage = "read" /\ d \in run.todo
        /\ \A e \in run.todo \ {d} : Before(d, e)
        /\ \/ /\ d.active /\ (d.desc # 0 \/ run.mode = "generate-desc")
              /\ ids < MaxPoints /\ ids' = IF Target(d) = ids + 1 THEN ids + 1 ELSE ids
              /\ IF Cardinality(up.up) = run.size THEN FlushUpsert(up, outcome) ELSE Queued(up)
           \/ /\ d.active /\ d.desc = 0 /\ run.mode = "direct"
              /\ Queued(q) /\ UNCHANGED ids
           \/ /\ d.active /\ d.desc = 0 /\ run.mode = "generate-desc"
              /\ outcome = "no_answer" /\ run' = [q EXCEPT !.failed = TRUE]
              /\ UNCHANGED <<points, saved, debris, ids>>
           \/ /\ ~d.active /\ UNCHANGED ids
              /\ IF Cardinality(down.down) = run.size THEN FlushDelete(down, outcome)
                                                      ELSE Queued(down)
        /\ UNCHANGED <<clock, table, recon, runs, late, doubt>>

\* The rest of the queues, first the points to write.
Drain(outcome) ==
    /\ run.stage = "read" /\ run.todo = {}
    /\ IF run.up # {} THEN FlushUpsert(run, outcome)
       ELSE FlushDelete([run EXCEPT !.stage = "write"], outcome)
    /\ UNCHANGED <<clock, table, recon, ids, runs, late, doubt>>

\* _write_back_upsert: in one transaction, whatever became of the rows meanwhile.
\* generate-desc also writes the description it read or had written.
WriteBack(ok) ==
    LET By(r) == CHOOSE b \in run.done : b.row = r
        written == {b.row : b \in run.done}
    IN  /\ run.stage = "write"
        /\ IF ok \/ run.done = {}
           THEN /\ table' = [r \in Rows |->
                       IF r \notin written \/ table[r].at = 0 THEN table[r]
                       ELSE [table[r] EXCEPT !.point = By(r).point,
                               !.desc = IF run.mode = "generate-desc" THEN By(r).desc ELSE @]]
                /\ run' = [run EXCEPT !.stage = "clear", !.done = {}]
                /\ debris' = debris \union Ids({b \in run.done : table[b.row].at = 0})
                /\ UNCHANGED saved
           ELSE Stopped /\ UNCHANGED table
        /\ doubt' = (doubt \/ ~run.write)
        /\ UNCHANGED <<clock, points, recon, ids, runs, late>>

\* _write_back_delete.
Clear(ok) ==
    /\ run.stage = "clear"
    /\ IF ok \/ run.gone = {}
       THEN /\ table' = [r \in Rows |-> IF r \in run.gone THEN [table[r] EXCEPT !.point = 0]
                                                         ELSE table[r]]
            /\ run' = [run EXCEPT !.stage = "close"]
            /\ debris' = IF run.write THEN debris
                         ELSE debris \union {table[r].point : r \in run.gone}
            /\ UNCHANGED saved
       ELSE Stopped /\ UNCHANGED table
    /\ UNCHANGED <<clock, points, recon, ids, runs, late, doubt>>

\* Slip: the cursor moves on although some row failed.
Succeeded_Always(r) == TRUE
Succeeded(r) == ~r.failed

\* The cursor is saved if nothing failed.  A --full run that nothing disturbed has
\* seen every row.
Close ==
    /\ run.stage = "close"
    /\ IF Succeeded(run)
       THEN /\ saved' = run.upto
            /\ late' = late \ run.sees
            /\ doubt' = (doubt /\ ~(run.full /\ run.alone /\ run.write))
       ELSE UNCHANGED <<saved, late, doubt>>
    /\ run' = NoRun
    /\ UNCHANGED <<clock, table, points, recon, ids, runs, debris>>

-----------------------------------------------------------------------------
(* A reconciliation                                                         *)

\* _run_reconcile reads the ids of the rows that want a point ...
Collect ==
    /\ ~recon.on /\ runs < MaxRuns
    /\ runs' = runs + 1
    /\ recon' = [on |-> TRUE, ids |-> {table[r].point : r \in {s \in Rows : table[s].active}}]
    /\ run' = [run EXCEPT !.alone = (run.stage = "off")]
    /\ doubt' = (doubt \/ run.stage # "off")
    /\ UNCHANGED <<clock, table, points, saved, ids, late, debris>>

\* ... and deletes every point that is not among them; or it dies first.
Sweep(ok) ==
    /\ recon.on
    /\ recon' = NoRecon
    /\ points' = IF ok THEN {p \in points : p.id \in recon.ids} ELSE points
    /\ debris' = IF ok THEN debris \intersect recon.ids ELSE debris
    /\ UNCHANGED <<clock, table, saved, run, ids, runs, late, doubt>>

Outcomes == {"ok", "not_embedded", "no_answer", "refused", "lost"}

Next ==
    \/ \E r \in Rows, at \in {clock, clock + 1} \ {0}, described, active \in BOOLEAN :
          ChangeRow(r, at, described, active)
    \/ \E r \in Rows : DeleteRow(r)
    \/ \E mode \in {"direct", "generate-desc"}, full, write \in BOOLEAN, size \in BatchSizes :
          Start(mode, full, write, size)
    \/ \E d \in run.todo, outcome \in Outcomes : Read(d, outcome)
    \/ \E outcome \in Outcomes : Drain(outcome)
    \/ \E ok \in BOOLEAN : WriteBack(ok)
    \/ \E ok \in BOOLEAN : Clear(ok)
    \/ Close
    \/ Die
    \/ Collect
    \/ \E ok \in BOOLEAN : Sweep(ok)

Spec == Init /\ [][Next]_reembedVars

-----------------------------------------------------------------------------
(* Properties                                                               *)

\* Every variable has its type, and nothing is queued between two runs.
TypeOK ==
    /\ clock \in 0..MaxClock /\ saved \in 0..MaxClock /\ ids \in 0..MaxPoints
    /\ runs \in 0..MaxRuns /\ late \subseteq Rows /\ doubt \in BOOLEAN
    /\ debris \subseteq 0..MaxPoints /\ recon.on \in BOOLEAN
    /\ \A p \in points : p.id \in 1..MaxPoints /\ p.row \in Rows
    /\ DOMAIN table = Rows
    /\ run.stage \in {"off", "read", "write", "clear", "close"}

Served(r) ==
    LET t == table[r]
    IN  /\ t.active /\ t.desc # 0 =>
              [id |-> t.point, row |-> r, text |-> t.text, desc |-> t.desc] \in points
        /\ ~t.active => t.point = 0

\* What the cursor has passed is in the index, as it is in the table now: an active
\* row with its text and description, any other without a point.  Runs that fail or
\* die, rows that change under a run and reconciliations between runs leave it so.
\* It takes --full after a row that was committed late, after a reconciliation
\* beside a run, and after --no-upsert, which saves the cursor all the same.
SavedMeansServed ==
    (run.stage = "off" /\ ~doubt) =>
        \A r \in Rows : (table[r].at \in 1..saved /\ r \notin late) => Served(r)

\* Between runs every point is that of a row, and of one row, except for those that
\* deleted rows, stopped runs and --no-upsert left and no reconciliation has met.
PointsHaveRows ==
    run.stage = "off" =>
        \A p \in points : p.id \in debris \/ table[p.row].point = p.id

\* The index follows the table as far as the state file says.
IndexFollowsTable == SavedMeansServed /\ PointsHaveRows
=============================================================================
