---------------------------- MODULE SessionTurns ----------------------------
(***************************************************************************)
(* The messages of one session and the turns they start, answer or cancel: *)
(* run_pipeline (agents/graph/runner.py) around the graph, the cancel flag *)
(* (services/cancel_store.py), the register of active runs                 *)
(* (services/active_run_store.py) and the checkpoint of the LangGraph      *)
(* thread, which says how far the last turn has come.                      *)
(*                                                                         *)
(* A run handles one message and is numbered by its arrival; a turn has    *)
(* the number of the run that started it.  The WebSocket loop handles one  *)
(* message after the other, but a reconnected client or POST /api/query    *)
(* can start a run while another is in progress.                           *)
(*                                                                         *)
(* Of the graph only supersteps are kept: a node may end the turn, ask the *)
(* user (interrupt), raise, or go on.  ReasoningLoop has the details.      *)
(*                                                                         *)
(* "_..." variants of a definition carry one slip.                         *)
(***************************************************************************)
EXTENDS Naturals

CONSTANTS
    Runs,     \* number of messages of the session
    Redis,    \* redis_backend: flag and register outlive the process
    Postgres, \* checkpointer_backend: so does the checkpoint
    Overlap   \* may a second connection start a run during another?

ASSUME SessionAssumption ==
    /\ Runs \in Nat
    /\ Redis \in BOOLEAN /\ Postgres \in BOOLEAN /\ Overlap \in BOOLEAN

Run == 1..Runs
None == 0

VARIABLES
    pc,          \* pc[r]: how far run_pipeline has come
    popped,      \* popped[r]: previous_cancel_turn_id is not None
    resume,      \* resume[r]: is_interrupt_pending
    turnOf,      \* turnOf[r]: the turn in whose thread state the run works
    stopped,     \* stopped[r]: the run ended its turn as CANCELLED
    flag,        \* the turns the cancel flag covers: one, all ("*") or none
    active,      \* the run in the register of active runs, or None
    checkpoint,  \* the thread: its turn, and `next': "end" if empty, "ask" if
                 \* an interrupt waits, "node" if a node is to run
    open,        \* the question the user sees and has not withdrawn (history)
    intent,      \* intent[r]: the question the message answers (history)
    hit,         \* hit[r]: a cancel was requested after the pop (history)
    overlapped,  \* two runs were in progress at the same time (history)
    storeFailed, \* a call of Redis failed or an entry expired (history)
    flagDropped, \* a run took the flag and ended before the graph (history)
    broken       \* a turn was left in the middle (history)

run == <<popped, resume, turnOf, stopped>>
stores == <<flag, active, checkpoint>>
views == <<open, intent, hit>>  \* what the user did and saw
mishaps == <<overlapped, storeFailed, flagDropped, broken>>
vars == <<pc, run, stores, views, mishaps>>

Over == {"idle", "done", "dead"}
InProgress(r) == pc[r] \notin Over
PastPop(r) == pc[r] \in {"popped", "checked", "graph"}

TypeOK ==
    /\ pc \in [Run -> Over \cup {"marked", "popped", "checked", "graph", "leaving"}]
    /\ popped \in [Run -> BOOLEAN] /\ resume \in [Run -> BOOLEAN]
    /\ stopped \in [Run -> BOOLEAN] /\ hit \in [Run -> BOOLEAN]
    /\ turnOf \in [Run -> Run \cup {None}] /\ intent \in [Run -> Run \cup {None}]
    /\ flag \subseteq Run
    /\ active \in Run \cup {None} /\ open \in Run \cup {None}
    /\ checkpoint \in [turn : Run \cup {None}, next : {"end", "ask", "node"}]
    /\ overlapped \in BOOLEAN /\ storeFailed \in BOOLEAN
    /\ flagDropped \in BOOLEAN /\ broken \in BOOLEAN

NoThread == [turn |-> None, next |-> "end"]

Init ==
    /\ pc = [r \in Run |-> "idle"]
    /\ popped = [r \in Run |-> FALSE] /\ resume = [r \in Run |-> FALSE]
    /\ turnOf = [r \in Run |-> None] /\ stopped = [r \in Run |-> FALSE]
    /\ flag = {} /\ active = None /\ checkpoint = NoThread
    /\ open = None /\ intent = [r \in Run |-> None] /\ hit = [r \in Run |-> FALSE]
    /\ overlapped = FALSE /\ storeFailed = FALSE
    /\ flagDropped = FALSE /\ broken = FALSE

Goto(r, place) == pc' = [pc EXCEPT ![r] = place]

\* The locals of the runs in `over' are gone, and what the user did meanwhile.
Forget(over) ==
    /\ popped' = [r \in Run |-> r \notin over /\ popped[r]]
    /\ resume' = [r \in Run |-> r \notin over /\ resume[r]]
    /\ stopped' = [r \in Run |-> r \notin over /\ stopped[r]]
    /\ hit' = [r \in Run |-> r \notin over /\ hit[r]]
    /\ turnOf' = [r \in Run |-> IF r \in over THEN None ELSE turnOf[r]]
    /\ intent' = [r \in Run |-> IF r \in over THEN None ELSE intent[r]]

\* Calls of Redis may raise, which the helpers swallow; the dictionaries of
\* the stores in memory do not.
Call(ok) == storeFailed' = (storeFailed \/ ~ok)
Outcomes == IF Redis THEN BOOLEAN ELSE {TRUE}

-----------------------------------------------------------------------------
\* run_pipeline

\* mark_active, with a fresh token for the compare-and-delete.
MarkActive(r) ==
    /\ pc[r] = "idle" /\ \A q \in Run : q < r => pc[q] # "idle"
    /\ Overlap \/ \A q \in Run : ~InProgress(q)
    /\ Goto(r, "marked")
    /\ \E ok \in Outcomes :
          /\ active' = IF ok THEN r ELSE active
          /\ Call(ok)
    /\ overlapped' = (overlapped \/ \E q \in Run : InProgress(q))
    /\ UNCHANGED <<run, flag, checkpoint, views, flagDropped, broken>>

\* The key is deleted with the read.
AfterPop_Peek(f) == f
AfterPop(f) == {}

\* pop_cancel, then sanitize without an await: a rejected input ends the run.
PrepareInput(r) ==
    /\ pc[r] = "marked"
    /\ \E ok \in Outcomes, accepted \in BOOLEAN :
          /\ popped' = [popped EXCEPT ![r] = ok /\ flag # {}]
          /\ flag' = IF ok THEN AfterPop(flag) ELSE flag
          /\ Call(ok)
          /\ Goto(r, IF accepted THEN "popped" ELSE "leaving")
          /\ flagDropped' = (flagDropped \/ (~accepted /\ popped'[r]))
    /\ intent' = [intent EXCEPT ![r] = open]
    /\ UNCHANGED <<resume, turnOf, stopped, active, checkpoint, open, hit,
                   overlapped, broken>>

InterruptPending_IgnoresCancel(r) == checkpoint.next # "end"
InterruptPending(r) == checkpoint.next # "end" /\ ~popped[r]

\* _check_interrupt; a failing aget_state counts as a new session.
CheckInterrupt(r) ==
    /\ pc[r] = "popped"
    /\ Goto(r, "checked")
    /\ \/ resume' = [resume EXCEPT ![r] = InterruptPending(r)] /\ UNCHANGED broken
       \/ Postgres /\ resume' = [resume EXCEPT ![r] = FALSE] /\ broken' = TRUE
    /\ UNCHANGED <<popped, turnOf, stopped, stores, views,
                   overlapped, storeFailed, flagDropped>>

\* The locals of the decision are not read again.
Decided(r) ==
    /\ popped' = [popped EXCEPT ![r] = FALSE]
    /\ resume' = [resume EXCEPT ![r] = FALSE]
    /\ intent' = [intent EXCEPT ![r] = None]
    /\ open' = None

\* ainvoke with a new PipelineState: turn_reset is the node to run.
StartTurn(r) ==
    /\ pc[r] = "checked" /\ ~resume[r]
    /\ Goto(r, "graph")
    /\ turnOf' = [turnOf EXCEPT ![r] = r]
    /\ checkpoint' = [turn |-> r, next |-> "node"]
    /\ Decided(r)
    /\ UNCHANGED <<stopped, flag, active, hit, mishaps>>

\* ainvoke with Command(resume=...): LangGraph goes on where the thread stands
\* now, which is nowhere if another run ended the turn meanwhile.
ResumeTurn(r) ==
    /\ pc[r] = "checked" /\ resume[r]
    /\ turnOf' = [turnOf EXCEPT ![r] = checkpoint.turn]
    /\ IF checkpoint.next = "end"
       THEN Goto(r, "leaving") /\ UNCHANGED checkpoint
       ELSE /\ Goto(r, "graph")
            /\ checkpoint' = [turn |-> checkpoint.turn, next |-> "node"]
    /\ Decided(r)
    /\ UNCHANGED <<stopped, flag, active, hit, mishaps>>

-----------------------------------------------------------------------------
\* Supersteps.  Every superstep writes the thread, whoever else works on it.

Thread(r, next) == checkpoint' = [turn |-> turnOf[r], next |-> next]

\* check_cancel of with_cancel_check.
Cancelled(r) == turnOf[r] \in flag

\* The node is skipped and the turn ends as CANCELLED.
NodeIsCancelled(r) ==
    /\ pc[r] = "graph" /\ Cancelled(r)
    /\ Goto(r, "leaving") /\ Thread(r, "end")
    /\ stopped' = [stopped EXCEPT ![r] = TRUE]
    /\ UNCHANGED <<popped, resume, turnOf, flag, active, views, mishaps>>

\* The node runs: no flag, a node without the check, or a failing store.
NodeRuns(r) ==
    /\ pc[r] = "graph"
    /\ Thread(r, "node")
    /\ UNCHANGED <<pc, run, flag, active, views, mishaps>>

TurnEnds(r) ==
    /\ pc[r] = "graph"
    /\ Goto(r, "leaving") /\ Thread(r, "end")
    /\ UNCHANGED <<run, flag, active, views, mishaps>>

\* interrupt(): the user sees the question, unless a cancel came before it.
TurnAsks(r) ==
    /\ pc[r] = "graph"
    /\ Goto(r, "leaving") /\ Thread(r, "ask")
    /\ open' = IF hit[r] THEN None ELSE turnOf[r]
    /\ UNCHANGED <<run, flag, active, intent, hit, mishaps>>

\* The exception is caught in _execute_and_finalize; the thread stays.
NodeRaises(r) ==
    /\ pc[r] = "graph"
    /\ Goto(r, "leaving") /\ broken' = TRUE
    /\ UNCHANGED <<run, stores, views, overlapped, storeFailed, flagDropped>>

\* compare-and-delete with the token of the run
ClearedBy_Unchecked(r) == None
ClearedBy(r) == IF active = r THEN None ELSE active

\* The finally stands around every way out of run_pipeline.
Unregistered_KeepsRejected(r) == IF turnOf[r] = None THEN active ELSE ClearedBy(r)
Unregistered(r) == ClearedBy(r)

\* clear_active
ClearActive(r) ==
    /\ pc[r] = "leaving"
    /\ Goto(r, "done")
    /\ \E ok \in Outcomes :
          /\ active' = IF ok THEN Unregistered(r) ELSE active
          /\ Call(ok)
    /\ Forget({r})
    /\ UNCHANGED <<flag, checkpoint, open, overlapped, flagDropped, broken>>

-----------------------------------------------------------------------------
\* Around the runs.

\* POST /sessions/{id}/cancel: for all turns ("*") or for one.
Cancel ==
    /\ \E covered \in {Run} \cup {{t} : t \in Run} :
          /\ \A t \in covered : covered # Run => pc[t] # "idle"
          /\ flag' = covered
    /\ open' = None
    /\ hit' = [r \in Run |-> hit[r] \/ PastPop(r)]
    /\ UNCHANGED <<pc, run, active, checkpoint, intent, mishaps>>

\* The TTL of 300 s of the flag, and that of the register (600 s).
FlagExpires ==
    /\ Redis /\ flag # {}
    /\ flag' = {} /\ storeFailed' = TRUE
    /\ UNCHANGED <<pc, run, active, checkpoint, views, overlapped, flagDropped, broken>>

ActiveExpires ==
    /\ Redis /\ active # None
    /\ active' = None /\ storeFailed' = TRUE
    /\ UNCHANGED <<pc, run, flag, checkpoint, views, overlapped, flagDropped, broken>>

\* The process dies with the runs in progress; what is not durable is lost.
Crash ==
    /\ \E r \in Run : InProgress(r)
    /\ pc' = [r \in Run |-> IF InProgress(r) THEN "dead" ELSE pc[r]]
    /\ flag' = IF Redis THEN flag ELSE {}
    /\ active' = IF Redis THEN active ELSE None
    /\ checkpoint' = IF Postgres THEN checkpoint ELSE NoThread
    /\ broken' = TRUE
    /\ Forget({r \in Run : InProgress(r)})
    /\ UNCHANGED <<open, overlapped, storeFailed, flagDropped>>

RunStep(r) ==
    \/ MarkActive(r) \/ PrepareInput(r) \/ CheckInterrupt(r)
    \/ StartTurn(r) \/ ResumeTurn(r)
    \/ NodeIsCancelled(r) \/ NodeRuns(r) \/ TurnEnds(r) \/ TurnAsks(r)
    \/ NodeRaises(r) \/ ClearActive(r)

Next ==
    \/ \E r \in Run : RunStep(r)
    \/ Cancel \/ FlagExpires \/ ActiveExpires \/ Crash

Spec == Init /\ [][Next]_vars

-----------------------------------------------------------------------------
\* Properties.

\* The end of an earlier run never takes the newest run out of the register
\* (the compare-and-delete of clear_active), so /active does not call a session
\* crashed that works on its newest message.
NewestRunIsActive ==
    ~storeFailed =>
        \A r \in Run :
            InProgress(r) /\ (\A q \in Run : q > r => pc[q] = "idle") => active = r

\* Every way out of run_pipeline, the early ones included, takes the run out of
\* the register: an entry belongs to a run in progress or to one that crashed.
NoGhostIsActive ==
    ~storeFailed /\ active # None => InProgress(active) \/ pc[active] = "dead"

\* A cancel request stops only runs that had begun when it was made: the next
\* message of the user does not inherit it, whichever turn it was for.
EarlierCancelSparesRun ==
    ~storeFailed => \A r \in Run : stopped[r] => hit[r]

\* As long as runs do not overlap, nothing fails and no flag is taken with a
\* rejected input, a message resumes a turn exactly when the user answers an
\* open question with it, and it resumes the turn that asked.
MessageAnswersOpenQuestion ==
    ~overlapped /\ ~storeFailed /\ ~flagDropped /\ ~broken =>
        \A r \in Run : pc[r] = "checked" =>
            /\ resume[r] <=> intent[r] # None
            /\ resume[r] => checkpoint = [turn |-> intent[r], next |-> "ask"]

\* A message is passed on as an answer only if the thread waits at an interrupt.
ResumesOnlyInterrupt ==
    [][\A r \in Run : pc[r] = "checked" /\ pc'[r] = "graph" /\ resume[r]
           => checkpoint.next = "ask"]_vars
=============================================================================
