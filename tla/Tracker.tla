------------------------------ MODULE Tracker ------------------------------
(***************************************************************************)
(* DataCopilotCallbackHandler (utils/tracker): LangGraph calls it at the   *)
(* start and the end of every chain and for every event that a node        *)
(* dispatches.  It shows the progress to the client and writes the trace   *)
(* of the run, from which the report and the findings about it are made.   *)
(* A run that a question to the user interrupted is saved, and the handler *)
(* of the run that resumes it reads the file and goes on with the trace.   *)
(*                                                                         *)
(* A node is a chain in which more chains with the same node name start    *)
(* (wrappers, routers).  An event comes with the id of the innermost chain *)
(* around it; one that a background task dispatches (embedding, reranking) *)
(* may come when that chain has ended, and even when the node has.         *)
(***************************************************************************)
EXTENDS Naturals, Sequences, FiniteSets, SequencesExt

CONSTANTS
    Nodes,      \* some nodes of the graph
    Shown,      \* those of NODE_PROGRESS_MAP
    MaxChains,  \* bound on the chains, over all runs
    MaxEvents,  \* bound on the entries of the timeline and of the file, if they differ
    MaxRuns     \* bound on the runs of the session

TrackerAssumption ==
    /\ Shown \subseteq Nodes /\ "" \notin Nodes
    /\ MaxChains \in Nat /\ MaxEvents \in Nat /\ MaxRuns \in Nat

VARIABLES
    enabled,  \* settings: some kind of trace is written
    graph,    \* "idle", "running", or "stopped" by an error or a question
    stack,    \* the chains that have started and not ended: [id, node]
    chains,   \* the number of chains so far: the last id
    handler,  \* active, runs (id -> node), nested, timers (node -> seq or 0), seq
    trace,    \* timeline, node_path, nodes, llm_calls, total, retrievals
    file,     \* the newest telemetry file of the session
    pending,  \* the graph waits for an answer of the user
    screen,   \* the progress sent to the client in this run
    runs,     \* the number of runs so far
    resumed   \* the trace goes on with an earlier one

trackerVars == <<enabled, graph, stack, chains, handler, trace, file, pending,
                 screen, runs, resumed>>

Ids == 1..MaxChains

NewHandler ==
    [active |-> {}, nested |-> {}, runs |-> [i \in Ids |-> ""],
     timers |-> [n \in Nodes |-> 0], seq |-> 0]
NewTrace ==
    [timeline |-> <<>>, path |-> <<>>, nodes |-> <<>>, calls |-> 0, total |-> 0,
     retrievals |-> 0]
NoFile == [timeline |-> <<>>]

Init ==
    /\ enabled \in BOOLEAN
    /\ graph = "idle" /\ stack = <<>> /\ chains = 0 /\ runs = 0
    /\ handler = NewHandler /\ trace = NewTrace
    /\ file = NoFile /\ pending = FALSE /\ screen = <<>> /\ resumed = FALSE

-----------------------------------------------------------------------------
(* The handler: what it does with one call                                  *)

\* _append_timeline: an entry with the next number.
Noted(h, tr, type, node, parent) ==
    [tr EXCEPT !.timeline = Append(@,
        [seq |-> h.seq + 1, type |-> type, node |-> node, parent |-> parent])]

\* _get_active_parent_seq: where the visit of the node started, 0 if it is over.
Parent(h, node) == IF node \in Nodes THEN h.timers[node] ELSE 0

\* Nothing is sent for a node that has no label.
Emitted(node, action) ==
    IF node \in Shown THEN Append(screen, [action |-> action, node |-> node]) ELSE screen

\* Slip: a chain in the node counts as another visit.
OnChainStart_Again(id, node) ==
    /\ screen' = Emitted(node, "add")
    /\ handler' = [handler EXCEPT !.active = @ \union {node}, !.runs[id] = node]
    /\ UNCHANGED trace

\* on_chain_start: a second start of a running node is a chain in it.
OnChainStart(id, node) ==
    IF node \in handler.active
    THEN /\ handler' = [handler EXCEPT !.nested = @ \union {id}]
         /\ UNCHANGED <<trace, screen>>
    ELSE LET h == [handler EXCEPT !.active = @ \union {node}, !.runs[id] = node]
         IN  /\ screen' = Emitted(node, "add")
             /\ handler' = IF enabled THEN [h EXCEPT !.seq = @ + 1, !.timers[node] = h.seq + 1]
                                      ELSE h
             /\ trace' = IF enabled
                         THEN [Noted(h, trace, "node_start", node, 0)
                               EXCEPT !.path = Append(@, node)]
                         ELSE trace

\* on_chain_end and on_chain_error: `ok' says which of the two.
OnChainEnd(id, ok) ==
    LET node == handler.runs[id]
        h == [handler EXCEPT !.runs[id] = "", !.active = @ \ {node}]
    IN  IF id \in handler.nested
        THEN handler' = [handler EXCEPT !.nested = @ \ {id}] /\ UNCHANGED <<trace, screen>>
        ELSE IF node = "" THEN UNCHANGED <<handler, trace, screen>>
        ELSE /\ screen' = Emitted(node, "done")
             /\ handler' = IF enabled THEN [h EXCEPT !.seq = @ + 1, !.timers[node] = 0] ELSE h
             /\ trace' = IF enabled
                         THEN [Noted(h, trace, "node_end", node, Parent(h, node))
                               EXCEPT !.nodes = Append(@,
                                   [node |-> node, ok |-> ok, visit |-> Parent(h, node)])]
                         ELSE trace

\* on_custom_event: a retrieval is the node's of the chain id, the other events
\* name their node themselves.
OnCustomEvent(kind, id, named) ==
    LET node == IF kind # "tool_call" THEN named ELSE IF id = 0 THEN "" ELSE handler.runs[id]
        tr == Noted(handler, trace, kind, node, Parent(handler, node))
    IN  /\ UNCHANGED screen
        /\ handler' = IF enabled THEN [handler EXCEPT !.seq = @ + 1] ELSE handler
        /\ trace' = IF ~enabled THEN trace
                    ELSE CASE kind = "tool_call" -> [tr EXCEPT !.retrievals = @ + 1]
                           [] kind = "llm_call" -> [tr EXCEPT !.calls = @ + 1, !.total = @ + 1]
                           [] OTHER -> tr

\* Slip: the numbers of the resumed trace start again.
LastSeq_Zero(timeline) == 0

\* Slip: only the total of the earlier calls is taken over.
Resumed_Totals(previous) ==
    [NewTrace EXCEPT !.timeline = previous.timeline, !.path = previous.path,
                     !.total = previous.total]

\* resume_from: the timeline, the path and the calls of the LLM come back, the
\* retrievals and the records of the nodes do not; the numbers go on.
Resumed(previous) ==
    [NewTrace EXCEPT !.timeline = previous.timeline, !.path = previous.path,
                     !.calls = previous.calls, !.total = previous.total]
LastSeq(timeline) ==
    IF timeline = <<>> THEN 0
    ELSE CHOOSE m \in {timeline[i].seq : i \in DOMAIN timeline} :
            \A i \in DOMAIN timeline : timeline[i].seq <= m

-----------------------------------------------------------------------------
(* The runs of a session                                                    *)

\* run_pipeline: a new handler; if the graph waits for an answer the newest file
\* is resumed, unless it cannot be read or a cancelled question is dropped.
StartRun(load) ==
    LET go_on == pending /\ load /\ file # NoFile
    IN  /\ graph = "idle" /\ runs < MaxRuns
        /\ graph' = "running" /\ runs' = runs + 1 /\ pending' = FALSE
        /\ resumed' = go_on /\ screen' = <<>>
        /\ trace' = IF go_on THEN Resumed(file) ELSE NewTrace
        /\ handler' = IF go_on THEN [NewHandler EXCEPT !.seq = LastSeq(file.timeline)]
                               ELSE NewHandler
        /\ UNCHANGED <<enabled, stack, chains, file>>

\* Bound of the model.
Room == Len(trace.timeline) + (IF resumed THEN 0 ELSE Len(file.timeline)) < MaxEvents

\* The graph starts a node, or the node a chain of its own.
StartChain(node) ==
    /\ graph = "running" /\ chains < MaxChains /\ Room
    /\ stack # <<>> => node = Last(stack).node
    /\ chains' = chains + 1
    /\ stack' = Append(stack, [id |-> chains + 1, node |-> node])
    /\ OnChainStart(chains + 1, node)
    /\ UNCHANGED <<enabled, graph, file, pending, runs, resumed>>

\* The innermost chain ends.  A node that raises stops the graph; so does one that
\* asks the user, for whom LangGraph raises as well.
EndChain(outcome) ==
    /\ stack # <<>>
    /\ stack' = Front(stack)
    /\ OnChainEnd(Last(stack).id, outcome = "ok")
    /\ IF Len(stack) = 1 /\ outcome # "ok"
       THEN graph' = "stopped" /\ pending' = (outcome = "question")
       ELSE UNCHANGED <<graph, pending>>
    /\ UNCHANGED <<enabled, chains, file, runs, resumed>>

\* A retrieval in the innermost chain, in the node's own, or a late one (id 0).  A
\* decision names its node, a call of the LLM the node or a name of its own.
Event ==
    /\ graph # "idle" /\ Room
    /\ \/ \E id \in {0} \union {stack[i].id : i \in DOMAIN stack} :
             OnCustomEvent("tool_call", id, "")
       \/ stack # <<>> /\ OnCustomEvent("decision", stack[1].id, stack[1].node)
       \/ stack # <<>> /\ \E named \in {"", stack[1].node} :
             OnCustomEvent("llm_call", stack[1].id, named)
    /\ UNCHANGED <<enabled, graph, stack, chains, file, pending, runs, resumed>>

\* end_run and save; a file that cannot be written is left out.
EndRun(saved) ==
    /\ graph # "idle" /\ stack = <<>>
    /\ graph' = "idle"
    /\ file' = IF saved /\ enabled THEN trace ELSE file
    /\ UNCHANGED <<enabled, stack, chains, handler, trace, pending, screen, runs, resumed>>

Next ==
    \/ \E load \in BOOLEAN : StartRun(load)
    \/ \E node \in Nodes : StartChain(node)
    \/ \E outcome \in {"ok", "error", "question"} : EndChain(outcome)
    \/ Event
    \/ \E saved \in BOOLEAN : EndRun(saved)

Spec == Init /\ [][Next]_trackerVars

-----------------------------------------------------------------------------
(* What is made of a trace: bars, findings and totals of the report         *)

\* _render_gantt: each visit of the path takes the next record of its node, from
\* the one that the visit before it has come to; 0 is a visit without a record.
OwnFrom(tr, at, node) == {k \in DOMAIN tr.nodes : k >= at /\ tr.nodes[k].node = node}
FirstOf(own) == CHOOSE k \in own : \A l \in own : k <= l
CameTo(tr) ==
    LET at[i \in 1 .. Len(tr.path) + 1] ==
            IF i = 1 THEN 1
            ELSE LET own == OwnFrom(tr, at[i - 1], tr.path[i - 1])
                 IN  IF own = {} THEN at[i - 1] ELSE FirstOf(own) + 1
    IN  at
Bars(tr) ==
    LET Own(i) == OwnFrom(tr, CameTo(tr)[i], tr.path[i])
    IN  [i \in DOMAIN tr.path |-> IF Own(i) = {} THEN 0 ELSE tr.nodes[FirstOf(Own(i))].visit]

\* The places of the entries of a type.
Entries(tr, type) == {i \in DOMAIN tr.timeline : tr.timeline[i].type = type}
\* trace_analyzer: the rules about a kind of record that is missing.
Findings(tr) ==
    {f \in {"no_retrieval", "no_llm_call"} :
        IF f = "no_retrieval" THEN tr.retrievals = 0 ELSE tr.calls = 0}

-----------------------------------------------------------------------------
(* Properties                                                               *)

\* Every variable has its type.
TypeOK ==
    /\ enabled \in BOOLEAN /\ pending \in BOOLEAN /\ resumed \in BOOLEAN
    /\ graph \in {"idle", "running", "stopped"}
    /\ chains \in 0..MaxChains /\ runs \in 0..MaxRuns
    /\ handler.active \subseteq Nodes /\ handler.nested \subseteq Ids
    /\ handler.runs \in [Ids -> Nodes \union {""}]
    /\ handler.timers \in [Nodes -> Nat] /\ handler.seq \in Nat
    /\ trace.calls \in Nat /\ trace.total \in Nat /\ trace.retrievals \in Nat

\* The timeline is one story, also when the runs before and after a question wrote
\* it: the numbers grow, a parent is the start of a visit of the entry's own node,
\* and that visit has not ended; every end has the start of its visit.  The
\* sequence diagram, which opens and closes a bar per visit, relies on it.
ParentsWereOpen ==
    LET tl == trace.timeline
        IsOpenBefore(s, i) ==
            /\ tl[i].node \in Nodes
            /\ \E j \in 1..(i - 1) :
                  /\ tl[j].seq = s /\ tl[j].type = "node_start" /\ tl[j].node = tl[i].node
                  /\ ~\E k \in (j + 1)..(i - 1) : tl[k].type = "node_end" /\ tl[k].parent = s
    IN  \A i \in DOMAIN tl :
            /\ i > 1 => tl[i - 1].seq < tl[i].seq
            /\ tl[i].parent # 0 => IsOpenBefore(tl[i].parent, i)
            /\ tl[i].type = "node_end" => tl[i].parent # 0

\* The report of a finished run counts the calls of the LLM that its timeline
\* shows, those before the question included.  The report of a run that resumes
\* nothing also gives every visit its own duration, and raises no alarm that its
\* timeline refutes.
ReportTellsTrace ==
    (graph = "idle" /\ runs > 0) =>
        /\ trace.total = trace.calls /\ trace.calls = Cardinality(Entries(trace, "llm_call"))
        /\ "no_llm_call" \in Findings(trace) <=> Entries(trace, "llm_call") = {}
        /\ ~resumed =>
              LET starts == Entries(trace, "node_start")
              IN  /\ Len(Bars(trace)) = Cardinality(starts)
                  /\ \A i \in starts :
                        Bars(trace)[Cardinality({j \in starts : j <= i})] = trace.timeline[i].seq
                  /\ "no_retrieval" \in Findings(trace) <=> Entries(trace, "tool_call") = {}

\* A trace tells what the run did, across a question to the user too: its timeline
\* is one story, and the report made of it says what the timeline shows.
TraceTellsRun == ParentsWereOpen /\ ReportTellsTrace

\* The client sees every visit of a node begin once and end once, in this order,
\* however many chains start in it, whether or not a trace is written, and also
\* when the node raises or asks the user.
AddsAreDone ==
    \A n \in Shown :
        LET own == {i \in DOMAIN screen : screen[i].node = n}
        IN  /\ \A i \in own :
                  screen[i].action =
                     IF Cardinality({j \in own : j < i}) % 2 = 0 THEN "add" ELSE "done"
            /\ (Cardinality(own) % 2 = 1) <=> (stack # <<>> /\ stack[1].node = n)
=============================================================================
