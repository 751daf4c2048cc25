------------------------------ MODULE Present ------------------------------
(***************************************************************************)
(* The present layer of one turn: sql_executor, analyzer, visualizer,      *)
(* formatter, simple_responder, error_end and save_turn_snapshot, with the *)
(* two streamed LLM calls of llm_stream_with_parse_retry.                  *)
(*                                                                         *)
(* A streamed part is told to the client as a start, chunks, a reset and   *)
(* more chunks for every text that does not parse, and an end; `shown' is  *)
(* what a client holds that follows these events.  A text                  *)
(* is the sequence of its chunks, a chunk is the attempt that produced it. *)
(* What the database and the language model return is a choice.            *)
(*                                                                         *)
(* In this release turn_reset clears streaming_enabled (see Delivery), so  *)
(* that the graph itself only takes the plain calls; the streamed calls    *)
(* are what analyze_data and build_visualization do for a caller that sets *)
(* the flag.  The snapshot that save_turn_snapshot appends is modelled in  *)
(* TurnSnapshots, the cancel store in SessionTurns.                        *)
(***************************************************************************)
EXTENDS Naturals, Sequences

CONSTANTS
    ParseRetries,  \* settings.llm_parse_max_retry
    MaxChunks      \* bound: chunks of one attempt

PresentAssumption == ParseRetries \in Nat /\ MaxChunks \in Nat \ {0}

VARIABLES
    node,       \* the node that runs, or how the turn ended
    flag,       \* the cancel store holds a flag of this turn
    analyze,    \* intent is DATA_ANALYSIS and needs_analyzer is set
    streaming,  \* streaming_enabled, with a turn_id and the markdown format
    status,     \* state.status
    rows,       \* sql_result: absent, none, less than the minimum, or more
    analysis,   \* state.analysis_result
    delivered,  \* state.streaming_delivered
    picture,    \* state.visualization.svg_code, and who drew it
    answer,     \* state.formatted_response
    call,       \* the LLM call the node is in, "idle" outside one
    attempt,    \* attempts of the streamed call that have failed to parse
    heard,      \* the text of the current attempt
    shown,      \* the text of each part at the client
    told        \* the start and end events of each part

request == <<analyze, streaming>>
stream == <<call, attempt, heard, shown, told>>
content == <<rows, analysis, delivered, picture, answer>>
vars == <<node, flag, request, status, content, stream>>

Parts == {"analysis", "svg"}
Rows == {"absent", "none", "few", "many"}
Ends == {"plain", "cancelled", "parse_fail", "stream_error"}

\* An analysis or an answer: what it is, and the text it was made of.
Nothing == [kind |-> "nothing", of |-> <<>>]
Made(kind, text) == [kind |-> kind, of |-> text]

Analyses == {"nothing", "parsed", "unparsed", "no_data", "failed"}
Answers == {"nothing", "report", "summary", "line", "light", "error", "cancelled"}

Nodes == {"sql_executor", "analyzer", "visualizer", "formatter",
          "simple_responder", "error_end", "save_turn_snapshot"}
Final == {"end", "raised", "interrupted"}

\* A text of at most MaxChunks chunks of one attempt.
IsText(t) == /\ t \in Seq(0..ParseRetries) /\ Len(t) <= MaxChunks
             /\ \A i, j \in DOMAIN t : t[i] = t[j]

TypeOK ==
    /\ node \in Nodes \cup Final
    /\ flag \in BOOLEAN /\ analyze \in BOOLEAN /\ streaming \in BOOLEAN
    /\ delivered \in BOOLEAN
    /\ status \in {"PENDING", "EXECUTED", "ANALYZED", "FORMATTED", "COMPLETED",
                   "ERROR", "CANCELLED"}
    /\ rows \in Rows
    /\ analysis.kind \in Analyses /\ answer.kind \in Answers
    /\ IsText(analysis.of) /\ IsText(answer.of)
    /\ picture \in {"none", "llm", "template"}
    /\ call \in Parts \cup {"judged", "idle"}
    /\ attempt \in 0..ParseRetries
    /\ IsText(heard) /\ \A p \in Parts : shown[p] \in Seq(0..ParseRetries)
    /\ \A p \in Parts : told[p] \in Seq(Ends \cup {"start"}) /\ Len(told[p]) <= 2

\* The reason layer enters at sql_executor, intent_classifier at
\* simple_responder, continue_orchestrator at analyzer or visualizer with the
\* rows of an earlier turn.
Init ==
    /\ \/ node = "sql_executor" /\ rows = "absent"
       \/ node = "simple_responder" /\ rows = "absent"
       \/ node \in {"analyzer", "visualizer"} /\ rows \in {"none", "few", "many"}
    /\ flag = FALSE
    /\ analyze \in BOOLEAN /\ streaming \in BOOLEAN
    /\ status = "PENDING"
    /\ analysis = Nothing /\ answer = Nothing
    /\ delivered = FALSE /\ picture = "none"
    /\ call = "idle" /\ attempt = 0 /\ heard = <<>>
    /\ shown = [p \in Parts |-> <<>>] /\ told = [p \in Parts |-> <<>>]

-----------------------------------------------------------------------------
(* The edges of the layer                                                   *)

RouteAfterExecution(state, wanted) ==
    IF state \in {"ERROR", "CANCELLED"} THEN "error_end"
    ELSE IF wanted THEN "analyzer" ELSE "visualizer"

Successor == [analyzer |-> "visualizer", visualizer |-> "formatter",
              simple_responder |-> "formatter",
              formatter |-> "save_turn_snapshot",
              save_turn_snapshot |-> "end", error_end |-> "end"]

\* with_cancel_check runs the node only when no cancellation is pending.
Runs(n) == node = n /\ call = "idle" /\ ~flag

SkipCancelled ==
    /\ node \in {"sql_executor", "analyzer", "visualizer", "formatter"}
    /\ call = "idle" /\ flag
    /\ status' = "CANCELLED"
    /\ node' = IF node = "sql_executor" THEN RouteAfterExecution(status', analyze)
                                        ELSE Successor[node]
    /\ UNCHANGED <<flag, request, content, stream>>

\* The user cancels; the flag expires, or another run of the session takes it.
Cancel == flag' = TRUE /\ UNCHANGED <<node, request, status, content, stream>>
Forget == flag' = FALSE /\ UNCHANGED <<node, request, status, content, stream>>

-----------------------------------------------------------------------------
(* The streamed call                                                        *)

StartStream(part) ==
    /\ call' = part /\ attempt' = 0 /\ heard' = <<>>
    /\ shown' = [shown EXCEPT ![part] = <<>>]
    /\ told' = [told EXCEPT ![part] = Append(@, "start")]

\* The stream of the current call is over, with this end event.
Close(how) ==
    /\ told' = [told EXCEPT ![call] = Append(@, how)]
    /\ call' = "idle"
    /\ UNCHANGED <<attempt, heard, shown>>

Chunk ==
    /\ call \in Parts /\ ~flag /\ Len(heard) < MaxChunks
    /\ heard' = Append(heard, attempt)
    /\ shown' = [shown EXCEPT ![call] = Append(@, attempt)]
    /\ UNCHANGED <<node, flag, request, status, content, call, attempt, told>>

\* Every event of the stream asks for a cancellation first.
CancelStream ==
    /\ call \in Parts /\ flag
    /\ Close("cancelled")
    /\ node' = "interrupted"
    /\ UNCHANGED <<flag, request, status, content>>

\* What the client sees of a part is cleared before the next attempt.
AfterReset_Keeps(text) == text
AfterReset(text) == <<>>

Reparse ==
    /\ call \in Parts /\ attempt < ParseRetries
    /\ attempt' = attempt + 1 /\ heard' = <<>>
    /\ shown' = [shown EXCEPT ![call] = AfterReset(@)]
    /\ UNCHANGED <<node, flag, request, status, content, call, told>>

\* How a streamed call ends when it is not cancelled.  An empty text has none
\* of the sections, or the element, that the parsers look for.
StreamEnds_Forgets(how) ==
    /\ how = "plain" => heard # <<>>
    /\ how = "parse_fail" => attempt = ParseRetries
    /\ IF how = "parse_fail"
       THEN call' = "idle" /\ UNCHANGED <<attempt, heard, shown, told>>
       ELSE Close(how)

StreamEnds(how) ==
    /\ how = "plain" => heard # <<>>
    /\ how = "parse_fail" => attempt = ParseRetries
    /\ Close(how)

-----------------------------------------------------------------------------
(* The nodes                                                                *)

\* sql_executor_node: the second safety check, or the database, may fail.
Execute ==
    /\ Runs("sql_executor")
    /\ \/ status' = "ERROR" /\ rows' = "none"
       \/ status' = "EXECUTED" /\ rows' \in {"none", "few", "many"}
    /\ node' = RouteAfterExecution(status', analyze)
    /\ UNCHANGED <<flag, request, analysis, delivered, picture, answer, stream>>

\* analyzer_node returns an analysis.
Delivers(how) == how = "plain"

Analyzed(made, streamed) ==
    /\ analysis' = made
    /\ delivered' = streamed
    /\ status' = IF made.kind = "failed" THEN "ERROR" ELSE "ANALYZED"
    /\ node' = Successor["analyzer"]
    /\ UNCHANGED <<flag, request, rows, picture, answer>>

\* Without rows there is nothing to ask; else the call is plain: it raises, its
\* answer parses, or its last answer becomes the summary.
AnalyzeAtOnce ==
    /\ Runs("analyzer")
    /\ \/ rows = "none" /\ Analyzed(Made("no_data", <<>>), FALSE)
       \/ /\ rows # "none" /\ ~streaming
          /\ \/ Analyzed(Made("failed", <<>>), FALSE)
             \/ Analyzed(Made("parsed", <<0>>), FALSE)
             \/ Analyzed(Made("unparsed", <<ParseRetries>>), FALSE)
             \/ Analyzed(Made("unparsed", <<>>), FALSE)
    /\ UNCHANGED stream

AnalyzeStreamed ==
    /\ Runs("analyzer") /\ rows # "none" /\ streaming
    /\ StartStream("analysis")
    /\ UNCHANGED <<node, flag, request, status, content>>

AnalysisStreamed ==
    /\ call = "analysis"
    /\ \E how \in Ends \ {"cancelled"} :
          /\ StreamEnds(how)
          /\ LET kind == CASE how = "plain" -> "parsed"
                           [] how = "parse_fail" -> "unparsed"
                           [] OTHER -> "failed"
             IN  Analyzed(Made(kind, IF kind = "failed" THEN <<>> ELSE heard),
                          Delivers(how))

\* visualizer_node returns a picture, or none.
Drawn(by) ==
    /\ picture' = by
    /\ node' = Successor["visualizer"]
    /\ UNCHANGED <<flag, request, status, rows, analysis, delivered, answer>>

\* judge_visualization is asked about enough rows; it fails, or says NONE.
Judge ==
    /\ Runs("visualizer")
    /\ \/ Drawn("none") /\ UNCHANGED stream
       \/ /\ rows = "many"
          /\ call' = "judged"
          /\ UNCHANGED <<node, flag, request, status, content,
                         attempt, heard, shown, told>>

\* A cancellation seen after the judgment leaves the picture out.  A kind of
\* chart without example is drawn from the template, as after a failed call.
Draw ==
    /\ call = "judged"
    /\ \/ /\ Drawn(IF flag THEN "none" ELSE "llm") /\ (streaming => flag)
          /\ call' = "idle" /\ UNCHANGED <<attempt, heard, shown, told>>
       \/ /\ ~flag /\ \E by \in {"template", "none"} : Drawn(by)
          /\ call' = "idle" /\ UNCHANGED <<attempt, heard, shown, told>>
       \/ /\ ~flag /\ streaming /\ StartStream("svg")
          /\ UNCHANGED <<node, flag, request, status, content>>

SvgStreamed ==
    /\ call = "svg"
    /\ \E how \in Ends \ {"cancelled"} :
          /\ StreamEnds(how)
          /\ \E by \in {"llm", "template", "none"} :
                (by = "llm" <=> how = "plain") /\ Drawn(by)

\* _render_formatted_text.  A text that is a fallback has no sections; an
\* analysis that is empty leaves the line of figures.
Rendered ==
    CASE analysis.kind \in {"parsed", "no_data"} -> Made("report", analysis.of)
      [] analysis.kind = "failed" -> Made("summary", <<>>)
      [] analysis.kind = "unparsed" /\ analysis.of # <<>> -> Made("summary", analysis.of)
      [] OTHER -> Made("line", <<>>)

\* formatter_node leaves the answer of simple_responder alone.
Format ==
    /\ Runs("formatter")
    /\ IF answer # Nothing /\ rows \in {"absent", "none"}
       THEN UNCHANGED <<answer, status>>
       ELSE \/ rows # "absent" /\ answer' = Rendered /\ status' = "FORMATTED"
            \/ answer' = Made("error", <<>>) /\ status' = "ERROR"
    /\ node' = Successor["formatter"]
    /\ UNCHANGED <<flag, request, rows, analysis, delivered, picture, stream>>

\* The drawing of a template, or of the summary of the process, may raise.
Raise ==
    /\ node \in {"visualizer", "formatter", "error_end"}
    /\ call \in {"idle", "judged"} /\ (node = "error_end" \/ ~flag)
    /\ node' = "raised" /\ call' = "idle"
    /\ UNCHANGED <<flag, request, status, content, attempt, heard, shown, told>>

Respond ==
    /\ node = "simple_responder"
    /\ answer' = Made("light", <<>>) /\ status' = "COMPLETED"
    /\ node' = Successor["simple_responder"]
    /\ UNCHANGED <<flag, request, rows, analysis, delivered, picture, stream>>

\* _handle_error
ErrorEnd ==
    /\ node = "error_end"
    /\ IF status = "CANCELLED"
       THEN /\ answer' = IF answer = Nothing THEN Made("cancelled", <<>>) ELSE answer
            /\ UNCHANGED status
       ELSE answer' = Made("error", <<>>) /\ status' = "ERROR"
    /\ node' = Successor["error_end"]
    /\ UNCHANGED <<flag, request, rows, analysis, delivered, picture, stream>>

\* It saves or skips the snapshot and swallows its exceptions.
SaveTurnSnapshot ==
    /\ node = "save_turn_snapshot"
    /\ node' = Successor["save_turn_snapshot"]
    /\ UNCHANGED <<flag, request, status, content, stream>>

Step ==
    \/ SkipCancelled \/ Execute \/ AnalyzeAtOnce \/ AnalyzeStreamed
    \/ AnalysisStreamed \/ Judge \/ Draw \/ SvgStreamed \/ Format \/ Raise
    \/ Respond \/ ErrorEnd \/ SaveTurnSnapshot
    \/ Chunk \/ CancelStream \/ Reparse

\* The turn is over.
Ended == node \in Final /\ UNCHANGED vars

Next == Step \/ (node \notin Final /\ (Cancel \/ Forget)) \/ Ended

\* A node whose calls return or time out goes on.
Spec == Init /\ [][Next]_vars /\ WF_vars(Step)

-----------------------------------------------------------------------------
(* Properties                                                               *)

\* A turn that reaches the end of the graph with rows to show has an answer,
\* unless it was cancelled on the way; and what the client was told is the
\* analysis (streaming_delivered) is the last attempt, without remains of the
\* ones that did not parse.
AnswerIsComplete ==
    /\ node = "end" /\ status # "CANCELLED" => answer # Nothing
    /\ delivered =>
          /\ shown["analysis"] = analysis.of /\ told["analysis"] = <<"start", "plain">>
          /\ answer.kind = "report" => answer.of = shown["analysis"]

\* A client that sees a part start sees exactly one end of it, however the call
\* ends: with a text, an exception, a cancellation or a text that never parses.
PartsAreClosed ==
    call \notin Parts =>
        \A p \in Parts : told[p] # <<>> => Len(told[p]) = 2 /\ told[p][1] = "start"

\* The layer comes to an end, whatever the calls return.
ChainEnds == <>(node \in Final)
=============================================================================
