------------------------------ MODULE Delivery ------------------------------
(***************************************************************************)
(* How the answer of a turn reaches the user of a WebSocket: the loop of   *)
(* websocket_endpoint (main.py) and the messages _run_ws_pipeline sends    *)
(* for one turn: progress events, viz, stream.start, result_data, chunk,   *)
(* stream.end and download_ready.                                          *)
(*                                                                         *)
(* A connection handles one message at a time.  The socket may be lost at  *)
(* any moment; a send on a lost socket raises, or vanishes in a buffer.    *)
(* What the pipeline returns is a choice among the results the runner      *)
(* builds.  The cache that download_ready announces is ResultCache.        *)
(*                                                                         *)
(* `view' is what the client has received of the turn in progress, or of   *)
(* the last one.  Any number of progress events of a turn counts as one.   *)
(***************************************************************************)
EXTENDS Naturals, Sequences, FiniteSets

CONSTANTS
    StreamingDisabled,  \* settings.streaming_disabled
    TraceEnabled        \* any of the eval_trace_* settings

DeliveryAssumption ==
    StreamingDisabled \in BOOLEAN /\ TraceEnabled \in BOOLEAN

VARIABLES
    socket,    \* "open" or "lost"
    pc,        \* what the endpoint does next
    wsClosed,  \* _ws_closed of the turn in progress
    view,      \* messages of the turn that the client has received
    wants,     \* the turn was sent with streaming=True and may stream
    streaming, \* state.streaming_enabled when the analyzer runs
    result     \* the PipelineResult, NoResult before it, Exception if none came

conn == <<socket, pc, wsClosed, view>>
request == <<wants, streaming>>
vars == <<conn, request, result>>

Kinds == {"system", "progress", "delta", "viz", "start", "result_data",
          "chunk", "end", "download_ready", "error"}

Sending == {"viz", "start", "result_data", "chunk", "end", "notify"}

\* A picture, a table and an analysis need rows; a turn that asks the user has
\* none of them.  A run that raised reports the rows of the graph's state.
Results ==
    {r \in [outcome : {"answer", "question"}, rows : BOOLEAN, viz : BOOLEAN,
            data : BOOLEAN, analyzed : BOOLEAN] :
        /\ r.viz \/ r.data \/ r.analyzed => r.rows
        /\ r.outcome = "question" => ~r.rows}

NoResult == [outcome |-> "none"]
Exception == [outcome |-> "exception"]

TypeOK ==
    /\ socket \in {"open", "lost"}
    /\ pc \in {"receive", "running", "failing", "failed", "closed"} \cup Sending
    /\ wsClosed \in BOOLEAN /\ wants \in BOOLEAN /\ streaming \in BOOLEAN
    /\ view \in Seq(Kinds) /\ Len(view) <= 7
    /\ result \in Results \cup {NoResult, Exception}
    /\ pc \in Sending => result \in Results

Init ==
    /\ socket = "open" /\ pc = "receive" /\ wsClosed = FALSE /\ view = <<>>
    /\ wants = FALSE /\ streaming = FALSE
    /\ result = NoResult

-----------------------------------------------------------------------------
(* _safe_send                                                               *)

\* The send went through as far as the server can tell.
Sent(kind) ==
    /\ ~wsClosed
    /\ view' = IF socket = "open" THEN Append(view, kind) ELSE view
    /\ UNCHANGED wsClosed

\* The send raised now, or an earlier one of the turn did: False is returned.
NotSent ==
    /\ wsClosed \/ socket = "lost"
    /\ wsClosed' = TRUE
    /\ UNCHANGED view

\* A message whose loss ends the turn, and one whose loss is ignored.
SendOrReturn(here, kind, next) ==
    /\ pc = here
    /\ \/ Sent(kind) /\ pc' = next
       \/ NotSent /\ pc' = "receive"
    /\ UNCHANGED <<socket, request, result>>

SendAndGo(here, kind, next) ==
    /\ pc = here
    /\ Sent(kind) \/ NotSent
    /\ pc' = next
    /\ UNCHANGED <<socket, request, result>>

-----------------------------------------------------------------------------
(* The messages of a turn                                                   *)

SendViz == SendOrReturn("viz", "viz", "start")
SendStart ==
    SendOrReturn("start", "start", IF result.data THEN "result_data" ELSE "chunk")

AfterData_SkipsText == "notify"
AfterData == "chunk"

SendResultData == SendAndGo("result_data", "result_data", AfterData)

\* streaming_delivered: the analyzer has streamed its text.
Delivered == streaming /\ result.analyzed

\* A text that was streamed is not sent a second time.
SendChunk ==
    /\ pc = "chunk"
    /\ IF Delivered
       THEN pc' = "end" /\ UNCHANGED <<socket, wsClosed, view, request, result>>
       ELSE SendAndGo("chunk", "chunk", "end")

SendEnd == SendAndGo("end", "end", "notify")

Notify ==
    /\ pc = "notify"
    /\ IF result.rows THEN Sent("download_ready") \/ NotSent
                      ELSE UNCHANGED <<view, wsClosed>>
    /\ pc' = "receive"
    /\ UNCHANGED <<socket, request, result>>

-----------------------------------------------------------------------------
(* The turn                                                                 *)

\* _should_stream
ShouldStream(asked) == asked /\ ~StreamingDisabled

\* PipelineState.turn_reset_updates, the first node of every new turn, sets
\* streaming_enabled to False whatever the runner put into the initial state.
AfterTurnReset_Keeps(flag) == flag
AfterTurnReset(flag) == FALSE

\* A message that is no slash command and no refused input starts a turn.
Receive ==
    /\ pc = "receive" /\ socket = "open"
    /\ \E asked \in BOOLEAN :
          /\ wants' = ShouldStream(asked)
          /\ streaming' = AfterTurnReset(ShouldStream(asked))
    /\ wsClosed' = FALSE /\ view' = <<>> /\ result' = NoResult
    /\ pc' = "running"
    /\ UNCHANGED socket

\* /history, or an input that detect_prompt_injection refuses.
ShortReply ==
    /\ pc = "receive" /\ socket = "open"
    /\ \E kind \in {"system", "error"} : view' = <<kind>>
    /\ result' = NoResult
    /\ UNCHANGED <<socket, pc, wsClosed, request>>

\* on_event
Progress ==
    /\ pc = "running" /\ view = <<>> /\ ~wsClosed
    /\ Sent("progress") \/ NotSent
    /\ UNCHANGED <<socket, pc, request, result>>

\* run_pipeline returns.  What the analyzer streamed went through
\* on_custom_event, which forwards it only while tracing is enabled.
PipelineReturns ==
    /\ pc = "running"
    /\ \E r \in Results :
          /\ result' = r
          /\ IF streaming /\ r.analyzed /\ TraceEnabled
             THEN Sent("delta") \/ NotSent
             ELSE UNCHANGED <<view, wsClosed>>
          /\ pc' = IF wsClosed' THEN "receive" ELSE IF r.viz THEN "viz" ELSE "start"
    /\ UNCHANGED <<socket, request>>

\* run_pipeline, or the masking of its answer, raises.
PipelineRaises ==
    /\ pc = "running"
    /\ result' = Exception
    /\ pc' = "failing"
    /\ UNCHANGED <<socket, wsClosed, view, request>>

\* The two messages of the error branch; if one raises the endpoint returns.
AfterError(here) == IF here = "failing" THEN "failed" ELSE "receive"

SendError ==
    /\ pc \in {"failing", "failed"}
    /\ \/ /\ view' = IF socket = "lost" THEN view
                     ELSE Append(view, IF pc = "failing" THEN "end" ELSE "error")
          /\ pc' = AfterError(pc)
       \/ socket = "lost" /\ pc' = "closed" /\ UNCHANGED view
    /\ UNCHANGED <<socket, wsClosed, request, result>>

\* receive_text raises WebSocketDisconnect.
Disconnected ==
    /\ pc = "receive" /\ socket = "lost"
    /\ pc' = "closed"
    /\ UNCHANGED <<socket, wsClosed, view, request, result>>

Lose ==
    /\ socket = "open"
    /\ socket' = "lost"
    /\ UNCHANGED <<pc, wsClosed, view, request, result>>

Reconnect ==
    /\ pc = "closed"
    /\ socket' = "open" /\ pc' = "receive" /\ wsClosed' = FALSE
    /\ view' = <<>> /\ result' = NoResult
    /\ UNCHANGED request

Serve ==
    \/ PipelineReturns \/ PipelineRaises \/ SendViz \/ SendStart
    \/ SendResultData \/ SendChunk \/ SendEnd \/ Notify \/ SendError

Next ==
    \/ Receive \/ ShortReply \/ Progress \/ Serve
    \/ Disconnected \/ Lose \/ Reconnect

\* A pipeline returns or raises (its calls have timeouts) and the endpoint
\* goes on; nobody owes a message, a disconnection or a reconnection.
Spec == Init /\ [][Next]_vars /\ WF_vars(Serve)

-----------------------------------------------------------------------------
(* Properties                                                               *)

Times(kind) == Cardinality({i \in DOMAIN view : view[i] = kind})
Before(first, second) ==
    \A i, j \in DOMAIN view : view[i] = first /\ view[j] = second => i < j

\* Whoever stays connected gets the text of the answer exactly once, as tokens
\* or as one chunk or an error in its place, and is told of the end exactly
\* once, after the picture, the table and the text.
AnsweredOnce ==
    pc = "receive" /\ result # NoResult /\ socket = "open" =>
        /\ Times("end") = 1
        /\ Times("chunk") + Times("delta") + Times("error") = 1
        /\ Before("viz", "start") /\ Before("result_data", "chunk")
        /\ Before("chunk", "end") /\ Before("end", "download_ready")

\* The interface is busy from stream.start to stream.end: a client that stays
\* is always released ("stream.end must be sent, to guarantee setBusy(false)").
BusyIsReleased ==
    (Times("start") > Times("end"))
        ~> (Times("end") = Times("start") \/ socket = "lost")
=============================================================================
