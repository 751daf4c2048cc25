------------------------------ MODULE LlmClient ------------------------------
(***************************************************************************)
(* The adapters of utils/llm/client.py and the node name that goes with a  *)
(* call: one call of the LLM from its caller to its provider and back.     *)
(* Three providers are called through one interface, at once or streaming, *)
(* by code that is written once for each of the two.  Every model takes    *)
(* other parameters and tells its thoughts another way, and each call is   *)
(* accounted for by an LLM_CALL event that names the node it was made for. *)
(*                                                                         *)
(* A text is the set of the pieces of the answer it is made of, which have *)
(* the order of the answer.  The retries of a caller and the circuit       *)
(* breaker are CircuitBreaker, the chunks and tags of a streamed answer    *)
(* are ThinkFilter.                                                        *)
(***************************************************************************)
EXTENDS Naturals, Sequences

CONSTANTS
    Limits,          \* the max_tokens that callers ask for
    MaxCompletion,   \* _REASONING_MAX_COMPLETION
    MaxPieces        \* bound: pieces of an answer

VARIABLES
    pc,       \* "idle", "asking", "reading", "left" (nobody reads on) or "over"
    call,     \* what is asked, by whom and of which model
    request,  \* what was sent; NoRequest until then
    answer,   \* [pieces, cut] of the model
    got,      \* the events that the caller was given: [kind, of]
    told,     \* the LLM_CALL events: [text, node]
    node,     \* _current_node
    outcome   \* "", "returned" or "failed"

vars == <<pc, call, request, answer, got, told, node, outcome>>

LlmClientAssumption == Limits \subseteq Nat /\ MaxCompletion \in Nat

NoRequest == [messages |-> <<>>]
NoAnswer == [pieces |-> <<>>, cut |-> FALSE]

\* The models of a provider, told apart by what their names make the code do.
ModelsOf == [anthropic |-> {"claude"}, openai_compatible |-> {"o-series", "gemini", "qwen", "plain"},
             ibk_custom |-> {"qwen", "plain"}]

\* llm_call_with_parse_retry, llm_stream_with_parse_retry, the rewriter of an
\* extraction query and the SVG call: the last two use the client themselves.
Callers == {"retry", "stream", "rewriter", "svg"}
Streaming(c) == c.by = "stream"
Unit(c) == IF c.by = "svg" THEN "graph" ELSE "unit"

\* A system prompt may be empty; after an answer that did not parse there is a
\* second message.  mode is what get_thinking_mode gives for the unit.
Calls ==
    UNION {[by : Callers, provider : {p}, model : ModelsOf[p], system : {"none", "empty", "given"},
            messages : {<<"question">>, <<"question", "correction">>}, limit : Limits,
            temperature : BOOLEAN, mode : {"off", "low", "medium", "high"}] : p \in DOMAIN ModelsOf}

Init ==
    /\ pc = "idle" /\ call \in Calls /\ request = NoRequest /\ answer = NoAnswer
    /\ got = <<>> /\ told = <<>> /\ node = "graph" /\ outcome = ""

-----------------------------------------------------------------------------
(* The request                                                              *)

\* What the caller hands over: the two of retry.py look the mode up, the others
\* leave it to the adapter.
Explicit(c) == IF c.by \in {"retry", "stream"} THEN c.mode ELSE "none"

\* _resolve_thinking_mode: the nodes of the other callers are not registered.
Resolved(c) == IF Explicit(c) = "none" THEN "off" ELSE Explicit(c)

\* _is_openai_reasoning_model
IsReasoning(c) == c.model = "o-series"

\* _resolve_openai_thinking_params and _resolve_anthropic_thinking_params
OpenAiThinking(c) ==
    LET mode == Resolved(c) IN
    CASE c.model = "qwen" -> [enable_thinking |-> mode # "off"]
      [] c.model \in {"o-series", "gemini"} ->
            [reasoning_effort |-> IF mode = "off" THEN "none" ELSE mode]
      [] OTHER -> <<>>
AnthropicThinking(c) ==
    IF Explicit(c) \in {"none", "off"} THEN <<>> ELSE [thinking |-> Explicit(c)]

With(name, value) == [n \in {name} |-> value]
Merged(f, g) == [n \in DOMAIN f \cup DOMAIN g |-> IF n \in DOMAIN g THEN g[n] ELSE f[n]]
If(cond, params) == IF cond THEN params ELSE <<>>

AnthropicRequest(c) ==
    LET base == [messages |-> c.messages, max_tokens |-> c.limit]
        more == Merged(If(c.system # "none", With("system", c.system)),
                       If(c.temperature, With("temperature", TRUE)))
    IN Merged(Merged(base, more), AnthropicThinking(c))

\* The system prompt becomes a message, unless it is empty.
OpenAiMessages(c) == If(c.system = "given", <<"given">>) \o c.messages

Larger(m, n) == IF m >= n THEN m ELSE n

\* OpenAICompatibleMessages.create
OpenAiCreate(c) ==
    LET limit == IF IsReasoning(c)
                 THEN With("max_completion_tokens", Larger(c.limit, MaxCompletion))
                 ELSE With("max_tokens", c.limit)
        heat  == If(c.temperature /\ ~IsReasoning(c), With("temperature", TRUE))
    IN Merged(Merged(With("messages", OpenAiMessages(c)), Merged(limit, heat)), OpenAiThinking(c))

\* _build_openai_call_kwargs, which only stream uses
OpenAiStream(c) ==
    LET limit == IF IsReasoning(c)
                 THEN [max_completion_tokens |-> Larger(c.limit, MaxCompletion)]
                 ELSE [max_tokens |-> c.limit]
        heat  == If(c.temperature /\ ~IsReasoning(c), With("temperature", TRUE))
    IN Merged(Merged([messages |-> OpenAiMessages(c), stream |-> TRUE], Merged(limit, heat)),
              OpenAiThinking(c))

\* IBKCustomMessages: one prompt, and a thread of its own for every call.
IbkRequest(c) == [messages |-> OpenAiMessages(c)]

RequestOf(c, streaming) ==
    CASE c.provider = "anthropic" -> AnthropicRequest(c)
      [] c.provider = "openai_compatible" /\ streaming -> OpenAiStream(c)
      [] c.provider = "openai_compatible" /\ ~streaming -> OpenAiCreate(c)
      [] c.provider = "ibk_custom" -> IbkRequest(c)

-----------------------------------------------------------------------------
(* The answer                                                               *)

\* qwen writes its thoughts between tags into the text; the other models keep
\* them apart.  An answer that was cut may end within a thought.
Tagged(c) == c.model = "qwen"
Answers(c) ==
    {a \in [pieces : UNION {[1 .. n -> {"text", "thought"}] : n \in 0 .. MaxPieces}, cut : BOOLEAN] :
        a.cut => Tagged(c) /\ a.pieces # <<>> /\ a.pieces[Len(a.pieces)] = "thought"}

\* _extract_text, message.content, _strip_thinking_tags: a thought that is not
\* closed matches no pattern and stays in the text.
CreateText(a) == {i \in DOMAIN a.pieces : a.pieces[i] = "text" \/ (a.cut /\ i = Len(a.pieces))}
WholeText(a) == [kind |-> "text", of |-> CreateText(a)]

\* _parse_anthropic_event, _parse_openai_chunk: the kind of each event is told.
EventOf(a, i) == [kind |-> IF a.pieces[i] = "text" THEN "text" ELSE "thinking", of |-> {i}]

TextOf(events) ==
    UNION {events[i].of : i \in {j \in DOMAIN events : events[j].kind = "text"}}

\* dispatch_tracking_event(LLM_CALL, ...)
Tell(text) == told' = Append(told, [text |-> text, node |-> node])

-----------------------------------------------------------------------------
(* A call                                                                   *)

\* The caller names its unit and the adapter sends the request; or the breaker
\* is open and nothing is sent.
Send ==
    /\ pc = "idle" /\ pc' = "asking"
    /\ node' = Unit(call)
    /\ request' = RequestOf(call, Streaming(call))
    /\ UNCHANGED <<call, answer, got, told, outcome>>

\* A stream and the rewriter put the node name back whatever happens,
\* llm_call_with_parse_retry does not when the call itself fails.
NodeAfter(c, how) == IF how = "failed" /\ c.by = "retry" THEN "unit" ELSE "graph"
Over(how) == pc' = "over" /\ outcome' = how /\ node' = NodeAfter(call, how)

Refuse ==
    /\ pc = "idle" /\ Over("failed")
    /\ UNCHANGED <<call, request, answer, got, told>>

\* The provider cannot be reached, answers with an error, or the task is
\* cancelled.  The gateway's stream is a create.
Fail ==
    /\ pc = "asking" /\ Over("failed")
    /\ IF Streaming(call) /\ call.provider # "ibk_custom" THEN Tell({}) ELSE UNCHANGED told
    /\ UNCHANGED <<call, request, answer, got>>

\* create
Return ==
    /\ pc = "asking" /\ ~Streaming(call)
    /\ answer' \in Answers(call)
    /\ got' = <<WholeText(answer')>>
    /\ Tell(CreateText(answer'))
    /\ Over("returned")
    /\ UNCHANGED <<call, request>>

\* The stream is open.  The gateway has answered at once, and the call is told
\* before its reader has seen anything.
Open ==
    /\ pc = "asking" /\ Streaming(call)
    /\ pc' = "reading"
    /\ answer' \in Answers(call)
    /\ IF call.provider = "ibk_custom" THEN Tell(CreateText(answer')) ELSE UNCHANGED told
    /\ UNCHANGED <<call, request, got, node, outcome>>

\* What the stream has next for its reader, if anything.  The only event of the
\* gateway is the whole text, unless it is empty; the others have one for each piece.
Coming ==
    IF call.provider = "ibk_custom"
    THEN {e \in {WholeText(answer)} : got = <<>> /\ e.of # {}}
    ELSE {EventOf(answer, i) : i \in {Len(got) + 1} \cap DOMAIN answer.pieces}

Read ==
    /\ pc = "reading"
    /\ \E e \in Coming : got' = Append(got, e)
    /\ UNCHANGED <<pc, call, request, answer, told, node, outcome>>

\* The finally of the adapters: what was streamed so far is told.
Account_Never == UNCHANGED told
Account == IF call.provider = "ibk_custom" THEN UNCHANGED told ELSE Tell(TextOf(got))

StreamEnds ==
    /\ pc = "reading" /\ Coming = {}
    /\ Account /\ Over("returned")
    /\ UNCHANGED <<call, request, answer, got>>

StreamBreaks ==
    /\ pc = "reading" /\ call.provider # "ibk_custom"
    /\ Account /\ Over("failed")
    /\ UNCHANGED <<call, request, answer, got>>

\* The reader finds the run cancelled after an event and raises.  Nobody closes
\* the generator: it ends when it is collected.
Leave ==
    /\ pc = "reading" /\ got # <<>>
    /\ pc' = "left" /\ outcome' = "failed" /\ node' = NodeAfter(call, "failed")
    /\ UNCHANGED <<call, request, answer, got, told>>

NextNode ==
    /\ pc = "left" /\ node' = "next"
    /\ UNCHANGED <<pc, call, request, answer, got, told, outcome>>

Collect ==
    /\ pc = "left" /\ pc' = "over" /\ Account
    /\ UNCHANGED <<call, request, answer, got, node, outcome>>

Done == pc = "over" /\ UNCHANGED vars

Next ==
    \/ Send \/ Refuse \/ Fail \/ Return
    \/ Open \/ Read \/ StreamEnds \/ StreamBreaks
    \/ Leave \/ NextNode \/ Collect \/ Done

Spec == Init /\ [][Next]_vars

-----------------------------------------------------------------------------
(* Properties                                                               *)

Ended == pc = "over"

Sent == request # NoRequest

\* A call is told at most once, and at its end just once if its caller was given
\* anything: with the text of what it was given, for the node that made it -
\* but for a stream that was left, which is told later, for whatever node is
\* current then.
CallsAreTold ==
    /\ Len(told) <= 1
    /\ Ended /\ (got # <<>> \/ outcome = "returned") => Len(told) = 1
    /\ Ended /\ told # <<>> => told[1].text = TextOf(got)
    /\ Ended /\ told # <<>> /\ told[1].node # Unit(call) => Streaming(call) /\ outcome = "failed"
    /\ Ended /\ ~Sent => told = <<>>

\* No thought is given as text, and a stream that ends has given the text of
\* a call at once - but for a thought that was cut, which only the latter gives.
\* It is given in its order and but once.
ThoughtsAreHidden ==
    /\ \A i \in DOMAIN got : got[i].kind = "text" =>
            \/ \A n \in got[i].of : answer.pieces[n] = "text"
            \/ answer.cut /\ (~Streaming(call) \/ call.provider = "ibk_custom")
    /\ \A i, j \in DOMAIN got : i < j => \A m \in got[i].of, n \in got[j].of : m < n
    /\ Ended /\ outcome = "returned" /\ ~answer.cut => TextOf(got) = CreateText(answer)

\* All that the caller has to say is in the request, in its order; a model is sent
\* no parameter that it does not take, and it may always write as much as the
\* caller asked for.
Takes(c) ==
    {"messages"} \cup
    CASE c.provider = "ibk_custom" -> {}
      [] c.provider = "anthropic" -> {"system", "max_tokens", "temperature", "thinking"}
      [] c.provider = "openai_compatible" ->
            {"stream"}
            \cup (IF c.model = "o-series" THEN {"max_completion_tokens"}
                  ELSE {"max_tokens", "temperature"})
            \cup (IF c.model = "qwen" THEN {"enable_thinking"} ELSE {})
            \cup (IF c.model \in {"o-series", "gemini"} THEN {"reasoning_effort"} ELSE {})
Said(r) == If("system" \in DOMAIN r /\ r.system # "empty", <<r.system>>) \o r.messages
RequestFits ==
    Sent =>
        /\ DOMAIN request \subseteq Takes(call)
        /\ Said(request) = If(call.system = "given", <<"given">>) \o call.messages
        /\ \A n \in DOMAIN request \cap {"max_tokens", "max_completion_tokens"} : request[n] >= call.limit

\* The two that build an OpenAI request say the same, but for the stream.
SameRequest ==
    Sent => LET other == RequestOf(call, ~Streaming(call))
                names == (DOMAIN request \cup DOMAIN other) \ {"stream"}
            IN \A n \in names : n \in DOMAIN request \cap DOMAIN other /\ request[n] = other[n]

\* The callers find the node name as they left it, unless a call failed in
\* llm_call_with_parse_retry.
NodeIsRestored == Ended /\ node = "unit" => outcome = "failed" /\ call.by = "retry"

LlmCallHolds == CallsAreTold /\ ThoughtsAreHidden /\ RequestFits /\ SameRequest /\ NodeIsRestored

TypeOK ==
    /\ pc \in {"idle", "asking", "reading", "left", "over"} /\ call \in Calls
    /\ answer = NoAnswer \/ answer \in Answers(call)
    /\ \A i \in DOMAIN got : got[i].kind \in {"text", "thinking"} /\ got[i].of \subseteq DOMAIN answer.pieces
    /\ node \in {"graph", "unit", "next"} /\ outcome \in {"", "returned", "failed"}
=============================================================================
