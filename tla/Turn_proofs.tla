---------------------------- MODULE Turn_proofs ----------------------------
(***************************************************************************)
(* Theorems of the layers of TurnLayers, for every value of their          *)
(* constants: of Interpret for every limit of questions and all types of   *)
(* ambiguity, of Present for any number of attempts and chunks, and of     *)
(* Delivery for every mixture of losses, exceptions and reconnections.     *)
(* Each part goes from the inductive invariant of its layer over lemmas    *)
(* about its steps to the theorems at its end.                             *)
(***************************************************************************)
EXTENDS TurnLayers, FiniteSetTheorems, SequenceTheorems, TLAPS

-----------------------------------------------------------------------------
(* Interpret: the query on every way into the reason layer                   *)

\* Only a turn that can refer to a snapshot is orchestrated.
OrchestratedHasReference == pc = "continue_orchestrator" => reference # "none"

\* The signals that wait are those of one node.
OneAsks == \A s, t \in pending : s.source = t.source

InterpretInv == TypeOK /\ OrchestratedHasReference /\ OneAsks /\ ReasonHasQuery

\* A turn begins with nothing asked and nothing restored.
LEMMA InterpretInit == ASSUME InterpretAssumption, Init PROVE InterpretInv
<1>1. ClarificationMaxTurns \in Nat
  BY DEF InterpretAssumption
<1>2. FieldsOK
  BY DEF FieldsOK, Init, Nodes
<1>3. SignalsOK
  BY DEF SignalsOK, Init
<1>4. asks \in 0..ClarificationMaxTurns + 1
  <2>1. asks = 0
    BY DEF Init
  <2> QED BY <1>1, <2>1
<1>5. cancel \in BOOLEAN
  BY DEF Init
<1>6. OrchestratedHasReference /\ OneAsks /\ ReasonHasQuery
  BY DEF Init, OrchestratedHasReference, OneAsks, ReasonHasQuery
<1> QED BY <1>2, <1>3, <1>4, <1>5, <1>6 DEF InterpretInv, TypeOK, CountsOK

\* What the nodes resolve without asking are signals of theirs.
LEMMA InferKeeps ==
    ASSUME SignalsOK, NEW signals \in SUBSET Signal, Infer(signals)
    PROVE  resolved' \subseteq Signal /\ last' \in resolved' \cup {NoSignal}
BY DEF SignalsOK, Infer

\* Every step keeps the plain fields within their values.
LEMMA NextFields ==
    ASSUME FieldsOK, SignalsOK, [Next]_vars
    PROVE  FieldsOK'
<1>1. CASE Cancel
  BY ZenonT(60), <1>1 DEF Cancel, FieldsOK
<1>2. CASE UNCHANGED vars
  BY ZenonT(60), <1>2 DEF vars, FieldsOK
<1> USE DEF FieldsOK, Nodes, Exits, RouteAfterIntent, RouteAfterNormalize
<1>3. CASE SkipCancelled
  BY <1>3 DEF SkipCancelled
<1>4. CASE ClassifyFails
  BY <1>4 DEF ClassifyFails
<1>5. CASE ClassifyAsks
  BY <1>5 DEF ClassifyAsks
<1>6. CASE ClassifyForced
  BY <1>6 DEF ClassifyForced
<1>7. CASE ClassifyNew
  BY <1>7 DEF ClassifyNew
<1>8. CASE ClassifyContinue
  BY <1>8 DEF ClassifyContinue
<1>9. CASE OrchestrateFails
  BY <1>9 DEF OrchestrateFails
<1>10. CASE Orchestrate
  BY <1>10 DEF Orchestrate, RestoredQuery
<1>11. CASE NormalizeFails
  BY <1>11 DEF NormalizeFails, Rewrite
<1>12. CASE NormalizeRaises
  BY ZenonT(60), <1>12 DEF NormalizeRaises
<1>13. CASE Normalize
  BY <1>13 DEF Normalize, Rewrite
<1>14. CASE Ask
  BY ZenonT(60), <1>14 DEF Ask
<1>15. CASE Answer
  <2>1. PICK best \in Best : pc' = best.source
    BY <1>15 DEF Answer, RouteAfterClarify
  <2>2. best.source \in Sources
    BY <2>1 DEF Best, Guarded, Signal, SignalsOK
  <2>3. pc' \in Nodes
    BY <2>1, <2>2 DEF Sources
  <2>4. UNCHANGED <<status, intent, text, analysis, query, reference>>
    BY <1>15 DEF Answer
  <2> QED BY ZenonT(60), <2>3, <2>4
<1>16. CASE Abandon
  BY ZenonT(60), <1>16 DEF Abandon
<1>17. CASE ClassifyRaises
  BY ZenonT(60), <1>17 DEF ClassifyRaises
<1> QED
  BY <1>1, <1>2, <1>3, <1>4, <1>5, <1>6, <1>7, <1>8, <1>9, <1>10,
     <1>11, <1>12, <1>13, <1>14, <1>15, <1>16, <1>17
     DEF Next, Step, Left

\* Every step keeps the signals well formed, and those that wait of one node.
LEMMA NextSignals ==
    ASSUME SignalsOK, OneAsks, [Next]_vars
    PROVE  SignalsOK' /\ OneAsks'
<1> USE DEF SignalsOK, OneAsks
<1>1. CASE ClassifyAsks
  BY <1>1 DEF ClassifyAsks, Signal, Sources
<1>2. CASE ClassifyForced
  <2>1. resolved' \subseteq Signal /\ last' \in resolved' \cup {NoSignal}
    BY <1>2, InferKeeps DEF ClassifyForced, Signal, Sources
  <2> QED BY <1>2, <2>1 DEF ClassifyForced
<1>3. CASE ClassifyContinue
  <2>1. resolved' \subseteq Signal /\ last' \in resolved' \cup {NoSignal}
    BY <1>3, InferKeeps DEF ClassifyContinue, Signal, Sources
  <2> QED BY <1>3, <2>1 DEF ClassifyContinue
<1>4. CASE Normalize
  <2>1. pending' \subseteq Signal /\ OneAsks'
    BY <1>4 DEF Normalize, SignalsOf, Signal, Sources
  <2>2. resolved' \subseteq Signal /\ last' \in resolved' \cup {NoSignal}
    BY <1>4, InferKeeps DEF Normalize, SignalsOf, Signal, Sources
  <2> QED BY <2>1, <2>2
<1>5. CASE Answer
  <2>1. PICK best \in Best : /\ resolved' = resolved \cup {best} /\ last' = best
                             /\ pending' = {}
    BY <1>5 DEF Answer, StillPending
  <2>2. best \in Signal
    BY <2>1 DEF Best, Guarded, Signal
  <2> QED BY <2>1, <2>2
<1>6. CASE SkipCancelled
  BY <1>6 DEF SkipCancelled
<1>7. CASE ClassifyFails
  BY <1>7 DEF ClassifyFails
<1>8. CASE ClassifyNew
  BY <1>8 DEF ClassifyNew
<1>9. CASE OrchestrateFails
  BY <1>9 DEF OrchestrateFails
<1>10. CASE Orchestrate
  BY <1>10 DEF Orchestrate
<1>11. CASE NormalizeFails
  BY <1>11 DEF NormalizeFails
<1>12. CASE NormalizeRaises
  BY <1>12 DEF NormalizeRaises
<1>13. CASE Ask
  BY <1>13 DEF Ask
<1>14. CASE Abandon
  BY <1>14 DEF Abandon
<1>15. CASE Cancel
  BY <1>15 DEF Cancel
<1>16. CASE UNCHANGED vars
  BY <1>16 DEF vars
<1>17. CASE ClassifyRaises
  BY <1>17 DEF ClassifyRaises
<1> QED
  BY <1>1, <1>2, <1>3, <1>4, <1>5, <1>6, <1>7, <1>8, <1>9, <1>10,
     <1>11, <1>12, <1>13, <1>14, <1>15, <1>16, <1>17 DEF Next, Step, Left

\* Only an answer counts as asked, and it counts up to one past the limit.
LEMMA NextCounts == ASSUME InterpretAssumption, CountsOK, [Next]_vars PROVE CountsOK'
<1>1. ClarificationMaxTurns \in Nat
  BY DEF InterpretAssumption
<1>2. CASE Answer
  BY <1>1, <1>2 DEF Answer, CountsOK
<1>3. CASE Cancel
  BY <1>3 DEF Cancel, CountsOK
<1>4. ASSUME Step \/ Abandon \/ UNCHANGED vars PROVE UNCHANGED <<asks, cancel>>
  BY <1>4 DEF Step, SkipCancelled, ClassifyFails, ClassifyAsks, ClassifyRaises,
     ClassifyForced, ClassifyNew, ClassifyContinue, OrchestrateFails, Orchestrate,
     NormalizeFails, NormalizeRaises, Normalize, Ask, Abandon, vars
<1> QED BY <1>2, <1>3, <1>4 DEF Next, Left, CountsOK

\* A turn is orchestrated only when there is a snapshot to refer to, and what
\* is regenerated without a query of its own takes the snapshot's.
LEMMA NextQuery ==
    ASSUME FieldsOK, SignalsOK, OrchestratedHasReference, ReasonHasQuery, [Next]_vars
    PROVE  OrchestratedHasReference' /\ ReasonHasQuery'
<1> USE DEF OrchestratedHasReference, ReasonHasQuery, RouteAfterIntent,
        RouteAfterNormalize
<1>1. CASE SkipCancelled
  BY <1>1 DEF SkipCancelled, Runs
<1>2. CASE ClassifyFails
  BY <1>2 DEF ClassifyFails
<1>3. CASE ClassifyAsks
  BY <1>3 DEF ClassifyAsks
<1>4. CASE ClassifyForced
  BY <1>4 DEF ClassifyForced
<1>5. CASE ClassifyNew
  BY <1>5 DEF ClassifyNew
<1>6. CASE ClassifyContinue
  BY <1>6 DEF ClassifyContinue
<1>7. CASE OrchestrateFails
  BY <1>7 DEF OrchestrateFails
<1>8. CASE Orchestrate
  BY <1>8 DEF Orchestrate, RestoredQuery, Downgrades, FieldsOK
<1>9. CASE NormalizeFails
  BY <1>9 DEF NormalizeFails, Runs
<1>10. CASE NormalizeRaises
  BY <1>10 DEF NormalizeRaises
<1>11. CASE Normalize
  BY <1>11 DEF Normalize
<1>12. CASE Ask
  BY <1>12 DEF Ask
<1>13. CASE Answer
  <2>1. PICK best \in Best : pc' = best.source
    BY <1>13 DEF Answer, RouteAfterClarify
  <2>2. best.source \in Sources
    BY <2>1 DEF Best, Guarded, Signal, SignalsOK
  <2> QED BY <1>13, <2>1, <2>2 DEF Answer, Sources
<1>14. CASE Abandon
  BY <1>14 DEF Abandon
<1>15. CASE Cancel
  BY <1>15 DEF Cancel
<1>16. CASE UNCHANGED vars
  BY <1>16 DEF vars
<1>17. CASE ClassifyRaises
  BY <1>17 DEF ClassifyRaises
<1> QED
  BY <1>1, <1>2, <1>3, <1>4, <1>5, <1>6, <1>7, <1>8, <1>9, <1>10,
     <1>11, <1>12, <1>13, <1>14, <1>15, <1>16, <1>17 DEF Next, Step, Left

\* Every step keeps InterpretInv.
LEMMA InterpretStep == ASSUME InterpretAssumption, InterpretInv, [Next]_vars PROVE InterpretInv'
BY NextFields, NextSignals, NextCounts, NextQuery DEF InterpretInv, TypeOK

\* The types, and what keeps the two properties below, hold in every turn.
THEOREM InterpretInvariance == ASSUME InterpretAssumption PROVE Spec => []InterpretInv
<1>1. Init => InterpretInv
  BY InterpretInit
<1>2. InterpretInv /\ [Next]_vars => InterpretInv'
  BY InterpretStep
<1> QED BY <1>1, <1>2, PTL DEF Spec

\* Every field keeps its type, and questions are counted up to their limit.
THEOREM InterpretTypes == ASSUME InterpretAssumption PROVE Spec => []TypeOK
<1>1. InterpretInv => TypeOK
  BY DEF InterpretInv
<1> QED BY <1>1, InterpretInvariance, PTL

\* The reason layer is entered with a normalized query, on every way into it:
\* a turn that is orchestrated refers to a snapshot, and one without a query
\* is not regenerated.
THEOREM ReasonIsGivenQuery == ASSUME InterpretAssumption PROVE Spec => []ReasonHasQuery
<1>1. InterpretInv => ReasonHasQuery
  BY DEF InterpretInv
<1> QED BY <1>1, InterpretInvariance, PTL

\* The answer to a question goes back to the node that asked.
THEOREM AnswersReturn == ASSUME InterpretAssumption PROVE Spec => ReturnsToAsker
<1>1. ASSUME InterpretInv, [Next]_vars
      PROVE  [pc = "asked" /\ pc' \in Nodes \ {"asked"} =>
                 \A s \in pending : pc' = s.source]_vars
  <2> SUFFICES ASSUME pc = "asked", pc' \in Nodes \ {"asked"}
               PROVE  \A s \in pending : pc' = s.source
    OBVIOUS
  <2>1. Answer
    BY <1>1 DEF Next, Step, SkipCancelled, ClassifyFails, ClassifyAsks,
       ClassifyRaises, ClassifyForced, ClassifyNew, ClassifyContinue, OrchestrateFails,
       Orchestrate, NormalizeFails, NormalizeRaises, Normalize, Ask, Abandon,
       Cancel, Left, Runs, Nodes, vars
  <2>2. PICK best \in Best : last' = best
    BY <2>1 DEF Answer
  <2>3. PICK s \in pending : best.source = s.source
    BY <1>1, <2>2 DEF Best, Guarded, Signal, SignalsOK, TypeOK, InterpretInv
  <2>4. pc' = s.source
    BY <2>1, <2>2, <2>3 DEF Answer, RouteAfterClarify
  <2> QED BY <1>1, <2>4 DEF InterpretInv, OneAsks
<1> QED BY <1>1, InterpretInvariance, PTL DEF ReturnsToAsker, Spec

-----------------------------------------------------------------------------
(* Present: a streamed part is opened, followed and closed once              *)

PresentTypes ==
    /\ P!TypeOK
    /\ shown \in [P!Parts -> Seq(0 .. ParseRetries)]
    /\ told \in [P!Parts -> Seq(P!Ends \cup {"start"})]

CallAtItsNode ==
    /\ call = "analysis" => stage = "analyzer"
    /\ call \in {"judged", "svg"} => stage = "visualizer"

\* What the client holds of the part that is streamed is the attempt in progress.
FollowsAttempt ==
    /\ \A i \in DOMAIN heard : heard[i] = attempt
    /\ call \in P!Parts => shown[call] = heard

\* A part is opened when its node runs, and has one end once it is left.
OpenOrEnded ==
    \A p \in P!Parts :
        IF call = p THEN told[p] = <<"start">>
        ELSE told[p] = <<>> \/ \E how \in P!Ends : told[p] = <<"start", how>>

OpenedByNode ==
    /\ stage \in {"sql_executor", "analyzer"} /\ call # "analysis" => told["analysis"] = <<>>
    /\ stage \in {"sql_executor", "analyzer", "visualizer"} /\ call # "svg" => told["svg"] = <<>>

\* The analysis that was streamed is the one that is rendered.
StreamedIsAnalysis ==
    delivered => /\ stage \notin {"sql_executor", "analyzer"}
                 /\ shown["analysis"] = insight.of /\ told["analysis"] = <<"start", "plain">>
                 /\ answer.kind = "report" => answer.of = insight.of

AnswerAtItsNode ==
    /\ answer.kind = "nothing" => answer = P!Nothing
    /\ stage \in {"sql_executor", "analyzer", "visualizer", "simple_responder"} =>
           answer.kind = "nothing"
    /\ stage = "formatter" => answer.kind # "report"
    /\ stage \in {"save_turn_snapshot", "end"} /\ outcome # "CANCELLED" =>
           answer.kind # "nothing"

PresentInv ==
    /\ PresentTypes /\ CallAtItsNode /\ FollowsAttempt /\ OpenOrEnded /\ OpenedByNode
    /\ StreamedIsAnalysis /\ AnswerAtItsNode

LEMMA AppendToOne ==
    ASSUME NEW first, NEW second
    PROVE  Append(<<first>>, second) = <<first, second>>
<1> DEFINE S == {first, second}
<1>1. /\ <<first>> \in Seq(S) /\ Len(<<first>>) = 1 /\ second \in S
      /\ <<first, second>> \in Seq(S) /\ Len(<<first, second>>) = 2
  OBVIOUS
<1>2. Append(<<first>>, second) \in Seq(S) /\ Len(Append(<<first>>, second)) = 2
  BY <1>1
<1>3. \A i \in 1 .. 2 : Append(<<first>>, second)[i] = <<first, second>>[i]
  BY <1>1
<1> QED BY <1>1, <1>2, <1>3, SeqEqual

\* How a step changes what is streamed: not at all, or as one of the four
\* operations on a stream.
Quiet == /\ UNCHANGED <<attempt, heard, shown, told>>
         /\ call \notin P!Parts /\ call' \notin P!Parts
Opens(part) == /\ P!StartStream(part) /\ call \notin P!Parts /\ UNCHANGED stage
               /\ stage = IF part = "svg" THEN "visualizer" ELSE "analyzer"
Closes == \E how \in P!Ends : P!Close(how) /\ call \in P!Parts

LEMMA StreamSteps ==
    ASSUME PresentInv, P!Step \/ P!Cancel \/ P!Forget \/ UNCHANGED P!vars
    PROVE  \/ Quiet \/ (\E part \in P!Parts : Opens(part)) \/ Closes
           \/ P!Chunk \/ P!Reparse \/ UNCHANGED <<stage, P!stream>>
<1> USE DEF P!stream, P!content, P!request
<1>0. call \in P!Parts \cup {"judged", "idle"}
  BY DEF PresentInv, PresentTypes, P!TypeOK
<1>1. CASE P!SkipCancelled
  BY <1>1 DEF P!SkipCancelled, Quiet, P!Parts
<1>2. CASE P!Execute \/ P!Format
  BY <1>2 DEF P!Execute, P!Format, P!Runs, Quiet, P!Parts
<1>3. CASE P!Respond \/ P!ErrorEnd \/ P!SaveTurnSnapshot
  <2>1. call \notin P!Parts
    BY <1>3 DEF P!Respond, P!ErrorEnd, P!SaveTurnSnapshot, PresentInv, CallAtItsNode, P!Parts
  <2> QED BY <1>3, <2>1 DEF P!Respond, P!ErrorEnd, P!SaveTurnSnapshot, Quiet
<1>4. CASE P!AnalyzeAtOnce
  BY <1>4 DEF P!AnalyzeAtOnce, P!Runs, Quiet, P!Parts
<1>5. CASE P!AnalyzeStreamed
  <2>1. Opens("analysis")
    BY <1>5 DEF P!AnalyzeStreamed, P!Runs, Opens, P!Parts
  <2> QED BY <2>1 DEF P!Parts
<1>6. CASE P!AnalysisStreamed
  <2>1. PICK how \in P!Ends : P!Close(how)
    BY <1>6 DEF P!AnalysisStreamed, P!StreamEnds
  <2> QED BY <1>6, <2>1 DEF P!AnalysisStreamed, Closes, P!Parts
<1>7. CASE P!Judge
  BY <1>7 DEF P!Judge, P!Runs, Quiet, P!Parts
<1>8. CASE P!Draw
  <2>1. call \notin P!Parts /\ stage = "visualizer"
    BY <1>8 DEF P!Draw, P!Parts, PresentInv, CallAtItsNode
  <2>2. CASE P!StartStream("svg") /\ UNCHANGED stage
    <3>1. Opens("svg")
      BY <2>1, <2>2 DEF Opens
    <3> QED BY <3>1 DEF P!Parts
  <2>3. CASE call' = "idle" /\ UNCHANGED <<attempt, heard, shown, told>>
    BY <2>1, <2>3 DEF Quiet, P!Parts
  <2> QED BY <1>8, <2>2, <2>3 DEF P!Draw
<1>9. CASE P!SvgStreamed
  <2>1. PICK how \in P!Ends : P!Close(how)
    BY <1>9 DEF P!SvgStreamed, P!StreamEnds
  <2> QED BY <1>9, <2>1 DEF P!SvgStreamed, Closes, P!Parts
<1>10. CASE P!Raise
  BY <1>10 DEF P!Raise, Quiet, P!Parts
<1>11. CASE P!CancelStream
  BY <1>11 DEF P!CancelStream, Closes, P!Ends
<1>12. CASE P!Chunk \/ P!Reparse
  BY <1>12
<1>13. CASE P!Cancel \/ P!Forget \/ UNCHANGED P!vars
  BY <1>13 DEF P!Cancel, P!Forget, P!vars
<1> QED BY <1>1, <1>2, <1>3, <1>4, <1>5, <1>6, <1>7, <1>8, <1>9, <1>10, <1>11, <1>12,
           <1>13 DEF P!Step

\* The streams keep their types and their order.
LEMMA StreamKeeps ==
    ASSUME PresentInv, P!Step \/ P!Cancel \/ P!Forget \/ UNCHANGED P!vars,
           call' \in P!Parts \cup {"judged", "idle"}
    PROVE  /\ shown' \in [P!Parts -> Seq(0 .. ParseRetries)]
           /\ told' \in [P!Parts -> Seq(P!Ends \cup {"start"})]
           /\ attempt' \in 0 .. ParseRetries
           /\ heard' \in Seq(0 .. ParseRetries) /\ Len(heard') <= MaxChunks
           /\ FollowsAttempt' /\ OpenOrEnded'
<1>0. /\ ParseRetries \in Nat /\ MaxChunks \in Nat \ {0}
      /\ shown \in [P!Parts -> Seq(0 .. ParseRetries)]
      /\ told \in [P!Parts -> Seq(P!Ends \cup {"start"})]
      /\ attempt \in 0 .. ParseRetries /\ call \in P!Parts \cup {"judged", "idle"}
      /\ heard \in Seq(0 .. ParseRetries) /\ Len(heard) <= MaxChunks
      /\ FollowsAttempt /\ OpenOrEnded
  BY PresentAssumed DEF P!PresentAssumption, PresentInv, PresentTypes, P!TypeOK, P!IsText
<1>1. CASE Quiet
  BY <1>0, <1>1 DEF Quiet, FollowsAttempt, OpenOrEnded
<1>2. ASSUME NEW part \in P!Parts, Opens(part)
      PROVE  /\ shown' \in [P!Parts -> Seq(0 .. ParseRetries)]
             /\ told' \in [P!Parts -> Seq(P!Ends \cup {"start"})]
             /\ attempt' \in 0 .. ParseRetries
             /\ heard' \in Seq(0 .. ParseRetries) /\ Len(heard') <= MaxChunks
             /\ FollowsAttempt' /\ OpenOrEnded'
  <2>1. told[part] = <<>>
    BY <1>2 DEF Opens, PresentInv, OpenedByNode, P!Parts
  <2>2. /\ told' = [told EXCEPT ![part] = <<"start">>] /\ call' = part
        /\ attempt' = 0 /\ heard' = <<>> /\ shown' = [shown EXCEPT ![part] = <<>>]
    BY <1>2, <2>1 DEF Opens, P!StartStream
  <2>3. <<"start">> \in Seq(P!Ends \cup {"start"}) /\ <<>> \in Seq(0 .. ParseRetries)
        /\ Len(<<>>) = 0
    OBVIOUS
  <2>4. told' \in [P!Parts -> Seq(P!Ends \cup {"start"})]
        /\ shown' \in [P!Parts -> Seq(0 .. ParseRetries)]
    BY <1>0, <2>2, <2>3
  <2>5. FollowsAttempt'
    BY <1>0, <2>2 DEF FollowsAttempt
  <2>6. OpenOrEnded'
    BY <1>0, <1>2, <2>2 DEF OpenOrEnded, Opens
  <2> QED BY <1>0, <2>2, <2>3, <2>4, <2>5, <2>6
<1>3. CASE Closes
  <2>1. PICK how \in P!Ends : P!Close(how) /\ call \in P!Parts
    BY <1>3 DEF Closes
  <2>2. told[call] = <<"start">>
    BY <1>0, <2>1 DEF OpenOrEnded
  <2>3. /\ told' = [told EXCEPT ![call] = <<"start", how>>] /\ call' = "idle"
        /\ UNCHANGED <<attempt, heard, shown>>
    <3>1. Append(<<"start">>, how) = <<"start", how>>
      BY AppendToOne
    <3> QED BY <2>1, <2>2, <3>1 DEF P!Close
  <2>4. <<"start", how>> \in Seq(P!Ends \cup {"start"})
    BY <2>1
  <2>5. told' \in [P!Parts -> Seq(P!Ends \cup {"start"})]
    BY <1>0, <2>1, <2>3, <2>4
  <2>6. FollowsAttempt' /\ OpenOrEnded'
    BY <1>0, <2>1, <2>3 DEF FollowsAttempt, OpenOrEnded, P!Parts
  <2> QED BY <1>0, <2>3, <2>5, <2>6
<1>4. CASE P!Chunk
  <2>1. /\ call \in P!Parts /\ Len(heard) < MaxChunks /\ heard' = Append(heard, attempt)
        /\ shown' = [shown EXCEPT ![call] = heard'] /\ UNCHANGED <<call, attempt, told>>
    BY <1>0, <1>4 DEF P!Chunk, FollowsAttempt
  <2>2. /\ heard' \in Seq(0 .. ParseRetries) /\ Len(heard') = Len(heard) + 1
        /\ \A i \in DOMAIN heard' : heard'[i] = attempt
    BY <1>0, <2>1 DEF FollowsAttempt
  <2>3. shown' \in [P!Parts -> Seq(0 .. ParseRetries)] /\ Len(heard') <= MaxChunks
    BY <1>0, <2>1, <2>2
  <2>4. FollowsAttempt' /\ OpenOrEnded'
    BY <1>0, <2>1, <2>2 DEF FollowsAttempt, OpenOrEnded
  <2> QED BY <1>0, <2>1, <2>2, <2>3, <2>4
<1>5. CASE P!Reparse
  <2>1. /\ call \in P!Parts /\ attempt < ParseRetries /\ attempt' = attempt + 1
        /\ heard' = <<>> /\ shown' = [shown EXCEPT ![call] = <<>>]
        /\ UNCHANGED <<call, told>>
    BY <1>5 DEF P!Reparse, P!AfterReset
  <2>2. <<>> \in Seq(0 .. ParseRetries) /\ Len(<<>>) = 0 /\ attempt' \in 0 .. ParseRetries
    BY <1>0, <2>1
  <2>3. FollowsAttempt' /\ OpenOrEnded'
    BY <1>0, <2>1 DEF FollowsAttempt, OpenOrEnded
  <2> QED BY <1>0, <2>1, <2>2, <2>3
<1>6. CASE UNCHANGED <<stage, P!stream>>
  BY <1>0, <1>6 DEF P!stream, FollowsAttempt, OpenOrEnded
<1> QED BY <1>1, <1>2, <1>3, <1>4, <1>5, <1>6, StreamSteps

\* What a node leaves behind is of its kind.
ContentOK ==
    /\ stage \in P!Nodes \cup P!Final
    /\ outcome \in {"PENDING", "EXECUTED", "ANALYZED", "FORMATTED", "COMPLETED",
                    "ERROR", "CANCELLED"}
    /\ rows \in P!Rows
    /\ insight.kind \in P!Analyses /\ answer.kind \in P!Answers
    /\ P!IsText(insight.of) /\ P!IsText(answer.of)
    /\ picture \in {"none", "llm", "template"}
    /\ call \in P!Parts \cup {"judged", "idle"}

Switches ==
    /\ flag \in BOOLEAN /\ analyze \in BOOLEAN /\ streams \in BOOLEAN
    /\ delivered \in BOOLEAN

AtNodes == ContentOK /\ CallAtItsNode /\ OpenedByNode /\ StreamedIsAnalysis /\ AnswerAtItsNode

LEMMA MadeFields ==
    ASSUME NEW kind, NEW content
    PROVE  P!Made(kind, content).kind = kind /\ P!Made(kind, content).of = content
BY DEF P!Made

\* The texts that are no text of the model, and the one in progress.
LEMMA PlainTexts ==
    ASSUME PresentInv
    PROVE  /\ P!IsText(<<>>) /\ P!IsText(<<0>>) /\ P!IsText(<<ParseRetries>>)
           /\ P!IsText(heard)
<1>1. ParseRetries \in Nat /\ MaxChunks \in Nat \ {0}
  BY PresentAssumed DEF P!PresentAssumption
<1> QED BY <1>1 DEF P!IsText, PresentInv, PresentTypes, P!TypeOK

LEMMA RenderedFields ==
    ASSUME ContentOK
    PROVE  /\ P!Rendered.kind \in {"report", "summary", "line"}
           /\ P!IsText(P!Rendered.of) \/ ~P!IsText(<<>>)
           /\ P!Rendered.kind = "report" => P!Rendered.of = insight.of
BY MadeFields DEF P!Rendered, ContentOK

LEMMA SwitchSteps ==
    ASSUME Switches, P!Step \/ P!Cancel \/ P!Forget \/ UNCHANGED P!vars
    PROVE  Switches'
<1> USE DEF Switches, P!request, P!content
<1>1. CASE P!AnalyzeAtOnce
  <2>1. delivered' = FALSE /\ UNCHANGED <<flag, analyze, streams>>
    BY <1>1 DEF P!AnalyzeAtOnce, P!Analyzed
  <2> QED BY <2>1, Zenon
<1>2. CASE P!AnalysisStreamed
  <2>1. delivered' \in BOOLEAN /\ UNCHANGED <<flag, analyze, streams>>
    BY <1>2, Zenon DEF P!AnalysisStreamed, P!Analyzed, P!Delivers
  <2> QED BY <2>1, Zenon
<1>3. CASE P!Cancel \/ P!Forget
  <2>1. flag' \in BOOLEAN /\ UNCHANGED <<delivered, analyze, streams>>
    BY <1>3, Zenon DEF P!Cancel, P!Forget
  <2> QED BY <2>1, Zenon
<1>4. ASSUME \/ P!SkipCancelled \/ P!Execute \/ P!AnalyzeStreamed \/ P!Judge \/ P!Draw
             \/ P!SvgStreamed \/ P!Format \/ P!Raise \/ P!Respond \/ P!ErrorEnd
             \/ P!SaveTurnSnapshot \/ P!Chunk \/ P!CancelStream \/ P!Reparse
             \/ UNCHANGED P!vars
      PROVE  UNCHANGED <<flag, analyze, streams, delivered>>
  BY <1>4 DEF P!SkipCancelled, P!Execute, P!AnalyzeStreamed, P!Judge, P!Draw, P!Drawn,
     P!SvgStreamed, P!Format, P!Raise, P!Respond, P!ErrorEnd, P!SaveTurnSnapshot,
     P!Chunk, P!CancelStream, P!Reparse, P!vars
<1> QED BY <1>1, <1>2, <1>3, <1>4 DEF P!Step

LEMMA ContentSteps ==
    ASSUME PresentInv, P!Step \/ P!Cancel \/ P!Forget \/ UNCHANGED P!vars
    PROVE  AtNodes'
<1> USE DEF AtNodes, P!request, P!content
<1>0. /\ ContentOK /\ CallAtItsNode /\ OpenedByNode /\ StreamedIsAnalysis /\ AnswerAtItsNode
  BY DEF PresentInv, PresentTypes, P!TypeOK, ContentOK
<1>1. CASE P!Cancel \/ P!Forget
  BY <1>0, <1>1 DEF P!Cancel, P!Forget, P!stream, ContentOK, CallAtItsNode, OpenedByNode,
     StreamedIsAnalysis, AnswerAtItsNode
<1>2. CASE UNCHANGED P!vars
  BY <1>0, <1>2 DEF P!vars, P!stream, ContentOK, CallAtItsNode, OpenedByNode,
     StreamedIsAnalysis, AnswerAtItsNode
<1> USE DEF ContentOK, CallAtItsNode, OpenedByNode, StreamedIsAnalysis, AnswerAtItsNode,
        P!Nodes, P!Final, P!Parts
<1>3. CASE P!SkipCancelled
  BY <1>0, <1>3 DEF P!SkipCancelled, P!RouteAfterExecution, P!Successor, P!stream
<1>4. CASE P!Execute
  BY <1>0, <1>4 DEF P!Execute, P!Runs, P!RouteAfterExecution, P!stream, P!Rows
<1>5. CASE P!AnalyzeAtOnce
  <2>0. PICK kind \in {"no_data", "failed", "parsed", "unparsed"},
             content \in {<<>>, <<0>>, <<ParseRetries>>} : P!Analyzed(P!Made(kind, content), FALSE)
    BY <1>5, Zenon DEF P!AnalyzeAtOnce
  <2> DEFINE made == P!Made(kind, content)
  <2>1. P!Analyzed(made, FALSE) /\ made.kind \in P!Analyses /\ P!IsText(made.of)
    <3>1. made.kind = kind /\ made.of = content
      BY MadeFields
    <3>2. P!IsText(content) /\ kind \in P!Analyses
      BY PlainTexts, Zenon DEF P!Analyses
    <3> QED BY <2>0, <3>1, <3>2
  <2> HIDE DEF made
  <2>2. stage = "analyzer" /\ call = "idle" /\ UNCHANGED <<call, attempt, heard, shown, told>>
    BY <1>5 DEF P!AnalyzeAtOnce, P!Runs, P!stream
  <2>3. /\ insight' = made /\ delivered' = FALSE /\ outcome' \in {"ERROR", "ANALYZED"}
        /\ stage' = "visualizer" /\ UNCHANGED <<rows, picture, answer>>
    BY <2>1 DEF P!Analyzed, P!Successor
  <2> QED BY <1>0, <2>1, <2>2, <2>3
<1>6. CASE P!AnalyzeStreamed
  BY <1>0, <1>6 DEF P!AnalyzeStreamed, P!Runs, P!StartStream
<1>7. CASE P!Judge
  BY <1>0, <1>7 DEF P!Judge, P!Drawn, P!Runs, P!Successor, P!stream
<1>8. CASE P!Draw
  <2>1. /\ stage = "visualizer" /\ call = "judged" /\ told["svg"] = <<>>
        /\ UNCHANGED <<outcome, rows, insight, delivered, answer>>
    BY <1>0, <1>8 DEF P!Draw, P!Drawn
  <2>2. CASE call' = "idle"
    <3>1. /\ UNCHANGED <<shown, told>> /\ stage' = "formatter"
          /\ picture' \in {"none", "llm", "template"}
      BY <1>8, <2>2 DEF P!Draw, P!Drawn, P!Successor, P!StartStream
    <3> QED BY <1>0, <2>1, <2>2, <3>1
  <2>3. CASE call' = "svg" /\ P!StartStream("svg") /\ UNCHANGED <<stage, picture>>
    <3>1. shown'["analysis"] = shown["analysis"] /\ told'["analysis"] = told["analysis"]
      BY <2>3 DEF P!StartStream, PresentInv, PresentTypes
    <3> QED BY <1>0, <2>1, <2>3, <3>1
  <2> QED BY <1>8, <2>2, <2>3 DEF P!Draw, P!StartStream
<1>9. CASE P!SvgStreamed
  BY <1>0, <1>9 DEF P!SvgStreamed, P!Drawn, P!Successor, P!StreamEnds, P!Close
<1>10. CASE P!Format
  <2>1. /\ stage = "formatter" /\ call = "idle" /\ stage' = "save_turn_snapshot"
        /\ UNCHANGED <<rows, insight, delivered, picture, call, attempt, heard, shown, told>>
    BY <1>10 DEF P!Format, P!Runs, P!Successor, P!stream
  <2>2. CASE answer # P!Nothing /\ UNCHANGED <<answer, outcome>>
    BY <1>0, <2>1, <2>2
  <2>3. CASE answer' = P!Rendered /\ outcome' = "FORMATTED"
    BY <1>0, <2>1, <2>3, RenderedFields, PlainTexts DEF P!Answers
  <2>4. CASE answer' = P!Made("error", <<>>) /\ outcome' = "ERROR"
    BY <1>0, <2>1, <2>4, MadeFields, PlainTexts DEF P!Answers
  <2> QED BY <1>10, <2>2, <2>3, <2>4 DEF P!Format
<1>11. CASE P!Raise
  BY <1>0, <1>11 DEF P!Raise
<1>12. CASE P!Respond
  BY <1>0, <1>12, MadeFields, PlainTexts DEF P!Respond, P!Successor, P!stream, P!Answers
<1>13. CASE P!ErrorEnd
  BY <1>0, <1>13, MadeFields, PlainTexts DEF P!ErrorEnd, P!Successor, P!stream, P!Answers, P!Nothing
<1>14. CASE P!SaveTurnSnapshot
  BY <1>0, <1>14 DEF P!SaveTurnSnapshot, P!Successor, P!stream
<1>15. CASE P!Chunk
  BY <1>0, <1>15 DEF P!Chunk, PresentInv, PresentTypes
<1>16. CASE P!Reparse
  BY <1>0, <1>16 DEF P!Reparse, PresentInv, PresentTypes
<1>17. CASE P!CancelStream
  BY <1>0, <1>17 DEF P!CancelStream, P!Close
<1>18. CASE P!AnalysisStreamed
  <2>1. PICK how \in P!Ends : \E made :
           /\ P!StreamEnds(how) /\ P!Analyzed(made, P!Delivers(how))
           /\ made.kind \in P!Analyses /\ P!IsText(made.of)
           /\ how = "plain" => made.of = heard
    BY <1>18, MadeFields, PlainTexts DEF P!AnalysisStreamed, P!Analyses
  <2>2. PICK made :
           /\ P!StreamEnds(how) /\ P!Analyzed(made, P!Delivers(how))
           /\ made.kind \in P!Analyses /\ P!IsText(made.of)
           /\ how = "plain" => made.of = heard
    BY <2>1
  <2>3. /\ call = "analysis" /\ stage = "analyzer" /\ call' = "idle" /\ UNCHANGED shown
        /\ shown["analysis"] = heard /\ told["analysis"] = <<"start">>
        /\ told' = [told EXCEPT !["analysis"] = <<"start", how>>]
    <3>1. call = "analysis" /\ stage = "analyzer" /\ P!Close(how)
      BY <1>0, <1>18, <2>2 DEF P!AnalysisStreamed, P!StreamEnds
    <3>2. shown["analysis"] = heard /\ told["analysis"] = <<"start">>
      BY <3>1 DEF PresentInv, FollowsAttempt, OpenOrEnded
    <3>3. Append(<<"start">>, how) = <<"start", how>>
      BY AppendToOne
    <3> QED BY <3>1, <3>2, <3>3 DEF P!Close
  <2>4. /\ insight' = made /\ delivered' = (how = "plain") /\ outcome' \in {"ERROR", "ANALYZED"}
        /\ stage' = "visualizer" /\ UNCHANGED <<rows, picture, answer>>
    BY <2>2 DEF P!Analyzed, P!Successor, P!Delivers
  <2>5. told'["analysis"] = <<"start", how>> /\ told'["svg"] = told["svg"]
    BY <2>3 DEF PresentInv, PresentTypes
  <2> QED BY <1>0, <2>2, <2>3, <2>4, <2>5
<1> QED BY <1>1, <1>2, <1>3, <1>4, <1>5, <1>6, <1>7, <1>8, <1>9, <1>10, <1>11, <1>12,
           <1>13, <1>14, <1>15, <1>16, <1>17, <1>18 DEF P!Step

LEMMA PresentInit == ASSUME P!Init PROVE PresentInv
<1>1. /\ ParseRetries \in Nat /\ MaxChunks \in Nat \ {0}
      /\ <<>> \in Seq(0 .. ParseRetries) /\ Len(<<>>) = 0 /\ DOMAIN <<>> = {}
      /\ <<>> \in Seq(P!Ends \cup {"start"})
  BY PresentAssumed DEF P!PresentAssumption
<1>2. P!IsText(<<>>)
  BY <1>1 DEF P!IsText
<1>3. /\ insight.kind = "nothing" /\ insight.of = <<>>
      /\ answer = P!Nothing /\ answer.kind = "nothing" /\ answer.of = <<>>
  BY DEF P!Init, P!Nothing
<1>4. Switches
  BY Zenon DEF Switches, P!Init
<1>5. /\ \A p \in P!Parts : shown[p] = <<>> /\ told[p] = <<>>
      /\ shown \in [P!Parts -> Seq(0 .. ParseRetries)]
      /\ told \in [P!Parts -> Seq(P!Ends \cup {"start"})]
  BY <1>1 DEF P!Init
<1>6. /\ stage \in {"sql_executor", "simple_responder", "analyzer", "visualizer"}
      /\ rows \in P!Rows /\ outcome = "PENDING" /\ picture = "none" /\ call = "idle"
      /\ attempt = 0 /\ heard = <<>> /\ delivered = FALSE
  BY DEF P!Init, P!Rows
<1>7. PresentTypes
  BY <1>1, <1>2, <1>3, <1>4, <1>5, <1>6 DEF PresentTypes, P!TypeOK, Switches, P!Nodes,
     P!Analyses, P!Answers
<1>8. CallAtItsNode /\ FollowsAttempt
  BY <1>1, <1>6 DEF CallAtItsNode, FollowsAttempt, P!Parts
<1>9. OpenOrEnded /\ OpenedByNode
  BY <1>5, <1>6 DEF OpenOrEnded, OpenedByNode, P!Parts
<1>10. StreamedIsAnalysis /\ AnswerAtItsNode
  BY <1>3, <1>6 DEF StreamedIsAnalysis, AnswerAtItsNode
<1> QED BY <1>7, <1>8, <1>9, <1>10 DEF PresentInv

LEMMA PresentStep == ASSUME PresentInv, [P!Next]_(P!vars) PROVE PresentInv'
<1>1. P!Step \/ P!Cancel \/ P!Forget \/ UNCHANGED P!vars
  BY DEF P!Next, P!Ended
<1>2. AtNodes' /\ Switches'
  BY <1>1, ContentSteps, SwitchSteps DEF PresentInv, PresentTypes, P!TypeOK, Switches
<1>3. call' \in P!Parts \cup {"judged", "idle"}
  BY <1>2 DEF AtNodes, ContentOK
<1>4. /\ shown' \in [P!Parts -> Seq(0 .. ParseRetries)]
      /\ told' \in [P!Parts -> Seq(P!Ends \cup {"start"})]
      /\ attempt' \in 0 .. ParseRetries
      /\ heard' \in Seq(0 .. ParseRetries) /\ Len(heard') <= MaxChunks
      /\ FollowsAttempt' /\ OpenOrEnded'
  BY <1>1, <1>3, StreamKeeps
<1>5. P!IsText(heard')
  BY <1>4 DEF P!IsText, FollowsAttempt
<1>6. \A p \in P!Parts : Len(told'[p]) <= 2
  <2> SUFFICES ASSUME NEW p \in P!Parts PROVE Len(told'[p]) <= 2
    OBVIOUS
  <2>2. \/ told'[p] = <<"start">> \/ told'[p] = <<>>
        \/ \E how \in P!Ends : told'[p] = <<"start", how>>
    BY <1>4 DEF OpenOrEnded
  <2>3. CASE \E how \in P!Ends : told'[p] = <<"start", how>>
    BY <2>3
  <2>4. CASE told'[p] = <<"start">> \/ told'[p] = <<>>
    <3>1. Len(<<"start">>) = 1 /\ Len(<<>>) = 0
      OBVIOUS
    <3>2. Len(told'[p]) \in {0, 1}
      BY <2>4, <3>1, Zenon
    <3> QED BY SMTT(60), <3>2
  <2> QED BY <2>2, <2>3, <2>4
<1>7. PresentTypes'
  BY <1>2, <1>4, <1>5, <1>6 DEF PresentTypes, P!TypeOK, AtNodes, ContentOK, Switches, P!IsText
<1> QED BY <1>2, <1>4, <1>7 DEF PresentInv, AtNodes

\* What is streamed, what is analyzed and what is told of both is one inductive
\* invariant, for any number of attempts and chunks.
THEOREM PresentInvariance == P!Spec => []PresentInv
<1>1. P!Init => PresentInv
  BY PresentInit
<1>2. PresentInv /\ [P!Next]_(P!vars) => PresentInv'
  BY PresentStep
<1> QED BY <1>1, <1>2, PTL DEF P!Spec

\* A turn that ends with rows has an answer; a streamed analysis is the last attempt and
\* nothing else, and every part that starts has one end, for any number of attempts.
THEOREM AnswerComplete == P!Spec => []AnswerIsComplete
<1>1. ASSUME PresentInv PROVE AnswerIsComplete
  <2>1. P!TypeOK
    BY <1>1 DEF PresentInv, PresentTypes
  <2>2. P!AnswerIsComplete
    BY <1>1 DEF PresentInv, StreamedIsAnalysis, AnswerAtItsNode, P!AnswerIsComplete, P!Nothing
  <2>3. P!PartsAreClosed
    <3>1. \A how : Len(<<"start", how>>) = 2 /\ <<"start", how>>[1] = "start"
      OBVIOUS
    <3> QED BY <1>1, <3>1 DEF PresentInv, OpenOrEnded, P!PartsAreClosed
  <2> QED BY <2>1, <2>2, <2>3 DEF AnswerIsComplete
<1> QED BY <1>1, PresentInvariance, PTL

-----------------------------------------------------------------------------
(* Delivery: the messages of a turn come in one order                        *)

\* The place of a message in the order of a turn; the last ones end it.
Rank(kind) ==
    CASE kind = "progress" -> 1 [] kind = "viz" -> 2 [] kind = "start" -> 3
      [] kind = "result_data" -> 4 [] kind = "chunk" -> 5 [] kind = "end" -> 6
      [] OTHER -> 7

\* The last place that may be taken while the endpoint is there.
Reached(here) ==
    CASE here \in {"running", "failing", "viz"} -> 1 [] here = "start" -> 2
      [] here = "result_data" -> 3 [] here = "chunk" -> 4 [] here = "end" -> 5
      [] here \in {"notify", "failed"} -> 6 [] OTHER -> 7

Ordered == \A i, j \in DOMAIN view : i < j => Rank(view[i]) < Rank(view[j])
UpTo(n) == \A i \in DOMAIN view : Rank(view[i]) <= n
Has(kind) == \E i \in DOMAIN view : view[i] = kind

\* What a client that stays has received, wherever the endpoint is.
Received ==
    /\ ~wsClosed /\ Ordered /\ UpTo(Reached(serving))
    /\ serving \in {"end", "notify"} => Has("chunk")
    /\ serving \in {"notify", "failed"} => Has("end")
    /\ serving = "failed" => ~Has("chunk")
    /\ serving = "receive" /\ result \in D!Results =>
           Has("chunk") /\ Has("end") /\ ~Has("error")
    /\ serving = "receive" /\ result = D!Exception =>
           ~Has("chunk") /\ Has("end") /\ Has("error")

DeliveryInv ==
    /\ D!TypeOK /\ ~streaming /\ ~Has("delta")
    /\ Len(view) <= Reached(serving)
    /\ serving \in {"failing", "failed"} => result = D!Exception
    /\ socket = "open" => Received

\* A message of a later place keeps the order.
LEMMA AppendMessage ==
    ASSUME view \in Seq(D!Kinds), NEW kind \in D!Kinds, view' = Append(view, kind)
    PROVE  /\ Len(view') = Len(view) + 1 /\ view' \in Seq(D!Kinds)
           /\ \A k : Has(k)' <=> Has(k) \/ k = kind
           /\ \A n \in Nat : Ordered /\ UpTo(n) /\ n < Rank(kind) =>
                  Ordered' /\ UpTo(Rank(kind))'
<1>1. /\ Len(view') = Len(view) + 1 /\ view' \in Seq(D!Kinds)
      /\ DOMAIN view' = 1 .. Len(view) + 1 /\ DOMAIN view = 1 .. Len(view)
      /\ Len(view) \in Nat
      /\ view'[Len(view) + 1] = kind
      /\ \A i \in 1 .. Len(view) : view'[i] = view[i]
  OBVIOUS
<1>2. ASSUME NEW k PROVE Has(k)' <=> Has(k) \/ k = kind
  BY <1>1 DEF Has
<1>3. ASSUME NEW n \in Nat, Ordered, UpTo(n), n < Rank(kind)
      PROVE  Ordered' /\ UpTo(Rank(kind))'
  <2>1. \A k : Rank(k) \in Nat
    BY DEF Rank
  <2>2. \A i \in 1 .. Len(view) : Rank(view[i]) <= n
    BY <1>1, <1>3 DEF UpTo
  <2>3. \A i \in 1 .. Len(view) + 1 : i \in 1 .. Len(view) \/ i = Len(view) + 1
    BY <1>1
  <2>4. Ordered'
    BY <1>1, <1>3, <2>1, <2>2, <2>3 DEF Ordered
  <2>5. UpTo(Rank(kind))'
    BY <1>1, <1>3, <2>1, <2>2, <2>3 DEF UpTo
  <2> QED BY <2>4, <2>5
<1> QED BY <1>1, <1>2, <1>3

\* Cardinality of FiniteSets, under the two names it has here.
LEMMA SameCardinality == \A S : D!Cardinality(S) = Cardinality(S)
BY DEF D!Cardinality, Cardinality

\* In an order no message comes twice.
LEMMA OnceEach ==
    ASSUME view \in Seq(D!Kinds), Ordered, NEW kind
    PROVE  D!Times(kind) = IF Has(kind) THEN 1 ELSE 0
<1>1. \A k : Rank(k) \in Nat
  BY DEF Rank
<1>2. DOMAIN view \subseteq Nat
  OBVIOUS
<1>3. CASE Has(kind)
  <2>1. PICK i \in DOMAIN view : view[i] = kind
    BY <1>3 DEF Has
  <2>2. \A j \in DOMAIN view : view[j] = kind => j = i
    BY <1>1, <1>2, <2>1 DEF Ordered
  <2>3. {j \in DOMAIN view : view[j] = kind} = {i}
    BY <2>1, <2>2
  <2> QED BY <1>3, <2>3, FS_Singleton, SameCardinality DEF D!Times
<1>4. CASE ~Has(kind)
  <2>1. {j \in DOMAIN view : view[j] = kind} = {}
    BY <1>4 DEF Has
  <2> QED BY <1>4, <2>1, FS_EmptySet, SameCardinality DEF D!Times
<1> QED BY <1>3, <1>4

\* What a pipeline returns is told from what stands for none of it.
LEMMA ResultsApart ==
    /\ D!NoResult \notin D!Results /\ D!Exception \notin D!Results
    /\ D!NoResult # D!Exception
<1>1. /\ \A r \in D!Results : r.outcome \in {"answer", "question"}
      /\ D!NoResult.outcome = "none" /\ D!Exception.outcome = "exception"
  BY DEF D!Results, D!NoResult, D!Exception
<1> QED BY <1>1

LEMMA DeliveryInit == ASSUME D!Init PROVE DeliveryInv
<1>1. socket = "open" /\ serving = "receive" /\ view = <<>> /\ result = D!NoResult
  BY DEF D!Init
<1>2. DOMAIN view = {} /\ Len(view) = 0 /\ view \in Seq(D!Kinds)
  BY <1>1
<1>3. D!TypeOK /\ ~streaming
  <2>1. ~streaming /\ wsClosed \in BOOLEAN /\ wants \in BOOLEAN /\ streaming \in BOOLEAN
    BY Zenon DEF D!Init
  <2>2. serving \notin D!Sending
    BY <1>1 DEF D!Sending
  <2> QED BY <1>1, <1>2, <2>1, <2>2 DEF D!TypeOK
<1>4. ~Has("delta") /\ Len(view) <= Reached(serving)
  BY <1>1, <1>2 DEF Has, Reached
<1>5. Received
  BY <1>1, <1>2, ResultsApart DEF D!Init, Received, Ordered, UpTo
<1> QED BY <1>1, <1>3, <1>4, <1>5 DEF DeliveryInv

\* A message that comes after all that the client has, or gets lost.
LEMMA MessageStep ==
    ASSUME DeliveryInv, NEW kind \in D!Kinds \ {"delta"}, NEW next,
           Reached(serving) < Rank(kind), Rank(kind) <= Reached(next),
           D!Sent(kind) \/ D!NotSent, socket' = socket
    PROVE  /\ view' \in Seq(D!Kinds) /\ Len(view') <= Reached(next)
           /\ wsClosed' \in BOOLEAN /\ ~Has("delta")'
           /\ socket = "open" => /\ D!Sent(kind) /\ ~wsClosed'
                                /\ Ordered' /\ UpTo(Reached(next))'
                                /\ \A k : Has(k)' <=> Has(k) \/ k = kind
<1>1. /\ view \in Seq(D!Kinds) /\ wsClosed \in BOOLEAN /\ socket \in {"open", "lost"}
      /\ ~Has("delta") /\ Len(view) <= Reached(serving)
      /\ socket = "open" => ~wsClosed /\ Ordered /\ UpTo(Reached(serving))
  BY DEF DeliveryInv, D!TypeOK, Received
<1>2. /\ \A k : Rank(k) \in Nat /\ \A h : Reached(h) \in Nat
      /\ Len(view) \in Nat
  BY <1>1 DEF Rank, Reached
<1>3. CASE view' = Append(view, kind)
  <2>1. /\ D!Sent(kind) /\ socket = "open"
    BY <1>1, <1>3, AppendMessage, <1>2 DEF D!Sent, D!NotSent
  <2>2. Ordered' /\ UpTo(Rank(kind))'
    BY <1>1, <1>2, <1>3, <2>1, AppendMessage
  <2>3. UpTo(Reached(next))'
    BY <1>2, <2>2, AppendMessage, <1>1, <1>3 DEF UpTo
  <2> QED BY <1>1, <1>2, <1>3, <2>1, <2>2, <2>3, AppendMessage DEF D!Sent
<1>4. CASE view' = view /\ socket # "open"
  <2>1. ~Has("delta")'
    BY <1>1, <1>4 DEF Has
  <2>2. wsClosed' \in BOOLEAN
    BY <1>1 DEF D!Sent, D!NotSent
  <2>3. Len(view) <= Reached(next)
    BY <1>1, <1>2
  <2> QED BY <1>1, <1>4, <2>1, <2>2, <2>3
<1> QED BY <1>1, <1>3, <1>4 DEF D!Sent, D!NotSent

\* The endpoint sends one more message of an answer and goes on, or it gives up.
LEMMA AnswerStep ==
    ASSUME DeliveryInv, serving \in D!Sending,
           NEW kind \in D!Kinds \ {"delta", "error"}, NEW next \in D!Sending \cup {"receive"},
           Reached(serving) < Rank(kind), Rank(kind) <= Reached(next),
           D!Sent(kind) \/ D!NotSent, UNCHANGED <<socket, wants, streaming, result>>,
           serving' = next \/ (serving' = "receive" /\ D!NotSent),
           socket = "open" /\ next \in {"end", "notify"} => Has("chunk") \/ kind = "chunk",
           next = "notify" => kind = "end",
           next = "receive" => serving = "notify"
    PROVE  DeliveryInv'
<1>1. /\ view' \in Seq(D!Kinds) /\ Len(view') <= Reached(next)
      /\ wsClosed' \in BOOLEAN /\ ~Has("delta")'
      /\ socket = "open" => /\ D!Sent(kind) /\ ~wsClosed'
                           /\ Ordered' /\ UpTo(Reached(next))'
                           /\ \A k : Has(k)' <=> Has(k) \/ k = kind
  BY MessageStep
<1>2. /\ D!TypeOK /\ ~streaming /\ result \in D!Results
      /\ socket = "open" => Received
  BY DEF DeliveryInv, D!TypeOK
<1>3. \A here : Reached(here) \in 1 .. 7 /\ Reached("receive") = 7
  BY DEF Reached
<1>4. Len(view') <= Reached(serving') /\ Len(view') <= 7
  <2>1. Len(view') \in Nat
    BY <1>1
  <2> QED BY <1>1, <1>3, <2>1
<1>5. D!TypeOK' /\ ~streaming'
  BY <1>1, <1>2, <1>4 DEF D!TypeOK, D!Sending
<1>6. ASSUME socket' = "open" PROVE Received'
  <2>1. /\ Received /\ D!Sent(kind) /\ ~wsClosed'
        /\ Ordered' /\ UpTo(Reached(next))'
        /\ \A k : Has(k)' <=> Has(k) \/ k = kind
    BY <1>1, <1>2, <1>6
  <2>2. serving' = next
    BY <1>6, <2>1 DEF D!NotSent, D!Sent
  <2>3. serving' # "failed"
    BY <2>2 DEF D!Sending
  <2>4. serving' \in {"end", "notify"} => Has("chunk")'
    BY <1>6, <2>1, <2>2
  <2>5. serving' = "notify" => Has("end")'
    BY <2>1, <2>2
  <2>6. ASSUME serving' = "receive" PROVE Has("chunk")' /\ Has("end")' /\ ~Has("error")'
    <3>1. Has("chunk") /\ Has("end") /\ UpTo(6) /\ Rank(kind) # 6
      BY <2>1, <2>2, <2>6 DEF Received, Reached
    <3>2. ~Has("error")
      BY <3>1 DEF UpTo, Has, Rank
    <3> QED BY <2>1, <3>1, <3>2
  <2>7. result' \in D!Results /\ result' # D!Exception
    BY <1>2, ResultsApart
  <2> QED BY <2>1, <2>2, <2>3, <2>4, <2>5, <2>6, <2>7 DEF Received
<1>7. serving' \notin {"failing", "failed"}
  BY DEF D!Sending
<1> QED BY <1>1, <1>4, <1>5, <1>6, <1>7 DEF DeliveryInv

LEMMA SendStep ==
    ASSUME DeliveryInv,
           \/ D!SendViz \/ D!SendStart \/ D!SendResultData \/ D!SendChunk \/ D!SendEnd
           \/ D!Notify
    PROVE  DeliveryInv'
<1> USE DEF D!SendOrReturn, D!SendAndGo, D!request
<1>0. \A kind \in {"viz", "start", "result_data", "chunk", "end", "download_ready"} :
          kind \in D!Kinds \ {"delta", "error"}
  BY DEF D!Kinds
<1>1. CASE D!SendViz
  <2>1. /\ serving \in D!Sending /\ "start" \in D!Sending
        /\ Reached(serving) < Rank("viz") /\ Rank("viz") <= Reached("start")
    BY <1>1 DEF D!SendViz, D!Sending, Reached, Rank
  <2> QED BY <1>0, <1>1, <2>1, AnswerStep DEF D!SendViz
<1>2. CASE D!SendStart
  <2> DEFINE next == IF result.data THEN "result_data" ELSE "chunk"
  <2>1. /\ serving \in D!Sending /\ next \in D!Sending
        /\ Reached(serving) < Rank("start") /\ Rank("start") <= Reached(next)
        /\ next \notin {"end", "notify", "receive"}
    BY <1>2 DEF D!SendStart, D!Sending, Reached, Rank
  <2>2. D!SendOrReturn("start", "start", next)
    BY <1>2 DEF D!SendStart
  <2> HIDE DEF next
  <2> QED BY <1>0, <2>1, <2>2, AnswerStep
<1>3. CASE D!SendResultData
  <2>1. /\ serving \in D!Sending /\ "chunk" \in D!Sending
        /\ Reached(serving) < Rank("result_data") /\ Rank("result_data") <= Reached("chunk")
    BY <1>3 DEF D!SendResultData, D!Sending, Reached, Rank
  <2> QED BY <1>0, <1>3, <2>1, AnswerStep DEF D!SendResultData, D!AfterData
<1>4. CASE D!SendChunk
  <2>1. /\ serving \in D!Sending /\ "end" \in D!Sending
        /\ Reached(serving) < Rank("chunk") /\ Rank("chunk") <= Reached("end")
    BY <1>4 DEF D!SendChunk, D!Sending, Reached, Rank
  <2>2. D!SendAndGo("chunk", "chunk", "end")
    BY <1>4 DEF D!SendChunk, D!Delivered, DeliveryInv
  <2> QED BY <1>0, <2>1, <2>2, AnswerStep
<1>5. CASE D!SendEnd
  <2>1. /\ serving \in D!Sending /\ "notify" \in D!Sending
        /\ Reached(serving) < Rank("end") /\ Rank("end") <= Reached("notify")
    BY <1>5 DEF D!SendEnd, D!Sending, Reached, Rank
  <2>2. socket = "open" => Has("chunk")
    BY <1>5 DEF D!SendEnd, DeliveryInv, Received
  <2> QED BY <1>0, <1>5, <2>1, <2>2, AnswerStep DEF D!SendEnd
<1>6. CASE D!Notify
  <2>1. /\ serving \in D!Sending /\ serving = "notify"
        /\ Reached(serving) < Rank("download_ready")
        /\ Rank("download_ready") <= Reached("receive")
    BY <1>6 DEF D!Notify, D!Sending, Reached, Rank
  <2>2. CASE D!Sent("download_ready") \/ D!NotSent
    BY <1>0, <1>6, <2>1, <2>2, AnswerStep DEF D!Notify
  <2>3. CASE UNCHANGED <<view, wsClosed>>
    <3>1. /\ D!TypeOK /\ ~streaming /\ ~Has("delta") /\ Len(view) <= 7
          /\ socket = "open" => Received
      BY DEF DeliveryInv, D!TypeOK
    <3>2. serving' = "receive" /\ UNCHANGED <<socket, wants, streaming, result>>
      BY <1>6 DEF D!Notify
    <3>3. D!TypeOK' /\ ~streaming' /\ ~Has("delta")' /\ Len(view') <= Reached(serving')
      BY <2>3, <3>1, <3>2 DEF D!TypeOK, D!Sending, Has, Reached
    <3>4. ASSUME Received PROVE Received'
      <4>1. Ordered' /\ UpTo(7)'
        BY <2>3, <3>4 DEF Received, Ordered, UpTo, Rank
      <4>2. Has("chunk") /\ Has("end") /\ ~Has("error")
        BY <2>1, <3>4 DEF Received, UpTo, Has, Rank, Reached
      <4>3. result' \in D!Results
        BY <2>1, <3>1, <3>2 DEF D!TypeOK
      <4> QED BY <2>3, <3>2, <3>4, <4>1, <4>2, <4>3, ResultsApart DEF Received, Has, Reached
    <3> QED BY <3>1, <3>2, <3>3, <3>4 DEF DeliveryInv
  <2> QED BY <1>6, <2>2, <2>3 DEF D!Notify
<1> QED BY <1>1, <1>2, <1>3, <1>4, <1>5, <1>6

\* A turn begins, runs and fails, and whatever happens to the connection.
LEMMA TurnStep ==
    ASSUME DeliveryInv,
           \/ D!Receive \/ D!ShortReply \/ D!Progress \/ D!PipelineReturns
           \/ D!PipelineRaises \/ D!SendError
    PROVE  DeliveryInv'
<1>0. /\ D!TypeOK /\ ~streaming /\ ~Has("delta") /\ Len(view) <= Reached(serving)
      /\ socket = "open" => Received
      /\ view \in Seq(D!Kinds) /\ Len(view) \in Nat
  BY DEF DeliveryInv, D!TypeOK
<1>1. CASE D!Receive
  <2>1. /\ view' = <<>> /\ serving' = "running" /\ result' = D!NoResult
        /\ socket' = "open" /\ wsClosed' = FALSE
        /\ wants' \in BOOLEAN
    <3>1. \A asked \in BOOLEAN : D!ShouldStream(asked) \in BOOLEAN
      BY DeliveryAssumed, Zenon DEF D!DeliveryAssumption, D!ShouldStream
    <3> QED BY <1>1, <3>1 DEF D!Receive
  <2>2. streaming' = FALSE
    BY <1>1 DEF D!Receive, D!AfterTurnReset
  <2>3. DOMAIN view' = {} /\ Len(view') = 0 /\ view' \in Seq(D!Kinds)
    BY <2>1
  <2>4. D!TypeOK'
    <3>1. wsClosed' \in BOOLEAN /\ wants' \in BOOLEAN /\ streaming' \in BOOLEAN
      BY <2>1, <2>2, Zenon
    <3> QED BY <2>1, <2>3, <3>1 DEF D!TypeOK, D!Sending
  <2> QED BY <2>1, <2>2, <2>3, <2>4 DEF DeliveryInv, Received, Ordered, UpTo, Has, Reached
<1>2. CASE D!ShortReply
  <2>1. PICK kind \in {"system", "error"} : view' = <<kind>>
    BY <1>2 DEF D!ShortReply
  <2>2. /\ serving = "receive" /\ socket = "open" /\ result' = D!NoResult
        /\ UNCHANGED <<socket, serving, wsClosed, wants, streaming>>
    BY <1>2 DEF D!ShortReply, D!request
  <2>3. DOMAIN view' = {1} /\ Len(view') = 1 /\ view'[1] = kind /\ view' \in Seq(D!Kinds)
    BY <2>1 DEF D!Kinds
  <2>4. D!TypeOK'
    BY <1>0, <2>2, <2>3 DEF D!TypeOK, D!Sending
  <2>5. ~wsClosed'
    BY <1>0, <2>2 DEF Received
  <2> QED BY <1>0, <2>2, <2>3, <2>4, <2>5, ResultsApart
          DEF DeliveryInv, Received, Ordered, UpTo, Has, Reached, Rank
<1>3. CASE D!Progress
  <2>1. /\ serving = "running" /\ view = <<>> /\ ~wsClosed
        /\ D!Sent("progress") \/ D!NotSent
        /\ UNCHANGED <<socket, serving, wants, streaming, result>>
    BY <1>3 DEF D!Progress, D!request
  <2>2. \/ view' = <<"progress">> /\ UNCHANGED wsClosed
        \/ view' = <<>> /\ socket' # "open" /\ wsClosed' \in BOOLEAN
    <3>1. Append(<<>>, "progress") = <<"progress">>
      OBVIOUS
    <3>2. CASE D!Sent("progress")
      BY <1>0, <2>1, <3>1, <3>2, Zenon DEF D!Sent, D!TypeOK
    <3>3. CASE D!NotSent
      BY <2>1, <3>3, Zenon DEF D!NotSent
    <3> QED BY <2>1, <3>2, <3>3
  <2>3. CASE view' = <<"progress">> /\ UNCHANGED wsClosed
    <3>1. /\ DOMAIN view' = {1} /\ Len(view') = 1 /\ view'[1] = "progress"
          /\ view' \in Seq(D!Kinds)
      BY <2>3 DEF D!Kinds
    <3>2. D!TypeOK'
      BY <1>0, <2>1, <2>3, <3>1 DEF D!TypeOK, D!Sending
    <3> QED BY <1>0, <2>1, <2>3, <3>1, <3>2
            DEF DeliveryInv, Received, Ordered, UpTo, Has, Reached, Rank
  <2>4. CASE view' = <<>> /\ socket' # "open" /\ wsClosed' \in BOOLEAN
    <3>1. DOMAIN view' = {} /\ Len(view') = 0 /\ view' \in Seq(D!Kinds)
      BY <2>4
    <3>2. D!TypeOK'
      BY <1>0, <2>1, <2>4, <3>1 DEF D!TypeOK, D!Sending
    <3> QED BY <1>0, <2>1, <2>4, <3>1, <3>2 DEF DeliveryInv, Has, Reached
  <2> QED BY <2>2, <2>3, <2>4
<1>4. CASE D!PipelineReturns
  <2>1. PICK r \in D!Results :
           /\ result' = r /\ UNCHANGED <<view, wsClosed>>
           /\ serving' = IF wsClosed' THEN "receive" ELSE IF r.viz THEN "viz" ELSE "start"
    BY <1>0, <1>4 DEF D!PipelineReturns
  <2>2. serving = "running" /\ UNCHANGED <<socket, wants, streaming>>
    BY <1>4 DEF D!PipelineReturns, D!request
  <2>3. D!TypeOK'
    BY <1>0, <2>1, <2>2 DEF D!TypeOK, D!Sending
  <2>4. socket = "open" => serving' \in {"viz", "start"}
    BY <1>0, <2>1 DEF Received
  <2> QED BY <1>0, <2>1, <2>2, <2>3, <2>4
          DEF DeliveryInv, Received, Ordered, UpTo, Has, Reached, Rank
<1>5. CASE D!PipelineRaises
  <2>1. /\ serving = "running" /\ serving' = "failing" /\ result' = D!Exception
        /\ UNCHANGED <<socket, wsClosed, view, wants, streaming>>
    BY <1>5 DEF D!PipelineRaises, D!request
  <2>2. D!TypeOK'
    BY <1>0, <2>1 DEF D!TypeOK, D!Sending
  <2> QED BY <1>0, <2>1, <2>2 DEF DeliveryInv, Received, Ordered, UpTo, Has, Reached, Rank
<1>6. CASE D!SendError
  <2>1. /\ serving \in {"failing", "failed"}
        /\ UNCHANGED <<socket, wsClosed, wants, streaming, result>>
    BY <1>6 DEF D!SendError, D!request
  <2>2. CASE serving' \in {"failed", "receive", "closed"} /\ UNCHANGED view /\ socket # "open"
    <3>1. D!TypeOK'
      BY <1>0, <2>1, <2>2 DEF D!TypeOK, D!Sending
    <3> QED BY <1>0, <2>1, <2>2, <3>1 DEF DeliveryInv, Has, Reached
  <2>3. CASE serving = "failing" /\ serving' = "failed" /\ view' = Append(view, "end")
    <3>1. /\ "end" \in D!Kinds /\ Rank("end") = 6 /\ Reached("failing") = 1
          /\ Reached("failed") = 6
      BY DEF D!Kinds, Rank, Reached
    <3>2. /\ Len(view') = Len(view) + 1 /\ view' \in Seq(D!Kinds)
          /\ \A k : Has(k)' <=> Has(k) \/ k = "end"
          /\ Ordered /\ UpTo(1) => Ordered' /\ UpTo(6)'
      BY <1>0, <2>3, <3>1, AppendMessage
    <3>3. D!TypeOK'
      BY <1>0, <2>1, <2>3, <3>1, <3>2 DEF D!TypeOK, D!Sending
    <3>4. ASSUME Received PROVE Received'
      <4>1. Ordered' /\ UpTo(6)'
        BY <2>3, <3>1, <3>2, <3>4 DEF Received
      <4>2. ~Has("chunk")
        BY <2>3, <3>1, <3>4 DEF Received, UpTo, Has, Rank
      <4> QED BY <2>1, <2>3, <3>1, <3>2, <3>4, <4>1, <4>2 DEF Received
    <3> QED BY <1>0, <2>1, <2>3, <3>1, <3>2, <3>3, <3>4 DEF DeliveryInv
  <2>4. CASE serving = "failed" /\ serving' = "receive" /\ view' = Append(view, "error")
    <3>1. /\ "error" \in D!Kinds /\ Rank("error") = 7 /\ Reached("failed") = 6
          /\ Reached("receive") = 7
      BY DEF D!Kinds, Rank, Reached
    <3>2. /\ Len(view') = Len(view) + 1 /\ view' \in Seq(D!Kinds)
          /\ \A k : Has(k)' <=> Has(k) \/ k = "error"
          /\ Ordered /\ UpTo(6) => Ordered' /\ UpTo(7)'
      BY <1>0, <2>4, <3>1, AppendMessage
    <3>3. result' = D!Exception /\ result' \notin D!Results
      BY <2>1, ResultsApart DEF DeliveryInv
    <3>4. D!TypeOK'
      BY <1>0, <2>1, <2>4, <3>1, <3>2 DEF D!TypeOK, D!Sending
    <3>5. ASSUME Received PROVE Received'
      <4>1. Ordered' /\ UpTo(7)'
        BY <2>4, <3>1, <3>2, <3>5 DEF Received
      <4> QED BY <2>1, <2>4, <3>1, <3>2, <3>3, <3>5, <4>1 DEF Received
    <3> QED BY <1>0, <2>1, <2>4, <3>1, <3>2, <3>4, <3>5 DEF DeliveryInv
  <2> QED BY <2>1, <2>2, <2>3, <2>4, <1>6 DEF D!SendError, D!AfterError, D!TypeOK
<1> QED BY <1>1, <1>2, <1>3, <1>4, <1>5, <1>6

LEMMA ConnectionStep ==
    ASSUME DeliveryInv,
           D!Disconnected \/ D!Lose \/ D!Reconnect \/ UNCHANGED D!vars
    PROVE  DeliveryInv'
<1>0. /\ D!TypeOK /\ ~streaming /\ ~Has("delta") /\ Len(view) <= Reached(serving)
      /\ socket = "open" => Received
      /\ serving \in {"failing", "failed"} => result = D!Exception
  BY DEF DeliveryInv
<1>1. CASE D!Disconnected \/ D!Lose
  <2>1. /\ UNCHANGED <<wsClosed, view, wants, streaming, result>> /\ socket' = "lost"
        /\ \/ UNCHANGED serving
           \/ serving = "receive" /\ serving' = "closed"
    BY <1>1 DEF D!Disconnected, D!Lose, D!request
  <2>2. D!TypeOK'
    BY <1>0, <2>1 DEF D!TypeOK, D!Sending
  <2> QED BY <1>0, <2>1, <2>2 DEF DeliveryInv, Has, Reached
<1>2. CASE D!Reconnect
  <2>1. /\ socket' = "open" /\ serving' = "receive" /\ wsClosed' = FALSE
        /\ view' = <<>> /\ result' = D!NoResult /\ UNCHANGED <<wants, streaming>>
    BY <1>2 DEF D!Reconnect, D!request
  <2>2. DOMAIN view' = {} /\ Len(view') = 0 /\ view' \in Seq(D!Kinds)
    BY <2>1
  <2>3. D!TypeOK'
    <3>1. wsClosed' \in BOOLEAN /\ wants' \in BOOLEAN /\ streaming' \in BOOLEAN
      BY <1>0, <2>1, Zenon DEF D!TypeOK
    <3> QED BY <2>1, <2>2, <3>1 DEF D!TypeOK, D!Sending
  <2> QED BY <1>0, <2>1, <2>2, <2>3, ResultsApart
          DEF DeliveryInv, Received, Ordered, UpTo, Has, Reached
<1>3. CASE UNCHANGED D!vars
  <2>1. UNCHANGED <<socket, serving, wsClosed, view, wants, streaming, result>>
    BY <1>3 DEF D!vars, D!conn, D!request
  <2> QED BY <2>1 DEF DeliveryInv, D!TypeOK, Received, Ordered, UpTo, Has
<1> QED BY <1>1, <1>2, <1>3

\* The messages of a turn come in one order and none is left out or sent again,
\* for every mixture of losses, exceptions and reconnections.
THEOREM DeliveryInvariance == D!Spec => []DeliveryInv
<1>1. D!Init => DeliveryInv
  BY DeliveryInit
<1>2. DeliveryInv /\ [D!Next]_(D!vars) => DeliveryInv'
  BY SendStep, TurnStep, ConnectionStep DEF D!Next, D!Serve
<1> QED BY <1>1, <1>2, PTL DEF D!Spec

\* Whoever stays connected gets the text and the end of an answer exactly once, after
\* the picture and the table, whatever the pipeline returns.
THEOREM AnswerComesOnce == D!Spec => []AnsweredOnce
<1>1. ASSUME DeliveryInv PROVE AnsweredOnce
  <2> SUFFICES ASSUME serving = "receive", result # D!NoResult, socket = "open"
               PROVE  D!AnsweredOnce
    BY <1>1 DEF AnsweredOnce, DeliveryInv, D!AnsweredOnce
  <2>1. Received /\ ~Has("delta") /\ view \in Seq(D!Kinds)
        /\ result \in D!Results \cup {D!Exception}
    BY <1>1 DEF DeliveryInv, D!TypeOK
  <2>2. Has("end") /\ (Has("chunk") <=> ~Has("error"))
    BY <2>1 DEF Received
  <2>3. /\ D!Times("end") = 1 /\ D!Times("delta") = 0
        /\ D!Times("chunk") = IF Has("chunk") THEN 1 ELSE 0
        /\ D!Times("error") = IF Has("error") THEN 1 ELSE 0
    BY <2>1, <2>2, OnceEach DEF Received
  <2>4. ASSUME NEW first, NEW second, Rank(first) < Rank(second)
        PROVE  D!Before(first, second)
    <3>1. /\ \A k : Rank(k) \in Nat
          /\ DOMAIN view \subseteq Nat
      BY <2>1 DEF Rank
    <3> QED BY <2>1, <2>4, <3>1 DEF D!Before, Received, Ordered
  <2>5. /\ Rank("viz") < Rank("start") /\ Rank("result_data") < Rank("chunk")
        /\ Rank("chunk") < Rank("end") /\ Rank("end") < Rank("download_ready")
    BY DEF Rank
  <2> QED BY <2>2, <2>3, <2>4, <2>5 DEF D!AnsweredOnce
<1> QED BY <1>1, DeliveryInvariance, PTL
=============================================================================
