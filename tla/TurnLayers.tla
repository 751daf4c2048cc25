----------------------------- MODULE TurnLayers -----------------------------
(***************************************************************************)
(* The layers a turn passes before and after the reason layer and the way  *)
(* of its answer to the client, side by side: Interpret, Present and       *)
(* Delivery with variables of their own, and what they promise together.   *)
(***************************************************************************)
EXTENDS Interpret

CONSTANTS
    ParseRetries, MaxChunks,          \* Present
    StreamingDisabled, TraceEnabled   \* Delivery

VARIABLES
    stage, flag, analyze, streams, outcome, rows, insight, delivered, picture,
    answer, call, attempt, heard, shown, told,
    socket, serving, wsClosed, view, wants, streaming, result

P == INSTANCE Present WITH node <- stage, streaming <- streams,
                           status <- outcome, analysis <- insight
D == INSTANCE Delivery WITH pc <- serving

ASSUME InterpretAssumed == InterpretAssumption
ASSUME PresentAssumed == P!PresentAssumption
ASSUME DeliveryAssumed == D!DeliveryAssumption

presentVars == <<stage, flag, analyze, streams, outcome, rows, insight,
                 delivered, picture, answer, call, attempt, heard, shown, told>>
deliveryVars == <<socket, serving, wsClosed, view, wants, streaming, result>>

-----------------------------------------------------------------------------
(* The properties of Present and Delivery, under their names there and with   *)
(* their types; those of Interpret are ReasonHasQuery and ReturnsToAsker      *)

\* A turn that ends with rows has an answer; a streamed analysis is the last
\* attempt and nothing else, and a client that sees a part start sees its end.
AnswerIsComplete == P!TypeOK /\ P!AnswerIsComplete /\ P!PartsAreClosed

\* Whoever stays connected gets the text and the end of an answer exactly once.
AnsweredOnce == D!TypeOK /\ D!AnsweredOnce
=============================================================================
