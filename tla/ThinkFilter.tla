----------------------------- MODULE ThinkFilter -----------------------------
(***************************************************************************)
(* QwenThinkFilter (utils/llm/client.py): a model's answer arrives in      *)
(* chunks of any size, its thoughts stand between two tags, and a tag may  *)
(* be cut anywhere.  The filter must tell text from thoughts as it goes.   *)
(*                                                                         *)
(* A text is a sequence of letters.  The tags are constants: what matters  *)
(* of "<think>" and "</think>" is that they share a beginning and that     *)
(* this beginning does not come again inside them.                         *)
(***************************************************************************)
EXTENDS Naturals, Sequences, SequencesExt

CONSTANTS
    Open, Close,  \* _QWEN_OPEN and _QWEN_CLOSE
    Letters,      \* the letters of a text, those of the tags among them
    MaxText,      \* bound: letters of an answer
    MaxChunk      \* bound: letters of a chunk

VARIABLES
    fed,    \* what the model has sent so far
    filter, \* [buf, think, out] of the filter; out are the letters of its events
    ended   \* the stream has ended and the filter was flushed

vars == <<fed, filter, ended>>

Kinds == {"text", "thinking"}
Kind(think) == IF think THEN "thinking" ELSE "text"
Marked(letters, think) == [i \in DOMAIN letters |-> <<Kind(think), letters[i]>>]

Init == fed = <<>> /\ filter = [buf |-> <<>>, think |-> FALSE, out |-> <<>>] /\ ended = FALSE

-----------------------------------------------------------------------------
(* The filter                                                               *)

StandsAt(tag, s, i) == i + Len(tag) - 1 <= Len(s) /\ SubSeq(s, i, i + Len(tag) - 1) = tag

\* Where `tag' first stands in s; 0 for nowhere.
Find(s, tag) == SelectInSeq([i \in DOMAIN s |-> StandsAt(tag, s, i)], LAMBDA here : here)

\* How many letters at the end of buf may be the beginning of the tag.
TagPrefixLen_Short(buf, tag) ==
    IF buf # <<>> /\ Last(buf) = Head(tag) THEN 1 ELSE 0
TagPrefixLen(buf, tag) ==
    LET fits == {n \in 1 .. Len(tag) - 1 :
                    n <= Len(buf) /\ IsPrefix(SubSeq(buf, Len(buf) - n + 1, Len(buf)), tag)}
    IN IF fits = {} THEN 0 ELSE Max(fits)

\* What stands before the tag is told, the tag itself is dropped.
ConsumeUntilTag(f, at, tag) ==
    [buf   |-> SubSeq(f.buf, at + Len(tag), Len(f.buf)),
     think |-> ~f.think,
     out   |-> f.out \o Marked(SubSeq(f.buf, 1, at - 1), f.think)]

FlushExceptPrefix_All(f, tag) ==
    [f EXCEPT !.buf = <<>>, !.out = @ \o Marked(f.buf, f.think)]
FlushExceptPrefix(f, tag) ==
    LET kept == Len(f.buf) - TagPrefixLen(f.buf, tag) IN
    [f EXCEPT !.buf = SubSeq(f.buf, kept + 1, Len(f.buf)),
              !.out = @ \o Marked(SubSeq(f.buf, 1, kept), f.think)]

RECURSIVE Drained(_)
Drained(f) ==
    LET tag == IF f.think THEN Close ELSE Open
        at  == Find(f.buf, tag)
    IN IF f.buf = <<>> THEN f
       ELSE IF at > 0 THEN Drained(ConsumeUntilTag(f, at, tag))
       ELSE FlushExceptPrefix(f, tag)

\* feed
Feed(chunk) ==
    /\ ~ended
    /\ Len(fed) + Len(chunk) <= MaxText
    /\ fed' = fed \o chunk
    /\ filter' = Drained([filter EXCEPT !.buf = @ \o chunk])
    /\ UNCHANGED ended

\* flush
Flushed(f) == [f EXCEPT !.buf = <<>>, !.out = @ \o Marked(f.buf, f.think)]
Flush ==
    /\ ~ended /\ ended' = TRUE
    /\ filter' = Flushed(filter)
    /\ UNCHANGED fed

Ended == ended /\ UNCHANGED vars

Next == Flush \/ Ended \/ \E n \in 1 .. MaxChunk : \E chunk \in [1 .. n -> Letters] : Feed(chunk)

Spec == Init /\ [][Next]_vars

-----------------------------------------------------------------------------
(* The whole text at once                                                   *)

\* What is text and what is thought of s, read from its first letter to its
\* last: a tag changes the side and belongs to neither.
RECURSIVE Split(_, _)
Split(s, think) ==
    LET tag == IF think THEN Close ELSE Open IN
    IF s = <<>> THEN <<>>
    ELSE IF StandsAt(tag, s, 1)
         THEN Split(SubSeq(s, Len(tag) + 1, Len(s)), ~think)
         ELSE Marked(<<Head(s)>>, think) \o Split(Tail(s), think)

\* _strip_thinking_tags, which create() uses: a thought that is not closed is
\* no match of its pattern and stays.  (Blanks around a thought are left out.)
RECURSIVE Stripped(_)
Stripped(s) ==
    LET rest  == SubSeq(s, Len(Open) + 1, Len(s))
        close == Find(rest, Close)
    IN IF s = <<>> THEN <<>>
       ELSE IF StandsAt(Open, s, 1) /\ close > 0
            THEN Stripped(SubSeq(rest, close + Len(Close), Len(rest)))
            ELSE <<Head(s)>> \o Stripped(Tail(s))

-----------------------------------------------------------------------------
(* Properties                                                               *)

Letter(marked) == marked[2]
TextOf(out) == LET texts == SelectSeq(out, LAMBDA m : m[1] = "text")
               IN [i \in DOMAIN texts |-> Letter(texts[i])]

\* However the answer was cut into chunks, what the filter has told, with what
\* it holds back told as flush would, is the text read as a whole.
CutsDoNotMatter == Flushed(filter).out = Split(fed, FALSE)

\* The filter holds back less than a tag, and only the beginning of one: the
\* user is never kept waiting for more.
HoldsLessThanTag ==
    /\ Len(filter.buf) < Max({Len(Open), Len(Close)})
    /\ IsPrefix(filter.buf, IF filter.think THEN Close ELSE Open)

\* With every thought closed, the streamed text is the text that a call
\* without streaming returns.
SameAsWithoutStreaming ==
    ended /\ ~filter.think => TextOf(filter.out) = Stripped(fed)
=============================================================================
