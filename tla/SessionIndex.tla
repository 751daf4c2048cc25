----------------------------- MODULE SessionIndex -----------------------------
(***************************************************************************)
(* The list of a user's sessions, checkpoint_dc_session_index: a run       *)
(* registers its session before its question is saved (graph/runner.py),   *)
(* the user renames, archives and takes back (services/session_service.py  *)
(* over services/message_store.py), and a reader asks for the list page by *)
(* page while all this goes on.                                            *)
(*                                                                         *)
(* Each operation is one statement; total_count, which comes with a page,  *)
(* is a query of its own and left out.  How a message is saved is          *)
(* MessageStore; ratings and downloads of a message, one UPDATE each, are  *)
(* left out.                                                               *)
(***************************************************************************)
EXTENDS Naturals, Sequences, FiniteSets, SequencesExt

CONSTANTS
    Sessions,    \* threads
    Old,         \* those of the index at first, the last active at the end
    PageSize,    \* limit of list_sessions
    MaxQuestions \* bound: questions that are asked

VARIABLES
    lastActive, \* last_active of the threads of the index, 0 for the others
    archived, \* those of the index with is_archived
    titles,   \* "none", "question" or "user": who wrote the title
    written,  \* threads that have a row in checkpoint_dc_messages
    busy,     \* threads whose question is between the index and its save
    asked,    \* questions so far
    next,     \* offset the reader asks for next
    pageFull, \* the last page was full, or none has been read
    read,     \* the threads of the pages read so far
    steady,   \* threads listed with the first page, not active since: ghost
    left,     \* a thread has left the list since the first page: ghost
    renamed,  \* threads whose title the user changed: ghost
    unindexed \* threads the last upsert of which failed: ghost

index == <<lastActive, archived, titles>>
reader == <<next, pageFull, read>>
ghosts == <<steady, left, renamed, unindexed>>
vars == <<index, written, busy, asked, reader, ghosts>>

SessionIndexAssumption ==
    /\ IsFiniteSet(Sessions) /\ Old \in Seq(Sessions) /\ IsInjective(Old)
    /\ PageSize \in Nat \ {0} /\ MaxQuestions \in Nat

\* When a thread was last active, at first: its place in Old, 0 for the others.
OldActive(s) == SelectInSeq(Old, LAMBDA t : t = s)

Init ==
    /\ lastActive = [s \in Sessions |-> OldActive(s)]
    /\ archived = {} /\ written = ToSet(Old)
    /\ titles = [s \in Sessions |-> IF s \in ToSet(Old) THEN "question" ELSE "none"]
    /\ busy = {} /\ asked = 0
    /\ next = 0 /\ pageFull = TRUE /\ read = {}
    /\ steady = {} /\ left = FALSE /\ renamed = {} /\ unindexed = {}

Indexed == {s \in Sessions : lastActive[s] > 0}

\* get_sessions_for_user: sessions that are not archived and have messages.
Listed == {s \in Indexed \ archived : s \in written}

\* ORDER BY last_active DESC: the sessions that come before s.
Before(s) == {r \in Listed : lastActive[r] > lastActive[s]}

\* LIMIT and OFFSET.
Page == {s \in Listed : Cardinality(Before(s)) \in next .. next + PageSize - 1}

\* get_session_title
Title(s) == IF s \in Indexed \ archived THEN titles[s] ELSE "none"

\* get_session_detail finds a session that has a title.
Opens(s) == Title(s) # "none"

-----------------------------------------------------------------------------
(* A question                                                               *)

\* upsert_session_index: a thread that is there only becomes the last active.
Upserted(s) == IF s \in Indexed THEN titles ELSE [titles EXCEPT ![s] = "question"]

\* _prepare_input: a failure of the upsert is logged.
Ask(s) ==
    /\ asked < MaxQuestions /\ s \notin busy
    /\ asked' = asked + 1 /\ busy' = busy \cup {s}
    /\ \/ /\ lastActive' = [lastActive EXCEPT ![s] = Len(Old) + asked']
          /\ titles' = Upserted(s)
          /\ steady' = steady \ {s} /\ unindexed' = unindexed \ {s}
       \/ /\ unindexed' = unindexed \cup {s}
          /\ UNCHANGED <<lastActive, titles, steady>>
    /\ UNCHANGED <<archived, written, reader, left, renamed>>

\* The question is saved early, or later with what the buffer holds, or never.
Save(s) ==
    /\ s \in busy /\ busy' = busy \ {s}
    /\ \E saved \in BOOLEAN : written' = IF saved THEN written \cup {s} ELSE written
    /\ UNCHANGED <<index, asked, reader, ghosts>>

-----------------------------------------------------------------------------
(* The user                                                                 *)

Archive(s) ==
    /\ s \in Indexed \ archived
    /\ archived' = archived \cup {s}
    /\ left' = (left \/ s \in Listed)
    /\ UNCHANGED <<lastActive, titles, written, busy, asked, reader, steady, renamed, unindexed>>

Unarchive(s) ==
    /\ s \in archived
    /\ archived' = archived \ {s}
    /\ UNCHANGED <<lastActive, titles, written, busy, asked, reader, ghosts>>

Rename(s) ==
    /\ s \in Indexed \ archived
    /\ titles' = [titles EXCEPT ![s] = "user"] /\ renamed' = renamed \cup {s}
    /\ UNCHANGED <<lastActive, archived, written, busy, asked, reader, steady, left, unindexed>>

\* list_sessions: a reader goes on while the last page was full.
ReadPage ==
    /\ pageFull
    /\ read' = read \cup Page
    /\ next' = next + PageSize
    /\ pageFull' = (next + PageSize <= Cardinality(Listed))
    /\ steady' = IF next = 0 THEN Listed ELSE steady
    /\ left' = (left /\ next # 0)
    /\ UNCHANGED <<index, written, busy, asked, renamed, unindexed>>

Next ==
    \/ \E s \in Sessions : Ask(s) \/ Save(s) \/ Archive(s) \/ Unarchive(s) \/ Rename(s)
    \/ ReadPage

Spec == Init /\ [][Next]_vars

-----------------------------------------------------------------------------
(* Properties                                                               *)

TypeOK ==
    /\ lastActive \in [Sessions -> 0 .. Len(Old) + MaxQuestions]
    /\ \A r, s \in Indexed : lastActive[r] = lastActive[s] => r = s
    /\ archived \subseteq Indexed /\ written \subseteq Sessions /\ busy \subseteq Sessions
    /\ titles \in [Sessions -> {"none", "question", "user"}]
    /\ asked \in 0 .. MaxQuestions /\ next \in Nat /\ pageFull \in BOOLEAN
    /\ read \subseteq Sessions /\ steady \subseteq Sessions /\ left \in BOOLEAN
    /\ renamed \subseteq Sessions /\ unindexed \subseteq Sessions

\* Whatever other sessions do, and new ones that come: who reads the list to its
\* end has seen every session that stayed in it, unless one was archived meanwhile
\* and what came after it moved to a page that had been read.
ListIsComplete == ~pageFull /\ ~left => steady \subseteq read

\* A session that is listed can be opened under the title that the user gave it,
\* and a session with messages is missing only because the user archived it, or
\* registering it failed.
ListIsTrue ==
    /\ \A s \in Listed : Opens(s)
    /\ \A s \in renamed : titles[s] = "user"
    /\ \A s \in written : s \in Listed \/ s \in archived \/ s \in unindexed

SessionsHold == ListIsComplete /\ ListIsTrue
=============================================================================
