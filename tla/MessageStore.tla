---------------------------- MODULE MessageStore ----------------------------
(***************************************************************************)
(* How a session's messages reach checkpoint_dc_messages.  A run of the    *)
(* pipeline (agents/graph/runner.py) saves the user's message before the   *)
(* graph starts, saves it again after the graph if that failed, then the   *)
(* assistant's reply, and an error reply if anything raised.  Every save   *)
(* is a call of save_message (services/message_store.py), which takes the  *)
(* messages that earlier calls could not write out of a buffer in memory,  *)
(* writes them before its own, and puts back what it could not write.      *)
(*                                                                         *)
(* A run has its number from the order in which the messages arrived.  One *)
(* connection runs its messages one after the other; runs overlap when a   *)
(* second connection or a REST call uses the session.  The buffer is taken *)
(* without an await, the INSERTs are separate (autocommit) transactions.   *)
(*                                                                         *)
(* The pool exists: without one (MemorySaver) no message is ever saved.    *)
(* A crash of the process empties the buffer and is not modelled.          *)
(*                                                                         *)
(* "_..." variants of a definition carry one slip.                         *)
(***************************************************************************)
EXTENDS Integers, Sequences, Functions

CONSTANTS
    Runs,        \* number of user messages of the session
    PendingMax,  \* settings.message_store_pending_max
    LostAcks,    \* may an INSERT commit and its answer be lost?
    MaxFailures  \* bound on the saves that fail

ASSUME StoreAssumption ==
    /\ Runs \in Nat
    /\ PendingMax \in Nat
    /\ LostAcks \in BOOLEAN
    /\ MaxFailures \in Nat

Run == 1..Runs

Message == [run : Run, role : {"user", "assistant"},
            type : {"normal", "clarification", "error"}]

VARIABLES
    pc,         \* where each run is
    batch,      \* batch[r]: `pending', what its save_message has still to write
    lastSeq,    \* lastSeq[r]: `last_seq' of that call, 0 before the first row
    buffer,     \* _pending_messages[thread_id]
    log,        \* the rows of the thread in checkpoint_dc_messages, by seq
    userSaved,  \* user_message_saved of each run
    ask,        \* ask[r]: the graph ended in an interrupt
    earlySeq,   \* early_user_message_seq, 0 for None
    userSeq,    \* the row a run reports as the user's, 0 for None
    replySeq,   \* the row a run reports as the assistant's, 0 for None
    described,  \* rows whose metadata was filled in
    given,      \* messages save_message was called for (history)
    dropped,    \* messages cut off at the limit of the buffer (history)
    overlapped, \* two runs were in progress at the same time (history)
    failures    \* saves that failed, up to the bound

call == <<batch, lastSeq>>
table == <<log, described>>
local == <<userSaved, ask, earlySeq, userSeq, replySeq>>
history == <<given, dropped, overlapped>>
vars == <<pc, call, buffer, table, local, history, failures>>

Saving == {"early", "user", "assistant", "errorUser", "error"}
Idle == {"idle", "done"}

TypeOK ==
    /\ pc \in [Run -> Saving \cup Idle \cup {"graph", "result", "failed"}]
    /\ batch \in [Run -> Seq(Message)]
    /\ lastSeq \in [Run -> Nat]
    /\ buffer \in Seq(Message)
    /\ PendingMax > 0 => Len(buffer) <= PendingMax
    /\ log \in Seq(Message)
    /\ userSaved \in [Run -> BOOLEAN] /\ ask \in [Run -> BOOLEAN]
    /\ earlySeq \in [Run -> Nat]
    /\ userSeq \in [Run -> Nat] /\ replySeq \in [Run -> Nat]
    /\ described \subseteq DOMAIN log
    /\ given \subseteq Message /\ dropped \subseteq Message
    /\ overlapped \in BOOLEAN
    /\ failures \in 0..MaxFailures

Init ==
    /\ pc = [r \in Run |-> "idle"]
    /\ batch = [r \in Run |-> <<>>] /\ lastSeq = [r \in Run |-> 0]
    /\ buffer = <<>> /\ log = <<>> /\ described = {}
    /\ userSaved = [r \in Run |-> FALSE] /\ ask = [r \in Run |-> FALSE]
    /\ earlySeq = [r \in Run |-> 0]
    /\ userSeq = [r \in Run |-> 0] /\ replySeq = [r \in Run |-> 0]
    /\ given = {} /\ dropped = {} /\ overlapped = FALSE
    /\ failures = 0

-----------------------------------------------------------------------------
\* The messages a run saves, by the save.  The type of the user's row says
\* from which of the three places it was saved.

UserMessage(r, type) == [run |-> r, role |-> "user", type |-> type]

Reply(r, type) == [run |-> r, role |-> "assistant", type |-> type]

GraphType(r) == IF ask[r] THEN "clarification" ELSE "normal"

OwnMessage(r) ==
    CASE pc[r] = "early"     -> UserMessage(r, "normal")
      [] pc[r] = "user"      -> UserMessage(r, GraphType(r))
      [] pc[r] = "assistant" -> Reply(r, GraphType(r))
      [] pc[r] = "errorUser" -> UserMessage(r, "error")
      [] pc[r] = "error"     -> Reply(r, "error")

\* The entry of save_message: the buffer `left' and the own message, last.
Taken_OwnFirst(left, m) == <<m>> \o left
Taken(left, m) == Append(left, m)

\* What stays in the buffer: it is popped.
Kept_NotPopped(left) == left
Kept(left) == <<>>

Call(r, place, m, left) ==
    /\ pc' = [pc EXCEPT ![r] = place]
    /\ batch' = [batch EXCEPT ![r] = Taken(left, m)]
    /\ lastSeq' = [lastSeq EXCEPT ![r] = 0]
    /\ buffer' = Kept(left)
    /\ given' = given \cup {m}

\* What the except branch puts back: pending[saved_count:], of it the newest
\* PendingMax messages; for PendingMax = 0 Python's unsaved[-0:] is all of it.
Unsaved_SkipsFailed(s) == Tail(s)
Unsaved(s) == s

Excess(s) == IF PendingMax > 0 /\ Len(s) > PendingMax
             THEN Len(s) - PendingMax ELSE 0

Capped(s) == SubSeq(s, Excess(s) + 1, Len(s))

-----------------------------------------------------------------------------
\* save_message returns row n (0: None) and leaves `left' in the buffer; the
\* run goes on, without an await, to its next save if it has one.

EarlyReturns(r, n, left) ==
    /\ pc[r] = "early"
    /\ pc' = [pc EXCEPT ![r] = "graph"]
    /\ userSaved' = [userSaved EXCEPT ![r] = n > 0]
    /\ earlySeq' = [earlySeq EXCEPT ![r] = n]
    /\ userSeq' = [userSeq EXCEPT ![r] = n]
    /\ batch' = [batch EXCEPT ![r] = <<>>]
    /\ buffer' = left
    /\ UNCHANGED <<lastSeq, ask, replySeq, given>>

\* After the graph user_message_saved is set whatever save_message returned;
\* the error path has no use for it any more.
UserReturns(r, n, left) ==
    /\ pc[r] \in {"user", "errorUser"}
    /\ userSeq' = [userSeq EXCEPT ![r] = IF n > 0 THEN n ELSE @]
    /\ IF pc[r] = "user"
       THEN /\ userSaved' = [userSaved EXCEPT ![r] = TRUE]
            /\ Call(r, "assistant", Reply(r, GraphType(r)), left)
       ELSE /\ Call(r, "error", Reply(r, "error"), left)
            /\ UNCHANGED userSaved
    /\ UNCHANGED <<ask, earlySeq, replySeq>>

ReplyReturns(r, n, left) ==
    /\ pc[r] \in {"assistant", "error"}
    /\ pc' = [pc EXCEPT ![r] = IF @ = "error" THEN "failed" ELSE "result"]
    /\ replySeq' = [replySeq EXCEPT ![r] = n]
    /\ batch' = [batch EXCEPT ![r] = <<>>]
    /\ buffer' = left
    /\ UNCHANGED <<lastSeq, userSaved, ask, earlySeq, userSeq, given>>

Returns(r, n, left) ==
    \/ EarlyReturns(r, n, left)
    \/ UserReturns(r, n, left)
    \/ ReplyReturns(r, n, left)

\* One INSERT ... RETURNING seq of the loop.
Insert(r) ==
    /\ pc[r] \in Saving /\ batch[r] # <<>>
    /\ log' = Append(log, Head(batch[r]))
    /\ batch' = [batch EXCEPT ![r] = Tail(@)]
    /\ lastSeq' = [lastSeq EXCEPT ![r] = Len(log')]
    /\ UNCHANGED <<pc, buffer, described, local, history, failures>>

\* All rows are written.  The buffer is not touched: what another call put
\* there meanwhile stays.
SaveSucceeds(r) ==
    /\ pc[r] \in Saving /\ batch[r] = <<>>
    /\ Returns(r, lastSeq[r], buffer)
    /\ UNCHANGED <<table, dropped, overlapped, failures>>

\* The pool gives no connection, or an INSERT raises: the database is down, or
\* a concurrent INSERT took the same seq.  Its row may have been committed.
SaveFails(r) ==
    /\ pc[r] \in Saving /\ batch[r] # <<>>
    /\ failures < MaxFailures /\ failures' = failures + 1
    /\ \E committed \in {FALSE, LostAcks} :
          log' = IF committed THEN Append(log, Head(batch[r])) ELSE log
    /\ LET unsaved == Unsaved(batch[r])
       IN  /\ Returns(r, 0, Capped(unsaved))
           /\ dropped' = dropped \cup (Range(unsaved) \ Range(Capped(unsaved)))
    /\ UNCHANGED <<described, overlapped>>

-----------------------------------------------------------------------------
\* The run around its saves.

Start(r) ==
    /\ pc[r] = "idle"
    /\ \A q \in Run : q < r => pc[q] # "idle"
    /\ Call(r, "early", UserMessage(r, "normal"), buffer)
    /\ overlapped' = (overlapped \/ \E q \in Run : pc[q] \notin Idle)
    /\ UNCHANGED <<table, local, dropped, failures>>

\* The graph ends with a result or with the interrupt of a clarification.
GraphEnds(r) ==
    /\ pc[r] = "graph"
    /\ \E a \in BOOLEAN :
          LET type == IF a THEN "clarification" ELSE "normal"
          IN  /\ ask' = [ask EXCEPT ![r] = a]
              /\ IF ~userSaved[r]
                 THEN Call(r, "user", UserMessage(r, type), buffer)
                 ELSE Call(r, "assistant", Reply(r, type), buffer)
    /\ UNCHANGED <<table, userSaved, earlySeq, userSeq, replySeq, dropped, overlapped, failures>>

\* The graph raises, or the building of the result after the reply was saved.
\* The rows saved after the graph are not reported any more.
RunRaises(r) ==
    /\ pc[r] \in {"graph", "result"}
    /\ IF ~userSaved[r]
       THEN Call(r, "errorUser", UserMessage(r, "error"), buffer)
       ELSE Call(r, "error", Reply(r, "error"), buffer)
    /\ userSeq' = [userSeq EXCEPT ![r] = earlySeq[r]]
    /\ replySeq' = [replySeq EXCEPT ![r] = 0]
    /\ UNCHANGED <<table, userSaved, ask, earlySeq, dropped, overlapped, failures>>

\* The result is returned; update_message_metadata on the row of the reply may
\* fail, which is only logged.  A clarification has its metadata in the row.
Result(r) ==
    /\ pc[r] \in {"result", "failed"}
    /\ pc' = [pc EXCEPT ![r] = "done"]
    /\ described' \in {described} \cup
          (IF replySeq[r] > 0 /\ (pc[r] = "failed" \/ ~ask[r])
           THEN {described \cup {replySeq[r]}} ELSE {})
    /\ UNCHANGED <<call, buffer, log, local, history, failures>>

Finished ==
    /\ \A r \in Run : pc[r] = "done"
    /\ UNCHANGED vars

Next ==
    \/ \E r \in Run :
          \/ Start(r) \/ GraphEnds(r) \/ RunRaises(r) \/ Result(r)
          \/ Insert(r) \/ SaveSucceeds(r) \/ SaveFails(r)
    \/ Finished

Spec == Init /\ [][Next]_vars

-----------------------------------------------------------------------------
\* Properties.

\* The rows a run reports (the UI likes, downloads and describes by them, the
\* trace file is named by their seq) are its own: save_message returns the row
\* of the message it was called for, although it writes others with it, and
\* metadata is only added to the reply of a run.
ReturnedRowIsOwn ==
    /\ \A r \in Run :
          /\ userSeq[r] > 0 =>
                /\ userSeq[r] <= Len(log)
                /\ log[userSeq[r]].run = r /\ log[userSeq[r]].role = "user"
          /\ replySeq[r] > 0 =>
                /\ replySeq[r] <= Len(log)
                /\ log[replySeq[r]].run = r /\ log[replySeq[r]].role = "assistant"
    /\ \A n \in described : log[n].role = "assistant"

\* The order in which the messages of the session arose.
Stage(m) == IF m.role = "user" THEN 0 ELSE IF m.type = "error" THEN 2 ELSE 1
NotAfter(m, n) == \/ m.run < n.run
                  \/ m.run = n.run /\ Stage(m) <= Stage(n)
Ordered(s) == \A i, j \in DOMAIN s : i < j => NotAfter(s[i], s[j])

\* While runs do not overlap, failing saves and their retries do not change
\* the order of the conversation, which is read back by seq.
HistoryInOrder == ~overlapped => Ordered(log \o buffer)

\* While runs do not overlap, every message is a row, waits, or was cut off at
\* the limit of the buffer: save_message puts back all it took and did not
\* write.
NothingLost ==
    ~overlapped =>
        \A m \in given :
            \/ m \in Range(log) \cup Range(buffer) \cup dropped
            \/ \E r \in Run : m \in Range(batch[r])

\* _fetch_user_seqs: the last normal row of the user before row n.
UserRows(n) == {i \in 1..(n - 1) : log[i].role = "user" /\ log[i].type = "normal"}
UserRowOf(n) == CHOOSE i \in UserRows(n) : \A j \in UserRows(n) : j <= i

\* A turn restored from the table is joined to the question it answered,
\* unless the buffer had to give messages up.
RestoredTurnHasItsQuestion ==
    ~overlapped /\ dropped = {} =>
        \A n \in DOMAIN log :
            log[n].role = "assistant" /\ log[n].type = "normal" =>
                /\ UserRows(n) # {}
                /\ log[UserRowOf(n)].run = log[n].run

\* What is read back of a session is in order, an answer with its question.
HistoryIsRead == HistoryInOrder /\ RestoredTurnHasItsQuestion
=============================================================================
