------------------------ MODULE MessageStore_proofs ------------------------
(***************************************************************************)
(* The rows that save_message returns, and the messages it keeps, for any  *)
(* number of runs, any limit of the buffer and any number of failures.     *)
(***************************************************************************)
EXTENDS MessageStore, SequenceTheorems, WellFoundedInduction, TLAPS

\* A call of save_message ends with the message it was made for.
CallIsOwn(r) ==
    /\ batch[r] # <<>> => batch[r][Len(batch[r])] = OwnMessage(r)
    /\ batch[r] = <<>> => lastSeq[r] \in DOMAIN log /\ log[lastSeq[r]] = OwnMessage(r)

CallInv == \A r \in Run : pc[r] \in Saving => CallIsOwn(r)

\* n is None or the row of a message of run r in that role.
IsRow(n, r, role) ==
    n > 0 => n <= Len(log) /\ log[n].run = r /\ log[n].role = role

RowInv ==
    /\ \A r \in Run : /\ IsRow(earlySeq[r], r, "user")
                      /\ IsRow(userSeq[r], r, "user")
                      /\ IsRow(replySeq[r], r, "assistant")
    /\ \A n \in described : log[n].role = "assistant"

IInv == TypeOK /\ CallInv /\ RowInv

-----------------------------------------------------------------------------
\* Sequences of messages.

LEMMA TakenFacts ==
    ASSUME NEW left \in Seq(Message), NEW m \in Message
    PROVE  /\ Taken(left, m) \in Seq(Message) /\ Taken(left, m) # <<>>
           /\ Taken(left, m)[Len(Taken(left, m))] = m
           /\ Range(Taken(left, m)) = Range(left) \cup {m}
  <1>1. /\ Taken(left, m) \in Seq(Message) /\ Taken(left, m) # <<>>
        /\ Len(Taken(left, m)) = Len(left) + 1
        /\ \A i \in 1..Len(left) : Taken(left, m)[i] = left[i]
        /\ Taken(left, m)[Len(left) + 1] = m
    BY AppendProperties DEF Taken
  <1>2. DOMAIN left = 1..Len(left) /\ DOMAIN Taken(left, m) = 1..(Len(left) + 1)
        /\ Len(left) \in Nat
    BY <1>1, LenProperties
  <1>3. Range(Taken(left, m)) = Range(left) \cup {m}
    BY <1>1, <1>2 DEF Range
  <1>. QED BY <1>1, <1>3

\* The log only grows.
LEMMA LogGrows ==
    ASSUME NEW s \in Seq(Message), NEW m \in Message
    PROVE  /\ Append(s, m) \in Seq(Message)
           /\ Len(Append(s, m)) = Len(s) + 1 /\ Len(s) \in Nat
           /\ DOMAIN s \subseteq DOMAIN Append(s, m)
           /\ Len(s) + 1 \in DOMAIN Append(s, m)
           /\ DOMAIN s = 1..Len(s)
           /\ \A i \in DOMAIN s : Append(s, m)[i] = s[i]
           /\ Append(s, m)[Len(s) + 1] = m
  BY AppendProperties, LenProperties

LEMMA BatchFacts ==
    ASSUME NEW s \in Seq(Message), s # <<>>
    PROVE  /\ Head(s) \in Message /\ Tail(s) \in Seq(Message)
           /\ Tail(s) = <<>> => s[Len(s)] = Head(s)
           /\ Tail(s) # <<>> => Tail(s)[Len(Tail(s))] = s[Len(s)]
           /\ Range(s) = {Head(s)} \cup Range(Tail(s))
  <1>1. /\ Head(s) \in Message /\ Tail(s) \in Seq(Message)
        /\ Len(Tail(s)) = Len(s) - 1
        /\ \A i \in 1..Len(Tail(s)) : Tail(s)[i] = s[i + 1]
    BY HeadTailProperties
  <1>2. Len(s) \in Nat \ {0} /\ Head(s) = s[1]
    BY EmptySeq
  <1>3. DOMAIN s = 1..Len(s) /\ DOMAIN Tail(s) = 1..(Len(s) - 1)
    BY <1>1, LenProperties
  <1>4. Tail(s) = <<>> => s[Len(s)] = Head(s)
    <2>. SUFFICES ASSUME Tail(s) = <<>> PROVE s[Len(s)] = Head(s)
      OBVIOUS
    <2>1. Len(Tail(s)) = 0
      BY EmptySeq
    <2>. DEFINE len == Len(s)
                rest == Len(Tail(s))
    <2>2. len \in Nat /\ rest = len - 1 /\ rest = 0
      BY <1>1, <1>2, <2>1
    <2>. HIDE DEF len, rest
    <2>3. len = 1
      BY <2>2
    <2>. QED BY <1>2, <2>3 DEF len
  <1>5. Tail(s) # <<>> => Tail(s)[Len(Tail(s))] = s[Len(s)]
    <2>. SUFFICES ASSUME Tail(s) # <<>> PROVE Tail(s)[Len(Tail(s))] = s[Len(s)]
      OBVIOUS
    <2>1. Len(Tail(s)) \in Nat \ {0}
      BY <1>1, EmptySeq
    <2>. QED BY <1>1, <1>2, <2>1
  <1>6. Range(s) = {Head(s)} \cup Range(Tail(s))
    <2>1. ASSUME NEW x \in Range(s) PROVE x \in {Head(s)} \cup Range(Tail(s))
      <3>1. PICK i \in 1..Len(s) : x = s[i]
        BY <1>3 DEF Range
      <3>2. CASE i = 1
        BY <1>2, <3>1, <3>2
      <3>3. CASE i # 1
        BY <1>1, <1>2, <1>3, <3>1, <3>3, i - 1 \in 1..(Len(s) - 1), s[(i - 1) + 1] = s[i] DEF Range
      <3>. QED BY <3>2, <3>3
    <2>2. ASSUME NEW x \in Range(Tail(s)) PROVE x \in Range(s)
      <3>1. PICK i \in 1..(Len(s) - 1) : x = Tail(s)[i]
        BY <1>3 DEF Range
      <3>. QED BY <1>1, <1>2, <1>3, <3>1 DEF Range
    <2>3. Head(s) \in Range(s)
      BY <1>2, <1>3 DEF Range
    <2>. QED BY <2>1, <2>2, <2>3
  <1>. QED BY <1>1, <1>4, <1>5, <1>6

\* The limit of the buffer.
LEMMA CappedFacts ==
    ASSUME NEW s \in Seq(Message)
    PROVE  /\ Capped(s) \in Seq(Message)
           /\ PendingMax > 0 => Len(Capped(s)) <= PendingMax
  <1>. Len(s) \in Nat /\ DOMAIN s = 1..Len(s) /\ \A i \in 1..Len(s) : s[i] \in Message
    BY LenProperties, ElementOfSeq
  <1>. Excess(s) \in Nat /\ (PendingMax > 0 => Len(s) - Excess(s) <= PendingMax)
    BY StoreAssumption DEF Excess
  <1>1. \A i \in (Excess(s) + 1)..Len(s) : s[i] \in Message
    OBVIOUS
  <1>2. /\ SubSeq(s, Excess(s) + 1, Len(s)) \in Seq(Message)
        /\ Len(SubSeq(s, Excess(s) + 1, Len(s))) =
              IF Excess(s) + 1 <= Len(s) THEN Len(s) - (Excess(s) + 1) + 1 ELSE 0
    BY <1>1, SubSeqProperties
  <1>. QED BY <1>2, StoreAssumption DEF Capped

\* A run's messages are messages.
LEMMA OwnFacts ==
    ASSUME NEW r \in Run
    PROVE  /\ \A type \in {"normal", "clarification", "error"} :
                 UserMessage(r, type) \in Message /\ Reply(r, type) \in Message
           /\ GraphType(r) \in {"normal", "clarification"}
  BY DEF UserMessage, Reply, Message, GraphType

-----------------------------------------------------------------------------
\* What is true of rows and of other calls stays true when the log grows.

LEMMA RowsStay ==
    ASSUME log \in Seq(Message), log' \in Seq(Message),
           Len(log) <= Len(log'), \A i \in DOMAIN log : log'[i] = log[i],
           NEW n \in Nat, NEW q, NEW role, IsRow(n, q, role)
    PROVE  IsRow(n, q, role)'
  <1>1. Len(log) \in Nat /\ Len(log') \in Nat /\ DOMAIN log = 1..Len(log)
    BY LenProperties
  <1>2. CASE n > 0
    <2>1. n \in DOMAIN log /\ n <= Len(log')
      BY <1>1, <1>2 DEF IsRow
    <2>2. log'[n] = log[n]
      BY <2>1
    <2>. QED BY <1>2, <2>1, <2>2 DEF IsRow
  <1>. QED BY <1>2 DEF IsRow

LEMMA CallStays ==
    ASSUME log \in Seq(Message), log' \in Seq(Message),
           Len(log) <= Len(log'), \A i \in DOMAIN log : log'[i] = log[i],
           NEW q, CallIsOwn(q),
           pc'[q] = pc[q], ask'[q] = ask[q], batch'[q] = batch[q], lastSeq'[q] = lastSeq[q]
    PROVE  CallIsOwn(q)'
  <1>1. OwnMessage(q)' = OwnMessage(q)
    BY DEF OwnMessage, UserMessage, Reply, GraphType
  <1>2. DOMAIN log \subseteq DOMAIN log'
    BY LenProperties
  <1>. QED BY <1>1, <1>2 DEF CallIsOwn

\* save_message is called.
LEMMA CallMade ==
    ASSUME TypeOK, NEW r \in Run, NEW place, NEW m \in Message, NEW left \in Seq(Message),
           Call(r, place, m, left), OwnMessage(r)' = m
    PROVE  /\ CallIsOwn(r)'
           /\ batch' \in [Run -> Seq(Message)] /\ lastSeq' \in [Run -> Nat]
           /\ buffer' \in Seq(Message) /\ Len(buffer') = 0
           /\ given' \subseteq Message
           /\ \A q \in Run : q # r => /\ pc'[q] = pc[q]
                                     /\ batch'[q] = batch[q] /\ lastSeq'[q] = lastSeq[q]
  <1>1. /\ batch' = [batch EXCEPT ![r] = Taken(left, m)]
        /\ lastSeq' = [lastSeq EXCEPT ![r] = 0]
        /\ pc' = [pc EXCEPT ![r] = place]
        /\ buffer' = <<>> /\ given' = given \cup {m}
    BY DEF Call, Kept
  <1>2. /\ batch'[r] = Taken(left, m)
        /\ batch' \in [Run -> Seq(Message)]
        /\ \A q \in Run : q # r => batch'[q] = batch[q]
    BY <1>1, TakenFacts DEF TypeOK
  <1>3. CallIsOwn(r)'
    <2>1. Taken(left, m) # <<>> /\ Taken(left, m)[Len(Taken(left, m))] = m
      BY TakenFacts
    <2>. QED BY <1>2, <2>1 DEF CallIsOwn
  <1>4. lastSeq' \in [Run -> Nat] /\ \A q \in Run : q # r => lastSeq'[q] = lastSeq[q]
    BY <1>1 DEF TypeOK
  <1>5. \A q \in Run : q # r => pc'[q] = pc[q]
    BY <1>1 DEF TypeOK
  <1>6. given' \subseteq Message
    BY <1>1 DEF TypeOK
  <1>. QED BY <1>1, <1>2, <1>3, <1>4, <1>5, <1>6, EmptySeq

-----------------------------------------------------------------------------
\* What a save leaves behind when it returns row n of its own message.

LEMMA ReturnStep ==
    ASSUME TypeOK, CallInv, RowInv,
           NEW r \in Run, pc[r] \in Saving,
           NEW left \in Seq(Message), PendingMax > 0 => Len(left) <= PendingMax,
           NEW n \in Nat, Returns(r, n, left),
           log' \in Seq(Message), UNCHANGED described,
           Len(log) <= Len(log'), \A i \in DOMAIN log : log'[i] = log[i],
           n > 0 => n \in DOMAIN log' /\ log'[n] = OwnMessage(r),
           overlapped' \in BOOLEAN, dropped' \subseteq Message, failures' \in 0..MaxFailures
    PROVE  IInv'
  <1>. USE DEF TypeOK, Saving, Idle
  <1>. /\ DOMAIN log = 1..Len(log) /\ Len(log) \in Nat
       /\ DOMAIN log' = 1..Len(log') /\ Len(log') \in Nat
    BY LenProperties
  <1>1. ASSUME NEW m \in Nat, NEW q \in Run, NEW role, IsRow(m, q, role)
        PROVE  IsRow(m, q, role)'
    BY <1>1, RowsStay
  <1>2. \A m \in described : log'[m].role = "assistant"
    BY DEF RowInv
  <1>7. ASSUME NEW q \in Run, pc[q] \in Saving,
               pc'[q] = pc[q], ask'[q] = ask[q], batch'[q] = batch[q], lastSeq'[q] = lastSeq[q]
        PROVE  CallIsOwn(q)'
    BY <1>7, CallStays DEF CallInv
  <1>3. \A role \in {"user", "assistant"} :
           OwnMessage(r).role = role => IsRow(n, r, role)'
    BY DEF IsRow, OwnMessage, UserMessage, Reply
  <1>4. CASE EarlyReturns(r, n, left)
    <2>1. /\ pc' = [pc EXCEPT ![r] = "graph"]
          /\ userSaved' = [userSaved EXCEPT ![r] = n > 0]
          /\ earlySeq' = [earlySeq EXCEPT ![r] = n]
          /\ userSeq' = [userSeq EXCEPT ![r] = n]
          /\ batch' = [batch EXCEPT ![r] = <<>>]
          /\ buffer' = left
          /\ UNCHANGED <<lastSeq, ask, replySeq, given>>
      BY <1>4 DEF EarlyReturns
    <2>2. TypeOK'
      BY SMTT(60), <2>1, EmptySeq
    <2>3. CallInv'
      BY <1>7, <2>1 DEF CallInv
    <2>4. OwnMessage(r).role = "user"
      BY <1>4 DEF EarlyReturns, OwnMessage, UserMessage
    <2>5. RowInv'
      BY <1>1, <1>2, <1>3, <2>1, <2>4 DEF RowInv
    <2>. QED BY <2>2, <2>3, <2>5 DEF IInv
  <1>5. CASE UserReturns(r, n, left)
    <2>1. OwnMessage(r).role = "user"
      BY <1>5 DEF UserReturns, OwnMessage, UserMessage
    <2>2. /\ userSeq' = [userSeq EXCEPT ![r] = IF n > 0 THEN n ELSE @]
          /\ UNCHANGED <<ask, earlySeq, replySeq>>
      BY <1>5 DEF UserReturns
    <2>3. PICK place \in {"assistant", "error"}, m \in Message :
             /\ Call(r, place, m, left)
             /\ m = IF place = "error" THEN Reply(r, "error") ELSE Reply(r, GraphType(r))
             /\ userSaved' \in [Run -> BOOLEAN]
      BY <1>5, OwnFacts DEF UserReturns
    <2>4. pc' = [pc EXCEPT ![r] = place] /\ pc'[r] = place
      BY <2>3 DEF Call
    <2>5. OwnMessage(r)' = m
      BY <2>2, <2>3, <2>4 DEF OwnMessage, Reply, GraphType
    <2>6. /\ CallIsOwn(r)'
          /\ batch' \in [Run -> Seq(Message)] /\ lastSeq' \in [Run -> Nat]
          /\ buffer' \in Seq(Message) /\ Len(buffer') = 0
          /\ given' \subseteq Message
          /\ \A q \in Run : q # r => /\ pc'[q] = pc[q]
                                    /\ batch'[q] = batch[q] /\ lastSeq'[q] = lastSeq[q]
      BY <2>3, <2>5, CallMade
    <2>7. TypeOK'
      <3>1. pc' \in [Run -> Saving \cup Idle \cup {"graph", "result", "failed"}]
        BY <2>4
      <3>2. userSeq' \in [Run -> Nat]
        BY <2>2
      <3>3. PendingMax > 0 => Len(buffer') <= PendingMax
        BY <2>6, StoreAssumption
      <3>4. ask' \in [Run -> BOOLEAN] /\ earlySeq' \in [Run -> Nat] /\ replySeq' \in [Run -> Nat]
        BY <2>2
      <3>5. described' \subseteq DOMAIN log'
        OBVIOUS
      <3>. QED BY <2>3, <2>6, <3>1, <3>2, <3>3, <3>4, <3>5
    <2>8. CallInv'
      BY <1>7, <2>2, <2>6 DEF CallInv
    <2>9. RowInv'
      BY <1>1, <1>2, <1>3, <2>1, <2>2 DEF RowInv
    <2>. QED BY <2>7, <2>8, <2>9 DEF IInv
  <1>6. CASE ReplyReturns(r, n, left)
    <2>1. /\ pc' = [pc EXCEPT ![r] = IF @ = "error" THEN "failed" ELSE "result"]
          /\ replySeq' = [replySeq EXCEPT ![r] = n]
          /\ batch' = [batch EXCEPT ![r] = <<>>]
          /\ buffer' = left
          /\ UNCHANGED <<lastSeq, userSaved, ask, earlySeq, userSeq, given>>
      BY <1>6 DEF ReplyReturns
    <2>2. TypeOK'
      BY <2>1, EmptySeq
    <2>3. CallInv'
      BY <1>7, <2>1 DEF CallInv
    <2>4. OwnMessage(r).role = "assistant"
      BY <1>6 DEF ReplyReturns, OwnMessage, Reply
    <2>5. RowInv'
      BY <1>1, <1>2, <1>3, <2>1, <2>4 DEF RowInv
    <2>. QED BY <2>2, <2>3, <2>5 DEF IInv
  <1>. QED BY <1>4, <1>5, <1>6 DEF Returns

-----------------------------------------------------------------------------
\* The steps.

LEMMA InitialState == Init => IInv
  <1>. SUFFICES ASSUME Init PROVE IInv
    OBVIOUS
  <1>1. <<>> \in Seq(Message) /\ Len(<<>>) = 0
    BY EmptySeq
  <1>2. TypeOK
    <2>1. /\ pc \in [Run -> Saving \cup Idle \cup {"graph", "result", "failed"}]
          /\ batch \in [Run -> Seq(Message)] /\ lastSeq \in [Run -> Nat]
      BY <1>1 DEF Init, Saving, Idle
    <2>2. /\ earlySeq \in [Run -> Nat] /\ userSeq \in [Run -> Nat] /\ replySeq \in [Run -> Nat]
          /\ userSaved \in [Run -> BOOLEAN] /\ ask \in [Run -> BOOLEAN]
      BY DEF Init
    <2>3. /\ buffer \in Seq(Message) /\ log \in Seq(Message)
          /\ PendingMax > 0 => Len(buffer) <= PendingMax
      BY <1>1, StoreAssumption DEF Init
    <2>4. /\ described \subseteq DOMAIN log /\ given \subseteq Message
          /\ dropped \subseteq Message /\ overlapped \in BOOLEAN
      BY DEF Init
    <2>5. failures \in 0..MaxFailures
      BY StoreAssumption DEF Init
    <2>. QED BY <2>1, <2>2, <2>3, <2>4, <2>5 DEF TypeOK
  <1>3. CallInv
    BY DEF Init, CallInv, Saving
  <1>4. RowInv
    BY DEF Init, RowInv, IsRow
  <1>. QED BY <1>2, <1>3, <1>4 DEF IInv

LEMMA InsertStep == ASSUME IInv, NEW r \in Run, Insert(r) PROVE IInv'
  <1>1. /\ log' = Append(log, Head(batch[r])) /\ batch' = [batch EXCEPT ![r] = Tail(@)]
        /\ lastSeq' = [lastSeq EXCEPT ![r] = Len(log')]
        /\ UNCHANGED <<pc, buffer, described, local, history, failures>>
        /\ pc[r] \in Saving /\ batch[r] # <<>>
    BY DEF Insert
  <1>2. TypeOK /\ CallInv /\ RowInv
    BY DEF IInv
  <1>3. batch[r] \in Seq(Message) /\ log \in Seq(Message)
    BY <1>2 DEF TypeOK
  <1>4. /\ Head(batch[r]) \in Message /\ Tail(batch[r]) \in Seq(Message)
        /\ Tail(batch[r]) = <<>> => batch[r][Len(batch[r])] = Head(batch[r])
        /\ Tail(batch[r]) # <<>> => Tail(batch[r])[Len(Tail(batch[r]))] = batch[r][Len(batch[r])]
    BY <1>1, <1>3, BatchFacts
  <1>5. /\ log' \in Seq(Message) /\ Len(log') = Len(log) + 1 /\ Len(log) \in Nat
        /\ DOMAIN log \subseteq DOMAIN log' /\ Len(log') \in DOMAIN log'
        /\ \A i \in DOMAIN log : log'[i] = log[i]
        /\ log'[Len(log')] = Head(batch[r])
    BY <1>1, <1>3, <1>4, LogGrows
  <1>6. TypeOK'
    <2>1. batch' \in [Run -> Seq(Message)]
      BY <1>1, <1>2, <1>4 DEF TypeOK
    <2>2. lastSeq' \in [Run -> Nat]
      BY <1>1, <1>2, <1>5 DEF TypeOK
    <2>. QED BY <1>1, <1>2, <1>5, <2>1, <2>2 DEF TypeOK, local, history
  <1>7. CallInv'
    <2>1. ASSUME NEW q \in Run, q # r, pc'[q] \in Saving PROVE CallIsOwn(q)'
      <3>1. CallIsOwn(q) /\ pc'[q] = pc[q] /\ ask'[q] = ask[q] /\ batch'[q] = batch[q]
            /\ lastSeq'[q] = lastSeq[q]
        BY <1>1, <1>2, <2>1 DEF CallInv, TypeOK, local
      <3>. QED BY <1>3, <1>5, <3>1, CallStays
    <2>2. CallIsOwn(r)'
      <3>1. batch'[r] = Tail(batch[r]) /\ lastSeq'[r] = Len(log')
        BY <1>1, <1>2 DEF TypeOK
      <3>2. OwnMessage(r)' = OwnMessage(r)
        BY <1>1 DEF local, OwnMessage, UserMessage, Reply, GraphType
      <3>3. batch[r][Len(batch[r])] = OwnMessage(r)
        BY <1>1, <1>2 DEF CallInv, CallIsOwn
      <3>. QED BY <1>4, <1>5, <3>1, <3>2, <3>3 DEF CallIsOwn
    <2>. QED BY <2>1, <2>2 DEF CallInv
  <1>8. RowInv'
    <2>1. \A m \in described' : log'[m].role = "assistant"
      BY <1>1, <1>2, <1>5 DEF RowInv, TypeOK
    <2>2. ASSUME NEW q \in Run PROVE /\ IsRow(earlySeq[q], q, "user")'
                                    /\ IsRow(userSeq[q], q, "user")'
                                    /\ IsRow(replySeq[q], q, "assistant")'
      <3>1. earlySeq[q] \in Nat /\ userSeq[q] \in Nat /\ replySeq[q] \in Nat
        BY <1>2 DEF TypeOK
      <3>2. /\ IsRow(earlySeq[q], q, "user") /\ IsRow(userSeq[q], q, "user")
            /\ IsRow(replySeq[q], q, "assistant")
        BY <1>2 DEF RowInv
      <3>. QED BY <1>1, <1>3, <1>5, <3>1, <3>2, RowsStay DEF local, IsRow
    <2>. QED BY <2>1, <2>2 DEF RowInv
  <1>. QED BY <1>6, <1>7, <1>8 DEF IInv

LEMMA SaveSucceedsStep == ASSUME IInv, NEW r \in Run, SaveSucceeds(r) PROVE IInv'
  <1>1. TypeOK /\ CallInv /\ RowInv
    BY DEF IInv
  <1>2. /\ pc[r] \in Saving /\ batch[r] = <<>> /\ Returns(r, lastSeq[r], buffer)
        /\ UNCHANGED <<log, described, dropped, overlapped, failures>>
    BY DEF SaveSucceeds, table
  <1>3. /\ lastSeq[r] \in Nat /\ buffer \in Seq(Message) /\ Len(log) \in Nat
        /\ log' \in Seq(Message) /\ overlapped' \in BOOLEAN /\ dropped' \subseteq Message
        /\ failures' \in 0..MaxFailures
        /\ PendingMax > 0 => Len(buffer) <= PendingMax
    BY <1>1, <1>2, LenProperties DEF TypeOK
  <1>4. lastSeq[r] \in DOMAIN log /\ log[lastSeq[r]] = OwnMessage(r)
    BY <1>1, <1>2 DEF CallInv, CallIsOwn
  <1>5. Len(log) <= Len(log') /\ \A i \in DOMAIN log : log'[i] = log[i]
    BY <1>2, <1>3
  <1>. QED BY <1>1, <1>2, <1>3, <1>4, <1>5, ReturnStep

LEMMA SaveFailsStep == ASSUME IInv, NEW r \in Run, SaveFails(r) PROVE IInv'
  <1>. DEFINE left == Capped(Unsaved(batch[r]))
  <1>1. TypeOK /\ CallInv /\ RowInv
    BY DEF IInv
  <1>2. /\ pc[r] \in Saving /\ batch[r] # <<>>
        /\ failures < MaxFailures /\ failures' = failures + 1
        /\ log' = log \/ log' = Append(log, Head(batch[r]))
        /\ Returns(r, 0, left)
        /\ dropped' = dropped \cup (Range(Unsaved(batch[r])) \ Range(left))
        /\ UNCHANGED <<described, overlapped>>
    BY DEF SaveFails
  <1>3. batch[r] \in Seq(Message) /\ log \in Seq(Message)
    BY <1>1 DEF TypeOK
  <1>4. Head(batch[r]) \in Message /\ \A i \in DOMAIN batch[r] : batch[r][i] \in Message
    BY <1>2, <1>3, BatchFacts, LenProperties, ElementOfSeq
  <1>5. /\ log' \in Seq(Message) /\ Len(log) <= Len(log')
        /\ \A i \in DOMAIN log : log'[i] = log[i]
    <2>1. CASE log' = log
      BY <1>3, <2>1, LenProperties
    <2>2. CASE log' = Append(log, Head(batch[r]))
      BY <1>3, <1>4, <2>2, LogGrows
    <2>. QED BY <1>2, <2>1, <2>2
  <1>6. left \in Seq(Message) /\ (PendingMax > 0 => Len(left) <= PendingMax)
    BY <1>3, CappedFacts DEF Unsaved
  <1>7. dropped' \subseteq Message
    BY <1>1, <1>2, <1>4 DEF TypeOK, Range, Unsaved
  <1>8. failures' \in 0..MaxFailures /\ overlapped' \in BOOLEAN
    BY <1>1, <1>2, StoreAssumption DEF TypeOK
  <1>. HIDE DEF left
  <1>. QED BY <1>1, <1>2, <1>5, <1>6, <1>7, <1>8, ReturnStep

\* A run calls save_message between two saves or for the first time.
LEMMA CallStep ==
    ASSUME IInv, NEW r \in Run, NEW place \in Saving, NEW m \in Message,
           Call(r, place, m, buffer), OwnMessage(r)' = m,
           UNCHANGED <<log, described, earlySeq, dropped, failures>>,
           ask' \in [Run -> BOOLEAN], \A q \in Run : q # r => ask'[q] = ask[q],
           userSaved' \in [Run -> BOOLEAN], overlapped' \in BOOLEAN,
           userSeq' \in [Run -> Nat], replySeq' \in [Run -> Nat],
           \A q \in Run : userSeq'[q] \in {userSeq[q], earlySeq[q]} /\ replySeq'[q] \in {replySeq[q], 0}
    PROVE  IInv'
  <1>1. TypeOK /\ CallInv /\ RowInv
    BY DEF IInv
  <1>2. /\ CallIsOwn(r)'
        /\ batch' \in [Run -> Seq(Message)] /\ lastSeq' \in [Run -> Nat]
        /\ buffer' \in Seq(Message) /\ Len(buffer') = 0
        /\ given' \subseteq Message
        /\ \A q \in Run : q # r => /\ pc'[q] = pc[q]
                                  /\ batch'[q] = batch[q] /\ lastSeq'[q] = lastSeq[q]
    BY <1>1, CallMade DEF TypeOK
  <1>3. TypeOK'
    <2>1. pc' \in [Run -> Saving \cup Idle \cup {"graph", "result", "failed"}]
      BY <1>1 DEF Call, TypeOK
    <2>2. PendingMax > 0 => Len(buffer') <= PendingMax
      BY <1>2, StoreAssumption
    <2>. QED BY <1>1, <1>2, <2>1, <2>2 DEF TypeOK
  <1>4. CallInv'
    <2>1. ASSUME NEW q \in Run, q # r, pc'[q] \in Saving PROVE CallIsOwn(q)'
      <3>1. CallIsOwn(q)
        BY <1>1, <1>2, <2>1 DEF CallInv
      <3>2. log \in Seq(Message) /\ log' \in Seq(Message) /\ Len(log) <= Len(log')
            /\ \A i \in DOMAIN log : log'[i] = log[i]
        BY <1>1, LenProperties DEF TypeOK
      <3>. QED BY <1>2, <2>1, <3>1, <3>2, CallStays
    <2>. QED BY <1>2, <2>1 DEF CallInv
  <1>5. RowInv'
    BY SMTT(60), <1>1 DEF RowInv, IsRow
  <1>. QED BY <1>3, <1>4, <1>5 DEF IInv

LEMMA StartStep == ASSUME IInv, NEW r \in Run, Start(r) PROVE IInv'
  <1>. DEFINE m == UserMessage(r, "normal")
  <1>1. /\ Call(r, "early", m, buffer)
        /\ UNCHANGED <<log, described, earlySeq, dropped, failures>>
        /\ UNCHANGED <<ask, userSaved, userSeq, replySeq>>
        /\ overlapped' \in BOOLEAN
    BY DEF Start, table, local, IInv, TypeOK
  <1>2. OwnMessage(r)' = m
    <2>1. pc'[r] = "early"
      BY <1>1 DEF Call, IInv, TypeOK
    <2>. QED BY <2>1 DEF OwnMessage, UserMessage
  <1>3. m \in Message /\ "early" \in Saving
    BY OwnFacts DEF Saving
  <1>4. /\ ask' \in [Run -> BOOLEAN] /\ userSaved' \in [Run -> BOOLEAN]
        /\ userSeq' \in [Run -> Nat] /\ replySeq' \in [Run -> Nat]
    BY <1>1 DEF IInv, TypeOK
  <1>. HIDE DEF m
  <1>. QED BY <1>1, <1>2, <1>3, <1>4, CallStep

LEMMA GraphEndsStep == ASSUME IInv, NEW r \in Run, GraphEnds(r) PROVE IInv'
  <1>1. PICK a \in BOOLEAN :
           LET type == IF a THEN "clarification" ELSE "normal"
           IN  /\ ask' = [ask EXCEPT ![r] = a]
               /\ IF ~userSaved[r]
                  THEN Call(r, "user", UserMessage(r, type), buffer)
                  ELSE Call(r, "assistant", Reply(r, type), buffer)
    BY DEF GraphEnds
  <1>2. /\ ask' \in [Run -> BOOLEAN] /\ ask'[r] = a
        /\ \A q \in Run : q # r => ask'[q] = ask[q]
    BY <1>1 DEF IInv, TypeOK
  <1>3. PICK place \in {"user", "assistant"}, m \in Message :
           /\ Call(r, place, m, buffer)
           /\ m = IF place = "user" THEN UserMessage(r, GraphType(r)') ELSE Reply(r, GraphType(r)')
    BY <1>1, <1>2, OwnFacts DEF GraphType
  <1>4. pc'[r] = place
    BY <1>3 DEF Call, IInv, TypeOK
  <1>5. OwnMessage(r)' = m
    BY <1>3, <1>4 DEF OwnMessage, UserMessage, Reply
  <1>6. /\ UNCHANGED <<log, described, earlySeq, dropped, failures>>
        /\ UNCHANGED <<userSaved, userSeq, replySeq, overlapped>>
    BY DEF GraphEnds, table
  <1>7. /\ userSaved' \in [Run -> BOOLEAN] /\ overlapped' \in BOOLEAN
        /\ userSeq' \in [Run -> Nat] /\ replySeq' \in [Run -> Nat] /\ place \in Saving
    BY <1>6 DEF IInv, TypeOK, Saving
  <1>. QED BY <1>2, <1>3, <1>5, <1>6, <1>7, CallStep

LEMMA RunRaisesStep == ASSUME IInv, NEW r \in Run, RunRaises(r) PROVE IInv'
  <1>1. /\ userSeq' = [userSeq EXCEPT ![r] = earlySeq[r]]
        /\ replySeq' = [replySeq EXCEPT ![r] = 0]
        /\ UNCHANGED <<log, described, earlySeq, dropped, failures>>
        /\ UNCHANGED <<userSaved, ask, overlapped>>
    BY DEF RunRaises, table
  <1>2. PICK place \in {"errorUser", "error"}, m \in Message :
           /\ Call(r, place, m, buffer)
           /\ m = IF place = "errorUser" THEN UserMessage(r, "error") ELSE Reply(r, "error")
    BY OwnFacts DEF RunRaises
  <1>3. pc'[r] = place
    BY <1>2 DEF Call, IInv, TypeOK
  <1>4. OwnMessage(r)' = m
    BY <1>2, <1>3 DEF OwnMessage, UserMessage, Reply
  <1>5. /\ userSaved' \in [Run -> BOOLEAN] /\ overlapped' \in BOOLEAN
        /\ ask' \in [Run -> BOOLEAN] /\ place \in Saving
    BY <1>1 DEF IInv, TypeOK, Saving
  <1>6. /\ userSeq' \in [Run -> Nat] /\ replySeq' \in [Run -> Nat]
        /\ \A q \in Run : /\ userSeq'[q] \in {userSeq[q], earlySeq[q]}
                         /\ replySeq'[q] \in {replySeq[q], 0}
    BY <1>1 DEF IInv, TypeOK
  <1>. QED BY <1>1, <1>2, <1>4, <1>5, <1>6, CallStep

LEMMA ResultStep == ASSUME IInv, NEW r \in Run, Result(r) PROVE IInv'
  <1>1. /\ pc' = [pc EXCEPT ![r] = "done"]
        /\ UNCHANGED <<call, buffer, log, local, history, failures>>
    BY DEF Result
  <1>8. described' = described \/ (replySeq[r] > 0 /\ described' = described \cup {replySeq[r]})
    <2>1. described' \in {described} \cup
             (IF replySeq[r] > 0 /\ (pc[r] = "failed" \/ ~ask[r])
              THEN {described \cup {replySeq[r]}} ELSE {})
      BY DEF Result
    <2>2. CASE replySeq[r] > 0 /\ (pc[r] = "failed" \/ ~ask[r])
      BY <2>1, <2>2
    <2>3. CASE ~(replySeq[r] > 0 /\ (pc[r] = "failed" \/ ~ask[r]))
      BY <2>1, <2>3
    <2>. QED BY <2>2, <2>3
  <1>2. TypeOK /\ CallInv /\ RowInv
    BY DEF IInv
  <1>3. Len(log) \in Nat /\ DOMAIN log = 1..Len(log)
    BY <1>2, LenProperties DEF TypeOK
  <1>4. replySeq[r] > 0 => replySeq[r] \in DOMAIN log /\ log[replySeq[r]].role = "assistant"
    BY <1>2, <1>3 DEF RowInv, IsRow, TypeOK
  <1>5. TypeOK'
    <2>1. pc' \in [Run -> Saving \cup Idle \cup {"graph", "result", "failed"}]
      BY <1>1, <1>2 DEF TypeOK, Idle
    <2>2. described' \subseteq DOMAIN log'
      BY <1>1, <1>2, <1>4, <1>8 DEF TypeOK
    <2>. QED BY <1>1, <1>2, <2>1, <2>2 DEF TypeOK, call, local, history
  <1>6. CallInv'
    BY <1>1, <1>2 DEF CallInv, CallIsOwn, TypeOK, Saving, call, local, OwnMessage, GraphType,
                      UserMessage, Reply
  <1>7. RowInv'
    BY <1>1, <1>2, <1>4, <1>8 DEF RowInv, IsRow, local
  <1>. QED BY <1>5, <1>6, <1>7 DEF IInv

LEMMA StutterStep == ASSUME IInv, UNCHANGED vars PROVE IInv'
  <1>. USE DEF vars, call, table, local, history
  <1>1. TypeOK'
    BY DEF IInv, TypeOK
  <1>2. CallInv'
    BY DEF IInv, CallInv, CallIsOwn, OwnMessage, GraphType, UserMessage, Reply
  <1>3. RowInv'
    BY DEF IInv, RowInv, IsRow
  <1>. QED BY <1>1, <1>2, <1>3 DEF IInv

\* The invariant is inductive.
THEOREM Invariance == Spec => []IInv
  <1>1. Init => IInv
    BY InitialState
  <1>2. IInv /\ [Next]_vars => IInv'
    BY StartStep, GraphEndsStep, RunRaisesStep, ResultStep, InsertStep, SaveSucceedsStep,
       SaveFailsStep, StutterStep DEF Next, Finished
  <1>. QED BY <1>1, <1>2, PTL DEF Spec

\* Every field keeps its type, and the buffer its limit.
THEOREM TypeCorrect == Spec => []TypeOK
  <1>1. IInv => TypeOK
    BY DEF IInv
  <1>. QED BY <1>1, Invariance, PTL

\* The row a run reports is the row of its own message, although save_message
\* writes the messages of others with it, whatever fails and however runs of the
\* session overlap.
THEOREM RowsAreOwn == Spec => []ReturnedRowIsOwn
  <1>1. IInv => ReturnedRowIsOwn
    BY DEF IInv, RowInv, IsRow, ReturnedRowIsOwn
  <1>. QED BY <1>1, Invariance, PTL

-----------------------------------------------------------------------------
\* No message is lost while runs do not overlap.

AloneInv ==
    ~overlapped => \A q, r \in Run : pc[q] \notin Idle /\ pc[r] \notin Idle => q = r

\* A run writes only in save_message, which has emptied the buffer.
BatchInv ==
    /\ \A r \in Run : pc[r] \notin Saving => batch[r] = <<>>
    /\ ~overlapped => \A r \in Run : pc[r] \in Saving => buffer = <<>>

\* Where a message can be.
Held == Range(log) \cup Range(buffer) \cup dropped \cup UNION {Range(batch[r]) : r \in Run}

HeldInv == ~overlapped => given \subseteq Held

KeptInv == IInv /\ AloneInv /\ BatchInv /\ HeldInv

\* How a step of save_message may move a run.
Moves(r, left) ==
    \/ \E place \in Saving, m \in Message : Call(r, place, m, left)
    \/ /\ \E place \in {"graph", "result", "failed"} : pc' = [pc EXCEPT ![r] = place]
       /\ batch' = [batch EXCEPT ![r] = <<>>] /\ buffer' = left /\ given' = given

LEMMA MoveKeeps ==
    ASSUME KeptInv, NEW r \in Run, NEW left \in Seq(Message), Moves(r, left),
           ~overlapped' => ~overlapped /\ \A q \in Run : q # r => pc[q] \in Idle,
           ~overlapped' => Range(log) \cup Range(buffer) \cup dropped \cup Range(batch[r])
                               \subseteq Range(log') \cup dropped' \cup Range(left)
    PROVE  AloneInv' /\ BatchInv' /\ HeldInv'
  <1>1. TypeOK /\ BatchInv /\ HeldInv
    BY DEF KeptInv, IInv
  <1>2. CASE \E place \in Saving, m \in Message : Call(r, place, m, left)
    <2>1. PICK place \in Saving, m \in Message : Call(r, place, m, left)
      BY <1>2
    <2>2. /\ pc'[r] = place /\ batch'[r] = Taken(left, m) /\ buffer' = <<>>
          /\ given' = given \cup {m}
          /\ \A q \in Run : q # r => pc'[q] = pc[q] /\ batch'[q] = batch[q]
      BY <1>1, <2>1 DEF Call, Kept, TypeOK
    <2>3. AloneInv'
      BY <2>2 DEF AloneInv
    <2>4. BatchInv'
      BY <1>1, <2>2 DEF BatchInv
    <2>5. ASSUME ~overlapped', NEW x \in given' PROVE x \in Held'
      <3>1. Range(Taken(left, m)) = Range(left) \cup {m}
        BY TakenFacts
      <3>2. CASE x \in Range(batch'[r])
        BY <3>2 DEF Held
      <3>3. CASE x \notin Range(batch'[r])
        <4>1. x \in given /\ x \notin Range(left)
          BY <2>2, <2>5, <3>1, <3>3
        <4>2. x \in Held
          BY <1>1, <2>5, <4>1 DEF HeldInv
        <4>3. CASE \E q \in Run : q # r /\ x \in Range(batch[q])
          BY <2>2, <4>3 DEF Held
        <4>4. CASE x \in Range(log) \cup Range(buffer) \cup dropped \cup Range(batch[r])
          BY <2>5, <4>1, <4>4 DEF Held
        <4>. QED BY <4>2, <4>3, <4>4 DEF Held
      <3>. QED BY <3>2, <3>3
    <2>. QED BY <2>3, <2>4, <2>5 DEF HeldInv
  <1>3. CASE /\ \E place \in {"graph", "result", "failed"} : pc' = [pc EXCEPT ![r] = place]
             /\ batch' = [batch EXCEPT ![r] = <<>>] /\ buffer' = left /\ given' = given
    <2>1. /\ pc'[r] \in {"graph", "result", "failed"} /\ batch'[r] = <<>>
          /\ \A q \in Run : q # r => pc'[q] = pc[q] /\ batch'[q] = batch[q]
      BY <1>1, <1>3 DEF TypeOK
    <2>2. AloneInv'
      BY <2>1 DEF AloneInv
    <2>3. BatchInv'
      BY <1>1, <2>1 DEF BatchInv, Saving, Idle
    <2>4. ASSUME ~overlapped', NEW x \in given' PROVE x \in Held'
      <3>1. x \in Held
        BY <1>1, <1>3, <2>4 DEF HeldInv
      <3>2. CASE \E q \in Run : q # r /\ x \in Range(batch[q])
        BY <2>1, <3>2 DEF Held
      <3>3. CASE x \in Range(log) \cup Range(buffer) \cup dropped \cup Range(batch[r])
        BY <1>3, <2>4, <3>3 DEF Held
      <3>. QED BY <3>1, <3>2, <3>3 DEF Held
    <2>. QED BY <2>2, <2>3, <2>4 DEF HeldInv
  <1>. QED BY <1>2, <1>3 DEF Moves

\* The log of a step includes the rows before it.
LEMMA AppendRange ==
    ASSUME NEW s \in Seq(Message), NEW m \in Message
    PROVE  Range(Append(s, m)) = Range(s) \cup {m}
  BY TakenFacts DEF Taken

LEMMA InitialKept == Init => KeptInv
  <1>1. Init => AloneInv
    BY DEF Init, AloneInv, Idle
  <1>2. Init => BatchInv
    BY DEF Init, BatchInv
  <1>3. Init => HeldInv
    BY DEF Init, HeldInv
  <1>. QED BY <1>1, <1>2, <1>3, InitialState DEF KeptInv

\* A run that is alone calls save_message.
LEMMA CallKeeps ==
    ASSUME KeptInv, NEW r \in Run, pc[r] \notin Saving, Moves(r, buffer),
           UNCHANGED <<log, dropped>>,
           ~overlapped' => ~overlapped /\ \A q \in Run : q # r => pc[q] \in Idle
    PROVE  AloneInv' /\ BatchInv' /\ HeldInv'
  <1>1. batch[r] = <<>> /\ buffer \in Seq(Message)
    BY DEF KeptInv, IInv, TypeOK, BatchInv
  <1>2. Range(batch[r]) = {}
    BY <1>1 DEF Range
  <1>. QED BY <1>1, <1>2, MoveKeeps

LEMMA StartKeeps == ASSUME KeptInv, NEW r \in Run, Start(r) PROVE AloneInv' /\ BatchInv' /\ HeldInv'
  <1>1. /\ pc[r] = "idle" /\ UNCHANGED <<log, dropped>>
        /\ Call(r, "early", UserMessage(r, "normal"), buffer)
        /\ overlapped' = (overlapped \/ \E q \in Run : pc[q] \notin Idle)
    BY DEF Start, table
  <1>2. Moves(r, buffer)
    BY <1>1, OwnFacts DEF Moves, Saving
  <1>3. ~overlapped' => ~overlapped /\ \A q \in Run : q # r => pc[q] \in Idle
    BY <1>1
  <1>4. pc[r] \notin Saving
    BY <1>1 DEF Saving
  <1>. QED BY <1>1, <1>2, <1>3, <1>4, CallKeeps

LEMMA GraphEndsKeeps ==
    ASSUME KeptInv, NEW r \in Run, GraphEnds(r) PROVE AloneInv' /\ BatchInv' /\ HeldInv'
  <1>1. pc[r] = "graph" /\ UNCHANGED <<log, dropped, overlapped>>
    BY DEF GraphEnds, table
  <1>2. Moves(r, buffer)
    <2>1. PICK a \in BOOLEAN :
             LET type == IF a THEN "clarification" ELSE "normal"
             IN  IF ~userSaved[r]
                 THEN Call(r, "user", UserMessage(r, type), buffer)
                 ELSE Call(r, "assistant", Reply(r, type), buffer)
      BY DEF GraphEnds
    <2>2. \E place \in Saving, m \in Message : Call(r, place, m, buffer)
      BY <2>1, OwnFacts DEF Saving
    <2>. QED BY <2>2 DEF Moves
  <1>3. ~overlapped' => ~overlapped /\ \A q \in Run : q # r => pc[q] \in Idle
    BY <1>1 DEF KeptInv, AloneInv, Idle
  <1>4. pc[r] \notin Saving
    BY <1>1 DEF Saving
  <1>. QED BY <1>1, <1>2, <1>3, <1>4, CallKeeps

LEMMA RunRaisesKeeps ==
    ASSUME KeptInv, NEW r \in Run, RunRaises(r) PROVE AloneInv' /\ BatchInv' /\ HeldInv'
  <1>1. pc[r] \in {"graph", "result"} /\ UNCHANGED <<log, dropped, overlapped>>
    BY DEF RunRaises, table
  <1>2. Moves(r, buffer)
    <2>1. \E place \in Saving, m \in Message : Call(r, place, m, buffer)
      BY OwnFacts DEF RunRaises, Saving
    <2>. QED BY <2>1 DEF Moves
  <1>3. ~overlapped' => ~overlapped /\ \A q \in Run : q # r => pc[q] \in Idle
    BY <1>1 DEF KeptInv, AloneInv, Idle
  <1>4. pc[r] \notin Saving
    BY <1>1 DEF Saving
  <1>. QED BY <1>1, <1>2, <1>3, <1>4, CallKeeps

\* A save that returns moves its run.
LEMMA ReturnMoves ==
    ASSUME NEW r \in Run, NEW n, NEW left, Returns(r, n, left)
    PROVE  Moves(r, left)
  <1>1. CASE EarlyReturns(r, n, left)
    BY <1>1 DEF EarlyReturns, Moves
  <1>2. CASE UserReturns(r, n, left)
    <2>1. \E place \in Saving, m \in Message : Call(r, place, m, left)
      BY <1>2, OwnFacts DEF UserReturns, Saving
    <2>. QED BY <2>1 DEF Moves
  <1>3. CASE ReplyReturns(r, n, left)
    <2>1. \E place \in {"graph", "result", "failed"} : pc' = [pc EXCEPT ![r] = place]
      <3>1. CASE pc[r] = "error"
        BY <1>3, <3>1 DEF ReplyReturns
      <3>2. CASE pc[r] # "error"
        BY <1>3, <3>2 DEF ReplyReturns
      <3>. QED BY <3>1, <3>2
    <2>. QED BY <1>3, <2>1 DEF ReplyReturns, Moves
  <1>. QED BY <1>1, <1>2, <1>3 DEF Returns

LEMMA SaveSucceedsKeeps ==
    ASSUME KeptInv, NEW r \in Run, SaveSucceeds(r) PROVE AloneInv' /\ BatchInv' /\ HeldInv'
  <1>1. /\ pc[r] \in Saving /\ batch[r] = <<>> /\ Returns(r, lastSeq[r], buffer)
        /\ UNCHANGED <<log, dropped, overlapped>>
    BY DEF SaveSucceeds, table
  <1>2. Moves(r, buffer)
    BY <1>1, ReturnMoves
  <1>3. ~overlapped' => ~overlapped /\ \A q \in Run : q # r => pc[q] \in Idle
    BY <1>1 DEF KeptInv, AloneInv, Idle, Saving
  <1>4. Range(batch[r]) = {} /\ buffer \in Seq(Message)
    BY <1>1 DEF Range, KeptInv, IInv, TypeOK
  <1>. QED BY <1>1, <1>2, <1>3, <1>4, MoveKeeps

LEMMA SaveFailsKeeps ==
    ASSUME KeptInv, NEW r \in Run, SaveFails(r) PROVE AloneInv' /\ BatchInv' /\ HeldInv'
  <1>. DEFINE left == Capped(Unsaved(batch[r]))
  <1>1. /\ pc[r] \in Saving /\ batch[r] # <<>>
        /\ log' = log \/ log' = Append(log, Head(batch[r]))
        /\ Returns(r, 0, left)
        /\ dropped' = dropped \cup (Range(batch[r]) \ Range(left))
        /\ UNCHANGED overlapped
    BY DEF SaveFails, Unsaved
  <1>2. batch[r] \in Seq(Message) /\ log \in Seq(Message)
    BY DEF KeptInv, IInv, TypeOK
  <1>3. left \in Seq(Message)
    BY <1>2, CappedFacts DEF Unsaved
  <1>. HIDE DEF left
  <1>4. Moves(r, left)
    BY <1>1, ReturnMoves
  <1>5. ~overlapped' => ~overlapped /\ \A q \in Run : q # r => pc[q] \in Idle
    BY <1>1 DEF KeptInv, AloneInv, Idle, Saving
  <1>6. Range(log) \subseteq Range(log')
    <2>1. Head(batch[r]) \in Message
      BY <1>1, <1>2, BatchFacts
    <2>2. Range(Append(log, Head(batch[r]))) = Range(log) \cup {Head(batch[r])}
      BY <1>2, <2>1, AppendRange
    <2>. QED BY <1>1, <2>2
  <1>7. ~overlapped' => Range(buffer) = {}
    BY <1>1 DEF KeptInv, BatchInv, Range
  <1>8. ~overlapped' => Range(log) \cup Range(buffer) \cup dropped \cup Range(batch[r])
                            \subseteq Range(log') \cup dropped' \cup Range(left)
    BY <1>1, <1>6, <1>7
  <1>. QED BY <1>3, <1>4, <1>5, <1>8, MoveKeeps

\* A row moves from the call to the table.
LEMMA InsertKeeps ==
    ASSUME KeptInv, NEW r \in Run, Insert(r) PROVE AloneInv' /\ BatchInv' /\ HeldInv'
  <1>1. /\ pc[r] \in Saving /\ batch[r] # <<>>
        /\ log' = Append(log, Head(batch[r])) /\ batch' = [batch EXCEPT ![r] = Tail(@)]
        /\ UNCHANGED <<pc, buffer, given, dropped, overlapped>>
    BY DEF Insert, history
  <1>2. batch \in [Run -> Seq(Message)] /\ log \in Seq(Message)
    BY DEF KeptInv, IInv, TypeOK
  <1>3. AloneInv'
    BY <1>1 DEF KeptInv, AloneInv
  <1>4. BatchInv'
    BY <1>1, <1>2 DEF KeptInv, BatchInv
  <1>5. /\ Range(log') = Range(log) \cup {Head(batch[r])}
        /\ Range(batch[r]) = {Head(batch[r])} \cup Range(batch'[r])
        /\ \A q \in Run : q # r => batch'[q] = batch[q]
    BY <1>1, <1>2, BatchFacts, AppendRange
  <1>6. Held \subseteq Held'
    BY <1>1, <1>5 DEF Held
  <1>. QED BY <1>1, <1>3, <1>4, <1>6 DEF KeptInv, HeldInv

LEMMA ResultKeeps ==
    ASSUME KeptInv, NEW r \in Run, Result(r) PROVE AloneInv' /\ BatchInv' /\ HeldInv'
  <1>1. /\ pc' = [pc EXCEPT ![r] = "done"]
        /\ UNCHANGED <<batch, buffer, log, given, dropped, overlapped>>
        /\ pc \in [Run -> Saving \cup Idle \cup {"graph", "result", "failed"}]
        /\ pc[r] \in {"result", "failed"}
    BY DEF Result, call, history, KeptInv, IInv, TypeOK
  <1>2. AloneInv'
    BY <1>1 DEF KeptInv, AloneInv, Idle
  <1>3. BatchInv'
    BY <1>1 DEF KeptInv, BatchInv, Saving
  <1>4. HeldInv'
    BY <1>1 DEF KeptInv, HeldInv, Held
  <1>. QED BY <1>2, <1>3, <1>4

LEMMA StutterKeeps == ASSUME KeptInv, UNCHANGED vars PROVE AloneInv' /\ BatchInv' /\ HeldInv'
  BY DEF KeptInv, AloneInv, BatchInv, HeldInv, Held, vars, call, table, local, history

\* The invariant behind NothingLost is inductive.
THEOREM Keeping == Spec => []KeptInv
  <1>1. Init => KeptInv
    BY InitialKept
  <1>2. KeptInv /\ [Next]_vars => AloneInv' /\ BatchInv' /\ HeldInv'
    BY StartKeeps, GraphEndsKeeps, RunRaisesKeeps, ResultKeeps, InsertKeeps, SaveSucceedsKeeps,
       SaveFailsKeeps, StutterKeeps DEF Next, Finished
  <1>3. IInv /\ [Next]_vars => IInv'
    BY StartStep, GraphEndsStep, RunRaisesStep, ResultStep, InsertStep, SaveSucceedsStep,
       SaveFailsStep, StutterStep DEF Next, Finished
  <1>4. KeptInv /\ [Next]_vars => KeptInv'
    BY <1>2, <1>3 DEF KeptInv
  <1>. QED BY <1>1, <1>4, PTL DEF Spec

\* While runs do not overlap, every message save_message was called for is a
\* row, waits in the buffer or in a call, or was cut off at the limit.
THEOREM NothingIsLost == Spec => []NothingLost
  <1>1. KeptInv => NothingLost
    BY DEF KeptInv, HeldInv, Held, NothingLost
  <1>. QED BY <1>1, Keeping, PTL

-----------------------------------------------------------------------------
\* What is read back of a session is in order.

\* A run begins when those before it are done.
InTurn == ~overlapped => \A q, r \in Run : q < r /\ pc[r] # "idle" => pc[q] = "done"

\* The reply of a run is saved after its user message, which was the first given.
UserFirst == \A r \in Run : pc[r] \in {"assistant", "result"} => userSaved[r]
GivenFirst == \A r \in Run : pc[r] # "idle" => UserMessage(r, "normal") \in given

\* How far a run has come with its messages, as Stage counts them.
Level(place) ==
    IF place \in {"idle", "early", "graph", "user", "errorUser"} THEN 0
    ELSE IF place \in {"assistant", "result"} THEN 1 ELSE 2

\* No message is ahead of its run.
Said == Range(log) \cup Range(buffer) \cup UNION {Range(batch[r]) : r \in Run}
SaidInv == \A m \in Said : pc[m.run] # "idle" /\ Stage(m) <= Level(pc[m.run])

\* The rows are in order, what waits is, and follows the rows.
Follows(S, T) == \A m \in S, n \in T : NotAfter(m, n)
OrderInv ==
    ~overlapped =>
        /\ Ordered(log) /\ Ordered(buffer) /\ Follows(Range(log), Range(buffer))
        /\ \A r \in Run : Ordered(batch[r]) /\ Follows(Range(log), Range(batch[r]))

ReadInv == KeptInv /\ InTurn /\ UserFirst /\ GivenFirst /\ SaidInv /\ OrderInv

LEMMA OrderedElements ==
    ASSUME NEW s \in Seq(Message)
    PROVE  /\ Range(s) \subseteq Message
           /\ \A x \in Range(s) : \E i \in DOMAIN s : s[i] = x
  <1>1. DOMAIN s = 1..Len(s) /\ \A i \in 1..Len(s) : s[i] \in Message
    BY LenProperties, ElementOfSeq
  <1>. QED BY <1>1 DEF Range

\* A message that follows all of a sequence may be appended to it.
LEMMA OrderedAppend ==
    ASSUME NEW s \in Seq(Message), NEW m \in Message, Ordered(s),
           \A x \in Range(s) : NotAfter(x, m)
    PROVE  Ordered(Append(s, m))
  <1>. DEFINE t == Append(s, m)
              len == Len(s)
  <1>1. /\ len \in Nat /\ DOMAIN s = 1..len /\ DOMAIN t = 1..len + 1
        /\ \A i \in DOMAIN s : t[i] = s[i]
        /\ t[len + 1] = m
    BY LogGrows, LenProperties
  <1>. HIDE DEF t, len
  <1>2. SUFFICES ASSUME NEW i \in DOMAIN t, NEW j \in DOMAIN t, i < j
                 PROVE  NotAfter(t[i], t[j])
    BY DEF Ordered, t
  <1>3. i \in DOMAIN s
    BY <1>1, <1>2
  <1>4. CASE j \in DOMAIN s
    BY <1>1, <1>2, <1>3, <1>4 DEF Ordered
  <1>5. CASE j = len + 1
    <2>1. s[i] \in Range(s)
      BY <1>3 DEF Range
    <2>. QED BY <1>1, <1>3, <1>5, <2>1
  <1>. QED BY <1>1, <1>2, <1>4, <1>5

\* The first message of a call is followed by the rest of it.
LEMMA OrderedTail ==
    ASSUME NEW s \in Seq(Message), s # <<>>, Ordered(s)
    PROVE  Ordered(Tail(s)) /\ \A x \in Range(Tail(s)) : NotAfter(Head(s), x)
  <1>. DEFINE t == Tail(s)
              len == Len(s)
  <1>1. /\ len \in Nat \ {0} /\ DOMAIN s = 1..len /\ DOMAIN t = 1..len - 1
        /\ Head(s) = s[1] /\ \A i \in DOMAIN t : t[i] = s[i + 1]
    BY HeadTailProperties, EmptySeq, LenProperties
  <1>. HIDE DEF t, len
  <1>2. Ordered(t)
    <2>1. SUFFICES ASSUME NEW i \in DOMAIN t, NEW j \in DOMAIN t, i < j
                   PROVE  NotAfter(t[i], t[j])
      BY DEF Ordered
    <2>2. i + 1 \in DOMAIN s /\ j + 1 \in DOMAIN s /\ i + 1 < j + 1
      BY <1>1, <2>1
    <2>3. NotAfter(s[i + 1], s[j + 1])
      BY <2>2 DEF Ordered
    <2>. QED BY <1>1, <2>3
  <1>3. ASSUME NEW x \in Range(t) PROVE NotAfter(Head(s), x)
    <2>1. PICK i \in DOMAIN t : t[i] = x
      BY DEF Range
    <2>2. 1 \in DOMAIN s /\ i + 1 \in DOMAIN s /\ 1 < i + 1
      BY <1>1
    <2>3. NotAfter(s[1], s[i + 1])
      BY <2>2 DEF Ordered
    <2>. QED BY <1>1, <2>1, <2>3
  <1>. QED BY <1>2, <1>3 DEF t

\* What the limit of the buffer leaves is in order, and part of what was.
LEMMA OrderedCapped ==
    ASSUME NEW s \in Seq(Message)
    PROVE  (Ordered(s) => Ordered(Capped(s))) /\ Range(Capped(s)) \subseteq Range(s)
  <1>. DEFINE t == Capped(s)
              len == Len(s)
              cut == Excess(s)
  <1>1. len \in Nat /\ DOMAIN s = 1..len /\ \A i \in 1..len : s[i] \in Message
    BY LenProperties, ElementOfSeq
  <1>2. cut \in Nat /\ cut <= len
    BY <1>1, StoreAssumption DEF Excess
  <1>3. /\ t \in Seq(Message) /\ Len(t) = len - cut /\ DOMAIN t = 1..len - cut
        /\ \A i \in 1..len - cut : t[i] = s[i + cut]
    <2>1. \A i \in (cut + 1)..len : s[i] \in Message
      BY <1>1, <1>2
    <2>2. /\ SubSeq(s, cut + 1, len) \in Seq(Message)
          /\ Len(SubSeq(s, cut + 1, len)) =
                IF cut + 1 <= len THEN len - (cut + 1) + 1 ELSE 0
          /\ \A i \in 1..len - (cut + 1) + 1 :
                SubSeq(s, cut + 1, len)[i] = s[cut + 1 + i - 1]
      BY <1>1, <1>2, <2>1, SubSeqProperties
    <2>3. t = SubSeq(s, cut + 1, len)
      BY DEF Capped
    <2>. HIDE DEF t, len, cut
    <2>4. Len(t) = len - cut
      BY <1>1, <1>2, <2>2, <2>3
    <2>5. ASSUME NEW i \in 1..len - cut PROVE t[i] = s[i + cut]
      <3>1. i \in 1..len - (cut + 1) + 1 /\ cut + 1 + i - 1 = i + cut
        BY <1>1, <1>2
      <3>. QED BY <2>2, <2>3, <3>1
    <2>. QED BY <2>2, <2>3, <2>4, <2>5, LenProperties
  <1>. HIDE DEF t, len, cut
  <1>4. \A i \in DOMAIN t : i + cut \in DOMAIN s
    BY <1>1, <1>2, <1>3
  <1>5. ASSUME Ordered(s) PROVE Ordered(t)
    <2>1. SUFFICES ASSUME NEW i \in DOMAIN t, NEW j \in DOMAIN t, i < j
                   PROVE  NotAfter(t[i], t[j])
      BY DEF Ordered
    <2>2. i + cut < j + cut
      BY <1>2, <1>3, <2>1
    <2>3. NotAfter(s[i + cut], s[j + cut])
      BY <1>4, <1>5, <2>2 DEF Ordered
    <2>. QED BY <1>3, <2>3
  <1>6. Range(t) \subseteq Range(s)
    BY <1>3, <1>4 DEF Range
  <1>. QED BY <1>5, <1>6 DEF t

\* A message of the run that is on, at its stage, follows all that was said before.
LEMMA NextFollows ==
    ASSUME ReadInv, ~overlapped, NEW r \in Run, pc[r] # "done",
           NEW m \in Message, m.run = r, Level(pc[r]) <= Stage(m),
           NEW x \in Said
    PROVE  NotAfter(x, m)
  <1>1. TypeOK
    BY DEF ReadInv, KeptInv, IInv
  <1>2. x \in Message
    <2>1. log \in Seq(Message) /\ buffer \in Seq(Message) /\ \A q \in Run : batch[q] \in Seq(Message)
      BY <1>1 DEF TypeOK
    <2>2. /\ Range(log) \subseteq Message /\ Range(buffer) \subseteq Message
          /\ \A q \in Run : Range(batch[q]) \subseteq Message
      BY <2>1, OrderedElements
    <2>. QED BY <2>2 DEF Said
  <1>3. x.run \in Run /\ Runs \in Nat
    BY <1>2, StoreAssumption DEF Message
  <1>4. pc[x.run] # "idle" /\ Stage(x) <= Level(pc[x.run])
    BY DEF ReadInv, SaidInv
  <1>5. ~(r < x.run)
    BY <1>3, <1>4 DEF ReadInv, InTurn
  <1>6. CASE x.run < r
    BY <1>6 DEF NotAfter
  <1>7. CASE x.run = r
    <2>1. Stage(x) \in Nat /\ Level(pc[r]) \in Nat /\ Stage(m) \in Nat
      BY DEF Stage, Level
    <2>2. Stage(x) <= Stage(m)
      BY <1>4, <1>7, <2>1
    <2>. QED BY <1>7, <2>2 DEF NotAfter
  <1>. QED BY <1>3, <1>5, <1>6, <1>7 DEF Run

\* How a step moves a run that has something to say: to the message it saves
\* next, which is not behind what it said, or to a place between two saves.
Says(r, left) ==
    \/ \E place \in Saving, m \in Message :
          /\ Call(r, place, m, left)
          /\ m.run = r /\ Stage(m) = Level(place) /\ Level(pc[r]) <= Stage(m)
          /\ pc[r] = "idle" => m = UserMessage(r, "normal")
    \/ \E place \in {"graph", "result", "failed"} :
          /\ pc' = [pc EXCEPT ![r] = place] /\ pc[r] # "idle"
          /\ Level(pc[r]) <= Level(place)
          /\ batch' = [batch EXCEPT ![r] = <<>>] /\ buffer' = left /\ given' = given

LEMMA SayKeeps ==
    ASSUME ReadInv, NEW r \in Run, pc[r] # "done",
           NEW left \in Seq(Message), Says(r, left), log' \in Seq(Message),
           ~overlapped' => ~overlapped /\ \A q \in Run : q # r => pc[q] \in Idle,
           pc[r] = "idle" => \A q \in Run : q < r => pc[q] # "idle",
           Range(log') \subseteq Range(log) \cup Range(batch[r]),
           Range(left) \subseteq Range(buffer) \cup Range(batch[r]),
           ~overlapped => /\ Ordered(log') /\ Ordered(left)
                          /\ Follows(Range(log'), Range(left))
    PROVE  InTurn' /\ GivenFirst' /\ SaidInv' /\ OrderInv'
  <1>1. TypeOK /\ BatchInv /\ InTurn /\ GivenFirst /\ SaidInv
    BY DEF ReadInv, KeptInv, IInv
  <1>2. PICK place : /\ pc'[r] = place /\ place # "idle"
                     /\ \A q \in Run : q # r => pc'[q] = pc[q] /\ batch'[q] = batch[q]
                     /\ Level(pc[r]) <= Level(place)
    BY SMTT(60), <1>1 DEF Says, Call, TypeOK, Saving
  <1>3. InTurn'
    <2>1. SUFFICES ASSUME ~overlapped', NEW p \in Run, NEW q \in Run, p < q, pc'[q] # "idle"
                   PROVE  pc'[p] = "done"
      BY DEF InTurn
    <2>2. p # q
      BY <2>1 DEF Run
    <2>3. CASE q = r
      BY <1>1, <1>2, <2>1, <2>2, <2>3 DEF InTurn, Idle
    <2>4. CASE q # r
      BY <1>1, <1>2, <2>1, <2>2, <2>4 DEF InTurn
    <2>. QED BY <2>3, <2>4
  <1>4. Range(log') \cup Range(left) \subseteq Said
    BY DEF Said
  <1>5. ASSUME NEW x \in Said
        PROVE  pc'[x.run] # "idle" /\ Stage(x) <= Level(pc'[x.run])
    <2>1. pc[x.run] # "idle" /\ Stage(x) <= Level(pc[x.run])
      BY <1>1 DEF SaidInv
    <2>2. x.run \in Run
      <3>1. log \in Seq(Message) /\ buffer \in Seq(Message)
            /\ \A q \in Run : batch[q] \in Seq(Message)
        BY <1>1 DEF TypeOK
      <3>2. x \in Message
        BY <3>1, OrderedElements DEF Said
      <3>. QED BY <3>2 DEF Message
    <2>3. \A l : Level(l) \in Nat
      BY DEF Level
    <2>4. Stage(x) \in Nat
      BY DEF Stage
    <2>5. CASE x.run = r
      BY <1>2, <2>1, <2>3, <2>4, <2>5
    <2>6. CASE x.run # r
      BY <1>2, <2>1, <2>2, <2>6
    <2>. QED BY <2>5, <2>6
  <1>6. \A q \in Run : q # r /\ ~overlapped' => batch'[q] = <<>>
    BY <1>1, <1>2 DEF BatchInv, Idle, Saving
  <1>7. Ordered(<<>>) /\ Range(<<>>) = {}
    BY DEF Ordered, Range
  <1>8. CASE \E at \in Saving, m \in Message :
                /\ Call(r, at, m, left)
                /\ m.run = r /\ Stage(m) = Level(at) /\ Level(pc[r]) <= Stage(m)
                /\ pc[r] = "idle" => m = UserMessage(r, "normal")
    <2>1. PICK at \in Saving, m \in Message :
             /\ Call(r, at, m, left)
             /\ m.run = r /\ Stage(m) = Level(at) /\ Level(pc[r]) <= Stage(m)
             /\ pc[r] = "idle" => m = UserMessage(r, "normal")
      BY <1>8
    <2>2. /\ pc'[r] = at /\ at # "idle" /\ buffer' = <<>> /\ given' = given \cup {m}
          /\ batch'[r] = Append(left, m)
      BY <1>1, <2>1 DEF Call, Kept, Taken, TypeOK, Saving
    <2>3. Range(batch'[r]) = Range(left) \cup {m}
      BY <2>2, AppendRange
    <2>4. GivenFirst'
      BY <1>1, <1>2, <2>1, <2>2 DEF GivenFirst
    <2>5. \A x \in Said' : x \in Said \/ x = m
      BY ZenonT(60), <1>2, <1>4, <1>7, <2>2, <2>3 DEF Said
    <2>6. Stage(m) <= Level(pc'[r])
      BY <2>1, <2>2 DEF Stage
    <2>7. SaidInv'
      BY <1>5, <2>1, <2>2, <2>5, <2>6 DEF SaidInv
    <2>8. OrderInv'
      <3>1. SUFFICES ASSUME ~overlapped' PROVE OrderInv'
        BY DEF OrderInv
      <3>2. \A x \in Said : NotAfter(x, m)
        BY <2>1, <3>1, NextFollows
      <3>3. Ordered(batch'[r])
        BY <1>4, <2>2, <3>1, <3>2, OrderedAppend
      <3>4. Follows(Range(log'), Range(batch'[r]))
        BY <1>4, <2>3, <3>1, <3>2 DEF Follows
      <3>5. \A q \in Run : Ordered(batch'[q]) /\ Follows(Range(log'), Range(batch'[q]))
        BY <1>6, <1>7, <3>1, <3>3, <3>4 DEF Follows
      <3>. QED BY <1>7, <2>2, <3>1, <3>5 DEF OrderInv, Follows
    <2>. QED BY <1>3, <2>4, <2>7, <2>8
  <1>9. CASE \E at \in {"graph", "result", "failed"} :
                /\ pc' = [pc EXCEPT ![r] = at] /\ pc[r] # "idle"
                /\ Level(pc[r]) <= Level(at)
                /\ batch' = [batch EXCEPT ![r] = <<>>] /\ buffer' = left /\ given' = given
    <2>1. batch'[r] = <<>> /\ buffer' = left /\ given' = given /\ pc[r] # "idle"
      BY <1>1, <1>9 DEF TypeOK
    <2>2. GivenFirst'
      BY <1>1, <1>2, <2>1 DEF GivenFirst
    <2>3. Said' \subseteq Said
      BY <1>2, <1>4, <1>7, <2>1 DEF Said
    <2>4. SaidInv'
      BY <1>5, <2>3 DEF SaidInv
    <2>5. OrderInv'
      <3>1. SUFFICES ASSUME ~overlapped' PROVE OrderInv'
        BY DEF OrderInv
      <3>2. \A q \in Run : batch'[q] = <<>>
        BY <1>6, <2>1, <3>1
      <3>. QED BY <1>7, <2>1, <3>1, <3>2 DEF OrderInv, Follows
    <2>. QED BY <1>3, <2>2, <2>4, <2>5
  <1>. QED BY <1>8, <1>9 DEF Says

\* What ReadInv adds to KeptInv.
ReadingInv == InTurn /\ UserFirst /\ GivenFirst /\ SaidInv /\ OrderInv

\* A run that was not in save_message calls it.
LEMMA CallReads ==
    ASSUME ReadInv, NEW r \in Run, pc[r] \notin Saving \cup {"done"}, Says(r, buffer),
           UNCHANGED <<log>>,
           ~overlapped' => ~overlapped /\ \A q \in Run : q # r => pc[q] \in Idle,
           pc[r] = "idle" => \A q \in Run : q < r => pc[q] # "idle"
    PROVE  InTurn' /\ GivenFirst' /\ SaidInv' /\ OrderInv'
  <1>1. buffer \in Seq(Message) /\ log' \in Seq(Message)
    BY DEF ReadInv, KeptInv, IInv, TypeOK
  <1>2. ~overlapped => /\ Ordered(log') /\ Ordered(buffer)
                       /\ Follows(Range(log'), Range(buffer))
    BY DEF ReadInv, OrderInv
  <1>. QED BY <1>1, <1>2, SayKeeps

LEMMA StartReads == ASSUME ReadInv, NEW r \in Run, Start(r) PROVE ReadingInv'
  <1>. DEFINE m == UserMessage(r, "normal")
  <1>1. /\ pc[r] = "idle" /\ UNCHANGED <<log, userSaved>>
        /\ \A q \in Run : q < r => pc[q] # "idle"
        /\ Call(r, "early", m, buffer)
        /\ overlapped' = (overlapped \/ \E q \in Run : pc[q] \notin Idle)
    BY DEF Start, table, local
  <1>2. m \in Message /\ m.run = r /\ Stage(m) = 0
    BY OwnFacts DEF UserMessage, Stage
  <1>. HIDE DEF m
  <1>3. Says(r, buffer)
    BY <1>1, <1>2 DEF Says, Level, Saving, m
  <1>4. ~overlapped' => ~overlapped /\ \A q \in Run : q # r => pc[q] \in Idle
    BY <1>1
  <1>5. pc[r] \notin Saving \cup {"done"}
    BY <1>1 DEF Saving
  <1>6. InTurn' /\ GivenFirst' /\ SaidInv' /\ OrderInv'
    BY <1>1, <1>3, <1>4, <1>5, CallReads
  <1>7. UserFirst'
    BY <1>1 DEF Call, UserFirst, ReadInv, KeptInv, IInv, TypeOK
  <1>. QED BY <1>6, <1>7 DEF ReadingInv

LEMMA GraphEndsReads == ASSUME ReadInv, NEW r \in Run, GraphEnds(r) PROVE ReadingInv'
  <1>1. pc[r] = "graph" /\ UNCHANGED <<log, userSaved, overlapped>>
    BY DEF GraphEnds, table
  <1>2. PICK a \in BOOLEAN :
           LET type == IF a THEN "clarification" ELSE "normal"
           IN  IF ~userSaved[r]
               THEN Call(r, "user", UserMessage(r, type), buffer)
               ELSE Call(r, "assistant", Reply(r, type), buffer)
    BY DEF GraphEnds
  <1>3. PICK type \in {"clarification", "normal"} :
           \/ ~userSaved[r] /\ Call(r, "user", UserMessage(r, type), buffer)
           \/ userSaved[r] /\ Call(r, "assistant", Reply(r, type), buffer)
    BY <1>2
  <1>4. /\ UserMessage(r, type) \in Message /\ UserMessage(r, type).run = r
        /\ Stage(UserMessage(r, type)) = 0
        /\ Reply(r, type) \in Message /\ Reply(r, type).run = r /\ Stage(Reply(r, type)) = 1
    BY OwnFacts DEF UserMessage, Reply, Stage
  <1>5. Level("graph") = 0 /\ Level("user") = 0 /\ Level("assistant") = 1
    BY DEF Level
  <1>6. Says(r, buffer)
    <2>1. CASE Call(r, "user", UserMessage(r, type), buffer)
      BY <1>1, <1>4, <1>5, <2>1 DEF Says, Saving
    <2>2. CASE Call(r, "assistant", Reply(r, type), buffer)
      BY <1>1, <1>4, <1>5, <2>2 DEF Says, Saving
    <2>. QED BY <1>3, <2>1, <2>2
  <1>7. ~overlapped' => ~overlapped /\ \A q \in Run : q # r => pc[q] \in Idle
    BY <1>1 DEF ReadInv, KeptInv, AloneInv, Idle
  <1>8. pc[r] \notin Saving \cup {"done"} /\ pc[r] # "idle"
    BY <1>1 DEF Saving
  <1>9. InTurn' /\ GivenFirst' /\ SaidInv' /\ OrderInv'
    BY <1>1, <1>6, <1>7, <1>8, CallReads
  <1>10. UserFirst'
    BY <1>1, <1>3 DEF Call, UserFirst, ReadInv, KeptInv, IInv, TypeOK
  <1>. QED BY <1>9, <1>10 DEF ReadingInv

LEMMA RunRaisesReads == ASSUME ReadInv, NEW r \in Run, RunRaises(r) PROVE ReadingInv'
  <1>1. /\ pc[r] \in {"graph", "result"} /\ UNCHANGED <<log, userSaved, overlapped>>
        /\ \/ ~userSaved[r] /\ Call(r, "errorUser", UserMessage(r, "error"), buffer)
           \/ userSaved[r] /\ Call(r, "error", Reply(r, "error"), buffer)
    BY DEF RunRaises, table
  <1>2. /\ UserMessage(r, "error") \in Message /\ UserMessage(r, "error").run = r
        /\ Stage(UserMessage(r, "error")) = 0
        /\ Reply(r, "error") \in Message /\ Reply(r, "error").run = r
        /\ Stage(Reply(r, "error")) = 2
    BY OwnFacts DEF UserMessage, Reply, Stage
  <1>3. /\ Level("graph") = 0 /\ Level("result") = 1
        /\ Level("errorUser") = 0 /\ Level("error") = 2
    BY DEF Level
  <1>4. ~userSaved[r] => pc[r] = "graph"
    BY <1>1 DEF ReadInv, UserFirst
  <1>5. Says(r, buffer)
    <2>1. CASE ~userSaved[r] /\ Call(r, "errorUser", UserMessage(r, "error"), buffer)
      BY <1>2, <1>3, <1>4, <2>1 DEF Says, Saving
    <2>2. CASE Call(r, "error", Reply(r, "error"), buffer)
      BY <1>1, <1>2, <1>3, <2>2 DEF Says, Saving
    <2>. QED BY <1>1, <2>1, <2>2
  <1>6. ~overlapped' => ~overlapped /\ \A q \in Run : q # r => pc[q] \in Idle
    BY <1>1 DEF ReadInv, KeptInv, AloneInv, Idle
  <1>7. pc[r] \notin Saving \cup {"done"} /\ pc[r] # "idle"
    BY <1>1 DEF Saving
  <1>8. InTurn' /\ GivenFirst' /\ SaidInv' /\ OrderInv'
    BY <1>1, <1>5, <1>6, <1>7, CallReads
  <1>9. UserFirst'
    BY <1>1 DEF Call, UserFirst, ReadInv, KeptInv, IInv, TypeOK
  <1>. QED BY <1>8, <1>9 DEF ReadingInv

\* A save that returns goes on to what is said next.
LEMMA ReturnSays ==
    ASSUME ReadInv, NEW r \in Run, NEW n, NEW left, Returns(r, n, left)
    PROVE  Says(r, left) /\ UserFirst'
  <1>1. TypeOK /\ UserFirst
    BY DEF ReadInv, KeptInv, IInv
  <1>2. CASE EarlyReturns(r, n, left)
    <2>1. /\ pc[r] = "early" /\ pc' = [pc EXCEPT ![r] = "graph"]
          /\ userSaved' = [userSaved EXCEPT ![r] = n > 0]
          /\ batch' = [batch EXCEPT ![r] = <<>>] /\ buffer' = left /\ given' = given
      BY <1>2 DEF EarlyReturns
    <2>2. Says(r, left)
      BY <2>1 DEF Says, Level
    <2>. QED BY <1>1, <2>1, <2>2 DEF UserFirst, TypeOK
  <1>3. CASE UserReturns(r, n, left)
    <2>1. \/ /\ pc[r] = "user" /\ userSaved' = [userSaved EXCEPT ![r] = TRUE]
             /\ Call(r, "assistant", Reply(r, GraphType(r)), left)
          \/ /\ pc[r] = "errorUser" /\ UNCHANGED userSaved
             /\ Call(r, "error", Reply(r, "error"), left)
      BY <1>3 DEF UserReturns
    <2>2. /\ Reply(r, GraphType(r)) \in Message /\ Reply(r, GraphType(r)).run = r
          /\ Stage(Reply(r, GraphType(r))) = 1
          /\ Reply(r, "error") \in Message /\ Reply(r, "error").run = r
          /\ Stage(Reply(r, "error")) = 2
      BY OwnFacts DEF Reply, Stage, GraphType
    <2>3. Level("user") = 0 /\ Level("errorUser") = 0 /\ Level("assistant") = 1 /\ Level("error") = 2
      BY DEF Level
    <2>4. Says(r, left)
      <3>1. CASE pc[r] = "user" /\ Call(r, "assistant", Reply(r, GraphType(r)), left)
        BY <2>2, <2>3, <3>1 DEF Says, Saving
      <3>2. CASE pc[r] = "errorUser" /\ Call(r, "error", Reply(r, "error"), left)
        BY <2>2, <2>3, <3>2 DEF Says, Saving
      <3>. QED BY <2>1, <3>1, <3>2
    <2>. QED BY <1>1, <2>1, <2>4 DEF Call, UserFirst, TypeOK
  <1>4. CASE ReplyReturns(r, n, left)
    <2>1. /\ \/ pc[r] = "assistant" /\ pc' = [pc EXCEPT ![r] = "result"]
             \/ pc[r] = "error" /\ pc' = [pc EXCEPT ![r] = "failed"]
          /\ batch' = [batch EXCEPT ![r] = <<>>] /\ buffer' = left
          /\ UNCHANGED <<userSaved, given>>
      <3>1. CASE pc[r] = "error"
        BY <1>4, <3>1 DEF ReplyReturns
      <3>2. CASE pc[r] = "assistant"
        BY <1>4, <3>2 DEF ReplyReturns
      <3>. QED BY <1>4, <3>1, <3>2 DEF ReplyReturns
    <2>2. Says(r, left)
      BY <2>1 DEF Says, Level
    <2>. QED BY <1>1, <2>1, <2>2 DEF UserFirst, TypeOK
  <1>. QED BY <1>2, <1>3, <1>4 DEF Returns

LEMMA SaveSucceedsReads == ASSUME ReadInv, NEW r \in Run, SaveSucceeds(r) PROVE ReadingInv'
  <1>1. /\ pc[r] \in Saving /\ Returns(r, lastSeq[r], buffer) /\ UNCHANGED <<log, overlapped>>
    BY DEF SaveSucceeds, table
  <1>2. Says(r, buffer) /\ UserFirst'
    BY <1>1, ReturnSays
  <1>3. ~overlapped' => ~overlapped /\ \A q \in Run : q # r => pc[q] \in Idle
    BY <1>1 DEF ReadInv, KeptInv, AloneInv, Idle, Saving
  <1>4. buffer \in Seq(Message) /\ log' \in Seq(Message)
    BY <1>1 DEF ReadInv, KeptInv, IInv, TypeOK
  <1>5. ~overlapped => /\ Ordered(log') /\ Ordered(buffer)
                       /\ Follows(Range(log'), Range(buffer))
    BY <1>1 DEF ReadInv, OrderInv
  <1>6. pc[r] # "done" /\ pc[r] # "idle"
    BY <1>1 DEF Saving
  <1>7. InTurn' /\ GivenFirst' /\ SaidInv' /\ OrderInv'
    BY <1>1, <1>2, <1>3, <1>4, <1>5, <1>6, SayKeeps
  <1>. QED BY <1>2, <1>7 DEF ReadingInv

\* The first message of a call that is written and then put back, its answer
\* lost, stands before what follows it and before itself.
LEMMA FirstWritten ==
    ASSUME NEW r \in Run, TypeOK, batch[r] # <<>>, Ordered(log), Ordered(batch[r]),
           Follows(Range(log), Range(batch[r]))
    PROVE  LET written == Append(log, Head(batch[r]))
           IN  /\ written \in Seq(Message) /\ Ordered(written)
               /\ Range(written) = Range(log) \cup {Head(batch[r])}
               /\ Follows(Range(written), Range(batch[r]))
               /\ Tail(batch[r]) \in Seq(Message) /\ Ordered(Tail(batch[r]))
               /\ Range(batch[r]) = {Head(batch[r])} \cup Range(Tail(batch[r]))
  <1>1. log \in Seq(Message) /\ batch[r] \in Seq(Message)
    BY DEF TypeOK
  <1>2. /\ Head(batch[r]) \in Message /\ Tail(batch[r]) \in Seq(Message)
        /\ Range(batch[r]) = {Head(batch[r])} \cup Range(Tail(batch[r]))
    BY <1>1, BatchFacts
  <1>3. Ordered(Tail(batch[r])) /\ \A x \in Range(Tail(batch[r])) : NotAfter(Head(batch[r]), x)
    BY <1>1, OrderedTail
  <1>4. \A x \in Range(log) : NotAfter(x, Head(batch[r]))
    BY <1>2 DEF Follows
  <1>5. Ordered(Append(log, Head(batch[r])))
    BY <1>1, <1>2, <1>4, OrderedAppend
  <1>6. Append(log, Head(batch[r])) \in Seq(Message)
        /\ Range(Append(log, Head(batch[r]))) = Range(log) \cup {Head(batch[r])}
    BY <1>1, <1>2, LogGrows, AppendRange
  <1>7. NotAfter(Head(batch[r]), Head(batch[r]))
    BY DEF NotAfter, Stage
  <1>8. Follows(Range(Append(log, Head(batch[r]))), Range(batch[r]))
    BY <1>2, <1>3, <1>6, <1>7 DEF Follows
  <1>. QED BY <1>2, <1>3, <1>5, <1>6, <1>8

LEMMA SaveFailsReads == ASSUME ReadInv, NEW r \in Run, SaveFails(r) PROVE ReadingInv'
  <1>. DEFINE left == Capped(Unsaved(batch[r]))
  <1>1. /\ pc[r] \in Saving /\ batch[r] # <<>>
        /\ log' = log \/ log' = Append(log, Head(batch[r]))
        /\ Returns(r, 0, left)
        /\ UNCHANGED overlapped
    BY DEF SaveFails, Unsaved
  <1>2. TypeOK /\ batch[r] \in Seq(Message) /\ log \in Seq(Message)
    BY DEF ReadInv, KeptInv, IInv, TypeOK
  <1>3. left \in Seq(Message) /\ (Ordered(batch[r]) => Ordered(left))
        /\ Range(left) \subseteq Range(batch[r])
    BY <1>2, CappedFacts, OrderedCapped DEF Unsaved
  <1>. HIDE DEF left
  <1>4. Says(r, left) /\ UserFirst'
    BY <1>1, ReturnSays
  <1>5. ~overlapped' => ~overlapped /\ \A q \in Run : q # r => pc[q] \in Idle
    BY <1>1 DEF ReadInv, KeptInv, AloneInv, Idle, Saving
  <1>6. Head(batch[r]) \in Message /\ Head(batch[r]) \in Range(batch[r])
    BY <1>1, <1>2, BatchFacts
  <1>7. log' \in Seq(Message) /\ Range(log') \subseteq Range(log) \cup Range(batch[r])
    <2>1. CASE log' = log
      BY <1>2, <2>1
    <2>2. CASE log' = Append(log, Head(batch[r]))
      BY <1>2, <1>6, <2>2, LogGrows, AppendRange
    <2>. QED BY <1>1, <2>1, <2>2
  <1>8. ~overlapped => Ordered(log') /\ Ordered(left) /\ Follows(Range(log'), Range(left))
    <2>1. SUFFICES ASSUME ~overlapped
                   PROVE  Ordered(log') /\ Ordered(left) /\ Follows(Range(log'), Range(left))
      OBVIOUS
    <2>2. /\ Ordered(log) /\ Ordered(batch[r]) /\ Follows(Range(log), Range(batch[r]))
      BY <2>1 DEF ReadInv, OrderInv
    <2>3. Ordered(log') /\ Follows(Range(log'), Range(batch[r]))
      BY <1>1, <1>2, <2>2, FirstWritten
    <2>. QED BY <1>3, <2>2, <2>3 DEF Follows
  <1>9. pc[r] # "done" /\ pc[r] # "idle"
    BY <1>1 DEF Saving
  <1>10. InTurn' /\ GivenFirst' /\ SaidInv' /\ OrderInv'
    BY <1>3, <1>4, <1>5, <1>7, <1>8, <1>9, SayKeeps
  <1>. QED BY <1>4, <1>10 DEF ReadingInv

LEMMA InsertReads == ASSUME ReadInv, NEW r \in Run, Insert(r) PROVE ReadingInv'
  <1>1. /\ pc[r] \in Saving /\ batch[r] # <<>>
        /\ log' = Append(log, Head(batch[r])) /\ batch' = [batch EXCEPT ![r] = Tail(@)]
        /\ UNCHANGED <<pc, buffer, userSaved, given, overlapped>>
    BY DEF Insert, history, local
  <1>2. TypeOK /\ batch \in [Run -> Seq(Message)] /\ log \in Seq(Message)
    BY DEF ReadInv, KeptInv, IInv, TypeOK
  <1>3. InTurn' /\ UserFirst' /\ GivenFirst'
    BY <1>1 DEF ReadInv, InTurn, UserFirst, GivenFirst
  <1>4. /\ Range(log') = Range(log) \cup {Head(batch[r])}
        /\ Range(batch[r]) = {Head(batch[r])} \cup Range(batch'[r])
        /\ \A q \in Run : q # r => batch'[q] = batch[q]
    BY <1>1, <1>2, BatchFacts, AppendRange
  <1>5. Said' \subseteq Said
    BY <1>1, <1>4 DEF Said
  <1>6. SaidInv'
    BY <1>1, <1>5 DEF ReadInv, SaidInv
  <1>7. OrderInv'
    <2>1. SUFFICES ASSUME ~overlapped PROVE OrderInv'
      BY <1>1 DEF OrderInv
    <2>2. /\ Ordered(log) /\ Ordered(batch[r]) /\ Follows(Range(log), Range(batch[r]))
      BY <2>1 DEF ReadInv, OrderInv
    <2>3. /\ Ordered(log') /\ Follows(Range(log'), Range(batch[r])) /\ Ordered(batch'[r])
      BY <1>1, <1>2, <2>2, FirstWritten
    <2>4. \A q \in Run : q # r => batch[q] = <<>>
      BY <1>1, <2>1 DEF ReadInv, KeptInv, AloneInv, BatchInv, Saving, Idle
    <2>5. buffer = <<>> /\ Ordered(<<>>) /\ Range(<<>>) = {}
      BY <1>1, <2>1 DEF ReadInv, KeptInv, BatchInv, Ordered, Range
    <2>. QED BY <1>1, <1>4, <2>3, <2>4, <2>5 DEF OrderInv, Follows
  <1>. QED BY <1>3, <1>6, <1>7 DEF ReadingInv

LEMMA ResultReads == ASSUME ReadInv, NEW r \in Run, Result(r) PROVE ReadingInv'
  <1>1. /\ pc' = [pc EXCEPT ![r] = "done"] /\ pc[r] \in {"result", "failed"}
        /\ UNCHANGED <<batch, buffer, log, userSaved, given, overlapped>>
        /\ pc \in [Run -> Saving \cup Idle \cup {"graph", "result", "failed"}]
    BY DEF Result, call, history, local, ReadInv, KeptInv, IInv, TypeOK
  <1>2. InTurn'
    <2>1. \A q \in Run : pc'[q] # "idle" => pc[q] # "idle"
      BY <1>1
    <2>2. \A q \in Run : pc[q] = "done" => pc'[q] = "done"
      BY <1>1
    <2>. QED BY <1>1, <2>1, <2>2 DEF ReadInv, InTurn
  <1>3. UserFirst' /\ GivenFirst'
    BY <1>1 DEF ReadInv, UserFirst, GivenFirst
  <1>4. SaidInv'
    <2>1. SUFFICES ASSUME NEW x \in Said PROVE pc'[x.run] # "idle" /\ Stage(x) <= Level(pc'[x.run])
      BY <1>1 DEF SaidInv, Said
    <2>2. pc[x.run] # "idle" /\ Stage(x) <= Level(pc[x.run])
      BY DEF ReadInv, SaidInv
    <2>3. Level("done") = 2 /\ Stage(x) \in 0..2
      BY DEF Level, Stage
    <2>. QED BY <1>1, <2>2, <2>3
  <1>5. OrderInv'
    BY <1>1 DEF ReadInv, OrderInv
  <1>. QED BY <1>2, <1>3, <1>4, <1>5 DEF ReadingInv

LEMMA StutterReads == ASSUME ReadInv, UNCHANGED vars PROVE ReadingInv'
  BY DEF ReadInv, ReadingInv, InTurn, UserFirst, GivenFirst, SaidInv, Said, OrderInv,
         vars, call, table, local, history

LEMMA InitialReads == Init => ReadingInv
  <1>. SUFFICES ASSUME Init PROVE ReadingInv
    OBVIOUS
  <1>1. Ordered(<<>>) /\ Range(<<>>) = {}
    BY DEF Ordered, Range
  <1>2. InTurn /\ UserFirst /\ GivenFirst
    BY DEF Init, InTurn, UserFirst, GivenFirst
  <1>3. SaidInv
    BY <1>1 DEF Init, SaidInv, Said
  <1>4. OrderInv
    BY <1>1 DEF Init, OrderInv, Follows
  <1>. QED BY <1>2, <1>3, <1>4 DEF ReadingInv

\* The invariant behind what is read back: a run says nothing before the runs
\* it follows are done, and nothing behind what it said.
THEOREM Reading == Spec => []ReadInv
  <1>1. Init => ReadingInv
    BY InitialReads
  <1>2. ReadInv /\ [Next]_vars => ReadingInv'
    BY StartReads, GraphEndsReads, RunRaisesReads, ResultReads, InsertReads, SaveSucceedsReads,
       SaveFailsReads, StutterReads DEF Next, Finished
  <1>3. KeptInv /\ ReadingInv => ReadInv
    BY DEF ReadInv, ReadingInv
  <1>4. ReadInv => ReadingInv
    BY DEF ReadInv, ReadingInv
  <1>. QED BY <1>1, <1>2, <1>3, <1>4, Keeping, PTL DEF Spec

-----------------------------------------------------------------------------
\* What the invariant says of the history and of restored turns.

LEMMA ReadInOrder == ASSUME ReadInv PROVE HistoryInOrder
  <1>. DEFINE all == log \o buffer
              rows == Len(log)
              wait == Len(buffer)
  <1>1. SUFFICES ASSUME ~overlapped PROVE Ordered(all)
    BY DEF HistoryInOrder
  <1>2. log \in Seq(Message) /\ buffer \in Seq(Message)
    BY DEF ReadInv, KeptInv, IInv, TypeOK
  <1>3. /\ rows \in Nat /\ wait \in Nat /\ DOMAIN all = 1..rows + wait
        /\ DOMAIN log = 1..rows /\ DOMAIN buffer = 1..wait
        /\ \A i \in 1..rows + wait : all[i] = IF i <= rows THEN log[i] ELSE buffer[i - rows]
    BY <1>2, ConcatProperties, LenProperties
  <1>4. Ordered(log) /\ Ordered(buffer) /\ Follows(Range(log), Range(buffer))
    BY <1>1 DEF ReadInv, OrderInv
  <1>. HIDE DEF all, rows, wait
  <1>5. SUFFICES ASSUME NEW i \in DOMAIN all, NEW j \in DOMAIN all, i < j
                 PROVE  NotAfter(all[i], all[j])
    BY DEF Ordered, all
  <1>6. CASE j <= rows
    <2>1. i \in DOMAIN log /\ j \in DOMAIN log /\ all[i] = log[i] /\ all[j] = log[j]
      BY <1>3, <1>5, <1>6
    <2>. QED BY <1>4, <1>5, <2>1 DEF Ordered
  <1>7. CASE i <= rows /\ ~(j <= rows)
    <2>1. i \in DOMAIN log /\ j - rows \in DOMAIN buffer
          /\ all[i] = log[i] /\ all[j] = buffer[j - rows]
      BY <1>3, <1>5, <1>7
    <2>2. all[i] \in Range(log) /\ all[j] \in Range(buffer)
      BY <2>1 DEF Range
    <2>. QED BY <1>4, <2>2 DEF Follows
  <1>8. CASE ~(i <= rows)
    <2>1. /\ i - rows \in DOMAIN buffer /\ j - rows \in DOMAIN buffer /\ i - rows < j - rows
          /\ all[i] = buffer[i - rows] /\ all[j] = buffer[j - rows]
      BY <1>3, <1>5, <1>8
    <2>. QED BY <1>4, <2>1 DEF Ordered
  <1>9. \/ j <= rows \/ (i <= rows /\ ~(j <= rows)) \/ ~(i <= rows)
    OBVIOUS
  <1>. QED BY <1>6, <1>7, <1>8, <1>9

\* Every set of natural numbers that is not empty has a least member.
LEMMA LeastOfNat == ASSUME NEW S \in SUBSET Nat, S # {} PROVE \E n \in S : \A m \in S : n <= m
  <1>1. PICK n \in S : \A m \in S : <<m, n>> \notin OpToRel(<, Nat)
    BY NatLessThanWellFounded, WFMin, Zenon
  <1>2. \A m \in S : <<m, n>> \notin {p \in Nat \X Nat : p[1] < p[2]}
    BY <1>1, Zenon DEF OpToRel
  <1>3. ASSUME NEW m \in S PROVE ~(m < n)
    <2>1. <<m, n>> \in Nat \X Nat /\ <<m, n>>[1] = m /\ <<m, n>>[2] = n
      OBVIOUS
    <2>2. <<m, n>>[1] < <<m, n>>[2] => <<m, n>> \in {p \in Nat \X Nat : p[1] < p[2]}
      BY <2>1, Zenon
    <2>. QED BY <1>2, <2>1, <2>2, Zenon
  <1>. QED BY <1>3

\* There is a last row of a user before row n when there is one at all.
LEMMA LastUserRow ==
    ASSUME NEW n \in Nat, NEW i \in UserRows(n)
    PROVE  UserRowOf(n) \in UserRows(n) /\ i <= UserRowOf(n)
  <1>1. UserRows(n) \subseteq 1..(n - 1)
    BY DEF UserRows
  <1>. DEFINE gaps == {n - j : j \in UserRows(n)}
  <1>2. gaps \in SUBSET Nat /\ n - i \in gaps
    BY <1>1
  <1>3. PICK g \in gaps : \A m \in gaps : g <= m
    BY <1>2, LeastOfNat
  <1>4. PICK k \in UserRows(n) : g = n - k
    BY <1>3
  <1>5. \A j \in UserRows(n) : j <= k
    <2>1. TAKE j \in UserRows(n)
    <2>2. n - k <= n - j
      BY <1>3, <1>4
    <2>. QED BY <1>1, <2>2
  <1>6. /\ UserRowOf(n) \in UserRows(n)
        /\ \A j \in UserRows(n) : j <= UserRowOf(n)
    BY <1>5 DEF UserRowOf
  <1>. QED BY <1>6

LEMMA ReadWithQuestion == ASSUME ReadInv PROVE RestoredTurnHasItsQuestion
  <1>1. SUFFICES ASSUME ~overlapped, dropped = {}, NEW n \in DOMAIN log,
                        log[n].role = "assistant", log[n].type = "normal"
                 PROVE  UserRows(n) # {} /\ log[UserRowOf(n)].run = log[n].run
    BY DEF RestoredTurnHasItsQuestion
  <1>. DEFINE q == log[n].run
              u == UserMessage(q, "normal")
  <1>2. /\ log \in Seq(Message) /\ DOMAIN log = 1..Len(log) /\ Len(log) \in Nat
        /\ \A i \in DOMAIN log : log[i] \in Message /\ log[i] \in Range(log)
    <2>1. log \in Seq(Message)
      BY DEF ReadInv, KeptInv, IInv, TypeOK
    <2>2. DOMAIN log = 1..Len(log) /\ \A i \in 1..Len(log) : log[i] \in Message
      BY <2>1, LenProperties, ElementOfSeq
    <2>. QED BY <2>1, <2>2, LenProperties DEF Range
  <1>3. q \in Run /\ Runs \in Nat
    BY <1>2, StoreAssumption DEF Message
  <1>4. u.run = q /\ u.role = "user" /\ u.type = "normal" /\ Stage(u) = 0 /\ Stage(log[n]) = 1
    BY <1>1 DEF UserMessage, Stage
  <1>. HIDE DEF q, u
  <1>5. ~NotAfter(log[n], u)
    BY <1>3, <1>4 DEF NotAfter, Run, q
  <1>6. Ordered(log)
    BY <1>1 DEF ReadInv, OrderInv
  <1>7. PICK i \in DOMAIN log : log[i] = u
    <2>1. pc[q] # "idle"
      BY <1>2 DEF ReadInv, SaidInv, Said, q
    <2>2. u \in Held
      BY <1>1, <1>3, <2>1 DEF ReadInv, KeptInv, HeldInv, GivenFirst, u
    <2>3. u \notin Range(buffer) /\ \A r \in Run : u \notin Range(batch[r])
      BY <1>1, <1>2, <1>5 DEF ReadInv, OrderInv, Follows
    <2>4. u \in Range(log)
      BY <1>1, <2>2, <2>3 DEF Held
    <2>. QED BY <2>4 DEF Range
  <1>8. i < n
    <2>1. CASE i = n
      BY <1>1, <1>4, <1>7, <2>1
    <2>2. CASE n < i
      BY <1>5, <1>6, <1>7, <2>2 DEF Ordered
    <2>. QED BY <1>2, <2>1, <2>2
  <1>9. i \in UserRows(n) /\ n \in Nat
    BY <1>2, <1>4, <1>7, <1>8 DEF UserRows
  <1>. DEFINE k == UserRowOf(n)
  <1>10. k \in UserRows(n) /\ i <= k
    BY <1>9, LastUserRow
  <1>11. k \in DOMAIN log /\ k < n
    BY <1>2, <1>10 DEF UserRows
  <1>12. log[k].run \in Run
    BY <1>2, <1>11 DEF Message
  <1>. HIDE DEF k
  <1>13. ~(log[k].run < q)
    <2>1. CASE i = k
      BY <1>3, <1>4, <1>7, <2>1 DEF Run
    <2>2. CASE i < k
      <3>1. NotAfter(u, log[k])
        BY <1>6, <1>7, <1>11, <2>2 DEF Ordered
      <3>. QED BY <1>3, <1>4, <1>12, <3>1 DEF NotAfter, Run
    <2>. QED BY <1>2, <1>10, <1>11, <2>1, <2>2
  <1>14. ~(q < log[k].run)
    <2>1. NotAfter(log[k], log[n])
      BY <1>6, <1>11 DEF Ordered
    <2>. QED BY <1>3, <1>12, <2>1 DEF NotAfter, Run, q
  <1>15. log[k].run = q
    BY <1>3, <1>12, <1>13, <1>14 DEF Run
  <1>. QED BY <1>9, <1>15 DEF k, q

\* While runs do not overlap, the conversation read back by seq, with what
\* still waits behind it, is in the order in which it took place, and a turn
\* restored from the table is joined to the question it answered, whatever
\* saves failed and were retried.
THEOREM HistoryReads == Spec => []HistoryIsRead
  <1>1. ReadInv => HistoryIsRead
    BY ReadInOrder, ReadWithQuestion DEF HistoryIsRead
  <1>. QED BY <1>1, Reading, PTL

=============================================================================
