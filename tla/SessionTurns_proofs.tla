------------------------ MODULE SessionTurns_proofs ------------------------
(***************************************************************************)
(* The register of active runs, the scope of a cancel request and the      *)
(* choice between resuming and starting a turn, for any number of messages *)
(* and for both kinds of stores.                                           *)
(***************************************************************************)
EXTENDS SessionTurns, TLAPS

Calm == ~overlapped /\ ~storeFailed /\ ~flagDropped /\ ~broken

\* Messages are numbered in the order of their arrival.
OrderInv == \A q, r \in Run : q < r /\ pc[q] = "idle" => pc[r] = "idle"

\* A thread that is not at its end belongs to a turn, and so does every run in
\* the graph.
TurnInv ==
    /\ checkpoint.next # "end" => checkpoint.turn # None
    /\ \A r \in Run : pc[r] = "graph" => turnOf[r] # None

\* What the user did is recorded only for runs past the pop.
HitInv == \A r \in Run : pc[r] \in {"idle", "marked"} => ~hit[r]

\* A flag that is up was raised after every pop, and it stays up.
FlagInv ==
    /\ ~storeFailed /\ flag # {} => \A r \in Run : PastPop(r) => hit[r]
    /\ Calm => \A r \in Run : PastPop(r) /\ hit[r] => flag # {}

AloneInv ==
    ~overlapped => \A q, r \in Run : InProgress(q) /\ InProgress(r) => q = r

\* The thread between messages: it is at a node only while a run works on it;
\* an open question is where it waits; a question that is not open any more is
\* withdrawn by a flag, unless a run has just taken it.
ThreadIsSettled ==
    /\ checkpoint.next = "node" => \E r \in Run : pc[r] = "graph"
    /\ \A r \in Run : pc[r] = "graph" => checkpoint.next = "node" /\ open = None
    /\ open # None => checkpoint.turn = open /\ checkpoint.next = "ask" /\ flag = {}
    /\ (checkpoint.next = "ask" /\ open = None /\ \A r \in Run : ~PastPop(r))
           => flag # {}

ThreadInv == Calm => ThreadIsSettled

\* A run between the pop and the graph.
DecisionIsRight(r) ==
    /\ intent[r] # None => /\ checkpoint.turn = intent[r]
                           /\ checkpoint.next = "ask"
                           /\ ~popped[r]
    /\ intent[r] = None => checkpoint.next = "end" \/ popped[r]
    /\ open # intent[r] => hit[r]
    /\ pc[r] = "checked" => (resume[r] <=> checkpoint.next # "end" /\ ~popped[r])

DecisionInv ==
    Calm => \A r \in Run : pc[r] \in {"popped", "checked"} => DecisionIsRight(r)

IInv == /\ TypeOK /\ NewestRunIsActive /\ NoGhostIsActive /\ EarlierCancelSparesRun
        /\ OrderInv /\ TurnInv /\ HitInv /\ FlagInv /\ AloneInv
        /\ ThreadInv /\ DecisionInv

\* Runs are positive, None is no run.
LEMMA RunFacts == Run \subseteq Nat /\ None \notin Run /\ None \in Nat
BY SessionAssumption DEF Run, None

-----------------------------------------------------------------------------
\* The initial states satisfy the invariant: no run, no flag, an empty thread.
LEMMA InitialState == Init => IInv
  <1>. SUFFICES ASSUME Init PROVE IInv
    OBVIOUS
  <1>. USE RunFacts DEF Init, InProgress, Over, PastPop, NoThread
  <1>1. TypeOK
    BY DEF TypeOK
  <1>2. NewestRunIsActive /\ NoGhostIsActive /\ EarlierCancelSparesRun
    BY DEF NewestRunIsActive, NoGhostIsActive, EarlierCancelSparesRun
  <1>3. OrderInv /\ TurnInv /\ HitInv /\ FlagInv /\ AloneInv
    BY DEF OrderInv, TurnInv, HitInv, FlagInv, AloneInv
  <1>4. ThreadInv /\ DecisionInv
    BY DEF ThreadInv, DecisionInv, ThreadIsSettled, DecisionIsRight
  <1>. QED BY <1>1, <1>2, <1>3, <1>4 DEF IInv

-----------------------------------------------------------------------------
\* The type invariant is kept by every step.
LEMMA TypeStep == TypeOK /\ [Next]_vars => TypeOK'
  <1>. SUFFICES ASSUME TypeOK, [Next]_vars PROVE TypeOK'
    OBVIOUS
  <1>. USE RunFacts DEF TypeOK, Goto, Over, Call, Outcomes, Thread, Forget, Decided,
          run, stores, views, mishaps
  <1>1. ASSUME NEW r \in Run, MarkActive(r) PROVE TypeOK'
    BY <1>1, SessionAssumption DEF MarkActive
  <1>2. ASSUME NEW r \in Run, PrepareInput(r) PROVE TypeOK'
    <2>. PICK ok \in Outcomes, accepted \in BOOLEAN :
            /\ popped' = [popped EXCEPT ![r] = ok /\ flag # {}]
            /\ flag' = IF ok THEN AfterPop(flag) ELSE flag
            /\ Call(ok)
            /\ Goto(r, IF accepted THEN "popped" ELSE "leaving")
            /\ flagDropped' = (flagDropped \/ (~accepted /\ popped'[r]))
      BY <1>2 DEF PrepareInput
    <2>1. flag' \subseteq Run
      BY DEF AfterPop
    <2>2. popped' \in [Run -> BOOLEAN]
      OBVIOUS
    <2>3. flagDropped' \in BOOLEAN
      OBVIOUS
    <2>4. pc' \in [Run -> Over \cup {"marked", "popped", "checked", "graph", "leaving"}]
      OBVIOUS
    <2>5. storeFailed' \in BOOLEAN
      BY SessionAssumption
    <2>6. intent' \in [Run -> Run \cup {None}]
      BY <1>2 DEF PrepareInput
    <2>7. UNCHANGED <<resume, turnOf, stopped, active, checkpoint, open, hit,
                      overlapped, broken>>
      BY <1>2 DEF PrepareInput
    <2>. QED BY <2>1, <2>2, <2>3, <2>4, <2>5, <2>6, <2>7
  <1>3. ASSUME NEW r \in Run, CheckInterrupt(r) PROVE TypeOK'
    BY <1>3 DEF CheckInterrupt, InterruptPending
  <1>4. ASSUME NEW r \in Run, StartTurn(r) PROVE TypeOK'
    BY <1>4 DEF StartTurn
  <1>5. ASSUME NEW r \in Run, ResumeTurn(r) PROVE TypeOK'
    BY <1>5 DEF ResumeTurn
  <1>6. ASSUME NEW r \in Run, NodeIsCancelled(r) PROVE TypeOK'
    BY <1>6 DEF NodeIsCancelled
  <1>7. ASSUME NEW r \in Run, NodeRuns(r) PROVE TypeOK'
    BY <1>7 DEF NodeRuns
  <1>8. ASSUME NEW r \in Run, TurnEnds(r) PROVE TypeOK'
    BY <1>8 DEF TurnEnds
  <1>9. ASSUME NEW r \in Run, TurnAsks(r) PROVE TypeOK'
    BY <1>9 DEF TurnAsks
  <1>10. ASSUME NEW r \in Run, NodeRaises(r) PROVE TypeOK'
    BY <1>10 DEF NodeRaises
  <1>11. ASSUME NEW r \in Run, ClearActive(r) PROVE TypeOK'
    BY <1>11, SessionAssumption DEF ClearActive, Unregistered, ClearedBy
  <1>12. CASE Cancel
    BY <1>12 DEF Cancel
  <1>13. CASE FlagExpires
    BY <1>13 DEF FlagExpires
  <1>14. CASE ActiveExpires
    BY <1>14 DEF ActiveExpires
  <1>15. CASE Crash
    <2>1. pc' \in [Run -> Over \cup {"marked", "popped", "checked", "graph", "leaving"}]
      BY <1>15 DEF Crash
    <2>2. flag' \subseteq Run /\ active' \in Run \cup {None}
      BY <1>15 DEF Crash
    <2>3. checkpoint' \in [turn : Run \cup {None}, next : {"end", "ask", "node"}]
      BY <1>15 DEF Crash, NoThread
    <2>4. /\ popped' \in [Run -> BOOLEAN] /\ resume' \in [Run -> BOOLEAN]
          /\ stopped' \in [Run -> BOOLEAN] /\ hit' \in [Run -> BOOLEAN]
      BY <1>15 DEF Crash
    <2>5. turnOf' \in [Run -> Run \cup {None}] /\ intent' \in [Run -> Run \cup {None}]
      BY <1>15 DEF Crash
    <2>6. broken' /\ UNCHANGED <<open, overlapped, storeFailed, flagDropped>>
      BY <1>15 DEF Crash
    <2>. QED BY <2>1, <2>2, <2>3, <2>4, <2>5, <2>6
  <1>16. CASE UNCHANGED vars
    BY <1>16 DEF vars
  <1>. QED BY <1>1, <1>2, <1>3, <1>4, <1>5, <1>6, <1>7, <1>8, <1>9,
              <1>10, <1>11, <1>12, <1>13, <1>14, <1>15, <1>16 DEF Next, RunStep

-----------------------------------------------------------------------------
\* Messages start in their order, and a run that starts during another is
\* recorded as overlapping.
LEMMA OrderStep == TypeOK /\ OrderInv /\ AloneInv /\ [Next]_vars => OrderInv' /\ AloneInv'
  <1>. SUFFICES ASSUME TypeOK, OrderInv, AloneInv, [Next]_vars
                PROVE  OrderInv' /\ AloneInv'
    OBVIOUS
  <1>. USE RunFacts DEF TypeOK, OrderInv, AloneInv, InProgress, Over, Goto
  <1>1. ASSUME NEW r \in Run, MarkActive(r) PROVE OrderInv' /\ AloneInv'
    <2>1. OrderInv'
      BY <1>1 DEF MarkActive
    <2>2. overlapped' = (overlapped \/ \E q \in Run : InProgress(q))
      BY <1>1 DEF MarkActive
    <2>3. AloneInv'
      BY <1>1, <2>2 DEF MarkActive
    <2>. QED BY <2>1, <2>3
  <1>2. ASSUME NEW r \in Run, pc[r] \notin Over, NEW place, place # "idle", Goto(r, place),
               UNCHANGED overlapped
        PROVE  OrderInv' /\ AloneInv'
    BY <1>2
  <1>3. ASSUME UNCHANGED <<pc, overlapped>> PROVE OrderInv' /\ AloneInv'
    BY <1>3
  <1>4. CASE Crash
    <2>1. /\ pc' = [r \in Run |-> IF InProgress(r) THEN "dead" ELSE pc[r]]
          /\ UNCHANGED overlapped
      BY <1>4 DEF Crash
    <2>. QED BY <2>1
  <1>5. ASSUME NEW r \in Run, PrepareInput(r) \/ CheckInterrupt(r)
        PROVE  OrderInv' /\ AloneInv'
    BY <1>2, <1>5 DEF PrepareInput, CheckInterrupt
  <1>6. ASSUME NEW r \in Run, StartTurn(r) \/ ResumeTurn(r) PROVE OrderInv' /\ AloneInv'
    BY <1>2, <1>6 DEF StartTurn, ResumeTurn, mishaps
  <1>7. ASSUME NEW r \in Run, NodeIsCancelled(r) \/ TurnEnds(r) \/ TurnAsks(r) \/ NodeRaises(r)
        PROVE  OrderInv' /\ AloneInv'
    BY <1>2, <1>7 DEF NodeIsCancelled, TurnEnds, TurnAsks, NodeRaises, mishaps
  <1>8. ASSUME NEW r \in Run, ClearActive(r) PROVE OrderInv' /\ AloneInv'
    BY <1>2, <1>8 DEF ClearActive
  <1>9. ASSUME NEW r \in Run, NodeRuns(r) PROVE OrderInv' /\ AloneInv'
    BY <1>3, <1>9 DEF NodeRuns, mishaps
  <1>10. CASE Cancel \/ FlagExpires \/ ActiveExpires \/ UNCHANGED vars
    BY <1>3, <1>10 DEF Cancel, FlagExpires, ActiveExpires, vars, mishaps
  <1>. QED BY <1>1, <1>4, <1>5, <1>6, <1>7, <1>8, <1>9, <1>10 DEF Next, RunStep

-----------------------------------------------------------------------------
\* The register: a run enters it as the newest one and takes only itself out.
LEMMA RegisterStep ==
    TypeOK /\ OrderInv /\ NewestRunIsActive /\ NoGhostIsActive /\ [Next]_vars
        => NewestRunIsActive' /\ NoGhostIsActive'
  <1>. SUFFICES ASSUME TypeOK, OrderInv, NewestRunIsActive, NoGhostIsActive, [Next]_vars
                PROVE  NewestRunIsActive' /\ NoGhostIsActive'
    OBVIOUS
  <1>. DEFINE Goal == NewestRunIsActive' /\ NoGhostIsActive'
  <1>. USE RunFacts DEF TypeOK, OrderInv, NewestRunIsActive, NoGhostIsActive, InProgress,
          Over, Goto
  <1>1. ASSUME NEW r \in Run, MarkActive(r) PROVE Goal
    <2>1. /\ pc[r] = "idle"
          /\ \A q \in Run : q < r => pc[q] # "idle"
          /\ pc' = [pc EXCEPT ![r] = "marked"]
      BY <1>1 DEF MarkActive
    <2>2. ~storeFailed' => ~storeFailed /\ active' = r
      BY <1>1 DEF MarkActive, Call
    <2>3. ASSUME NEW q \in Run, pc[q] # "idle", q > r PROVE FALSE
      BY <2>1, <2>3
    <2>. QED BY <2>1, <2>2, <2>3
  <1>2. ASSUME NEW r \in Run, pc[r] \notin Over, NEW place,
               place \in {"popped", "checked", "graph", "leaving"}, Goto(r, place),
               UNCHANGED active, storeFailed => storeFailed'
        PROVE  Goal
    BY <1>2
  <1>3. ASSUME UNCHANGED <<pc, active, storeFailed>> PROVE Goal
    BY <1>3
  <1>4. ASSUME NEW r \in Run, PrepareInput(r) PROVE Goal
    <2>. PICK place \in {"popped", "leaving"} : Goto(r, place)
      BY <1>4 DEF PrepareInput
    <2>. QED BY <1>2, <1>4 DEF PrepareInput, Call
  <1>5. ASSUME NEW r \in Run, CheckInterrupt(r) PROVE Goal
    BY <1>2, <1>5 DEF CheckInterrupt, stores
  <1>6. ASSUME NEW r \in Run, StartTurn(r) \/ ResumeTurn(r) PROVE Goal
    BY <1>2, <1>6 DEF StartTurn, ResumeTurn, mishaps
  <1>7. ASSUME NEW r \in Run, NodeIsCancelled(r) \/ TurnEnds(r) \/ TurnAsks(r) \/ NodeRaises(r)
        PROVE  Goal
    BY <1>2, <1>7 DEF NodeIsCancelled, TurnEnds, TurnAsks, NodeRaises, mishaps, stores
  <1>8. ASSUME NEW r \in Run, ClearActive(r) PROVE Goal
    <2>1. pc[r] = "leaving" /\ pc' = [pc EXCEPT ![r] = "done"]
      BY <1>8 DEF ClearActive
    <2>2. ~storeFailed' => ~storeFailed /\ active' = ClearedBy(r)
      BY <1>8 DEF ClearActive, Call, Unregistered
    <2>. QED BY <2>1, <2>2 DEF ClearedBy
  <1>9. ASSUME NEW r \in Run, NodeRuns(r) PROVE Goal
    BY <1>3, <1>9 DEF NodeRuns, mishaps
  <1>10. CASE Cancel \/ UNCHANGED vars
    BY <1>3, <1>10 DEF Cancel, vars, mishaps, stores
  <1>11. CASE FlagExpires \/ ActiveExpires
    BY <1>11 DEF FlagExpires, ActiveExpires
  <1>12. CASE Crash
    <2>1. /\ pc' = [r \in Run |-> IF InProgress(r) THEN "dead" ELSE pc[r]]
          /\ active' \in {active, None} /\ UNCHANGED storeFailed
      BY <1>12 DEF Crash, stores
    <2>. QED BY <2>1
  <1>. QED BY <1>1, <1>4, <1>5, <1>6, <1>7, <1>8, <1>9, <1>10, <1>11, <1>12
           DEF Next, RunStep

-----------------------------------------------------------------------------
\* Who a cancel request reaches: a flag stands only before the pop of every run
\* that has not been hit, and the turns of the thread have a number.
LEMMA ScopeStep ==
    TypeOK /\ TurnInv /\ HitInv /\ FlagInv /\ AloneInv /\ EarlierCancelSparesRun /\ [Next]_vars
        => TurnInv' /\ HitInv' /\ FlagInv' /\ EarlierCancelSparesRun'
  <1>. SUFFICES ASSUME TypeOK, TurnInv, HitInv, FlagInv, AloneInv,
                       EarlierCancelSparesRun, [Next]_vars
                PROVE  TurnInv' /\ HitInv' /\ FlagInv' /\ EarlierCancelSparesRun'
    OBVIOUS
  <1>. DEFINE Goal == TurnInv' /\ HitInv' /\ FlagInv' /\ EarlierCancelSparesRun'
  <1>. USE RunFacts DEF TypeOK, TurnInv, HitInv, FlagInv, EarlierCancelSparesRun,
          Calm, PastPop, Goto
  <1>1. ASSUME NEW r \in Run, MarkActive(r) PROVE Goal
    <2>1. /\ pc'[r] = "marked" /\ \A q \in Run : q # r => pc'[q] = pc[q]
          /\ pc[r] = "idle"
          /\ storeFailed => storeFailed'
          /\ overlapped => overlapped'
          /\ UNCHANGED <<turnOf, stopped, flag, checkpoint, hit, flagDropped, broken>>
      BY <1>1 DEF MarkActive, Call, run, views
    <2>2. TurnInv' /\ HitInv'
      BY <2>1
    <2>3. FlagInv' /\ EarlierCancelSparesRun'
      BY <2>1
    <2>. QED BY <2>2, <2>3
  <1>2. ASSUME NEW r \in Run, PrepareInput(r) PROVE Goal
    <2>1. /\ pc'[r] \in {"popped", "leaving"}
          /\ \A q \in Run : q # r => pc'[q] = pc[q]
      BY <1>2 DEF PrepareInput
    <2>2. /\ pc[r] = "marked"
          /\ storeFailed => storeFailed'
          /\ ~storeFailed' => flag' = {}
          /\ UNCHANGED <<turnOf, stopped, checkpoint, hit, overlapped, broken>>
      BY <1>2 DEF PrepareInput, Call, AfterPop
    <2>3. flagDropped => flagDropped'
      BY <1>2 DEF PrepareInput
    <2>4. TurnInv' /\ EarlierCancelSparesRun'
      BY <2>1, <2>2
    <2>5. HitInv'
      BY <2>1, <2>2
    <2>6. ASSUME Calm', NEW q \in Run, PastPop(q)' PROVE ~hit'[q]
      <3>1. CASE q = r
        BY <2>2, <3>1
      <3>2. CASE q # r
        BY <2>1, <2>2, <2>6, <3>2 DEF AloneInv, InProgress, Over
      <3>. QED BY <3>1, <3>2
    <2>. QED BY <2>2, <2>4, <2>5, <2>6
  <1>3. ASSUME NEW r \in Run, pc[r] \in {"popped", "checked", "graph"},
               NEW place, place \in {"checked", "leaving"}, Goto(r, place),
               UNCHANGED <<turnOf, stopped, flag, checkpoint, hit, overlapped, storeFailed>>,
               flagDropped => flagDropped', broken => broken'
        PROVE  Goal
    BY <1>3
  <1>4. ASSUME NEW r \in Run, CheckInterrupt(r) \/ NodeRaises(r) PROVE Goal
    BY <1>3, <1>4 DEF CheckInterrupt, NodeRaises, run, stores, views
  <1>5. ASSUME NEW r \in Run, StartTurn(r) PROVE Goal
    BY <1>5 DEF StartTurn, mishaps
  <1>6. ASSUME NEW r \in Run, ResumeTurn(r) PROVE Goal
    BY <1>6 DEF ResumeTurn, mishaps
  <1>7. ASSUME NEW r \in Run, NodeIsCancelled(r) PROVE Goal
    BY <1>7 DEF NodeIsCancelled, Cancelled, Thread, mishaps, views
  <1>8. ASSUME NEW r \in Run, NodeRuns(r) PROVE Goal
    BY <1>8 DEF NodeRuns, Thread, run, views, mishaps
  <1>9. ASSUME NEW r \in Run, TurnEnds(r) PROVE Goal
    BY <1>9 DEF TurnEnds, Thread, run, views, mishaps
  <1>10. ASSUME NEW r \in Run, TurnAsks(r) PROVE Goal
    BY <1>10 DEF TurnAsks, Thread, run, mishaps
  <1>11. ASSUME NEW r \in Run, ClearActive(r) PROVE Goal
    <2>1. /\ pc[r] = "leaving" /\ pc' = [pc EXCEPT ![r] = "done"]
          /\ storeFailed => storeFailed'
          /\ UNCHANGED <<flag, checkpoint, overlapped, flagDropped, broken>>
      BY <1>11 DEF ClearActive, Call
    <2>2. /\ \A q \in Run : q # r => turnOf'[q] = turnOf[q] /\ hit'[q] = hit[q]
                                     /\ stopped'[q] = stopped[q]
          /\ ~hit'[r] /\ ~stopped'[r]
      BY <1>11 DEF ClearActive, Forget
    <2>. QED BY <2>1, <2>2
  <1>12. CASE Cancel
    <2>1. /\ \A r \in Run : flag' # {}
          /\ hit' = [r \in Run |-> hit[r] \/ PastPop(r)]
          /\ UNCHANGED <<pc, run, active, checkpoint, intent, mishaps>>
      BY <1>12 DEF Cancel
    <2>. QED BY <2>1 DEF run, mishaps
  <1>13. CASE FlagExpires \/ ActiveExpires
    BY <1>13 DEF FlagExpires, ActiveExpires, run, views
  <1>14. CASE Crash
    <2>1. /\ pc' = [r \in Run |-> IF InProgress(r) THEN "dead" ELSE pc[r]]
          /\ broken' /\ UNCHANGED storeFailed
          /\ checkpoint' = checkpoint \/ checkpoint' = NoThread
      BY <1>14 DEF Crash, stores
    <2>2. \A q \in Run : (stopped'[q] => stopped[q] /\ ~InProgress(q))
                       /\ hit'[q] = (hit[q] /\ ~InProgress(q))
      BY <1>14 DEF Crash, Forget
    <2>. QED BY <2>1, <2>2 DEF InProgress, Over, NoThread
  <1>15. CASE UNCHANGED vars
    BY <1>15 DEF vars, run, stores, views, mishaps
  <1>. QED BY <1>1, <1>2, <1>4, <1>5, <1>6, <1>7, <1>8, <1>9, <1>10, <1>11, <1>12, <1>13,
              <1>14, <1>15 DEF Next, RunStep

-----------------------------------------------------------------------------
\* A step of a session in which nothing went wrong follows such a state, and no
\* run but the one that moves is in progress.
LEMMA CalmBefore ==
    TypeOK /\ [Next]_vars /\ Calm' => Calm
  <1>. SUFFICES ASSUME TypeOK, [Next]_vars, Calm' PROVE Calm
    OBVIOUS
  <1>. USE DEF Calm, TypeOK, Call, mishaps
  <1>1. ASSUME NEW r \in Run, MarkActive(r) \/ PrepareInput(r) PROVE Calm
    BY <1>1 DEF MarkActive, PrepareInput
  <1>2. ASSUME NEW r \in Run, CheckInterrupt(r) \/ NodeRaises(r) PROVE Calm
    BY <1>2 DEF CheckInterrupt, NodeRaises
  <1>3. ASSUME NEW r \in Run, StartTurn(r) \/ ResumeTurn(r) PROVE Calm
    BY <1>3 DEF StartTurn, ResumeTurn
  <1>4. ASSUME NEW r \in Run,
               NodeIsCancelled(r) \/ NodeRuns(r) \/ TurnEnds(r) \/ TurnAsks(r)
        PROVE  Calm
    BY <1>4 DEF NodeIsCancelled, NodeRuns, TurnEnds, TurnAsks
  <1>5. ASSUME NEW r \in Run, ClearActive(r) PROVE Calm
    BY <1>5 DEF ClearActive
  <1>6. CASE Cancel \/ FlagExpires \/ ActiveExpires \/ Crash \/ UNCHANGED vars
    BY <1>6 DEF Cancel, FlagExpires, ActiveExpires, Crash, vars
  <1>. QED BY <1>1, <1>2, <1>3, <1>4, <1>5, <1>6 DEF Next, RunStep

LEMMA OnlyOneMoves ==
    ASSUME TypeOK, AloneInv, Calm, NEW r \in Run, InProgress(r)
    PROVE  \A q \in Run : q # r => pc[q] \in Over
  BY DEF AloneInv, Calm, InProgress

\* What the thread is at and what the runs make of it stay right.
LEMMA SettledStep ==
    IInv /\ [Next]_vars => ThreadInv' /\ DecisionInv'
  <1>. DEFINE Settled == /\ ThreadIsSettled
                         /\ \A q \in Run : pc[q] \in {"popped", "checked"} => DecisionIsRight(q)
              Goal == Settled'
  <1>. SUFFICES ASSUME IInv, [Next]_vars, Calm' PROVE Goal
    BY DEF ThreadInv, DecisionInv
  <1>. TypeOK /\ TurnInv /\ HitInv /\ FlagInv /\ AloneInv /\ Settled /\ Calm
    BY CalmBefore DEF IInv, ThreadInv, DecisionInv
  <1>. ~storeFailed /\ ~flagDropped' /\ ~broken' /\ ~overlapped' /\ ~storeFailed'
    BY DEF Calm
  <1>. USE RunFacts DEF TypeOK, TurnInv, HitInv, FlagInv, Goto, PastPop, Over,
          ThreadIsSettled, DecisionIsRight
  <1>1. ASSUME NEW r \in Run, MarkActive(r) PROVE Goal
    <2>1. \A q \in Run : pc[q] \in Over
      BY <1>1 DEF MarkActive, InProgress
    <2>2. /\ pc'[r] = "marked"
          /\ \A q \in Run : q # r => pc'[q] = pc[q]
          /\ UNCHANGED <<checkpoint, flag, open>>
      BY <1>1 DEF MarkActive, views
    <2>. QED BY <2>1, <2>2
  <1>2. ASSUME NEW r \in Run, PrepareInput(r) PROVE Goal
    <2>1. /\ pc[r] = "marked" /\ pc'[r] \in {"popped", "leaving"}
          /\ \A q \in Run : q # r => pc'[q] = pc[q]
          /\ UNCHANGED <<checkpoint, open>>
      BY <1>2 DEF PrepareInput
    <2>2. /\ popped'[r] = (flag # {}) /\ flag' = {}
          /\ pc'[r] = "leaving" => flag = {}
          /\ intent'[r] = open
      BY ZenonT(60), <1>2 DEF PrepareInput, Call, AfterPop
    <2>3. \A q \in Run : q # r => pc[q] \in Over
      BY <2>1, OnlyOneMoves DEF InProgress
    <2>4. ThreadIsSettled'
      BY <2>1, <2>2, <2>3
    <2>5. pc'[r] = "popped" => DecisionIsRight(r)'
      BY <2>1, <2>2, <2>3
    <2>. QED BY <2>1, <2>3, <2>4, <2>5
  <1>3. ASSUME NEW r \in Run, CheckInterrupt(r) PROVE Goal
    <2>1. /\ pc[r] = "popped" /\ pc'[r] = "checked"
          /\ resume'[r] = (checkpoint.next # "end" /\ ~popped[r])
          /\ \A q \in Run : q # r => pc'[q] = pc[q]
          /\ UNCHANGED <<popped, checkpoint, open, flag, intent, hit>>
      BY <1>3 DEF CheckInterrupt, InterruptPending, stores, views
    <2>2. \A q \in Run : q # r => pc[q] \in Over
      BY <2>1, OnlyOneMoves DEF InProgress
    <2>3. DecisionIsRight(r)
      BY <2>1
    <2>4. DecisionIsRight(r)'
      BY <2>1, <2>3
    <2>5. ThreadIsSettled'
      BY <2>1, <2>2
    <2>. QED BY <2>1, <2>2, <2>4, <2>5
  <1>4. ASSUME NEW r \in Run, StartTurn(r) PROVE Goal
    <2>1. /\ pc[r] = "checked" /\ pc'[r] = "graph" /\ open' = None
          /\ checkpoint'.next = "node"
          /\ \A q \in Run : q # r => pc'[q] = pc[q]
      BY <1>4 DEF StartTurn, Decided
    <2>2. \A q \in Run : q # r => pc[q] \in Over
      BY <2>1, OnlyOneMoves DEF InProgress
    <2>. QED BY <2>1, <2>2
  <1>5. ASSUME NEW r \in Run, ResumeTurn(r) PROVE Goal
    <2>1. /\ pc[r] = "checked" /\ pc'[r] = "graph" /\ open' = None
          /\ checkpoint'.next = "node"
          /\ \A q \in Run : q # r => pc'[q] = pc[q]
      BY <1>5 DEF ResumeTurn, Decided
    <2>2. \A q \in Run : q # r => pc[q] \in Over
      BY <2>1, OnlyOneMoves DEF InProgress
    <2>. QED BY <2>1, <2>2
  <1>6. ASSUME NEW r \in Run, NodeIsCancelled(r) \/ TurnEnds(r) PROVE Goal
    <2>1. /\ pc[r] = "graph" /\ pc'[r] = "leaving" /\ open' = open
          /\ checkpoint'.next = "end"
          /\ \A q \in Run : q # r => pc'[q] = pc[q]
      BY <1>6 DEF NodeIsCancelled, TurnEnds, Thread, views
    <2>2. \A q \in Run : q # r => pc[q] \in Over
      BY <2>1, OnlyOneMoves DEF InProgress
    <2>. QED BY <2>1, <2>2
  <1>7. ASSUME NEW r \in Run, NodeRuns(r) PROVE Goal
    <2>1. /\ pc[r] = "graph" /\ checkpoint'.next = "node" /\ UNCHANGED <<pc, open>>
      BY <1>7 DEF NodeRuns, Thread, views
    <2>2. \A q \in Run : q # r => pc[q] \in Over
      BY <2>1, OnlyOneMoves DEF InProgress
    <2>. QED BY <2>1, <2>2
  <1>8. ASSUME NEW r \in Run, TurnAsks(r) PROVE Goal
    <2>1. /\ pc[r] = "graph" /\ pc'[r] = "leaving" /\ UNCHANGED flag
          /\ checkpoint'.turn = turnOf[r] /\ checkpoint'.next = "ask"
          /\ open' = IF hit[r] THEN None ELSE turnOf[r]
          /\ \A q \in Run : q # r => pc'[q] = pc[q]
      BY <1>8 DEF TurnAsks, Thread
    <2>2. \A q \in Run : q # r => pc[q] \in Over
      BY <2>1, OnlyOneMoves DEF InProgress
    <2>. QED BY <2>1, <2>2
  <1>9. ASSUME NEW r \in Run, NodeRaises(r) PROVE Goal
    BY <1>9 DEF NodeRaises
  <1>10. ASSUME NEW r \in Run, ClearActive(r) PROVE Goal
    <2>1. /\ pc[r] = "leaving" /\ pc'[r] = "done"
          /\ UNCHANGED <<flag, checkpoint, open>>
          /\ \A q \in Run : q # r => pc'[q] = pc[q]
      BY <1>10 DEF ClearActive
    <2>2. \A q \in Run : q # r => pc[q] \in Over
      BY <2>1, OnlyOneMoves DEF InProgress
    <2>. QED BY <2>1, <2>2
  <1>11. CASE Cancel
    <2>0. \A r \in Run : flag' # {}
      BY <1>11 DEF Cancel
    <2>1. /\ open' = None
          /\ \A r \in Run : PastPop(r) => hit'[r]
          /\ UNCHANGED <<pc, popped, resume, checkpoint, intent>>
      BY <1>11 DEF Cancel, run
    <2>2. checkpoint.next = "ask" => checkpoint.turn \in Run
      OBVIOUS
    <2>3. ThreadIsSettled'
      BY <2>0, <2>1, <2>2
    <2>4. ASSUME NEW r \in Run, pc'[r] \in {"popped", "checked"} PROVE DecisionIsRight(r)'
      BY <2>1, <2>4
    <2>. QED BY <2>3, <2>4
  <1>12. CASE FlagExpires \/ ActiveExpires \/ Crash
    BY <1>12 DEF FlagExpires, ActiveExpires, Crash
  <1>13. CASE UNCHANGED vars
    BY <1>13 DEF vars, run, stores, views
  <1>. QED BY <1>1, <1>2, <1>3, <1>4, <1>5, <1>6, <1>7, <1>8, <1>9, <1>10, <1>11,
              <1>12, <1>13 DEF Next, RunStep

-----------------------------------------------------------------------------
\* The invariant is inductive and holds in every reachable state.
THEOREM Invariance == Spec => []IInv
  <1>1. Init => IInv
    BY InitialState
  <1>2. IInv /\ [Next]_vars => IInv'
    BY TypeStep, OrderStep, RegisterStep, ScopeStep, SettledStep DEF IInv
  <1>. QED BY <1>1, <1>2, PTL DEF Spec

\* Every field keeps its type, for any number of messages.
THEOREM TypeCorrect == Spec => []TypeOK
  <1>1. IInv => TypeOK
    BY DEF IInv
  <1>. QED BY <1>1, Invariance, PTL

\* No run takes the newest one out of the register, under any overlap of runs.
THEOREM RegisterIsRight == Spec => []NewestRunIsActive
  <1>1. IInv => NewestRunIsActive
    BY DEF IInv
  <1>. QED BY <1>1, Invariance, PTL

\* Only a crash leaves the entry of a run that is over.
THEOREM GhostsNeedCrash == Spec => []NoGhostIsActive
  <1>1. IInv => NoGhostIsActive
    BY DEF IInv
  <1>. QED BY <1>1, Invariance, PTL

\* No run is stopped by a cancel request that was made before it took the flag,
\* under any overlap of runs.
THEOREM CancelHasScope == Spec => []EarlierCancelSparesRun
  <1>1. IInv => EarlierCancelSparesRun
    BY DEF IInv
  <1>. QED BY <1>1, Invariance, PTL

\* In a session without overlaps and failures a message resumes a turn exactly
\* if it answers the open question of that turn.
THEOREM AnswersReachTheirQuestion == Spec => []MessageAnswersOpenQuestion
  <1>1. IInv => MessageAnswersOpenQuestion
    <2>. SUFFICES ASSUME IInv, Calm, NEW r \in Run, pc[r] = "checked"
                  PROVE  /\ resume[r] <=> intent[r] # None
                         /\ resume[r] => checkpoint = [turn |-> intent[r], next |-> "ask"]
      BY DEF MessageAnswersOpenQuestion, Calm
    <2>1. TypeOK /\ DecisionIsRight(r)
      BY DEF IInv, DecisionInv
    <2>2. resume[r] <=> intent[r] # None
      BY <2>1 DEF DecisionIsRight
    <2>3. intent[r] # None => checkpoint = [turn |-> intent[r], next |-> "ask"]
      BY <2>1 DEF DecisionIsRight, TypeOK
    <2>. QED BY <2>2, <2>3
  <1>. QED BY <1>1, Invariance, PTL
=============================================================================
