--------------------------- MODULE Records_proofs ---------------------------
(***************************************************************************)
(* Theorems of what is kept and read again from turn to turn.              *)
(***************************************************************************)
EXTENDS Records, FiniteSetTheorems, WellFoundedInduction, TLAPS

-----------------------------------------------------------------------------
(* ResultCache, for any connections, sessions and size of the cache         *)

\* A session has one entry in the dict.
OneEntryEach(entries) ==
    \A i, j \in DOMAIN entries : entries[i].session = entries[j].session => i = j

\* What is cached for a session without a mishap is what it was told of last.
EntryIsAnnounced(e) == e.session \notin mishap => e.rows /\ e.turn = announced[e.session]
CachedAreAnnounced == \A i \in DOMAIN cache : EntryIsAnnounced(cache[i])

\* An answer without its rows is a mishap.
BareAreMishaps == \A c \in Conns : due[c] = "bare" => SessionOf[c] \in mishap

\* Of a session whose last turn came back alone and that had no mishap: the one
\* answer on its way is that of the newest rows, and without one the newest rows
\* were announced.
OneIsDue(s) ==
    /\ \A c \in Conns : SessionOf[c] = s /\ due[c] # "none" =>
          /\ running[c] = newest[s]
          /\ \A o \in Conns : SessionOf[o] = s /\ due[o] # "none" => o = c
    /\ (\A c \in Conns : SessionOf[c] = s => due[c] = "none") => announced[s] = newest[s]
NewestIsDue == \A s \in Sessions \ (mishap \cup overlap) : OneIsDue(s)

CacheInv == C!TypeOK /\ CachedAreAnnounced /\ BareAreMishaps /\ NewestIsDue

\* The place of the entry of a session, which is the only one.
LEMMA PlaceOfEntry ==
    ASSUME NEW entries \in Seq(C!Entry), OneEntryEach(entries),
           NEW i \in DOMAIN entries
    PROVE  C!Place(entries, entries[i].session) = i
<1> DEFINE Found == {k \in 1 .. Len(entries) : entries[k].session = entries[i].session}
<1>1. Found = {i}
  BY DEF OneEntryEach
<1>2. C!Min(Found) = i
  BY <1>1 DEF C!Min
<1> QED BY <1>1, <1>2 DEF C!Place, C!SelectInSeq

\* A session without an entry has no place.
LEMMA NoPlace ==
    ASSUME NEW entries \in Seq(C!Entry), NEW s,
           \A i \in DOMAIN entries : entries[i].session # s
    PROVE  C!Place(entries, s) = 0
<1>1. {k \in 1 .. Len(entries) : entries[k].session = s} = {}
  OBVIOUS
<1> QED BY <1>1 DEF C!Place, C!SelectInSeq

\* A place is that of an entry of the session, or 0.
LEMMA PlaceHolds ==
    ASSUME NEW entries \in Seq(C!Entry), OneEntryEach(entries), NEW s
    PROVE  \/ /\ C!Place(entries, s) = 0
              /\ \A i \in DOMAIN entries : entries[i].session # s
           \/ /\ C!Place(entries, s) \in DOMAIN entries
              /\ entries[C!Place(entries, s)].session = s
<1>1. CASE \E i \in DOMAIN entries : entries[i].session = s
  BY <1>1, PlaceOfEntry
<1>2. CASE \A i \in DOMAIN entries : entries[i].session # s
  BY <1>2, NoPlace
<1> QED BY <1>1, <1>2

\* Giving up the first entry leaves room, and the other entries.
LEMMA EvictedKeeps ==
    ASSUME MaxCache \in Nat \ {0}, NEW entries \in Seq(C!Entry),
           OneEntryEach(entries), Len(entries) <= MaxCache
    PROVE  /\ C!Evicted(entries) \in Seq(C!Entry) /\ OneEntryEach(C!Evicted(entries))
           /\ Len(C!Evicted(entries)) < MaxCache
           /\ \A i \in DOMAIN C!Evicted(entries) :
                 \E k \in DOMAIN entries : C!Evicted(entries)[i] = entries[k]
<1>1. CASE Len(entries) >= MaxCache
  <2>1. /\ Tail(entries) \in Seq(C!Entry) /\ Len(Tail(entries)) = Len(entries) - 1
        /\ \A i \in DOMAIN Tail(entries) :
              i + 1 \in DOMAIN entries /\ Tail(entries)[i] = entries[i + 1]
    BY <1>1
  <2>2. OneEntryEach(Tail(entries))
    BY <2>1 DEF OneEntryEach
  <2> QED BY <1>1, <2>1, <2>2 DEF C!Evicted
<1>2. CASE Len(entries) < MaxCache
  BY <1>2 DEF C!Evicted
<1> QED BY <1>1, <1>2

\* Storing an entry puts it in the place of the session's old one, or last, and
\* leaves those of the other sessions.
LEMMA StoredKeeps ==
    ASSUME NEW entries \in Seq(C!Entry), OneEntryEach(entries), NEW e \in C!Entry
    PROVE  /\ C!Stored(entries, e) \in Seq(C!Entry)
           /\ OneEntryEach(C!Stored(entries, e))
           /\ Len(C!Stored(entries, e)) <= Len(entries) + 1
           /\ \A i \in DOMAIN C!Stored(entries, e) :
                 \/ C!Stored(entries, e)[i] = e
                 \/ \E k \in DOMAIN entries : /\ C!Stored(entries, e)[i] = entries[k]
                                              /\ entries[k].session # e.session
<1> DEFINE place == C!Place(entries, e.session)
<1>1. CASE place = 0
  <2>1. \A i \in DOMAIN entries : entries[i].session # e.session
    BY <1>1, PlaceHolds
  <2>2. C!Stored(entries, e) = Append(entries, e)
    BY <1>1 DEF C!Stored
  <2> QED BY <2>1, <2>2 DEF OneEntryEach
<1>2. CASE place # 0
  <2>1. place \in DOMAIN entries /\ entries[place].session = e.session
    BY <1>2, PlaceHolds
  <2>2. C!Stored(entries, e) = [entries EXCEPT ![place] = e]
    BY <1>2 DEF C!Stored
  <2> QED BY <2>1, <2>2 DEF OneEntryEach
<1> QED BY <1>1, <1>2

\* Nothing has been cached at first.
LEMMA InitialCache == ASSUME C!CacheAssumption, C!Init PROVE CacheInv
BY DEF C!CacheAssumption, C!Init, CacheInv, C!TypeOK, CachedAreAnnounced, BareAreMishaps,
   NewestIsDue, OneIsDue

\* What a turn stores is the only entry of its session, and the other entries
\* were there before.
LEMMA CacheKeeps ==
    ASSUME C!CacheAssumption, C!TypeOK, NEW s \in Sessions, NEW t \in 1 .. MaxCachedTurns,
           NEW hasRows \in BOOLEAN, C!CacheSqlResult(s, t, hasRows)
    PROVE  /\ cache' \in Seq(C!Entry) /\ Len(cache') <= MaxCache
           /\ OneEntryEach(cache')
           /\ \A i \in DOMAIN cache' :
                 \/ cache'[i] = [session |-> s, turn |-> t, rows |-> hasRows]
                 \/ \E k \in DOMAIN cache : /\ cache'[i] = cache[k]
                                            /\ cache[k].session # s
<1> DEFINE e == [session |-> s, turn |-> t, rows |-> hasRows]
<1>1. e \in C!Entry
  BY DEF C!Entry
<1>2. MaxCache \in Nat \ {0}
  BY DEF C!CacheAssumption
<1>3. cache \in Seq(C!Entry) /\ OneEntryEach(cache) /\ Len(cache) <= MaxCache
  BY DEF C!TypeOK, OneEntryEach
<1> DEFINE rest == C!Evicted(cache)
<1>4. /\ rest \in Seq(C!Entry) /\ OneEntryEach(rest) /\ Len(rest) < MaxCache
      /\ \A i \in DOMAIN rest : \E k \in DOMAIN cache : rest[i] = cache[k]
  BY <1>2, <1>3, EvictedKeeps
<1>5. cache' = C!Stored(rest, e)
  BY DEF C!CacheSqlResult
<1> HIDE DEF rest, e
<1>6. /\ cache' \in Seq(C!Entry) /\ OneEntryEach(cache')
      /\ Len(cache') <= Len(rest) + 1
      /\ \A i \in DOMAIN cache' :
            cache'[i] = e \/ \E k \in DOMAIN rest : /\ cache'[i] = rest[k]
                                                  /\ rest[k].session # e.session
  BY <1>1, <1>4, <1>5, StoredKeeps
<1>7. Len(cache') <= MaxCache
  BY <1>2, <1>4, <1>6
<1>8. e.session = s
  BY DEF e
<1>9. ASSUME NEW i \in DOMAIN cache', cache'[i] # e
      PROVE  \E k \in DOMAIN cache : cache'[i] = cache[k] /\ cache[k].session # s
  BY <1>4, <1>6, <1>8, <1>9
<1> QED BY <1>6, <1>7, <1>9 DEF e

\* Every step keeps CacheInv.
LEMMA CacheStep == ASSUME C!CacheAssumption, CacheInv, [C!Next]_(C!vars) PROVE CacheInv'
<1>1. C!TypeOK /\ CachedAreAnnounced /\ BareAreMishaps /\ NewestIsDue
  BY DEF CacheInv
<1>2. SessionOf \in [Conns -> Sessions] /\ MaxCachedTurns \in Nat
  BY DEF C!CacheAssumption
<1>3. ASSUME NEW c \in Conns, C!Receive(c) PROVE CacheInv'
  <2>1. C!TypeOK'
    BY <1>1, <1>2, <1>3 DEF C!Receive, C!TypeOK
  <2>2. CachedAreAnnounced' /\ BareAreMishaps'
    BY <1>1, <1>3 DEF C!Receive, CachedAreAnnounced, EntryIsAnnounced, BareAreMishaps
  <2>3. \A d \in Conns : due[d] # "none" => running'[d] = running[d]
    BY <1>1, <1>3 DEF C!Receive, C!TypeOK
  <2>4. NewestIsDue'
    BY <1>1, <1>3, <2>3 DEF C!Receive, NewestIsDue, OneIsDue
  <2> QED BY <2>1, <2>2, <2>4 DEF CacheInv
<1>4. ASSUME NEW c \in Conns, C!TurnWithRows(c) PROVE CacheInv'
  <2> DEFINE s == SessionOf[c]
  <2>1. running[c] \in 1 .. MaxCachedTurns /\ s \in Sessions
    BY <1>1, <1>2, <1>4 DEF C!TurnWithRows, C!TypeOK
  <2>2. C!TypeOK'
    BY <1>1, <1>2, <1>4, <2>1 DEF C!TurnWithRows, C!TypeOK
  <2>3. CachedAreAnnounced' /\ BareAreMishaps'
    BY <1>1, <1>4 DEF C!TurnWithRows, CachedAreAnnounced, EntryIsAnnounced,
       BareAreMishaps, C!TypeOK
  <2>4. ASSUME NEW z \in Sessions \ (mishap' \cup overlap') PROVE OneIsDue(z)'
    <3>1. CASE z # s
      BY <1>1, <1>4, <2>1, <2>4, <3>1
         DEF C!TurnWithRows, NewestIsDue, OneIsDue, C!TypeOK
    <3>2. CASE z = s
      <4>1. ~ C!OtherIsDue(c)
        BY <1>4, <2>1, <2>4, <3>2 DEF C!TurnWithRows
      <4>2. /\ \A o \in Conns \ {c} : SessionOf[o] = s => due'[o] = "none"
            /\ due'[c] = "rows" /\ running'[c] = newest'[s]
        BY <1>1, <1>4, <2>1, <4>1 DEF C!TurnWithRows, C!OtherIsDue, C!TypeOK
      <4> QED BY <3>2, <4>2 DEF OneIsDue
    <3> QED BY <3>1, <3>2
  <2> QED BY <2>2, <2>3, <2>4 DEF CacheInv, NewestIsDue
<1>5. ASSUME NEW c \in Conns, C!TurnWithoutRows(c) PROVE CacheInv'
  <2>1. C!TypeOK'
    BY <1>1, <1>2, <1>5 DEF C!TurnWithoutRows, C!TypeOK
  <2>2. CachedAreAnnounced' /\ BareAreMishaps'
    BY <1>1, <1>5 DEF C!TurnWithoutRows, CachedAreAnnounced, EntryIsAnnounced, BareAreMishaps
  <2>3. \A d \in Conns : due[d] # "none" => running'[d] = running[d]
    BY <1>1, <1>5 DEF C!TurnWithoutRows, C!TypeOK
  <2>4. NewestIsDue'
    BY <1>1, <1>5, <2>3 DEF C!TurnWithoutRows, NewestIsDue, OneIsDue
  <2> QED BY <2>1, <2>2, <2>4 DEF CacheInv
<1>6. ASSUME NEW c \in Conns, C!TurnRaised(c) PROVE CacheInv'
  <2>1. SessionOf[c] \in Sessions
    BY <1>2
  <2>2. C!TypeOK'
    BY <1>1, <1>2, <1>6, <2>1 DEF C!TurnRaised, C!TypeOK
  <2>3. CachedAreAnnounced' /\ BareAreMishaps'
    BY <1>1, <1>6 DEF C!TurnRaised, CachedAreAnnounced, EntryIsAnnounced,
       BareAreMishaps, C!TypeOK
  <2>4. ASSUME NEW z \in Sessions \ (mishap' \cup overlap') PROVE OneIsDue(z)'
    BY <1>1, <1>6, <2>4 DEF C!TurnRaised, NewestIsDue, OneIsDue, C!TypeOK
  <2> QED BY <2>2, <2>3, <2>4 DEF CacheInv, NewestIsDue
<1>7. ASSUME NEW c \in Conns, C!ClientGone(c) PROVE CacheInv'
  <2>1. SessionOf[c] \in Sessions
    BY <1>2
  <2>2. C!TypeOK'
    BY <1>1, <1>2, <1>7, <2>1 DEF C!ClientGone, C!Finished, C!TypeOK
  <2>3. CachedAreAnnounced' /\ BareAreMishaps'
    BY <1>1, <1>7 DEF C!ClientGone, C!Finished, CachedAreAnnounced, EntryIsAnnounced,
       BareAreMishaps, C!TypeOK
  <2>4. ASSUME NEW z \in Sessions \ (mishap' \cup overlap') PROVE OneIsDue(z)'
    BY <1>1, <1>7, <2>4 DEF C!ClientGone, C!Finished, NewestIsDue, OneIsDue, C!TypeOK
  <2> QED BY <2>2, <2>3, <2>4 DEF CacheInv, NewestIsDue
<1>8. ASSUME NEW c \in Conns, C!Store(c) PROVE CacheInv'
  <2> DEFINE s == SessionOf[c]
             hasRows == due[c] = "rows"
  <2>1. running[c] \in 1 .. MaxCachedTurns /\ s \in Sessions /\ hasRows \in BOOLEAN
    BY <1>1, <1>2, <1>8 DEF C!Store, C!TypeOK
  <2>2. C!CacheSqlResult(s, running[c], hasRows)
    BY <1>8 DEF C!Store
  <2> HIDE DEF hasRows
  <2>3. /\ cache' \in Seq(C!Entry) /\ Len(cache') <= MaxCache
        /\ OneEntryEach(cache')
        /\ \A i \in DOMAIN cache' :
              \/ cache'[i] = [session |-> s, turn |-> running[c], rows |-> hasRows]
              \/ \E k \in DOMAIN cache : cache'[i] = cache[k] /\ cache[k].session # s
    BY <1>1, <2>1, <2>2, CacheKeeps
  <2>4. /\ turns' = turns /\ newest' = newest /\ overlap' = overlap
        /\ running' = [running EXCEPT ![c] = 0] /\ due' = [due EXCEPT ![c] = "none"]
        /\ \/ announced' = [announced EXCEPT ![s] = running[c]] /\ mishap' = mishap
           \/ announced' = announced /\ mishap' = mishap \cup {s}
    BY <1>8 DEF C!Store, C!Finished
  <2>5. C!TypeOK'
    <3>1. /\ turns' \in 0 .. MaxCachedTurns /\ newest' \in [Sessions -> 0 .. MaxCachedTurns]
          /\ mishap' \subseteq Sessions /\ overlap' \subseteq Sessions
      BY <1>1, <2>1, <2>4 DEF C!TypeOK
    <3>2. /\ running' \in [Conns -> 0 .. MaxCachedTurns]
          /\ due' \in [Conns -> {"none", "rows", "bare"}]
          /\ \A o \in Conns : due'[o] # "none" => running'[o] # 0
      BY <1>1, <1>2, <2>4 DEF C!TypeOK
    <3>3. announced' \in [Sessions -> 0 .. MaxCachedTurns]
      BY <1>1, <2>1, <2>4 DEF C!TypeOK
    <3> QED BY <2>3, <3>1, <3>2, <3>3 DEF C!TypeOK, OneEntryEach
  <2>6. ASSUME NEW i \in DOMAIN cache' PROVE EntryIsAnnounced(cache[i])'
    <3>1. announced \in [Sessions -> 0 .. MaxCachedTurns] /\ \A k \in DOMAIN cache : cache[k] \in C!Entry
      BY <1>1 DEF C!TypeOK
    <3>2. s \notin mishap' => hasRows
      BY <1>1, <1>8, <2>4 DEF BareAreMishaps, C!TypeOK, C!Store, hasRows
    <3>3. CASE cache'[i] = [session |-> s, turn |-> running[c], rows |-> hasRows]
      BY <2>1, <2>4, <3>1, <3>2, <3>3 DEF EntryIsAnnounced
    <3>4. CASE \E k \in DOMAIN cache : cache'[i] = cache[k] /\ cache[k].session # s
      BY <1>1, <2>4, <3>1, <3>4 DEF EntryIsAnnounced, CachedAreAnnounced, C!Entry
    <3> QED BY <2>3, <3>3, <3>4
  <2>7. BareAreMishaps'
    BY <1>1, <2>4 DEF BareAreMishaps, C!TypeOK
  <2>8. ASSUME NEW z \in Sessions \ (mishap' \cup overlap') PROVE OneIsDue(z)'
    <3>1. OneIsDue(z)
      BY <1>1, <2>4, <2>8 DEF NewestIsDue
    <3>2. CASE z # s
      BY <1>1, <2>4, <3>1, <3>2 DEF OneIsDue, C!TypeOK
    <3>3. CASE z = s
      <4>1. /\ running[c] = newest[s]
            /\ \A o \in Conns \ {c} : SessionOf[o] = s => due[o] = "none"
        BY <1>8, <3>1, <3>3 DEF OneIsDue, C!Store
      <4>2. announced'[s] = newest'[s]
        BY <1>1, <2>1, <2>4, <2>8, <3>3, <4>1 DEF C!TypeOK
      <4>3. \A o \in Conns : SessionOf[o] = s => due'[o] = "none"
        BY <1>1, <2>4, <4>1 DEF C!TypeOK
      <4> QED BY <3>3, <4>2, <4>3 DEF OneIsDue
    <3> QED BY <3>2, <3>3
  <2> QED BY <2>5, <2>6, <2>7, <2>8 DEF CacheInv, CachedAreAnnounced, NewestIsDue
<1>9. ASSUME NEW s \in Sessions, C!RestTurn(s) PROVE CacheInv'
  <2>1. C!TypeOK'
    BY <1>1, <1>2, <1>9 DEF C!RestTurn, C!TypeOK
  <2>2. CachedAreAnnounced' /\ BareAreMishaps'
    BY <1>1, <1>9 DEF C!RestTurn, CachedAreAnnounced, EntryIsAnnounced,
       BareAreMishaps, C!TypeOK
  <2>3. ASSUME NEW z \in Sessions \ (mishap' \cup overlap') PROVE OneIsDue(z)'
    BY <1>1, <1>9, <2>3 DEF C!RestTurn, NewestIsDue, OneIsDue, C!TypeOK
  <2> QED BY <2>1, <2>2, <2>3 DEF CacheInv, NewestIsDue
<1>10. CASE UNCHANGED C!vars
  BY <1>1, <1>10 DEF C!vars, CacheInv, C!TypeOK, CachedAreAnnounced, EntryIsAnnounced,
     BareAreMishaps, NewestIsDue, OneIsDue
<1> QED BY <1>3, <1>4, <1>5, <1>6, <1>7, <1>8, <1>9, <1>10 DEF C!Next

\* Of a session without a mishap, what is cached is what was announced last, and
\* an answer on its way that met no other is that of the newest rows.
THEOREM CacheInvariance == ASSUME C!CacheAssumption PROVE C!Spec => []CacheInv
<1>1. C!Init => CacheInv
  BY InitialCache
<1>2. CacheInv /\ [C!Next]_(C!vars) => CacheInv'
  BY CacheStep
<1> QED BY <1>1, <1>2, PTL DEF C!Spec

\* Whatever other connections and sessions do between, a session downloads the
\* rows it was told of last, or none, and those are the rows it found last unless
\* two of its answers were on their way at once; the dict holds one result of each
\* session and never more than its size.
THEOREM DownloadsAreNewest == ASSUME C!CacheAssumption PROVE C!Spec => []DownloadIsNewest
<1>1. ASSUME CacheInv, NEW s \in Sessions \ mishap PROVE C!Download(s) \in {announced[s], 0}
  <2>1. CASE C!Cached(s) /\ cache[C!Place(cache, s)].rows
    <3>1. /\ C!Place(cache, s) \in DOMAIN cache
          /\ cache[C!Place(cache, s)].session = s
      BY <1>1, <2>1, PlaceHolds DEF C!Cached, CacheInv, C!TypeOK, OneEntryEach
    <3>2. EntryIsAnnounced(cache[C!Place(cache, s)])
      BY <1>1, <3>1 DEF CacheInv, CachedAreAnnounced
    <3> QED BY <1>1, <2>1, <3>1, <3>2 DEF C!Download, EntryIsAnnounced
  <2>2. CASE ~(C!Cached(s) /\ cache[C!Place(cache, s)].rows)
    BY <2>2 DEF C!Download
  <2> QED BY <2>1, <2>2
<1>2. ASSUME CacheInv, NEW s \in Sessions \ mishap, C!Quiet(s) PROVE announced[s] = newest[s]
  BY <1>2 DEF CacheInv, NewestIsDue, OneIsDue, C!Quiet
<1>3. CacheInv => DownloadIsNewest
  BY <1>1, <1>2 DEF CacheInv, DownloadIsNewest, C!DownloadIsNewest
<1> QED BY <1>3, CacheInvariance, PTL

-----------------------------------------------------------------------------
(* Reembed, for any rows, sizes of batches and numbers of runs.  The parts of *)
(* the invariant are about a state of the run r and the ids 1 to n given, so  *)
(* that they can be said of a row that is queued and not yet flushed          *)

\* A row as a run has read it, with the point and the description it is to get.
RowRead(n) ==
    [row : Rows, at : Nat, text : Nat, desc : Nat, active : BOOLEAN, point : 0..n]

RunRecord(n) ==
    [stage : {"off", "read", "write", "clear", "close"},
     mode : {"", "direct", "generate-desc"}, full : BOOLEAN, write : BOOLEAN,
     size : Nat, todo : SUBSET RowRead(n), up : SUBSET RowRead(n),
     down : SUBSET RowRead(n), done : SUBSET RowRead(n), gone : SUBSET Rows,
     failed : BOOLEAN, upto : 0..MaxClock, sees : SUBSET Rows, alone : BOOLEAN]
RunOK(r, n) ==
    /\ r \in RunRecord(n)
    /\ r.stage = "off" => r = E!NoRun

TableRow(n) == [at : 0..MaxClock, text : Nat, desc : Nat, active : BOOLEAN, point : 0..n]
IndexPoint(n) == [id : 1..n, row : Rows, text : Nat, desc : Nat]
StoresOK(n) ==
    /\ n \in 0..MaxPoints /\ clock \in 0..MaxClock /\ saved \in 0..MaxClock
    /\ batches \in 0..MaxBatches /\ late \subseteq Rows /\ doubt \in BOOLEAN
    /\ debris \subseteq 0..n /\ recon \in [on : BOOLEAN, ids : SUBSET Nat]
    /\ table \in [Rows -> TableRow(n)]
    /\ points \subseteq IndexPoint(n)

\* The rows a run still has to do something about.
InHand(r) == r.todo \cup r.up \cup r.down \cup r.done

\* What is queued at each stage.
StageQueues(r) ==
    /\ r.stage # "read" => r.todo = {} /\ r.up = {}
    /\ r.stage \notin {"read", "write"} => r.down = {} /\ r.done = {}
    /\ ~r.full => r.sees = {}
    /\ \A d \in r.up \cup r.done : d.active /\ d.point # 0
    /\ \A d \in r.down : ~d.active

\* A row is in one queue, once.
OnceInHand(r) ==
    /\ \A d, e \in InHand(r) : d.row = e.row => d = e
    /\ \A d \in r.todo : d \notin r.up /\ d \notin r.down /\ d \notin r.done
    /\ \A d \in InHand(r) : d.row \notin r.gone

\* An id is of one row, in the table, in the index and in the queues.
IdOfRow(r, id, row) ==
    \/ table[row].point = id
    \/ \E p \in points : p.id = id /\ p.row = row
    \/ \E d \in InHand(r) : d.point = id /\ d.row = row
IdsApart(r, n) ==
    \A id \in 1..n, x, y \in Rows : IdOfRow(r, id, x) /\ IdOfRow(r, id, y) => x = y

\* A row that was changed since the run has read the table, or deleted.
MovedOn(r, row) ==
    \/ table[row].at = 0
    \/ table[row].at > saved /\ table[row].at > r.upto
    \/ row \in late /\ row \notin r.sees

\* Any other is as it was read.
AsRead(r) ==
    /\ \A d \in InHand(r) : table[d.row].point \in {0, d.point}
    /\ \A d \in r.todo \cup r.down :
          \/ MovedOn(r, d.row)
          \/ /\ table[d.row].text = d.text /\ table[d.row].desc = d.desc
             /\ table[d.row].active = d.active
    /\ \A d \in r.up \cup r.done :
          \/ MovedOn(r, d.row)
          \/ /\ table[d.row].text = d.text /\ table[d.row].active
             /\ \/ table[d.row].desc = d.desc
                \/ table[d.row].desc = 0 /\ r.mode = "generate-desc"
    /\ \A x \in r.gone : MovedOn(r, x) \/ ~table[x].active

\* What was written is in the index, what was deleted is not, and whatever is there
\* has a row, or will have one.
PointOf(d) == [id |-> d.point, row |-> d.row, text |-> d.text, desc |-> d.desc]
DoneIsWritten(r) == r.write /\ r.alone => \A d \in r.done : PointOf(d) \in points
GoneIsDeleted(r) ==
    r.write => \A p \in points : p.row \in r.gone => table[p.row].point # p.id
PointsAreKnown(r) ==
    \A p \in points : \/ p.id \in debris
                      \/ table[p.row].point = p.id
                      \/ \E d \in r.done : d.point = p.id

\* Where a run and a reconciliation meet, and where nothing is written, there is doubt.
Doubted(r) ==
    /\ r.stage # "off" /\ ~r.alone => doubt
    /\ recon.on /\ r.stage # "off" => ~r.alone
    /\ r.stage \in {"clear", "close"} /\ ~r.write => doubt

\* What the saved cursor has passed is in the index, whatever the run has come to, and
\* a reconciliation that is alone knows its points.
Passed(row) == table[row].at \in 1..saved /\ row \notin late
PassedIsServed == ~doubt => \A x \in Rows : Passed(x) => E!Served(x)
PassedIsCollected ==
    recon.on /\ ~doubt =>
        \A x \in Rows : Passed(x) /\ table[x].active => table[x].point \in recon.ids

\* What the cursor of the run is to pass is in the index, or in hand.
Wanted(r, row) ==
    /\ table[row].at \in 1..r.upto /\ (table[row].at > saved \/ r.full)
    /\ ~(row \in late /\ row \notin r.sees)
Handled(r, row) ==
    \/ \E d \in InHand(r) : d.row = row
    \/ row \in r.gone /\ r.stage # "close"
    \/ E!Served(row)
WantedIsHandled(r) ==
    r.stage # "off" /\ r.write /\ r.alone /\ ~r.failed =>
        \A x \in Rows : Wanted(r, x) => Handled(r, x)

RunInv(r, n) ==
    /\ RunOK(r, n) /\ StoresOK(n) /\ StageQueues(r) /\ OnceInHand(r) /\ IdsApart(r, n)
    /\ AsRead(r) /\ DoneIsWritten(r) /\ GoneIsDeleted(r) /\ PointsAreKnown(r) /\ Doubted(r)
    /\ PassedIsServed /\ PassedIsCollected /\ WantedIsHandled(r)
ReembedInv == RunInv(run, ids) /\ (run.stage = "write" => run.down = {})

LEMMA ReembedConstants ==
    /\ Rows \subseteq Nat /\ MaxClock \in Nat /\ MaxBatches \in Nat /\ MaxPoints \in Nat
    /\ BatchSizes \subseteq Nat \ {0}
BY ReembedAssumed DEF E!ReembedAssumption

\* Between runs nothing is in hand.
LEMMA OffIsOK == ASSUME NEW n PROVE RunOK(E!NoRun, n)
BY ReembedConstants DEF RunOK, RunRecord, E!NoRun

LEMMA RunFields ==
    ASSUME NEW n, NEW r, RunOK(r, n)
    PROVE  /\ r.stage \in {"off", "read", "write", "clear", "close"}
           /\ r.full \in BOOLEAN /\ r.write \in BOOLEAN /\ r.alone \in BOOLEAN
           /\ r.todo \subseteq RowRead(n) /\ r.up \subseteq RowRead(n)
           /\ r.down \subseteq RowRead(n) /\ r.done \subseteq RowRead(n)
           /\ r.gone \subseteq Rows /\ r.sees \subseteq Rows
           /\ r.upto \in 0..MaxClock /\ r.upto \in Nat /\ r.failed \in BOOLEAN
<1>1. r \in RunRecord(n)
  BY DEF RunOK
<1>2. /\ r.stage \in {"off", "read", "write", "clear", "close"}
      /\ r.full \in BOOLEAN /\ r.write \in BOOLEAN /\ r.alone \in BOOLEAN
      /\ r.failed \in BOOLEAN /\ r.upto \in 0..MaxClock
  BY <1>1 DEF RunRecord
<1>3. /\ r.todo \subseteq RowRead(n) /\ r.up \subseteq RowRead(n)
      /\ r.down \subseteq RowRead(n) /\ r.done \subseteq RowRead(n)
      /\ r.gone \subseteq Rows /\ r.sees \subseteq Rows
  BY <1>1 DEF RunRecord
<1> QED BY <1>2, <1>3, ReembedConstants

LEMMA OffIsEmpty ==
    ASSUME NEW n, NEW r, RunOK(r, n), r.stage = "off"
    PROVE  /\ InHand(r) = {} /\ r.gone = {} /\ r.done = {} /\ r.up = {} /\ r.todo = {}
           /\ r.down = {} /\ r.sees = {} /\ r = E!NoRun
<1>1. r = E!NoRun
  BY DEF RunOK, RunRecord
<1>2. /\ r.todo = {} /\ r.up = {} /\ r.down = {} /\ r.done = {} /\ r.gone = {} /\ r.sees = {}
  BY <1>1 DEF E!NoRun
<1> QED BY <1>1, <1>2 DEF InHand

LEMMA RowsInHand ==
    ASSUME NEW n, NEW r, RunOK(r, n)
    PROVE  InHand(r) \subseteq RowRead(n)
BY RunFields DEF InHand

LEMMA RowFields ==
    ASSUME NEW n, NEW d \in RowRead(n)
    PROVE  d.row \in Rows /\ d.text \in Nat /\ d.desc \in Nat /\ d.active \in BOOLEAN
           /\ d.point \in 0..n /\ d.at \in Nat
BY DEF RowRead

LEMMA PointFields ==
    ASSUME NEW n, StoresOK(n), NEW p \in points
    PROVE  p.id \in 1..n /\ p.row \in Rows
BY DEF StoresOK, IndexPoint

LEMMA TableFields ==
    ASSUME NEW n, StoresOK(n), NEW x \in Rows
    PROVE  /\ table[x].at \in 0..MaxClock /\ table[x].at \in Nat /\ table[x].text \in Nat
           /\ table[x].desc \in Nat /\ table[x].active \in BOOLEAN /\ table[x].point \in 0..n
<1>1. table[x] \in TableRow(n)
  BY DEF StoresOK
<1> QED BY <1>1, ReembedConstants DEF TableRow

LEMMA ReembedInit == ASSUME E!Init PROVE ReembedInv
<1>1. /\ RunOK(E!NoRun, 0) /\ InHand(E!NoRun) = {} /\ E!NoRun.stage = "off"
      /\ E!NoRun.gone = {} /\ E!NoRun.done = {}
  <2>1. /\ E!NoRun.stage = "off" /\ E!NoRun.gone = {} /\ E!NoRun.done = {}
        /\ E!NoRun.todo = {} /\ E!NoRun.up = {} /\ E!NoRun.down = {}
    BY DEF E!NoRun
  <2> QED BY <2>1, OffIsOK DEF InHand
<1>2. /\ StageQueues(E!NoRun) /\ OnceInHand(E!NoRun)
  BY <1>1 DEF StageQueues, OnceInHand, InHand, E!NoRun
<1>3. /\ run = E!NoRun /\ ids = 0 /\ points = {} /\ ~recon.on
      /\ clock = 0 /\ saved = 0 /\ late = {} /\ debris = {} /\ doubt = FALSE /\ batches = 0
      /\ recon = [on |-> FALSE, ids |-> {}]
      /\ table = [x \in Rows |-> E!NoRow]
  BY DEF E!Init, E!NoRecon
<1>4. StoresOK(0)
  <2>1. table \in [Rows -> TableRow(0)]
    BY <1>3, ReembedConstants DEF E!NoRow, TableRow
  <2>2. recon \in [on : BOOLEAN, ids : SUBSET Nat]
    BY <1>3
  <2>3. /\ 0 \in 0..MaxPoints /\ 0 \in 0..MaxClock /\ 0 \in 0..MaxBatches
        /\ points \subseteq IndexPoint(0)
    BY <1>3, ReembedConstants
  <2> QED BY <1>3, <2>1, <2>2, <2>3 DEF StoresOK
<1>5. \A x \in Rows : ~Passed(x)
  BY <1>3 DEF Passed
<1>6. IdsApart(E!NoRun, 0)
  BY DEF IdsApart
<1> QED
  BY <1>1, <1>2, <1>3, <1>4, <1>5, <1>6
     DEF ReembedInv, RunInv, AsRead, DoneIsWritten, GoneIsDeleted, PointsAreKnown, Doubted,
         PassedIsServed, PassedIsCollected, WantedIsHandled, InHand

\* The end of a run, whatever became of it: what it has done is debris.
LEMMA RunIsOver ==
    ASSUME NEW n, StoresOK(n)', run' = E!NoRun, PassedIsServed', PassedIsCollected',
           \A id \in 1..n, x, y \in Rows :
               IdOfRow(run, id, x)' /\ IdOfRow(run, id, y)' => x = y,
           \A p \in points' : p.id \in debris' \/ table'[p.row].point = p.id,
           ids' = n
    PROVE  ReembedInv'
<1>1. /\ run'.stage = "off" /\ run'.gone = {} /\ run'.done = {} /\ run'.todo = {}
      /\ run'.up = {} /\ run'.down = {} /\ run'.sees = {}
  BY DEF E!NoRun
<1>2. InHand(run)' = {}
  BY <1>1 DEF InHand
<1>3. RunOK(run, n)'
  BY OffIsOK
<1>4. StageQueues(run)' /\ OnceInHand(run)' /\ AsRead(run)' /\ IdsApart(run, n)'
  BY <1>1, <1>2 DEF StageQueues, OnceInHand, AsRead, IdsApart
<1>5. /\ DoneIsWritten(run)' /\ GoneIsDeleted(run)' /\ PointsAreKnown(run)' /\ Doubted(run)'
      /\ WantedIsHandled(run)'
  BY <1>1 DEF DoneIsWritten, GoneIsDeleted, PointsAreKnown, Doubted, WantedIsHandled
<1> QED BY <1>1, <1>3, <1>4, <1>5 DEF ReembedInv, RunInv

\* What changes in the table under a run is a row that moves on.
LEMMA ChangeRowKeeps ==
    ASSUME ReembedInv, NEW row \in Rows, NEW at \in {clock, clock + 1} \ {0},
           NEW described \in BOOLEAN, NEW active \in BOOLEAN,
           E!ChangeRow(row, at, described, active)
    PROVE  ReembedInv'
<1>1. /\ clock' = clock + 1 /\ clock < MaxClock
      /\ run' = [run EXCEPT !.sees = @ \ {row}]
      /\ UNCHANGED <<points, saved, recon, ids, batches, doubt, debris>>
  BY DEF E!ChangeRow
<1>2. /\ RunOK(run, ids) /\ StoresOK(ids)
      /\ clock \in 0..MaxClock /\ MaxClock \in Nat /\ saved \in 0..MaxClock
  BY ReembedConstants DEF ReembedInv, RunInv, StoresOK
<1>3. /\ table' \in [Rows -> TableRow(ids)]
      /\ table'[row].at = at /\ table'[row].point = table[row].point
      /\ \A x \in Rows \ {row} : table'[x] = table[x]
  <2> DEFINE new == [at |-> at, text |-> clock', desc |-> IF described THEN clock' ELSE 0,
                     active |-> active, point |-> table[row].point]
  <2>1. table \in [Rows -> TableRow(ids)]
    BY <1>2 DEF StoresOK
  <2>2. table' = [table EXCEPT ![row] = new]
    BY DEF E!ChangeRow
  <2>3. new \in TableRow(ids)
    BY <1>1, <1>2, <2>1 DEF TableRow
  <2>4. new.at = at /\ new.point = table[row].point
    OBVIOUS
  <2> HIDE DEF new
  <2> QED BY <2>1, <2>2, <2>3, <2>4
<1>4. /\ run'.stage = run.stage /\ run'.mode = run.mode /\ run'.full = run.full
      /\ run'.write = run.write /\ run'.todo = run.todo /\ run'.up = run.up
      /\ run'.down = run.down /\ run'.done = run.done /\ run'.gone = run.gone
      /\ run'.failed = run.failed /\ run'.upto = run.upto /\ run'.sees = run.sees \ {row}
      /\ run'.alone = run.alone
  BY <1>1, <1>2 DEF RunOK, RunRecord
<1>5. RunOK(run, ids)'
  <2>1. ASSUME run.stage = "off" PROVE run' = E!NoRun
    <3>1. run = E!NoRun /\ run.sees \ {row} = run.sees
      BY <1>2, <2>1, OffIsEmpty
    <3> QED BY <1>1, <3>1 DEF E!NoRun
  <2> QED BY <1>1, <1>2, <1>4, <2>1 DEF RunOK, RunRecord
<1>6. /\ table[row].at # 0 \/ TRUE
      /\ at <= saved \/ (run.stage # "off" /\ at <= run.upto) => late' = late \cup {row}
      /\ late' \in {late \cup {row}, late \ {row}}
  BY DEF E!ChangeRow
<1>7. /\ run.stage # "off" => MovedOn(run, row)'
      /\ \A x \in Rows \ {row} : MovedOn(run, x)' <=> MovedOn(run, x)
  <2>1. at \in Nat /\ run.upto \in Nat /\ saved \in Nat
    BY <1>2, RunFields
  <2> QED BY <1>1, <1>3, <1>4, <1>6, <2>1 DEF MovedOn
<1>8. InHand(run)' = InHand(run) /\ (run.stage = "off" => InHand(run) = {} /\ run.gone = {})
  BY <1>2, <1>4, OffIsEmpty DEF InHand
<1>9. StoresOK(ids)'
  BY <1>1, <1>2, <1>3, <1>6 DEF StoresOK
<1>10. StageQueues(run)' /\ OnceInHand(run)' /\ Doubted(run)'
  BY <1>1, <1>4, <1>8 DEF ReembedInv, RunInv, StageQueues, OnceInHand, Doubted
<1>11. \A x \in Rows : table'[x].point = table[x].point
  BY <1>3
<1>12. IdsApart(run, ids)'
  <2>1. \A id \in 1..ids, x \in Rows : IdOfRow(run, id, x)' => IdOfRow(run, id, x)
    BY <1>1, <1>8, <1>11 DEF IdOfRow
  <2> QED BY <1>1, <2>1 DEF ReembedInv, RunInv, IdsApart
<1>13. /\ \A d \in InHand(run) : d.row \in Rows
       /\ \A x \in run.gone : x \in Rows
       /\ \A p \in points : p.row \in Rows
  BY <1>2, RunFields, RowsInHand, RowFields, PointFields
<1>14. AsRead(run)'
  <2>1. CASE run.stage = "off"
    BY <1>4, <1>8, <2>1 DEF AsRead, InHand
  <2>2. CASE run.stage # "off"
    BY <1>3, <1>4, <1>7, <1>8, <1>11, <1>13, <2>2 DEF ReembedInv, RunInv, AsRead, InHand
  <2> QED BY <2>1, <2>2
<1>15. DoneIsWritten(run)' /\ GoneIsDeleted(run)' /\ PointsAreKnown(run)'
  BY <1>1, <1>4, <1>11, <1>13
     DEF ReembedInv, RunInv, DoneIsWritten, GoneIsDeleted, PointsAreKnown
<1>16. /\ ~Passed(row)'
       /\ \A x \in Rows \ {row} : /\ Passed(x)' <=> Passed(x)
                                  /\ E!Served(x)' <=> E!Served(x)
                                  /\ Wanted(run, x)' <=> Wanted(run, x)
       /\ run.stage # "off" => ~Wanted(run, row)'
  <2>1. at \in Nat /\ at # 0 /\ run.upto \in Nat /\ saved \in Nat
    BY <1>2, RunFields
  <2> QED BY <1>1, <1>3, <1>4, <1>6, <2>1 DEF Passed, E!Served, Wanted
<1>17. PassedIsServed' /\ PassedIsCollected'
  BY <1>1, <1>3, <1>16 DEF ReembedInv, RunInv, PassedIsServed, PassedIsCollected
<1>18. WantedIsHandled(run)'
  BY <1>4, <1>8, <1>16 DEF ReembedInv, RunInv, WantedIsHandled, Handled
<1> QED BY <1>1, <1>4, <1>5, <1>9, <1>10, <1>12, <1>14, <1>15, <1>17, <1>18 DEF ReembedInv, RunInv

\* A row that is deleted leaves its point behind.
LEMMA DeleteRowKeeps ==
    ASSUME ReembedInv, NEW row \in Rows, E!DeleteRow(row) PROVE ReembedInv'
<1>1. /\ clock' = clock + 1 /\ clock < MaxClock /\ late' = late \ {row}
      /\ debris' = debris \cup {table[row].point}
      /\ UNCHANGED <<points, saved, run, recon, ids, batches, doubt>>
  BY DEF E!DeleteRow
<1>2. /\ RunOK(run, ids) /\ StoresOK(ids)
      /\ clock \in 0..MaxClock /\ MaxClock \in Nat /\ saved \in 0..MaxClock
  BY ReembedConstants DEF ReembedInv, RunInv, StoresOK
<1>3. /\ table' \in [Rows -> TableRow(ids)]
      /\ table'[row].at = 0 /\ table'[row].point = 0
      /\ \A x \in Rows \ {row} : table'[x] = table[x]
      /\ table[row].point \in 0..ids
  <2>1. table \in [Rows -> TableRow(ids)]
    BY <1>2 DEF StoresOK
  <2>2. table' = [table EXCEPT ![row] = E!NoRow]
    BY DEF E!DeleteRow
  <2>3. /\ E!NoRow \in TableRow(ids)
        /\ E!NoRow.at = 0 /\ E!NoRow.point = 0
    BY <1>2, <2>1 DEF E!NoRow, StoresOK, TableRow
  <2> QED BY <2>1, <2>2, <2>3 DEF TableRow
<1>4. StoresOK(ids)'
  <2>1. debris \subseteq 0..ids /\ late \subseteq Rows
    BY <1>2 DEF StoresOK
  <2>2. clock' \in 0..MaxClock
    BY <1>1, <1>2
  <2>3. debris' \subseteq 0..ids /\ late' \subseteq Rows
    BY <1>1, <1>3, <2>1
  <2> QED BY <1>1, <1>2, <1>3, <2>2, <2>3 DEF StoresOK
<1>5. /\ MovedOn(run, row)'
      /\ \A x \in Rows \ {row} : MovedOn(run, x)' <=> MovedOn(run, x)
  BY <1>1, <1>3 DEF MovedOn
<1>6. RunOK(run, ids)' /\ StageQueues(run)' /\ OnceInHand(run)' /\ Doubted(run)'
      /\ InHand(run)' = InHand(run)
  BY <1>1 DEF ReembedInv, RunInv, RunOK, StageQueues, OnceInHand, Doubted, InHand
<1>7. \A x \in Rows : table'[x].point \in {0, table[x].point}
  BY <1>3
<1>8. IdsApart(run, ids)'
  <2>1. \A id \in 1..ids, x \in Rows : IdOfRow(run, id, x)' => IdOfRow(run, id, x)
    BY <1>1, <1>6, <1>7 DEF IdOfRow
  <2> QED BY <1>1, <2>1 DEF ReembedInv, RunInv, IdsApart
<1>9. /\ \A d \in InHand(run) : d.row \in Rows
      /\ \A x \in run.gone : x \in Rows
      /\ \A p \in points : p.row \in Rows /\ p.id # 0
  <2>1. ids \in Nat
    BY <1>2, ReembedConstants DEF StoresOK
  <2> QED BY <1>2, <2>1, RunFields, RowsInHand, RowFields, PointFields
<1>10. AsRead(run)'
  BY <1>1, <1>3, <1>5, <1>6, <1>7, <1>9 DEF ReembedInv, RunInv, AsRead, InHand
<1>11. DoneIsWritten(run)' /\ GoneIsDeleted(run)' /\ PointsAreKnown(run)'
  BY <1>1, <1>3, <1>7, <1>9
     DEF ReembedInv, RunInv, DoneIsWritten, GoneIsDeleted, PointsAreKnown
<1>12. /\ ~Passed(row)' /\ ~Wanted(run, row)'
       /\ \A x \in Rows \ {row} : /\ Passed(x)' <=> Passed(x)
                                  /\ E!Served(x)' <=> E!Served(x)
                                  /\ Wanted(run, x)' <=> Wanted(run, x)
  BY <1>1, <1>3 DEF Passed, E!Served, Wanted
<1>13. PassedIsServed' /\ PassedIsCollected'
  BY <1>1, <1>3, <1>12 DEF ReembedInv, RunInv, PassedIsServed, PassedIsCollected
<1>14. WantedIsHandled(run)'
  BY <1>1, <1>6, <1>12 DEF ReembedInv, RunInv, WantedIsHandled, Handled
<1> QED BY <1>1, <1>4, <1>6, <1>8, <1>10, <1>11, <1>13, <1>14 DEF ReembedInv, RunInv

LEMMA LeastOfNat == ASSUME NEW S \in SUBSET Nat, S # {} PROVE \E n \in S : \A m \in S : n <= m
<1>1. PICK n \in S : \A m \in S : <<m, n>> \notin OpToRel(<, Nat)
  BY NatLessThanWellFounded, WFMin, Zenon
<1>2. \A m \in S : <<m, n>> \notin {p \in Nat \X Nat : p[1] < p[2]}
  BY <1>1, Zenon DEF OpToRel
<1>3. ASSUME NEW m \in S PROVE ~(m < n)
  <2>1. <<m, n>> \in Nat \X Nat /\ <<m, n>>[1] = m /\ <<m, n>>[2] = n
    OBVIOUS
  <2>2. <<m, n>>[1] < <<m, n>>[2] => <<m, n>> \in {p \in Nat \X Nat : p[1] < p[2]}
    BY <2>1, Zenon
  <2> QED BY <1>2, <2>1, <2>2, Zenon
<1> QED BY <1>3

\* A bounded set of times has a latest one.
LEMMA LatestTime ==
    ASSUME NEW m \in Nat, NEW S \in SUBSET (0..m), S # {} PROVE E!Max(S) \in S
<1> DEFINE gaps == {m - x : x \in S}
<1>1. gaps \in SUBSET Nat /\ gaps # {}
  <2>1. \A x \in S : m - x \in Nat
    OBVIOUS
  <2> QED BY <2>1
<1>2. PICK l \in gaps : \A k \in gaps : l <= k
  BY <1>1, LeastOfNat
<1>3. PICK x \in S : l = m - x
  BY <1>2
<1>4. \A y \in S : x >= y
  <2>1. TAKE y \in S
  <2>2. m - x <= m - y
    BY <1>2, <1>3
  <2> QED BY <2>2
<1> QED BY <1>4 DEF E!Max

\* A run has all rows in hand that its cursor is to pass.
LEMMA StartKeeps ==
    ASSUME ReembedInv, NEW mode \in {"direct", "generate-desc"}, NEW full \in BOOLEAN,
           NEW write \in BOOLEAN, NEW size \in BatchSizes, E!Start(mode, full, write, size)
    PROVE  ReembedInv'
<1> DEFINE since == IF full THEN 0 ELSE saved
           chosen == E!Changed(since)
           upto == E!Max({since} \cup {d.at : d \in chosen})
<1>1. /\ run.stage = "off" /\ batches < MaxBatches /\ batches' = batches + 1
      /\ run' = [E!NoRun EXCEPT !.stage = "read", !.mode = mode, !.full = full,
                     !.write = write, !.size = size, !.todo = chosen, !.upto = upto,
                     !.sees = IF full THEN late ELSE {}, !.alone = ~recon.on]
      /\ doubt' = (doubt \/ recon.on)
      /\ UNCHANGED <<clock, table, points, saved, recon, ids, late, debris>>
  BY DEF E!Start
<1>2. /\ RunOK(run, ids) /\ StoresOK(ids) /\ since \in 0..MaxClock
      /\ late \subseteq Rows /\ recon.on \in BOOLEAN
  BY ReembedConstants DEF ReembedInv, RunInv, StoresOK
<1>3. /\ \A d \in chosen : /\ d \in RowRead(ids) /\ d.at \in 0..MaxClock
                         /\ d.row \in Rows /\ table[d.row].at > since
                         /\ table[d.row].point = d.point /\ table[d.row].text = d.text
                         /\ table[d.row].desc = d.desc /\ table[d.row].active = d.active
      /\ \A d, e \in chosen : d.row = e.row => d = e
      /\ \A x \in Rows : table[x].at > since => \E d \in chosen : d.row = x
  <2> DEFINE RowAt(x) == [row |-> x, at |-> table[x].at, text |-> table[x].text,
                          desc |-> table[x].desc, active |-> table[x].active,
                          point |-> table[x].point]
  <2>1. chosen = {RowAt(x) : x \in {s \in Rows : table[s].at > since}}
    BY DEF E!Changed
  <2>2. \A x : /\ RowAt(x).row = x /\ RowAt(x).at = table[x].at /\ RowAt(x).text = table[x].text
               /\ RowAt(x).desc = table[x].desc /\ RowAt(x).active = table[x].active
               /\ RowAt(x).point = table[x].point
    OBVIOUS
  <2>3. \A x \in Rows : RowAt(x) \in RowRead(ids)
    BY <1>2, TableFields DEF RowRead
  <2> HIDE DEF RowAt, since
  <2> QED BY <1>2, <2>1, <2>2, <2>3, TableFields
<1>4. upto \in 0..MaxClock
  <2>1. {since} \cup {d.at : d \in chosen} \in SUBSET (0..MaxClock)
    BY <1>2, <1>3
  <2> HIDE DEF since, chosen
  <2> QED BY <2>1, LatestTime, ReembedConstants
<1> HIDE DEF chosen, upto
<1>5. /\ run'.stage = "read" /\ run'.full = full /\ run'.write = write /\ run'.todo = chosen
      /\ run'.up = {} /\ run'.down = {} /\ run'.done = {} /\ run'.gone = {}
      /\ run'.failed = FALSE /\ run'.upto = upto
      /\ run'.sees = (IF full THEN late ELSE {}) /\ run'.alone = ~recon.on
  BY <1>1 DEF E!NoRun
<1>6. RunOK(run, ids)'
  <2>1. /\ size \in Nat /\ 0 \in 0..MaxClock /\ chosen \subseteq RowRead(ids)
        /\ (IF full THEN late ELSE {}) \in SUBSET Rows
    BY <1>2, <1>3, ReembedConstants
  <2>2. run' = [stage |-> "read", mode |-> mode, full |-> full, write |-> write,
                size |-> size, todo |-> chosen, up |-> {}, down |-> {}, done |-> {},
                gone |-> {}, failed |-> FALSE, upto |-> upto,
                sees |-> IF full THEN late ELSE {}, alone |-> ~recon.on]
    BY <1>1 DEF E!NoRun
  <2>3. \A S : {} \in SUBSET S
    OBVIOUS
  <2> HIDE DEF since
  <2>4. run' \in RunRecord(ids)
    BY <1>2, <1>4, <2>1, <2>2, <2>3 DEF RunRecord
  <2> QED BY <1>1, <1>5, <2>4 DEF RunOK
<1>7. StoresOK(ids)'
  BY <1>1, <1>2, ReembedConstants DEF StoresOK
<1>8. InHand(run)' = chosen
  BY <1>5 DEF InHand
<1>9. StageQueues(run)' /\ OnceInHand(run)' /\ DoneIsWritten(run)' /\ GoneIsDeleted(run)'
  BY <1>3, <1>5, <1>8 DEF StageQueues, OnceInHand, DoneIsWritten, GoneIsDeleted
<1>10. IdsApart(run, ids)'
  <2>1. \A id \in 1..ids, x \in Rows : IdOfRow(run, id, x)' => IdOfRow(run, id, x)
    BY <1>1, <1>3, <1>8 DEF IdOfRow
  <2> QED BY <1>1, <2>1 DEF ReembedInv, RunInv, IdsApart
<1>11. AsRead(run)'
  BY <1>1, <1>3, <1>5, <1>8 DEF AsRead
<1>12. PointsAreKnown(run)'
  <2>1. run.done = {}
    BY <1>1, <1>2, OffIsEmpty
  <2> QED BY <1>1, <2>1 DEF ReembedInv, RunInv, PointsAreKnown
<1>13. Doubted(run)'
  BY <1>1, <1>2, <1>5 DEF Doubted
<1>14. PassedIsServed' /\ PassedIsCollected'
  BY <1>1 DEF ReembedInv, RunInv, PassedIsServed, PassedIsCollected, Passed, E!Served
<1>15. WantedIsHandled(run)'
  <2>1. ASSUME NEW x \in Rows, Wanted(run, x)' PROVE table[x].at > since
    BY <1>1, <1>2, <1>4, <1>5, <2>1, TableFields DEF Wanted
  <2> QED BY <1>1, <1>3, <1>8, <2>1 DEF WantedIsHandled, Handled
<1> QED
  BY <1>1, <1>5, <1>6, <1>7, <1>9, <1>10, <1>11, <1>12, <1>13, <1>14, <1>15
     DEF ReembedInv, RunInv

\* A reconciliation beside a run leaves doubt.
LEMMA CollectKeeps == ASSUME ReembedInv, E!Collect PROVE ReembedInv'
<1>1. /\ ~recon.on /\ batches < MaxBatches /\ batches' = batches + 1
      /\ recon' = [on |-> TRUE, ids |-> {table[x].point : x \in {s \in Rows : table[s].active}}]
      /\ run' = [run EXCEPT !.alone = (run.stage = "off")]
      /\ doubt' = (doubt \/ run.stage # "off")
      /\ UNCHANGED <<clock, table, points, saved, ids, late, debris>>
  BY DEF E!Collect
<1>2. RunOK(run, ids) /\ StoresOK(ids)
  BY DEF ReembedInv, RunInv
<1>3. /\ run'.stage = run.stage /\ run'.mode = run.mode /\ run'.full = run.full
      /\ run'.write = run.write /\ run'.todo = run.todo /\ run'.up = run.up
      /\ run'.down = run.down /\ run'.done = run.done /\ run'.gone = run.gone
      /\ run'.failed = run.failed /\ run'.upto = run.upto /\ run'.sees = run.sees
      /\ run'.alone = (run.stage = "off")
  BY <1>1, <1>2 DEF RunOK, RunRecord
<1>4. RunOK(run, ids)'
  <2>1. ASSUME run.stage = "off" PROVE run' = E!NoRun
    <3>1. run = E!NoRun
      BY <1>2, <2>1, OffIsEmpty
    <3> QED BY <1>1, <3>1 DEF E!NoRun
  <2> QED BY <1>1, <1>2, <1>3, <2>1 DEF RunOK, RunRecord
<1>5. StoresOK(ids)'
  <2>1. \A x \in Rows : table[x].point \in Nat
    BY <1>2, TableFields
  <2>2. recon' \in [on : BOOLEAN, ids : SUBSET Nat]
    BY <1>1, <2>1
  <2>3. batches' \in 0..MaxBatches /\ doubt' \in BOOLEAN
    BY <1>1, <1>2, ReembedConstants DEF StoresOK
  <2> QED BY <1>1, <1>2, <2>2, <2>3 DEF StoresOK
<1>6. InHand(run)' = InHand(run)
  BY <1>3 DEF InHand
<1>7. StageQueues(run)' /\ OnceInHand(run)' /\ Doubted(run)'
  BY <1>1, <1>3, <1>6 DEF ReembedInv, RunInv, StageQueues, OnceInHand, Doubted
<1>8. IdsApart(run, ids)' /\ AsRead(run)'
  BY <1>1, <1>3, <1>6 DEF ReembedInv, RunInv, IdsApart, IdOfRow, AsRead, MovedOn
<1>9. DoneIsWritten(run)' /\ GoneIsDeleted(run)' /\ PointsAreKnown(run)'
  <2>1. run.stage = "off" => run.done = {}
    BY <1>2, OffIsEmpty
  <2> QED
    BY <1>1, <1>3, <2>1 DEF ReembedInv, RunInv, DoneIsWritten, GoneIsDeleted, PointsAreKnown
<1>10. PassedIsServed' /\ WantedIsHandled(run)'
  BY <1>1, <1>3 DEF ReembedInv, RunInv, PassedIsServed, Passed, E!Served, WantedIsHandled
<1>11. PassedIsCollected'
  BY <1>1 DEF PassedIsCollected
<1> QED BY <1>1, <1>3, <1>4, <1>5, <1>7, <1>8, <1>9, <1>10, <1>11 DEF ReembedInv, RunInv

\* One that is alone deletes no point of a row that the cursor has passed.
LEMMA SweepKeeps == ASSUME ReembedInv, NEW ok \in BOOLEAN, E!Sweep(ok) PROVE ReembedInv'
<1>1. /\ recon.on /\ recon' = [on |-> FALSE, ids |-> {}]
      /\ points' = (IF ok THEN {p \in points : p.id \in recon.ids} ELSE points)
      /\ debris' = (IF ok THEN debris \cap recon.ids ELSE debris)
      /\ UNCHANGED <<clock, table, saved, run, ids, batches, late, doubt>>
  BY DEF E!Sweep, E!NoRecon
<1>2. /\ RunOK(run, ids) /\ StoresOK(ids) /\ points' \subseteq points
      /\ run.stage # "off" => ~run.alone /\ doubt
      /\ run.stage = "off" => run.done = {}
  BY <1>1, OffIsEmpty DEF ReembedInv, RunInv, Doubted
<1>3. StoresOK(ids)'
  <2>1. recon' \in [on : BOOLEAN, ids : SUBSET Nat]
    BY <1>1
  <2> QED BY <1>1, <1>2, <2>1 DEF StoresOK
<1>4. /\ RunOK(run, ids)' /\ StageQueues(run)' /\ OnceInHand(run)' /\ InHand(run)' = InHand(run)
      /\ AsRead(run)'
  <2>1. InHand(run)' = InHand(run)
    BY <1>1 DEF InHand
  <2>2. RunOK(run, ids)'
    BY <1>1, <1>2
  <2>3. StageQueues(run)' /\ OnceInHand(run)'
    BY <1>1, <2>1 DEF ReembedInv, RunInv, StageQueues, OnceInHand
  <2>4. \A x : MovedOn(run, x)' <=> MovedOn(run, x)
    BY <1>1 DEF MovedOn
  <2>5. AsRead(run)'
    BY <1>1, <2>1, <2>4 DEF ReembedInv, RunInv, AsRead
  <2> QED BY <2>1, <2>2, <2>3, <2>5
<1>5. IdsApart(run, ids)'
  <2>1. \A id \in 1..ids, x \in Rows : IdOfRow(run, id, x)' => IdOfRow(run, id, x)
    BY <1>1, <1>2, <1>4 DEF IdOfRow
  <2> QED BY <1>1, <2>1 DEF ReembedInv, RunInv, IdsApart
<1>6. DoneIsWritten(run)' /\ GoneIsDeleted(run)' /\ PointsAreKnown(run)' /\ Doubted(run)'
  BY <1>1, <1>2 DEF ReembedInv, RunInv, DoneIsWritten, GoneIsDeleted, PointsAreKnown, Doubted
<1>7. PassedIsServed' /\ PassedIsCollected'
  <2>1. ASSUME NEW x \in Rows, ~doubt, Passed(x) PROVE E!Served(x)'
    <3>1. E!Served(x) /\ (table[x].active => table[x].point \in recon.ids)
      BY <1>1, <2>1 DEF ReembedInv, RunInv, PassedIsServed, PassedIsCollected
    <3> QED BY <1>1, <3>1 DEF E!Served
  <2> QED BY <1>1, <2>1 DEF PassedIsServed, PassedIsCollected, Passed
<1>8. WantedIsHandled(run)'
  BY <1>1, <1>2 DEF WantedIsHandled
<1> QED BY <1>1, <1>3, <1>4, <1>5, <1>6, <1>7, <1>8 DEF ReembedInv, RunInv

\* A run may end anywhere.
LEMMA StoppedKeeps ==
    ASSUME ReembedInv, E!Stopped, doubt' \in {doubt, TRUE},
           UNCHANGED <<clock, table, points, recon, ids, batches, late>>
    PROVE  ReembedInv'
<1>1. /\ run' = E!NoRun /\ debris' = debris \cup {d.point : d \in run.done} /\ saved' = saved
  BY DEF E!Stopped, E!Ids
<1>2. RunOK(run, ids) /\ StoresOK(ids) /\ doubt \in BOOLEAN
  BY DEF ReembedInv, RunInv, StoresOK
<1>3. StoresOK(ids)'
  <2>1. \A d \in run.done : d.point \in 0..ids
    BY <1>2, RunFields, RowFields
  <2> QED BY <1>1, <1>2, <2>1 DEF StoresOK
<1>4. PassedIsServed' /\ PassedIsCollected'
  BY <1>1 DEF ReembedInv, RunInv, PassedIsServed, PassedIsCollected, Passed, E!Served
<1>5. \A p \in points' : p.id \in debris' \/ table'[p.row].point = p.id
  BY <1>1 DEF ReembedInv, RunInv, PointsAreKnown
<1>6. \A id \in 1..ids, x, y \in Rows : IdOfRow(run, id, x)' /\ IdOfRow(run, id, y)' => x = y
  <2>1. InHand(run)' = {}
    BY <1>1 DEF InHand, E!NoRun
  <2>2. \A id \in 1..ids, x \in Rows : IdOfRow(run, id, x)' => IdOfRow(run, id, x)
    BY <1>1, <2>1 DEF IdOfRow
  <2> QED BY <2>2 DEF ReembedInv, RunInv, IdsApart
<1> QED BY <1>1, <1>3, <1>4, <1>5, <1>6, RunIsOver

\* What a cursor has passed, or is to pass, is as the run has read it.
LEMMA PassedStays ==
    ASSUME NEW n, NEW r, RunInv(r, n), NEW x \in Rows, Passed(x) \/ Wanted(r, x)
    PROVE  ~MovedOn(r, x)
<1>1. RunOK(r, n) /\ StoresOK(n) /\ saved \in Nat
  BY ReembedConstants DEF RunInv, StoresOK
<1>2. table[x].at \in Nat /\ r.upto \in Nat
  BY <1>1, TableFields, RunFields
<1> QED BY <1>1, <1>2 DEF Passed, Wanted, MovedOn

\* A batch of points replaces those of the same ids, and no other.
LEMMA WrittenPoints ==
    ASSUME NEW n, NEW r, RunInv(r, n), points' = E!Written(r.up)
    PROVE  /\ \A p \in points' : p \in points \/ \E d \in r.up : p = PointOf(d)
           /\ \A d \in r.up : PointOf(d) \in points'
           /\ \A p \in points : p \in points' \/ \E d \in r.up : p.id = d.point
           /\ points' \subseteq IndexPoint(n)
<1>1. /\ points' = {p \in points : p.id \notin {d.point : d \in r.up}}
                   \cup {PointOf(d) : d \in r.up}
  BY DEF E!Written, E!Ids, PointOf
<1>2. \A d \in r.up : PointOf(d) \in IndexPoint(n)
  <2>1. TAKE d \in r.up
  <2>2. d \in RowRead(n) /\ d.point # 0 /\ n \in Nat
    BY RunFields, ReembedConstants DEF RunInv, StageQueues, StoresOK
  <2>3. d.row \in Rows /\ d.text \in Nat /\ d.desc \in Nat /\ d.point \in 1..n
    BY <2>2, RowFields
  <2> QED BY <2>3 DEF PointOf, IndexPoint
<1>3. points \subseteq IndexPoint(n)
  BY DEF RunInv, StoresOK
<1> QED BY <1>1, <1>2, <1>3

\* It leaves what serves a row that has not moved on.
LEMMA ServedStays ==
    ASSUME NEW n, NEW r, RunInv(r, n), points' = E!Written(r.up), table' = table,
           NEW x \in Rows, ~MovedOn(r, x), E!Served(x)
    PROVE  E!Served(x)'
<1> DEFINE t == table[x]
           p == [id |-> t.point, row |-> x, text |-> t.text, desc |-> t.desc]
<1>1. SUFFICES ASSUME t.active, t.desc # 0 PROVE p \in points'
  BY DEF E!Served
<1>2. p \in points
  BY <1>1 DEF E!Served
<1>3. CASE \E d \in r.up : t.point = d.point
  <2>1. PICK d \in r.up : t.point = d.point
    BY <1>3
  <2>2. d \in InHand(r) /\ d.row \in Rows /\ t.point \in 1..n
    <3>1. RunOK(r, n) /\ StoresOK(n) /\ d \in RowRead(n)
      BY RunFields DEF RunInv
    <3>2. p.id = t.point
      OBVIOUS
    <3> HIDE DEF p
    <3> QED BY <1>2, <3>1, <3>2, PointFields, RowFields DEF InHand
  <2>3. d.row = x
    BY <2>1, <2>2 DEF RunInv, IdsApart, IdOfRow
  <2>4. t.text = d.text /\ t.desc = d.desc
    BY <1>1, <2>3 DEF RunInv, AsRead
  <2>5. p = PointOf(d)
    BY <2>1, <2>3, <2>4 DEF PointOf
  <2> QED BY <2>5, WrittenPoints
<1>4. CASE ~\E d \in r.up : t.point = d.point
  <2>1. p.id = t.point
    OBVIOUS
  <2> HIDE DEF p
  <2> QED BY <1>2, <1>4, <2>1, WrittenPoints
<1> QED BY <1>3, <1>4

\* A batch of points is written, fails, or fails and is written all the same.
LEMMA FlushUpsertKeeps ==
    ASSUME NEW n, NEW r, RunInv(r, n), r.stage = "read", NEW outcome,
           E!FlushUpsert(r, outcome), ids' = n,
           UNCHANGED <<clock, table, recon, batches, late, doubt>>
    PROVE  ReembedInv'
<1>1. /\ RunOK(r, n) /\ StoresOK(n) /\ StageQueues(r) /\ OnceInHand(r) /\ IdsApart(r, n)
      /\ AsRead(r) /\ DoneIsWritten(r) /\ GoneIsDeleted(r) /\ PointsAreKnown(r) /\ Doubted(r)
      /\ PassedIsServed /\ PassedIsCollected /\ WantedIsHandled(r)
  BY DEF RunInv
<1>2. \/ points' = points
      \/ r.write /\ points' = E!Written(r.up)
  BY DEF E!FlushUpsert
<1>3. /\ \A p \in points' : p \in points \/ \E d \in r.up : p = PointOf(d)
      /\ points' \subseteq IndexPoint(n)
      /\ \A x \in Rows : ~MovedOn(r, x) /\ E!Served(x) => E!Served(x)'
  <2>1. CASE points' = points
    BY <1>1, <2>1 DEF StoresOK, E!Served
  <2>2. CASE points' = E!Written(r.up)
    BY <2>2, WrittenPoints, ServedStays
  <2> QED BY <1>2, <2>1, <2>2
<1>4. saved' = saved
  BY DEF E!FlushUpsert
<1>5. PassedIsServed' /\ PassedIsCollected'
  <2>1. \A x \in Rows : Passed(x)' => Passed(x) /\ ~MovedOn(r, x)
    BY <1>4, PassedStays DEF Passed
  <2> QED BY <1>1, <1>3, <1>4, <2>1 DEF PassedIsServed, PassedIsCollected, Passed
<1>6. /\ \A d \in r.up : d \in InHand(r) /\ PointOf(d).id = d.point /\ PointOf(d).row = d.row
      /\ \A d \in r.up : d \in RowRead(n) /\ d.point \in 0..n
  BY <1>1, RunFields, RowFields DEF InHand, PointOf
<1>7. ASSUME NEW q, InHand(q) \subseteq InHand(r), NEW id \in 1..n, NEW x \in Rows,
             NEW y \in Rows,
             \/ table'[x].point = id
             \/ \E p \in points' : p.id = id /\ p.row = x
             \/ \E d \in InHand(q) : d.point = id /\ d.row = x,
             \/ table'[y].point = id
             \/ \E p \in points' : p.id = id /\ p.row = y
             \/ \E d \in InHand(q) : d.point = id /\ d.row = y
      PROVE  x = y
  <2>1. IdOfRow(r, id, x) /\ IdOfRow(r, id, y)
    BY <1>3, <1>6, <1>7 DEF IdOfRow
  <2> QED BY <1>1, <2>1 DEF IdsApart
<1>8. StoresOK(n)' <=> debris' \subseteq 0..n
  BY <1>1, <1>3, <1>4 DEF StoresOK
<1>9. CASE outcome = "ok"
  <2>1. /\ run' = [r EXCEPT !.up = {}, !.done = @ \cup r.up] /\ debris' = debris
        /\ points' = (IF r.write THEN E!Written(r.up) ELSE points)
    BY <1>9 DEF E!FlushUpsert
  <2>2. /\ run'.stage = r.stage /\ run'.mode = r.mode /\ run'.full = r.full
        /\ run'.write = r.write /\ run'.todo = r.todo /\ run'.up = {}
        /\ run'.down = r.down /\ run'.done = r.done \cup r.up /\ run'.gone = r.gone
        /\ run'.failed = r.failed /\ run'.upto = r.upto /\ run'.sees = r.sees
        /\ run'.alone = r.alone
    BY <1>1, <2>1 DEF RunOK, RunRecord
  <2>3. InHand(run)' = InHand(r)
    BY <2>2 DEF InHand
  <2>4. RunOK(run, n)'
    <3>1. r.done \cup r.up \in SUBSET RowRead(n) /\ {} \in SUBSET RowRead(n)
      BY <1>1, RunFields
    <3> QED BY <1>1, <2>1, <2>2, <3>1 DEF RunOK, RunRecord
  <2>5. StoresOK(n)'
    BY <1>1, <1>8, <2>1 DEF StoresOK
  <2>6. StageQueues(run)' /\ Doubted(run)'
    BY <1>1, <2>2 DEF StageQueues, Doubted
  <2>7. OnceInHand(run)'
    BY <1>1, <2>2, <2>3 DEF OnceInHand
  <2>8. IdsApart(run, n)'
    BY <1>7, <2>3 DEF IdsApart, IdOfRow
  <2>9. \A x : MovedOn(run, x)' <=> MovedOn(r, x)
    BY <1>4, <2>2 DEF MovedOn
  <2>10. AsRead(run)'
    BY <1>1, <2>2, <2>3, <2>9 DEF AsRead
  <2>11. DoneIsWritten(run)'
    <3>1. SUFFICES ASSUME r.write, r.alone, NEW d \in r.done \cup r.up
                   PROVE  PointOf(d) \in points'
      BY <2>2 DEF DoneIsWritten
    <3>2. points' = E!Written(r.up)
      BY <2>1, <3>1
    <3>3. CASE d \in r.up
      BY <3>2, <3>3, WrittenPoints
    <3>4. CASE d \in r.done
      <4>1. PointOf(d) \in points /\ PointOf(d).id = d.point
        BY <1>1, <3>1, <3>4 DEF DoneIsWritten, PointOf
      <4>2. ASSUME NEW e \in r.up, d.point = e.point PROVE d = e
        <5>1. /\ d \in InHand(r) /\ e \in InHand(r) /\ d.row \in Rows /\ e.row \in Rows
              /\ d.point \in 1..n
          BY <1>1, <3>4, <4>1, RunFields, RowFields, PointFields DEF InHand
        <5>2. d.row = e.row
          BY <1>1, <4>2, <5>1 DEF IdsApart, IdOfRow
        <5> QED BY <1>1, <5>1, <5>2 DEF OnceInHand
      <4> QED BY <3>2, <4>1, <4>2, WrittenPoints
    <3> QED BY <3>1, <3>3, <3>4
  <2>12. GoneIsDeleted(run)' /\ PointsAreKnown(run)'
    BY <1>1, <1>3, <1>6, <2>1, <2>2 DEF GoneIsDeleted, PointsAreKnown, OnceInHand
  <2>13. WantedIsHandled(run)'
    <3>1. \A x \in Rows : Wanted(run, x)' => Wanted(r, x) /\ ~MovedOn(r, x)
      BY <1>4, <2>2, PassedStays DEF Wanted
    <3>2. \A x \in Rows : Wanted(run, x)' /\ Handled(r, x) => Handled(run, x)'
      BY <1>3, <2>2, <2>3, <3>1 DEF Handled
    <3> QED BY <1>1, <2>2, <3>1, <3>2 DEF WantedIsHandled
  <2>14. run'.stage # "write"
    BY <2>2
  <2> QED
    BY <1>5, <2>4, <2>5, <2>6, <2>7, <2>8, <2>10, <2>11, <2>12, <2>13, <2>14
       DEF ReembedInv, RunInv
<1>10. CASE outcome = "not_embedded"
  <2>1. /\ run' = [r EXCEPT !.up = {}, !.failed = TRUE] /\ debris' = debris /\ points' = points
    BY <1>10 DEF E!FlushUpsert
  <2>2. /\ run'.stage = r.stage /\ run'.mode = r.mode /\ run'.full = r.full
        /\ run'.write = r.write /\ run'.todo = r.todo /\ run'.up = {}
        /\ run'.down = r.down /\ run'.done = r.done /\ run'.gone = r.gone
        /\ run'.failed /\ run'.upto = r.upto /\ run'.sees = r.sees
        /\ run'.alone = r.alone
    BY <1>1, <2>1 DEF RunOK, RunRecord
  <2>3. InHand(run)' \subseteq InHand(r)
    BY <2>2 DEF InHand
  <2>4. RunOK(run, n)'
    BY <1>1, <2>1, <2>2 DEF RunOK, RunRecord
  <2>5. StoresOK(n)'
    BY <1>1, <1>8, <2>1 DEF StoresOK
  <2>6. StageQueues(run)' /\ Doubted(run)'
    BY <1>1, <2>2 DEF StageQueues, Doubted
  <2>7. OnceInHand(run)'
    BY <1>1, <2>2, <2>3 DEF OnceInHand
  <2>8. IdsApart(run, n)'
    BY <1>7, <2>3 DEF IdsApart, IdOfRow
  <2>9. \A x : MovedOn(run, x)' <=> MovedOn(r, x)
    BY <1>4, <2>2 DEF MovedOn
  <2>10. AsRead(run)'
    BY <1>1, <2>2, <2>3, <2>9 DEF AsRead
  <2>11. /\ DoneIsWritten(run)' /\ GoneIsDeleted(run)' /\ PointsAreKnown(run)'
         /\ WantedIsHandled(run)' /\ run'.stage # "write"
    BY <1>1, <2>1, <2>2 DEF DoneIsWritten, GoneIsDeleted, PointsAreKnown, WantedIsHandled
  <2> QED
    BY <1>5, <2>4, <2>5, <2>6, <2>7, <2>8, <2>10, <2>11 DEF ReembedInv, RunInv
<1>11. CASE outcome \notin {"ok", "not_embedded"}
  <2>1. run' = E!NoRun /\ debris' = debris \cup {d.point : d \in r.done \cup r.up}
    BY <1>11 DEF E!FlushUpsert, E!Ids
  <2>2. StoresOK(n)'
    <3>1. \A d \in r.done \cup r.up : d.point \in 0..n
      BY <1>1, RunFields, RowFields
    <3> QED BY <1>1, <1>8, <2>1, <3>1 DEF StoresOK
  <2>3. InHand(run)' = {}
    BY <2>1 DEF InHand, E!NoRun
  <2>4. \A id \in 1..n, x, y \in Rows : IdOfRow(run, id, x)' /\ IdOfRow(run, id, y)' => x = y
    BY <1>7, <2>3 DEF IdOfRow
  <2>5. \A p \in points' : p.id \in debris' \/ table'[p.row].point = p.id
    BY <1>1, <1>3, <1>6, <2>1 DEF PointsAreKnown
  <2> QED BY <1>5, <2>1, <2>2, <2>4, <2>5, RunIsOver
<1> QED BY <1>9, <1>10, <1>11

\* A batch of points is deleted, or is not: then the run has failed.
LEMMA FlushDeleteKeeps ==
    ASSUME NEW n, NEW r, RunInv(r, n), r.stage \in {"read", "write"}, NEW outcome,
           E!FlushDelete(r, outcome), ids' = n,
           UNCHANGED <<clock, table, recon, batches, late, doubt>>
    PROVE  ReembedInv'
<1> DEFINE own == {d \in r.down : d.point # 0}
           deletes == r.write /\ outcome # "refused"
           goesOn == outcome = "ok" \/ ~r.write \/ own = {}
<1>1. /\ RunOK(r, n) /\ StoresOK(n) /\ StageQueues(r) /\ OnceInHand(r) /\ IdsApart(r, n)
      /\ AsRead(r) /\ DoneIsWritten(r) /\ GoneIsDeleted(r) /\ PointsAreKnown(r) /\ Doubted(r)
      /\ PassedIsServed /\ PassedIsCollected /\ WantedIsHandled(r)
  BY DEF RunInv
<1>2. /\ points' = (IF deletes THEN {p \in points : p.id \notin {d.point : d \in own}} ELSE points)
      /\ run' = (IF goesOn THEN [r EXCEPT !.down = {}, !.gone = @ \cup {d.row : d \in own}]
                           ELSE [r EXCEPT !.down = {}, !.failed = TRUE])
      /\ saved' = saved /\ debris' = debris
  BY DEF E!FlushDelete, E!Ids
<1>3. /\ run'.stage = r.stage /\ run'.mode = r.mode /\ run'.full = r.full
      /\ run'.write = r.write /\ run'.todo = r.todo /\ run'.up = r.up
      /\ run'.down = {} /\ run'.done = r.done
      /\ run'.gone = (IF goesOn THEN r.gone \cup {d.row : d \in own} ELSE r.gone)
      /\ (goesOn => run'.failed = r.failed) /\ (~goesOn => run'.failed)
      /\ run'.upto = r.upto /\ run'.sees = r.sees /\ run'.alone = r.alone
  <2> HIDE DEF own, goesOn
  <2> QED BY <1>1, <1>2 DEF RunOK, RunRecord
<1>4. /\ \A d \in r.down : /\ d \in InHand(r) /\ d \in RowRead(n) /\ d.row \in Rows
                           /\ d.point \in 0..n /\ ~d.active
      /\ \A d \in own : d \in r.down /\ d.point # 0 /\ d.point \in 1..n
      /\ \A d \in r.up \cup r.done : d.active /\ d \in InHand(r) /\ d.row \in Rows
  <2>1. n \in Nat
    BY <1>1, ReembedConstants DEF StoresOK
  <2> QED BY <1>1, <2>1, RunFields, RowFields DEF InHand, StageQueues
<1>5. /\ points' \subseteq points
      /\ \A p \in points : p \in points' \/ \E d \in own : d.point = p.id
      /\ deletes => \A p \in points' : \A d \in own : p.id # d.point
  BY <1>2
<1> HIDE DEF own
<1>6. InHand(run)' = r.todo \cup r.up \cup r.done /\ InHand(run)' \subseteq InHand(r)
  BY <1>3 DEF InHand
<1>7. RunOK(run, n)'
  <2>1. r.gone \cup {d.row : d \in own} \in SUBSET Rows
    BY <1>1, <1>4, RunFields
  <2> HIDE DEF goesOn
  <2> QED BY <1>1, <1>2, <1>3, <2>1 DEF RunOK, RunRecord
<1>8. StoresOK(n)'
  BY <1>1, <1>2, <1>5 DEF StoresOK
<1>9. StageQueues(run)' /\ Doubted(run)'
  BY <1>1, <1>3 DEF StageQueues, Doubted
<1>10. OnceInHand(run)'
  <2>1. ASSUME NEW d \in InHand(run)', NEW e \in own PROVE d.row # e.row
    <3>1. SUFFICES ASSUME d.row = e.row PROVE FALSE
      OBVIOUS
    <3>2. d = e /\ e \in r.down
      BY <1>1, <1>4, <1>6, <2>1, <3>1 DEF OnceInHand
    <3> QED BY <1>1, <1>4, <1>6, <3>2 DEF OnceInHand
  <2>2. \A d \in InHand(run)' : d.row \notin run'.gone
    BY <1>1, <1>3, <1>6, <2>1 DEF OnceInHand
  <2> QED BY <1>1, <1>3, <1>6, <2>2 DEF OnceInHand
<1>11. IdsApart(run, n)'
  <2>1. \A id \in 1..n, x \in Rows : IdOfRow(run, id, x)' => IdOfRow(r, id, x)
    BY <1>5, <1>6 DEF IdOfRow
  <2> QED BY <1>1, <2>1 DEF IdsApart
<1>12. \A x : MovedOn(run, x)' <=> MovedOn(r, x)
  BY <1>2, <1>3 DEF MovedOn
<1>13. \A d \in r.down : MovedOn(r, d.row) \/ ~table[d.row].active
  BY <1>1, <1>4 DEF AsRead
<1>14. AsRead(run)'
  <2>1. \A x \in run'.gone : MovedOn(r, x) \/ ~table[x].active
    BY <1>1, <1>3, <1>4, <1>13 DEF AsRead
  <2> QED BY <1>1, <1>3, <1>6, <1>12, <2>1 DEF AsRead
<1>15. ASSUME NEW d \in r.done, NEW e \in own PROVE d.point # e.point
  <2>1. SUFFICES ASSUME d.point = e.point PROVE FALSE
    OBVIOUS
  <2>2. e \in r.down /\ e \in InHand(r) /\ d \in InHand(r) /\ d.row = e.row
    BY <1>1, <1>4, <1>15, <2>1 DEF IdsApart, IdOfRow
  <2> QED BY <1>1, <1>4, <2>2 DEF OnceInHand
<1>16. DoneIsWritten(run)'
  <2>1. \A d \in r.done : PointOf(d).id = d.point
    BY DEF PointOf
  <2> QED BY <1>1, <1>3, <1>5, <1>15, <2>1 DEF DoneIsWritten
<1>17. GoneIsDeleted(run)'
  <2>1. SUFFICES ASSUME r.write, NEW p \in points', p.row \in run'.gone
                 PROVE  table[p.row].point # p.id
    BY <1>3 DEF GoneIsDeleted
  <2>2. CASE p.row \in r.gone
    BY <1>1, <1>5, <2>1, <2>2 DEF GoneIsDeleted
  <2>3. CASE p.row \notin r.gone
    <3>1. PICK d \in own : p.row = d.row
      BY <1>3, <2>1, <2>3
    <3>2. p.id \in 1..n /\ n \in Nat /\ d.point # p.id
      <4>1. deletes
        BY <1>3, <2>1, <2>3, <3>1
      <4> QED BY <1>1, <1>5, <2>1, <4>1, PointFields, ReembedConstants DEF StoresOK
    <3>3. table[d.row].point \in {0, d.point}
      BY <1>1, <1>4 DEF AsRead
    <3> QED BY <3>1, <3>2, <3>3
  <2> QED BY <2>2, <2>3
<1>18. PointsAreKnown(run)'
  BY <1>1, <1>2, <1>3, <1>5 DEF PointsAreKnown
<1>19. ASSUME NEW x \in Rows, ~MovedOn(r, x), E!Served(x) PROVE E!Served(x)'
  <2> DEFINE t == table[x]
             p == [id |-> t.point, row |-> x, text |-> t.text, desc |-> t.desc]
  <2>1. SUFFICES ASSUME t.active, t.desc # 0 PROVE p \in points'
    BY <1>19 DEF E!Served
  <2>2. p \in points /\ p.id = t.point
    BY <1>19, <2>1 DEF E!Served
  <2> HIDE DEF p
  <2>3. ASSUME NEW d \in own, d.point = p.id PROVE FALSE
    <3>1. d.row = x
      BY <1>1, <1>4, <1>19, <2>2, <2>3 DEF IdsApart, IdOfRow
    <3> QED BY <1>4, <1>13, <1>19, <2>1, <3>1
  <2> QED BY <1>5, <2>2, <2>3
<1>20. PassedIsServed' /\ PassedIsCollected'
  <2>1. \A x \in Rows : Passed(x)' => Passed(x) /\ ~MovedOn(r, x)
    BY <1>2, PassedStays DEF Passed
  <2> QED BY <1>1, <1>2, <1>19, <2>1 DEF PassedIsServed, PassedIsCollected, Passed
<1>21. WantedIsHandled(run)'
  <2>1. SUFFICES ASSUME r.stage # "off", r.write, r.alone, ~run'.failed,
                        NEW x \in Rows, Wanted(run, x)'
                 PROVE  Handled(run, x)'
    BY <1>3 DEF WantedIsHandled
  <2>2. goesOn /\ ~r.failed /\ run'.gone = r.gone \cup {d.row : d \in own}
    BY <1>3, <2>1
  <2> HIDE DEF goesOn
  <2>3. Wanted(r, x) /\ ~MovedOn(r, x) /\ Handled(r, x)
    BY <1>1, <1>2, <1>3, <2>1, <2>2, PassedStays DEF Wanted, WantedIsHandled
  <2>4. CASE E!Served(x)
    BY <1>19, <2>3, <2>4 DEF Handled
  <2>5. CASE x \in r.gone
    BY <1>3, <2>2, <2>5 DEF Handled
  <2>6. CASE \E d \in r.todo \cup r.up \cup r.done : d.row = x
    BY <1>6, <2>6 DEF Handled
  <2>7. CASE \E d \in r.down : d.row = x
    <3>1. PICK d \in r.down : d.row = x
      BY <2>7
    <3>2. CASE d.point # 0
      <4>1. d \in own
        BY <3>2 DEF own
      <4> QED BY <1>3, <2>2, <3>1, <4>1 DEF Handled
    <3>3. CASE d.point = 0
      <4>1. ~table[x].active /\ table[x].point = 0
        BY <1>1, <1>4, <1>13, <2>3, <3>1, <3>3 DEF AsRead
      <4> QED BY <4>1 DEF Handled, E!Served
    <3> QED BY <3>2, <3>3
  <2> QED BY <2>3, <2>4, <2>5, <2>6, <2>7 DEF Handled, InHand
<1>22. run'.stage = "write" => run'.down = {}
  BY <1>3
<1> QED
  BY <1>7, <1>8, <1>9, <1>10, <1>11, <1>14, <1>16, <1>17, <1>18, <1>20, <1>21, <1>22
     DEF ReembedInv, RunInv

\* A row that is queued, in place of the row that was read.
LEMMA QueueUp ==
    ASSUME ReembedInv, run.stage = "read", NEW d \in run.todo, d.active, ids < MaxPoints,
           d.desc # 0 \/ run.mode = "generate-desc",
           NEW n, n = IF E!Target(d) = ids + 1 THEN ids + 1 ELSE ids,
           NEW u, u = [d EXCEPT !.point = E!Target(d),
                                !.desc = IF d.desc = 0 THEN d.text ELSE d.desc],
           NEW r, r = [[run EXCEPT !.todo = @ \ {d}] EXCEPT !.up = @ \cup {u}]
    PROVE  RunInv(r, n) /\ r.stage = "read"
<1>1. /\ RunOK(run, ids) /\ StoresOK(ids) /\ StageQueues(run) /\ OnceInHand(run)
      /\ IdsApart(run, ids) /\ AsRead(run) /\ DoneIsWritten(run) /\ GoneIsDeleted(run)
      /\ PointsAreKnown(run) /\ Doubted(run) /\ WantedIsHandled(run)
      /\ ids \in 0..MaxPoints /\ MaxPoints \in Nat
  BY ReembedConstants DEF ReembedInv, RunInv, StoresOK
<1>2. /\ d \in RowRead(ids) /\ d \in InHand(run) /\ d.row \in Rows /\ d.point \in 0..ids
      /\ d.text \in Nat /\ d.desc \in Nat /\ d.at \in Nat /\ ids \in Nat
  BY <1>1, RunFields, RowFields DEF InHand
<1>3. /\ r.stage = "read" /\ r.mode = run.mode /\ r.full = run.full /\ r.write = run.write
      /\ r.todo = run.todo \ {d} /\ r.up = run.up \cup {u} /\ r.down = run.down
      /\ r.done = run.done /\ r.gone = run.gone /\ r.failed = run.failed
      /\ r.upto = run.upto /\ r.sees = run.sees /\ r.alone = run.alone
  BY <1>1 DEF RunOK, RunRecord
<1>4. \/ d.point = 0 /\ E!Target(d) = ids + 1 /\ n = ids + 1
      \/ d.point # 0 /\ E!Target(d) = d.point /\ n = ids
  BY <1>2 DEF E!Target
<1>5. /\ u.row = d.row /\ u.text = d.text /\ u.active /\ u.point = E!Target(d)
      /\ u.desc = (IF d.desc = 0 THEN d.text ELSE d.desc)
      /\ u = [row |-> d.row, at |-> d.at, text |-> d.text, desc |-> u.desc,
              active |-> d.active, point |-> E!Target(d)]
  BY <1>2 DEF RowRead
<1>6. /\ n \in 0..MaxPoints /\ ids <= n /\ E!Target(d) \in 1..n
  BY <1>1, <1>2, <1>4
<1>7. u \in RowRead(n) /\ RowRead(ids) \subseteq RowRead(n)
  <2>1. u.desc \in Nat /\ d.active \in BOOLEAN /\ E!Target(d) \in 0..n
    BY <1>2, <1>5, <1>6, RowFields
  <2>2. u \in RowRead(n)
    BY <1>2, <1>5, <2>1 DEF RowRead
  <2>3. 0..ids \subseteq 0..n
    BY <1>1, <1>6
  <2> QED BY <2>2, <2>3 DEF RowRead
<1>8. RunOK(r, n)
  <2>1. /\ run.todo \ {d} \in SUBSET RowRead(n) /\ run.up \cup {u} \in SUBSET RowRead(n)
        /\ run.down \in SUBSET RowRead(n) /\ run.done \in SUBSET RowRead(n)
    BY <1>1, <1>7, RunFields
  <2>2. r \in RunRecord(n)
    BY ZenonT(60), <1>1, <2>1 DEF RunOK, RunRecord
  <2> QED BY <1>3, <2>2 DEF RunOK
<1>9. StoresOK(n)
  <2>1. 0..ids \subseteq 0..n /\ 1..ids \subseteq 1..n
    BY <1>1, <1>6
  <2>2. debris \subseteq 0..n /\ points \subseteq IndexPoint(n)
    BY <1>1, <2>1 DEF StoresOK, IndexPoint
  <2>3. table \in [Rows -> TableRow(n)]
    <3>1. table \in [Rows -> TableRow(ids)]
      BY <1>1 DEF StoresOK
    <3> QED BY <2>1, <3>1 DEF TableRow
  <2> QED BY <1>1, <1>6, <2>2, <2>3 DEF StoresOK
<1>10. StageQueues(r) /\ Doubted(r)
  BY <1>1, <1>3, <1>5, <1>6 DEF StageQueues, Doubted
<1>11. /\ \A e \in InHand(r) : e = u \/ (e \in InHand(run) /\ e # d)
       /\ \A e \in InHand(run) : e \in InHand(r) \/ e = d
       /\ u \in InHand(r) /\ InHand(r) = r.todo \cup r.up \cup r.down \cup r.done
  <2>1. d \notin run.up /\ d \notin run.down /\ d \notin run.done
    BY <1>1 DEF OnceInHand
  <2> QED BY <1>3, <2>1 DEF InHand
<1>12. \A e \in InHand(run) : e # d => e.row # d.row /\ e # u
  BY <1>1, <1>2, <1>5 DEF OnceInHand
<1>13. OnceInHand(r)
  <2>1. \A e, f \in InHand(r) : e.row = f.row => e = f
    BY <1>1, <1>5, <1>11, <1>12 DEF OnceInHand
  <2>2. \A e \in r.todo : e \notin r.up /\ e \notin r.down /\ e \notin r.done
    <3>1. \A e \in r.todo : e # u
      BY <1>3, <1>12 DEF InHand
    <3> QED BY <1>1, <1>3, <3>1 DEF OnceInHand
  <2>3. \A e \in InHand(r) : e.row \notin r.gone
    BY <1>1, <1>2, <1>3, <1>5, <1>11 DEF OnceInHand
  <2> QED BY <2>1, <2>2, <2>3 DEF OnceInHand
<1>14. IdsApart(r, n)
  <2>1. ASSUME NEW id \in 1..n, NEW x \in Rows, IdOfRow(r, id, x)
        PROVE  \/ id \in 1..ids /\ IdOfRow(run, id, x)
               \/ id = u.point /\ x = d.row
    <3>1. CASE table[x].point = id
      <4>1. id \in 1..ids
        BY <1>1, <3>1, TableFields
      <4> QED BY <3>1, <4>1 DEF IdOfRow
    <3>2. CASE \E p \in points : p.id = id /\ p.row = x
      <4>1. id \in 1..ids
        BY <1>1, <3>2, PointFields
      <4> QED BY <3>2, <4>1 DEF IdOfRow
    <3>3. ASSUME NEW e \in InHand(r), e.point = id, e.row = x
          PROVE  \/ id \in 1..ids /\ IdOfRow(run, id, x)
                 \/ id = u.point /\ x = d.row
      <4>1. CASE e = u
        BY <1>5, <3>3, <4>1
      <4>2. CASE e \in InHand(run)
        <5>1. id \in 1..ids
          BY <1>1, <3>3, <4>2, RowsInHand, RowFields
        <5> QED BY <3>3, <4>2, <5>1 DEF IdOfRow
      <4> QED BY <1>11, <4>1, <4>2
    <3> QED BY <2>1, <3>1, <3>2, <3>3 DEF IdOfRow
  <2>2. ASSUME NEW x \in Rows, u.point \in 1..ids, IdOfRow(run, u.point, x) PROVE x = d.row
    <3>1. IdOfRow(run, u.point, d.row)
      BY <1>2, <1>4, <1>5, <2>2 DEF IdOfRow
    <3> QED BY <1>1, <1>2, <2>2, <3>1 DEF IdsApart
  <2> QED BY <1>1, <2>1, <2>2 DEF IdsApart
<1>15. \A x : MovedOn(r, x) <=> MovedOn(run, x)
  BY <1>3 DEF MovedOn
<1>16. AsRead(r)
  <2>1. table[u.row].point \in {0, u.point}
    BY <1>1, <1>2, <1>4, <1>5 DEF AsRead
  <2>2. \/ MovedOn(run, u.row)
        \/ /\ table[u.row].text = u.text /\ table[u.row].active
           /\ \/ table[u.row].desc = u.desc
              \/ table[u.row].desc = 0 /\ run.mode = "generate-desc"
    BY <1>1, <1>5 DEF AsRead
  <2>3. \A e \in InHand(r) : table[e.row].point \in {0, e.point}
    BY <1>1, <1>11, <2>1 DEF AsRead
  <2>4. \A e \in r.todo \cup r.down :
          \/ MovedOn(r, e.row)
          \/ /\ table[e.row].text = e.text /\ table[e.row].desc = e.desc
             /\ table[e.row].active = e.active
    BY <1>1, <1>3, <1>15 DEF AsRead
  <2>5. \A e \in r.up \cup r.done :
          \/ MovedOn(r, e.row)
          \/ /\ table[e.row].text = e.text /\ table[e.row].active
             /\ \/ table[e.row].desc = e.desc
                \/ table[e.row].desc = 0 /\ r.mode = "generate-desc"
    <3>1. ASSUME NEW e \in run.up \cup run.done
          PROVE  \/ MovedOn(run, e.row)
                 \/ /\ table[e.row].text = e.text /\ table[e.row].active
                    /\ \/ table[e.row].desc = e.desc
                       \/ table[e.row].desc = 0 /\ run.mode = "generate-desc"
      BY <1>1 DEF AsRead
    <3>2. r.up \cup r.done = (run.up \cup run.done) \cup {u}
      BY <1>3
    <3>3. ASSUME NEW e \in r.up \cup r.done
          PROVE  \/ MovedOn(r, e.row)
                 \/ /\ table[e.row].text = e.text /\ table[e.row].active
                    /\ \/ table[e.row].desc = e.desc
                       \/ table[e.row].desc = 0 /\ r.mode = "generate-desc"
      <4>1. r.mode = run.mode
        BY <1>3
      <4>2. CASE e = u
        BY <1>15, <2>2, <4>1, <4>2
      <4>3. CASE e \in run.up \cup run.done
        BY <1>15, <3>1, <4>1, <4>3
      <4> QED BY <3>2, <3>3, <4>2, <4>3
    <3> QED BY <3>3
  <2>6. \A x \in r.gone : MovedOn(r, x) \/ ~table[x].active
    BY <1>1, <1>3, <1>15 DEF AsRead
  <2> QED BY <2>3, <2>4, <2>5, <2>6 DEF AsRead
<1>17. DoneIsWritten(r) /\ GoneIsDeleted(r) /\ PointsAreKnown(r)
  BY <1>1, <1>3 DEF DoneIsWritten, GoneIsDeleted, PointsAreKnown
<1>18. WantedIsHandled(r)
  <2>1. \A x \in Rows : Wanted(r, x) => Wanted(run, x)
    BY <1>3 DEF Wanted
  <2>2. \A x \in Rows : Handled(run, x) => Handled(r, x)
    BY <1>3, <1>5, <1>11 DEF Handled
  <2> QED BY <1>1, <1>3, <2>1, <2>2 DEF WantedIsHandled
<1> QED
  BY <1>3, <1>8, <1>9, <1>10, <1>13, <1>14, <1>16, <1>17, <1>18 DEF ReembedInv, RunInv

LEMMA QueueDown ==
    ASSUME ReembedInv, run.stage = "read", NEW d \in run.todo, ~d.active,
           NEW r, r = [[run EXCEPT !.todo = @ \ {d}] EXCEPT !.down = @ \cup {d}]
    PROVE  RunInv(r, ids) /\ r.stage = "read"
<1>1. /\ RunOK(run, ids) /\ StoresOK(ids) /\ StageQueues(run) /\ OnceInHand(run)
      /\ IdsApart(run, ids) /\ AsRead(run) /\ DoneIsWritten(run) /\ GoneIsDeleted(run)
      /\ PointsAreKnown(run) /\ Doubted(run) /\ WantedIsHandled(run)
  BY DEF ReembedInv, RunInv
<1>2. /\ r.stage = "read" /\ r.mode = run.mode /\ r.full = run.full /\ r.write = run.write
      /\ r.todo = run.todo \ {d} /\ r.up = run.up /\ r.down = run.down \cup {d}
      /\ r.done = run.done /\ r.gone = run.gone /\ r.failed = run.failed
      /\ r.upto = run.upto /\ r.sees = run.sees /\ r.alone = run.alone
  BY <1>1 DEF RunOK, RunRecord
<1>3. InHand(r) = InHand(run)
  BY <1>2 DEF InHand
<1>4. RunOK(r, ids)
  <2>1. run.todo \ {d} \in SUBSET RowRead(ids) /\ run.down \cup {d} \in SUBSET RowRead(ids)
    BY <1>1, RunFields
  <2> QED BY <1>1, <1>2, <2>1 DEF RunOK, RunRecord
<1>5. StageQueues(r) /\ Doubted(r)
  BY <1>1, <1>2 DEF StageQueues, Doubted
<1>6. OnceInHand(r)
  BY <1>1, <1>2, <1>3 DEF OnceInHand
<1>7. IdsApart(r, ids)
  BY <1>1, <1>3 DEF IdsApart, IdOfRow
<1>8. \A x : MovedOn(r, x) <=> MovedOn(run, x)
  BY <1>2 DEF MovedOn
<1>9. AsRead(r)
  BY <1>1, <1>2, <1>3, <1>8 DEF AsRead
<1>10. DoneIsWritten(r) /\ GoneIsDeleted(r) /\ PointsAreKnown(r) /\ WantedIsHandled(r)
  BY <1>1, <1>2, <1>3
     DEF DoneIsWritten, GoneIsDeleted, PointsAreKnown, WantedIsHandled, Wanted, Handled
<1> QED BY <1>1, <1>2, <1>4, <1>5, <1>6, <1>7, <1>9, <1>10 DEF ReembedInv, RunInv

\* A row that is passed over: it has no description, or the run has failed.
LEMMA PassOver ==
    ASSUME ReembedInv, run.stage = "read", NEW d \in run.todo, d.active, d.desc = 0,
           NEW failed \in {run.failed, TRUE},
           NEW r, r = [[run EXCEPT !.todo = @ \ {d}] EXCEPT !.failed = failed]
    PROVE  RunInv(r, ids) /\ r.stage = "read"
<1>1. /\ RunOK(run, ids) /\ StoresOK(ids) /\ StageQueues(run) /\ OnceInHand(run)
      /\ IdsApart(run, ids) /\ AsRead(run) /\ DoneIsWritten(run) /\ GoneIsDeleted(run)
      /\ PointsAreKnown(run) /\ Doubted(run) /\ WantedIsHandled(run)
  BY DEF ReembedInv, RunInv
<1>2. /\ r.stage = "read" /\ r.mode = run.mode /\ r.full = run.full /\ r.write = run.write
      /\ r.todo = run.todo \ {d} /\ r.up = run.up /\ r.down = run.down
      /\ r.done = run.done /\ r.gone = run.gone /\ r.failed = failed
      /\ r.upto = run.upto /\ r.sees = run.sees /\ r.alone = run.alone
  BY <1>1 DEF RunOK, RunRecord
<1>3. /\ InHand(r) \subseteq InHand(run)
      /\ \A e \in InHand(run) : e \in InHand(r) \/ e = d
      /\ d \in InHand(run) /\ d.row \in Rows
  BY <1>1, <1>2, RunFields, RowFields DEF InHand
<1>4. RunOK(r, ids)
  <2>1. run.todo \ {d} \in SUBSET RowRead(ids) /\ failed \in BOOLEAN
    BY <1>1, RunFields
  <2> QED BY <1>1, <1>2, <2>1 DEF RunOK, RunRecord
<1>5. StageQueues(r) /\ Doubted(r)
  BY <1>1, <1>2 DEF StageQueues, Doubted
<1>6. OnceInHand(r)
  BY <1>1, <1>2, <1>3 DEF OnceInHand
<1>7. IdsApart(r, ids)
  <2>1. \A id, x : IdOfRow(r, id, x) => IdOfRow(run, id, x)
    BY <1>3 DEF IdOfRow
  <2> QED BY <1>1, <2>1 DEF IdsApart
<1>8. \A x : MovedOn(r, x) <=> MovedOn(run, x)
  BY <1>2 DEF MovedOn
<1>9. AsRead(r)
  BY <1>1, <1>2, <1>3, <1>8 DEF AsRead
<1>10. DoneIsWritten(r) /\ GoneIsDeleted(r) /\ PointsAreKnown(r)
  BY <1>1, <1>2 DEF DoneIsWritten, GoneIsDeleted, PointsAreKnown
<1>11. WantedIsHandled(r)
  <2>1. ASSUME run.write, run.alone, ~r.failed, NEW x \in Rows, Wanted(r, x)
        PROVE  Handled(r, x)
    <3>1. ~run.failed
      BY <1>1, <1>2, <2>1, RunFields
    <3>2. Wanted(run, x) /\ Handled(run, x) /\ ~MovedOn(run, x)
      BY <1>1, <1>2, <2>1, <3>1, PassedStays DEF Wanted, WantedIsHandled, ReembedInv
    <3>3. CASE x = d.row
      <4>1. table[x].active /\ table[x].desc = 0
        BY <1>1, <3>2, <3>3 DEF AsRead
      <4> QED BY <4>1 DEF Handled, E!Served
    <3>4. CASE x # d.row
      BY <1>2, <1>3, <3>2, <3>4 DEF Handled
    <3> QED BY <3>3, <3>4
  <2> QED BY <1>2, <2>1 DEF WantedIsHandled
<1> QED BY <1>1, <1>2, <1>4, <1>5, <1>6, <1>7, <1>9, <1>10, <1>11 DEF ReembedInv, RunInv

\* A row is read, and a full queue flushed in the same step.
LEMMA QueuedKeeps ==
    ASSUME NEW n, NEW r, RunInv(r, n), r.stage = "read", run' = r, ids' = n,
           UNCHANGED <<clock, table, points, saved, recon, batches, late, doubt, debris>>
    PROVE  ReembedInv'
<1>1. /\ RunOK(run, n)' /\ StoresOK(n)' /\ StageQueues(run)' /\ OnceInHand(run)'
      /\ InHand(run)' = InHand(r) /\ Doubted(run)'
  BY DEF RunInv, RunOK, StoresOK, StageQueues, OnceInHand, InHand, Doubted
<1>2. IdsApart(run, n)' /\ AsRead(run)' /\ run'.stage # "write"
  BY <1>1 DEF RunInv, IdsApart, IdOfRow, AsRead, MovedOn
<1>3. DoneIsWritten(run)' /\ GoneIsDeleted(run)' /\ PointsAreKnown(run)'
  BY DEF RunInv, DoneIsWritten, GoneIsDeleted, PointsAreKnown
<1>4. PassedIsServed' /\ PassedIsCollected'
  BY DEF RunInv, PassedIsServed, PassedIsCollected, Passed, E!Served
<1>5. WantedIsHandled(run)'
  BY <1>1 DEF RunInv, WantedIsHandled, Wanted, Handled, E!Served
<1> QED BY <1>1, <1>2, <1>3, <1>4, <1>5 DEF ReembedInv, RunInv

LEMMA ReadKeeps ==
    ASSUME ReembedInv, NEW d \in run.todo, NEW outcome \in E!Outcomes, E!Read(d, outcome)
    PROVE  ReembedInv'
<1> DEFINE u == [d EXCEPT !.point = E!Target(d),
                          !.desc = IF d.desc = 0 THEN d.text ELSE d.desc]
           q == [run EXCEPT !.todo = @ \ {d}]
           up == [q EXCEPT !.up = @ \cup {u}]
           down == [q EXCEPT !.down = @ \cup {d}]
           n == IF E!Target(d) = ids + 1 THEN ids + 1 ELSE ids
           Queued(r) == run' = r /\ UNCHANGED <<points, saved, debris>>
<1>1. run.stage = "read" /\ UNCHANGED <<clock, table, recon, batches, late, doubt>>
  BY DEF E!Read
<1>2. \/ /\ d.active /\ (d.desc # 0 \/ run.mode = "generate-desc")
         /\ ids < MaxPoints /\ ids' = n
         /\ E!FlushUpsert(up, outcome) \/ Queued(up)
      \/ /\ d.active /\ d.desc = 0 /\ ids' = ids
         /\ Queued(q) \/ Queued([q EXCEPT !.failed = TRUE])
      \/ ~d.active /\ ids' = ids /\ (E!FlushDelete(down, outcome) \/ Queued(down))
  BY DEF E!Read
<1>3. CASE /\ d.active /\ (d.desc # 0 \/ run.mode = "generate-desc")
           /\ ids < MaxPoints /\ ids' = n
           /\ E!FlushUpsert(up, outcome) \/ Queued(up)
  <2>1. \A m, v, r : /\ m = n /\ v = u /\ r = [q EXCEPT !.up = @ \cup {v}]
                     => RunInv(r, m) /\ r.stage = "read"
    BY ZenonT(60), <1>1, <1>3, QueueUp
  <2>2. RunInv(up, n) /\ up.stage = "read"
    BY <2>1
  <2> HIDE DEF up, n
  <2> QED BY <1>1, <1>3, <2>2, FlushUpsertKeeps, QueuedKeeps
<1>4. CASE /\ d.active /\ d.desc = 0 /\ ids' = ids
           /\ Queued(q) \/ Queued([q EXCEPT !.failed = TRUE])
  <2>1. q = [q EXCEPT !.failed = run.failed]
    BY DEF ReembedInv, RunInv, RunOK, RunRecord
  <2>2. \A f \in {run.failed, TRUE} : \A r :
            r = [q EXCEPT !.failed = f] => RunInv(r, ids) /\ r.stage = "read"
    BY <1>1, <1>4, PassOver
  <2>3. /\ RunInv(q, ids) /\ q.stage = "read"
        /\ RunInv([q EXCEPT !.failed = TRUE], ids) /\ [q EXCEPT !.failed = TRUE].stage = "read"
    BY <2>1, <2>2
  <2> DEFINE f == [q EXCEPT !.failed = TRUE]
  <2>4. RunInv(f, ids) /\ f.stage = "read" /\ (Queued(q) \/ Queued(f))
    BY <1>4, <2>3
  <2> HIDE DEF f, q
  <2> QED BY <1>1, <1>4, <2>3, <2>4, QueuedKeeps
<1>5. CASE ~d.active /\ ids' = ids /\ (E!FlushDelete(down, outcome) \/ Queued(down))
  <2>1. RunInv(down, ids) /\ down.stage = "read"
    BY <1>1, <1>5, QueueDown
  <2> HIDE DEF down
  <2> QED BY <1>1, <1>5, <2>1, FlushDeleteKeeps, QueuedKeeps
<1> QED BY <1>2, <1>3, <1>4, <1>5

LEMMA DrainKeeps ==
    ASSUME ReembedInv, NEW outcome \in E!Outcomes, E!Drain(outcome) PROVE ReembedInv'
<1>1. /\ run.stage = "read" /\ run.todo = {}
      /\ UNCHANGED <<clock, table, recon, ids, batches, late, doubt>>
  BY DEF E!Drain
<1>2. CASE run.up # {}
  <2>1. E!FlushUpsert(run, outcome) /\ RunInv(run, ids)
    BY <1>2 DEF E!Drain, ReembedInv
  <2> QED BY <1>1, <2>1, FlushUpsertKeeps
<1>3. CASE run.up = {}
  <2> DEFINE r == [run EXCEPT !.stage = "write"]
  <2>1. E!FlushDelete(r, outcome)
    BY <1>3 DEF E!Drain
  <2>2. /\ RunOK(run, ids) /\ StoresOK(ids) /\ StageQueues(run) /\ OnceInHand(run)
        /\ IdsApart(run, ids) /\ AsRead(run) /\ DoneIsWritten(run) /\ GoneIsDeleted(run)
        /\ PointsAreKnown(run) /\ Doubted(run) /\ WantedIsHandled(run)
    BY DEF ReembedInv, RunInv
  <2>3. /\ r.stage = "write" /\ r.mode = run.mode /\ r.full = run.full /\ r.write = run.write
        /\ r.todo = run.todo /\ r.up = run.up /\ r.down = run.down
        /\ r.done = run.done /\ r.gone = run.gone /\ r.failed = run.failed
        /\ r.upto = run.upto /\ r.sees = run.sees /\ r.alone = run.alone
    BY <2>2 DEF RunOK, RunRecord
  <2>4. RunOK(r, ids)
    BY <2>2, <2>3 DEF RunOK, RunRecord
  <2> HIDE DEF r
  <2>5. InHand(r) = InHand(run)
    BY <2>3 DEF InHand
  <2>6. StageQueues(r) /\ Doubted(r) /\ OnceInHand(r) /\ IdsApart(r, ids)
    BY <1>1, <1>3, <2>2, <2>3, <2>5 DEF StageQueues, Doubted, OnceInHand, IdsApart, IdOfRow
  <2>7. AsRead(r)
    BY <2>2, <2>3, <2>5 DEF AsRead, MovedOn
  <2>8. DoneIsWritten(r) /\ GoneIsDeleted(r) /\ PointsAreKnown(r) /\ WantedIsHandled(r)
    BY <1>1, <2>2, <2>3, <2>5
       DEF DoneIsWritten, GoneIsDeleted, PointsAreKnown, WantedIsHandled, Wanted, Handled
  <2>9. RunInv(r, ids)
    BY <2>2, <2>4, <2>6, <2>7, <2>8 DEF ReembedInv, RunInv
  <2> QED BY <1>1, <2>1, <2>3, <2>9, FlushDeleteKeeps
<1> QED BY <1>2, <1>3

\* The ids are back back, each to its row.
LEMMA WriteBackKeeps ==
    ASSUME ReembedInv, NEW ok \in BOOLEAN, E!WriteBack(ok) PROVE ReembedInv'
<1> DEFINE By(x) == CHOOSE b \in run.done : b.row = x
           back == {b.row : b \in run.done}
           desc(x) == IF run.mode = "generate-desc" THEN By(x).desc ELSE table[x].desc
<1>1. /\ run.stage = "write" /\ run.down = {} /\ doubt' = (doubt \/ ~run.write)
      /\ UNCHANGED <<clock, points, recon, ids, batches, late>>
  BY DEF E!WriteBack, ReembedInv
<1>2. /\ RunOK(run, ids) /\ StoresOK(ids) /\ StageQueues(run) /\ OnceInHand(run)
      /\ IdsApart(run, ids) /\ AsRead(run) /\ DoneIsWritten(run) /\ GoneIsDeleted(run)
      /\ PointsAreKnown(run) /\ Doubted(run) /\ WantedIsHandled(run)
      /\ PassedIsServed /\ PassedIsCollected
      /\ run.write \in BOOLEAN /\ doubt \in BOOLEAN /\ ids \in Nat
  BY RunFields, ReembedConstants DEF ReembedInv, RunInv, StoresOK
<1>3. CASE E!Stopped /\ UNCHANGED table
  <2>1. doubt' \in {doubt, TRUE}
    BY <1>1, <1>2
  <2> QED BY <1>1, <1>3, <2>1, StoppedKeeps
<1>4. CASE /\ table' = [x \in Rows |->
                   IF x \notin back \/ table[x].at = 0 THEN table[x]
                   ELSE [table[x] EXCEPT !.point = By(x).point, !.desc = desc(x)]]
           /\ run' = [run EXCEPT !.stage = "clear", !.done = {}]
           /\ debris' = debris \cup {b.point : b \in {c \in run.done : table[c.row].at = 0}}
           /\ saved' = saved
  <2>1. /\ run'.stage = "clear" /\ run'.mode = run.mode /\ run'.full = run.full
        /\ run'.write = run.write /\ run'.todo = {} /\ run'.up = {} /\ run'.down = {}
        /\ run'.done = {} /\ run'.gone = run.gone /\ run'.failed = run.failed
        /\ run'.upto = run.upto /\ run'.sees = run.sees /\ run'.alone = run.alone
    BY <1>1, <1>2, <1>4 DEF RunOK, RunRecord, StageQueues
  <2>2. /\ InHand(run) = run.done /\ InHand(run)' = {}
    BY <1>1, <1>2, <2>1 DEF InHand, StageQueues
  <2>3. \A b \in run.done : /\ b \in RowRead(ids) /\ b.row \in Rows /\ b.point \in 0..ids
                            /\ b.point # 0 /\ b.desc \in Nat /\ b.row \in back
    BY <1>2, RunFields, RowFields DEF StageQueues
  <2>4. \A b \in run.done : By(b.row) = b
    <3>1. TAKE b \in run.done
    <3>2. By(b.row) \in run.done /\ By(b.row).row = b.row
      OBVIOUS
    <3> QED BY <1>2, <2>2, <3>2 DEF OnceInHand
  <2>5. \A x \in back : By(x) \in run.done /\ By(x).row = x
    OBVIOUS
  <2> HIDE DEF By
  <2>6. \A x \in Rows :
           /\ table'[x].at = table[x].at /\ table'[x].text = table[x].text
           /\ table'[x].active = table[x].active
           /\ x \notin back \/ table[x].at = 0 => table'[x] = table[x]
           /\ x \in back /\ table[x].at # 0 =>
                 table'[x].point = By(x).point /\ table'[x].desc = desc(x)
           /\ table'[x] \in TableRow(ids)
    <3>1. TAKE x \in Rows
    <3>2. table[x] \in TableRow(ids)
      BY <1>2 DEF StoresOK
    <3>3. CASE x \notin back \/ table[x].at = 0
      BY <1>4, <3>2, <3>3
    <3>4. CASE x \in back /\ table[x].at # 0
      <4>1. By(x).point \in 0..ids /\ desc(x) \in Nat
        BY <2>3, <2>5, <3>2, <3>4 DEF TableRow
      <4>2. table'[x] = [table[x] EXCEPT !.point = By(x).point, !.desc = desc(x)]
        BY <1>4, <3>4
      <4> HIDE DEF desc
      <4> QED BY <3>2, <3>4, <4>1, <4>2 DEF TableRow
    <3> QED BY <3>3, <3>4
  <2> HIDE DEF back, desc
  <2>7. RunOK(run, ids)'
    BY <1>1, <1>2, <1>4, <2>1 DEF RunOK, RunRecord
  <2>8. StoresOK(ids)'
    <3>1. table' \in [Rows -> TableRow(ids)]
      <4>1. table' = [x \in Rows |-> table'[x]]
        BY <1>4
      <4> QED BY <2>6, <4>1
    <3>2. debris' \subseteq 0..ids /\ doubt' \in BOOLEAN
      BY <1>1, <1>2, <1>4, <2>3 DEF StoresOK
    <3> QED BY <1>1, <1>2, <1>4, <3>1, <3>2 DEF StoresOK
  <2>9. StageQueues(run)' /\ Doubted(run)' /\ OnceInHand(run)'
    BY <1>1, <1>2, <2>1, <2>2 DEF StageQueues, Doubted, OnceInHand
  <2>10. IdsApart(run, ids)'
    <3>1. \A id \in 1..ids, x \in Rows : IdOfRow(run, id, x)' => IdOfRow(run, id, x)
      BY <1>1, <2>2, <2>5, <2>6 DEF IdOfRow
    <3> QED BY <1>1, <1>2, <3>1 DEF IdsApart
  <2>11. \A x \in Rows : MovedOn(run, x)' <=> MovedOn(run, x)
    BY <1>1, <1>4, <2>1, <2>6 DEF MovedOn
  <2>12. run.gone \subseteq Rows
    BY <1>2, RunFields
  <2>13. AsRead(run)'
    BY <1>2, <2>1, <2>2, <2>6, <2>11, <2>12 DEF AsRead
  <2>14. DoneIsWritten(run)'
    BY <2>1 DEF DoneIsWritten
  <2>15. \A p \in points : p.id \in 1..ids /\ p.id # 0 /\ p.row \in Rows
    BY <1>2, PointFields
  <2>16. GoneIsDeleted(run)'
    <3>1. \A x \in run.gone : x \notin back
      BY <1>2, <2>2, <2>5 DEF OnceInHand
    <3> QED BY <1>1, <1>2, <2>1, <2>6, <2>15, <3>1 DEF GoneIsDeleted
  <2>17. PointsAreKnown(run)'
    <3>1. SUFFICES ASSUME NEW p \in points, p.id \notin debris'
                   PROVE  table'[p.row].point = p.id
      BY <1>1 DEF PointsAreKnown
    <3>2. CASE \E d \in run.done : d.point = p.id
      <4>1. PICK d \in run.done : d.point = p.id
        BY <3>2
      <4>2. d.row = p.row
        BY <1>2, <2>2, <2>3, <2>15, <4>1 DEF IdsApart, IdOfRow
      <4>3. table[p.row].at # 0
        BY <1>4, <3>1, <4>1, <4>2
      <4> QED BY <2>3, <2>4, <2>6, <4>1, <4>2, <4>3
    <3>3. CASE table[p.row].point = p.id
      <4>1. CASE p.row \in back /\ table[p.row].at # 0
        <5>1. table[p.row].point \in {0, By(p.row).point}
          BY <1>2, <2>2, <2>5, <4>1 DEF AsRead
        <5> QED BY <2>6, <2>15, <3>3, <4>1, <5>1
      <4>2. CASE ~(p.row \in back /\ table[p.row].at # 0)
        BY <2>6, <2>15, <3>3, <4>2
      <4> QED BY <4>1, <4>2
    <3> QED BY <1>2, <1>4, <3>1, <3>2, <3>3 DEF PointsAreKnown
  <2>18. ASSUME run.write, run.alone, NEW x \in back, ~MovedOn(run, x) PROVE E!Served(x)'
    <3>1. /\ By(x) \in run.done /\ By(x).row = x /\ x \in Rows /\ table[x].at # 0
          /\ PointOf(By(x)) \in points
      BY <1>2, <2>3, <2>5, <2>18 DEF DoneIsWritten, MovedOn
    <3>2. /\ table[x].text = By(x).text /\ table[x].active
          /\ \/ table[x].desc = By(x).desc
             \/ table[x].desc = 0 /\ run.mode = "generate-desc"
      BY <1>2, <2>18, <3>1 DEF AsRead
    <3>3. /\ table'[x].point = By(x).point /\ table'[x].desc = By(x).desc
          /\ table'[x].text = By(x).text /\ table'[x].active
      BY <2>6, <2>18, <3>1, <3>2 DEF desc
    <3>4. PointOf(By(x)) = [id |-> table'[x].point, row |-> x, text |-> table'[x].text,
                            desc |-> table'[x].desc]
      BY <3>1, <3>3 DEF PointOf
    <3> QED BY <1>1, <3>1, <3>3, <3>4 DEF E!Served
  <2>19. \A x \in Rows : x \notin back /\ E!Served(x) => E!Served(x)'
    BY <1>1, <2>6 DEF E!Served
  <2>20. PassedIsServed'
    <3>1. ASSUME ~doubt', NEW x \in Rows, Passed(x)' PROVE E!Served(x)'
      <4>1. ~doubt /\ run.write /\ run.alone
        BY <1>1, <1>2, <3>1 DEF Doubted
      <4>2. Passed(x) /\ ~MovedOn(run, x)
        BY <1>1, <1>4, <2>6, <3>1, PassedStays DEF Passed, ReembedInv
      <4> QED BY <1>2, <2>18, <2>19, <4>1, <4>2 DEF PassedIsServed
    <3> QED BY <3>1 DEF PassedIsServed
  <2>21. PassedIsCollected'
    BY <1>1, <1>2 DEF PassedIsCollected, Doubted
  <2>22. WantedIsHandled(run)'
    <3>1. ASSUME run.write, run.alone, ~run.failed, NEW x \in Rows, Wanted(run, x)'
          PROVE  Handled(run, x)'
      <4>1. Wanted(run, x) /\ ~MovedOn(run, x) /\ Handled(run, x)
        BY <1>1, <1>2, <1>4, <2>1, <2>6, <3>1, PassedStays
           DEF Wanted, WantedIsHandled, ReembedInv
      <4>2. CASE x \in back
        BY <2>18, <3>1, <4>1, <4>2 DEF Handled
      <4>3. CASE x \notin back
        <5>1. \A d \in InHand(run) : d.row # x
          BY <2>2, <2>3, <4>3
        <5> QED BY <2>1, <2>19, <4>1, <4>3, <5>1 DEF Handled
      <4> QED BY <4>2, <4>3
    <3> QED BY <2>1, <3>1 DEF WantedIsHandled
  <2>23. run'.stage # "write"
    BY <2>1
  <2> QED
    BY <1>1, <2>7, <2>8, <2>9, <2>10, <2>13, <2>14, <2>16, <2>17, <2>20, <2>21, <2>22, <2>23
       DEF ReembedInv, RunInv
<1>5. CASE ok \/ run.done = {}
  BY <1>4, <1>5 DEF E!WriteBack, E!Ids
<1>6. CASE ~(ok \/ run.done = {})
  BY <1>3, <1>6 DEF E!WriteBack
<1> QED BY <1>5, <1>6

\* The rows whose points were deleted are told so.
LEMMA ClearKeeps == ASSUME ReembedInv, NEW ok \in BOOLEAN, E!Clear(ok) PROVE ReembedInv'
<1>1. run.stage = "clear" /\ UNCHANGED <<clock, points, recon, ids, batches, late, doubt>>
  BY DEF E!Clear
<1>2. /\ RunOK(run, ids) /\ StoresOK(ids) /\ StageQueues(run) /\ OnceInHand(run)
      /\ IdsApart(run, ids) /\ AsRead(run) /\ GoneIsDeleted(run)
      /\ PointsAreKnown(run) /\ Doubted(run) /\ WantedIsHandled(run)
      /\ PassedIsServed /\ PassedIsCollected /\ run.gone \subseteq Rows /\ ids \in Nat
  BY RunFields, ReembedConstants DEF ReembedInv, RunInv, StoresOK
<1>3. CASE ~(ok \/ run.gone = {})
  BY <1>1, <1>3, StoppedKeeps DEF E!Clear
<1>4. CASE ok \/ run.gone = {}
  <2>1. /\ table' = [x \in Rows |-> IF x \in run.gone THEN [table[x] EXCEPT !.point = 0]
                                                      ELSE table[x]]
        /\ run' = [run EXCEPT !.stage = "close"] /\ saved' = saved
        /\ debris' = (IF run.write THEN debris
                      ELSE debris \cup {table[x].point : x \in run.gone})
    BY <1>4 DEF E!Clear
  <2>2. /\ run'.stage = "close" /\ run'.mode = run.mode /\ run'.full = run.full
        /\ run'.write = run.write /\ run'.todo = {} /\ run'.up = {} /\ run'.down = {}
        /\ run'.done = {} /\ run'.gone = run.gone /\ run'.failed = run.failed
        /\ run'.upto = run.upto /\ run'.sees = run.sees /\ run'.alone = run.alone
        /\ run.todo = {} /\ run.up = {} /\ run.down = {} /\ run.done = {}
    BY <1>1, <1>2, <2>1 DEF RunOK, RunRecord, StageQueues
  <2>3. InHand(run) = {} /\ InHand(run)' = {}
    BY <2>2 DEF InHand
  <2>4. \A x \in Rows :
           /\ table'[x].at = table[x].at /\ table'[x].text = table[x].text
           /\ table'[x].active = table[x].active /\ table'[x].desc = table[x].desc
           /\ x \in run.gone => table'[x].point = 0
           /\ x \notin run.gone => table'[x] = table[x]
           /\ table'[x] \in TableRow(ids)
    <3>1. TAKE x \in Rows
    <3>2. /\ table[x] \in TableRow(ids)
          /\ 0 \in 0..ids
      BY <1>2 DEF StoresOK
    <3> QED BY <2>1, <3>2 DEF TableRow
  <2>5. RunOK(run, ids)'
    BY <1>1, <1>2, <2>1, <2>2 DEF RunOK, RunRecord
  <2>6. StoresOK(ids)'
    <3>1. table' \in [Rows -> TableRow(ids)]
      <4>1. table' = [x \in Rows |-> table'[x]]
        BY <2>1
      <4> QED BY <2>4, <4>1
    <3>2. debris' \subseteq 0..ids
      <4>1. \A x \in run.gone : table[x].point \in 0..ids
        BY <1>2, TableFields
      <4> QED BY <1>2, <2>1, <4>1 DEF StoresOK
    <3> QED BY <1>1, <1>2, <2>1, <3>1, <3>2 DEF StoresOK
  <2>7. StageQueues(run)' /\ Doubted(run)' /\ OnceInHand(run)'
    BY <1>1, <1>2, <2>2, <2>3 DEF StageQueues, Doubted, OnceInHand
  <2>8. IdsApart(run, ids)'
    <3>1. \A id \in 1..ids, x \in Rows : IdOfRow(run, id, x)' => IdOfRow(run, id, x)
      BY <1>1, <2>3, <2>4 DEF IdOfRow
    <3> QED BY <1>1, <1>2, <3>1 DEF IdsApart
  <2>9. \A x \in Rows : MovedOn(run, x)' <=> MovedOn(run, x)
    BY <1>1, <2>1, <2>2, <2>4 DEF MovedOn
  <2>10. AsRead(run)'
    BY <1>2, <2>2, <2>3, <2>4, <2>9 DEF AsRead
  <2>11. DoneIsWritten(run)'
    BY <2>2 DEF DoneIsWritten
  <2>12. \A p \in points : p.id # 0 /\ p.row \in Rows
    BY <1>2, PointFields
  <2>13. GoneIsDeleted(run)'
    BY <1>1, <2>2, <2>4, <2>12 DEF GoneIsDeleted
  <2>14. PointsAreKnown(run)'
    <3>1. SUFFICES ASSUME NEW p \in points, p.id \notin debris'
                   PROVE  table'[p.row].point = p.id
      BY <1>1 DEF PointsAreKnown
    <3>2. table[p.row].point = p.id
      BY <1>2, <2>1, <2>2, <3>1 DEF PointsAreKnown
    <3>3. p.row \notin run.gone
      BY <1>2, <2>1, <3>1, <3>2 DEF GoneIsDeleted
    <3> QED BY <2>4, <2>12, <3>2, <3>3
  <2>15. \A x \in Rows : ~MovedOn(run, x) /\ E!Served(x) => E!Served(x)'
    BY <1>1, <1>2, <2>4 DEF E!Served, AsRead
  <2>16. PassedIsServed'
    <3>1. \A x \in Rows : Passed(x)' => Passed(x) /\ ~MovedOn(run, x)
      BY <1>1, <2>1, <2>4, PassedStays DEF Passed, ReembedInv
    <3> QED BY <1>1, <1>2, <2>15, <3>1 DEF PassedIsServed
  <2>17. PassedIsCollected'
    BY <1>1, <1>2 DEF PassedIsCollected, Doubted
  <2>18. WantedIsHandled(run)'
    <3>1. ASSUME run.write, run.alone, ~run.failed, NEW x \in Rows, Wanted(run, x)'
          PROVE  Handled(run, x)'
      <4>1. Wanted(run, x) /\ ~MovedOn(run, x) /\ Handled(run, x)
        BY <1>1, <1>2, <2>1, <2>2, <2>4, <3>1, PassedStays
           DEF Wanted, WantedIsHandled, ReembedInv
      <4>2. CASE x \in run.gone
        <5>1. ~table[x].active
          BY <1>2, <4>1, <4>2 DEF AsRead
        <5> QED BY <2>4, <4>2, <5>1 DEF Handled, E!Served
      <4>3. CASE x \notin run.gone
        BY <2>3, <2>15, <4>1, <4>3 DEF Handled
      <4> QED BY <4>2, <4>3
    <3> QED BY <2>2, <3>1 DEF WantedIsHandled
  <2>19. run'.stage # "write"
    BY <2>2
  <2> QED
    BY <1>1, <2>5, <2>6, <2>7, <2>8, <2>10, <2>11, <2>13, <2>14, <2>16, <2>17, <2>18, <2>19
       DEF ReembedInv, RunInv
<1> QED BY <1>3, <1>4

\* The cursor moves on over rows that are all in the index.
LEMMA CloseKeeps == ASSUME ReembedInv, E!Close PROVE ReembedInv'
<1>1. /\ run.stage = "close" /\ run' = E!NoRun
      /\ UNCHANGED <<clock, table, points, recon, ids, batches, debris>>
  BY DEF E!Close
<1>2. \/ /\ ~run.failed /\ saved' = run.upto /\ late' = late \ run.sees
         /\ doubt' = (doubt /\ ~(run.full /\ run.alone /\ run.write))
      \/ UNCHANGED <<saved, late, doubt>>
  BY DEF E!Close, E!Succeeded
<1>3. /\ RunOK(run, ids) /\ StoresOK(ids) /\ StageQueues(run) /\ IdsApart(run, ids)
      /\ PointsAreKnown(run) /\ Doubted(run) /\ WantedIsHandled(run)
      /\ PassedIsServed /\ PassedIsCollected
  BY DEF ReembedInv, RunInv
<1>4. /\ InHand(run) = {} /\ run.done = {} /\ InHand(run)' = {}
  <2>1. run.todo = {} /\ run.up = {} /\ run.down = {} /\ run.done = {}
    BY <1>1, <1>3 DEF StageQueues
  <2> QED BY <1>1, <2>1 DEF InHand, E!NoRun
<1>5. StoresOK(ids)'
  <2>1. saved' \in 0..MaxClock /\ late' \subseteq Rows /\ doubt' \in BOOLEAN
    BY <1>2, <1>3, RunFields DEF StoresOK
  <2> QED BY <1>1, <1>3, <2>1 DEF StoresOK
<1>6. PassedIsServed'
  <2>1. CASE UNCHANGED <<saved, late, doubt>>
    BY <1>1, <1>3, <2>1 DEF PassedIsServed, Passed, E!Served
  <2>2. ASSUME ~run.failed, saved' = run.upto, late' = late \ run.sees,
               doubt' = (doubt /\ ~(run.full /\ run.alone /\ run.write)),
               ~doubt', NEW x \in Rows, Passed(x)'
        PROVE  E!Served(x)
    <3>1. run.alone /\ run.write /\ (~doubt \/ run.full)
      BY <1>1, <1>3, <2>2 DEF Doubted
    <3>2. table[x].at \in 1..run.upto /\ ~(x \in late /\ x \notin run.sees)
      BY <1>1, <2>2 DEF Passed
    <3>3. CASE table[x].at > saved \/ run.full
      <4>1. Handled(run, x)
        BY <1>1, <1>3, <2>2, <3>1, <3>2, <3>3 DEF WantedIsHandled, Wanted
      <4> QED BY <1>1, <1>4, <4>1 DEF Handled
    <3>4. CASE ~(table[x].at > saved \/ run.full)
      <4>1. run.sees = {} /\ x \notin late /\ ~doubt
        BY <1>3, <3>1, <3>2, <3>4 DEF StageQueues
      <4>2. table[x].at \in 1..saved
        <5>1. table[x].at \in Nat /\ saved \in Nat /\ run.upto \in Nat
          BY <1>3, TableFields, RunFields, ReembedConstants DEF StoresOK
        <5> QED BY <3>2, <3>4, <5>1
      <4> QED BY <1>3, <4>1, <4>2 DEF PassedIsServed, Passed
    <3> QED BY <3>3, <3>4
  <2>3. \A x \in Rows : E!Served(x)' <=> E!Served(x)
    BY <1>1 DEF E!Served
  <2> QED BY <1>2, <2>1, <2>2, <2>3 DEF PassedIsServed
<1>7. PassedIsCollected'
  <2>1. recon.on => ~run.alone /\ doubt
    BY <1>1, <1>3 DEF Doubted
  <2>2. ASSUME recon.on PROVE doubt'
    <3>1. CASE UNCHANGED <<saved, late, doubt>>
      BY <2>1, <2>2, <3>1
    <3>2. CASE doubt' = (doubt /\ ~(run.full /\ run.alone /\ run.write))
      <4>1. doubt /\ ~(run.full /\ run.alone /\ run.write)
        BY <2>1, <2>2
      <4> QED BY <3>2, <4>1, Zenon
    <3> QED BY <1>2, <3>1, <3>2
  <2> QED BY <1>1, <2>2 DEF PassedIsCollected
<1>8. \A p \in points' : p.id \in debris' \/ table'[p.row].point = p.id
  BY <1>1, <1>3, <1>4 DEF PointsAreKnown
<1>9. \A id \in 1..ids, x, y \in Rows : IdOfRow(run, id, x)' /\ IdOfRow(run, id, y)' => x = y
  <2>1. \A id \in 1..ids, x \in Rows : IdOfRow(run, id, x)' => IdOfRow(run, id, x)
    BY <1>1, <1>4 DEF IdOfRow
  <2> QED BY <1>3, <2>1 DEF IdsApart
<1> QED BY <1>1, <1>5, <1>6, <1>7, <1>8, <1>9, RunIsOver

LEMMA ReembedStep == ASSUME ReembedInv, [E!Next]_(E!reembedVars) PROVE ReembedInv'
<1>1. ASSUME NEW row \in Rows, NEW at \in {clock, clock + 1} \ {0},
             NEW described \in BOOLEAN, NEW active \in BOOLEAN,
             E!ChangeRow(row, at, described, active)
      PROVE  ReembedInv'
  BY <1>1, ChangeRowKeeps
<1>2. ASSUME NEW row \in Rows, E!DeleteRow(row) PROVE ReembedInv'
  BY <1>2, DeleteRowKeeps
<1>3. ASSUME NEW mode \in {"direct", "generate-desc"}, NEW full \in BOOLEAN,
             NEW write \in BOOLEAN, NEW size \in BatchSizes, E!Start(mode, full, write, size)
      PROVE  ReembedInv'
  BY <1>3, StartKeeps
<1>4. ASSUME NEW d \in run.todo, NEW outcome \in E!Outcomes, E!Read(d, outcome)
      PROVE  ReembedInv'
  BY <1>4, ReadKeeps
<1>5. ASSUME NEW outcome \in E!Outcomes, E!Drain(outcome) PROVE ReembedInv'
  BY <1>5, DrainKeeps
<1>6. ASSUME NEW ok \in BOOLEAN, E!WriteBack(ok) PROVE ReembedInv'
  BY <1>6, WriteBackKeeps
<1>7. ASSUME NEW ok \in BOOLEAN, E!Clear(ok) PROVE ReembedInv'
  BY <1>7, ClearKeeps
<1>8. CASE E!Close
  BY <1>8, CloseKeeps
<1>9. CASE E!Die
  BY <1>9, StoppedKeeps DEF E!Die
<1>10. CASE E!Collect
  BY <1>10, CollectKeeps
<1>11. ASSUME NEW ok \in BOOLEAN, E!Sweep(ok) PROVE ReembedInv'
  BY <1>11, SweepKeeps
<1>12. CASE UNCHANGED E!reembedVars
  <2>1. UNCHANGED <<clock, table, points, saved, run, recon, ids, batches, late, doubt, debris>>
    BY <1>12 DEF E!reembedVars
  <2>2. /\ RunOK(run, ids)' /\ StoresOK(ids)' /\ StageQueues(run)' /\ OnceInHand(run)'
        /\ InHand(run)' = InHand(run) /\ Doubted(run)'
    BY <2>1 DEF ReembedInv, RunInv, RunOK, StoresOK, StageQueues, OnceInHand, InHand, Doubted
  <2>3. IdsApart(run, ids)' /\ AsRead(run)'
    BY <2>1, <2>2 DEF ReembedInv, RunInv, IdsApart, IdOfRow, AsRead, MovedOn
  <2>4. DoneIsWritten(run)' /\ GoneIsDeleted(run)' /\ PointsAreKnown(run)'
    BY <2>1 DEF ReembedInv, RunInv, DoneIsWritten, GoneIsDeleted, PointsAreKnown
  <2>5. PassedIsServed' /\ PassedIsCollected'
    BY <2>1 DEF ReembedInv, RunInv, PassedIsServed, PassedIsCollected, Passed, E!Served
  <2>6. WantedIsHandled(run)'
    BY <2>1, <2>2 DEF ReembedInv, RunInv, WantedIsHandled, Wanted, Handled, E!Served
  <2> QED BY <2>1, <2>2, <2>3, <2>4, <2>5, <2>6 DEF ReembedInv, RunInv
<1> QED
  BY <1>1, <1>2, <1>3, <1>4, <1>5, <1>6, <1>7, <1>8, <1>9, <1>10, <1>11, <1>12 DEF E!Next

\* What the cursor has passed is served, what it is to pass is in hand, and every id
\* is of one row, whatever fails, dies or changes meanwhile.
THEOREM ReembedInvariance == E!Spec => []ReembedInv
<1>1. E!Init => ReembedInv
  BY ReembedInit
<1>2. ReembedInv /\ [E!Next]_(E!reembedVars) => ReembedInv'
  BY ReembedStep
<1> QED BY <1>1, <1>2, PTL DEF E!Spec

\* The index follows the table as far as the state file says.
THEOREM IndexFollows == E!Spec => []IndexFollowsTable
<1>1. ASSUME ReembedInv PROVE IndexFollowsTable
  <2>1. /\ RunOK(run, ids) /\ StoresOK(ids) /\ PassedIsServed /\ PointsAreKnown(run)
        /\ ids \in 0..MaxPoints /\ MaxPoints \in Nat
    BY <1>1, ReembedConstants DEF ReembedInv, RunInv, StoresOK
  <2>2. E!TypeOK
    <3>1. \A p \in points : p.id \in 1..MaxPoints /\ p.row \in Rows
      BY <2>1, PointFields
    <3>2. debris \subseteq 0..MaxPoints
      BY <2>1 DEF StoresOK
    <3>3. run.stage \in {"off", "read", "write", "clear", "close"}
      BY <2>1, RunFields
    <3> QED BY <2>1, <3>1, <3>2, <3>3 DEF E!TypeOK, StoresOK
  <2>3. E!SavedMeansServed
    BY <2>1 DEF PassedIsServed, Passed, E!SavedMeansServed
  <2>4. E!PointsHaveRows
    <3>1. run.stage = "off" => run.done = {}
      BY <2>1, OffIsEmpty
    <3> QED BY <2>1, <3>1 DEF PointsAreKnown, E!PointsHaveRows
  <2> QED BY <2>2, <2>3, <2>4 DEF IndexFollowsTable, E!IndexFollowsTable
<1> QED BY <1>1, ReembedInvariance, PTL

-----------------------------------------------------------------------------
(* TurnSnapshots, for any number of turns and any limit                     *)

\* Cardinality means the same here and in the instances.
LEMMA SizesAreSame ==
    \A S : X!Cardinality(S) = Cardinality(S) /\ T!Cardinality(S) = Cardinality(S)
BY DEF X!Cardinality, T!Cardinality, Cardinality

\* A row from which a snapshot is made.
Old(r) == T!IsReference(r) /\ r.intent = ""

\* The rows follow the turns, a turn begins with its question, and what a
\* snapshot is made from comes right after the question.
RowsInOrder ==
    /\ \A i \in DOMAIN rows : rows[i].turn <= turn
    /\ \A i, j \in DOMAIN rows :
          i < j => /\ rows[i].turn <= rows[j].turn
                   /\ rows[j].role = "user" => rows[i].turn < rows[j].turn
    /\ \A i \in DOMAIN rows :
          Old(rows[i]) => /\ i - 1 \in DOMAIN rows /\ rows[i - 1].role = "user"
                          /\ rows[i - 1].type = "normal"
                          /\ rows[i - 1].turn = rows[i].turn

\* A snapshot that knows the seq of its question finds the answer of its turn there.
FindsItsTurn(snap) ==
    snap.userSeq # 0 => /\ snap.userSeq + 1 \in DOMAIN rows
                        /\ T!IsReference(rows[snap.userSeq + 1])
                        /\ rows[snap.userSeq + 1].turn = snap.turn

InOrder(snaps) == \A i, j \in DOMAIN snaps : i < j => snaps[i].turn < snaps[j].turn

SnapshotInv ==
    /\ T!TypeOK /\ RowsInOrder
    /\ \A k \in DOMAIN list : FindsItsTurn(list[k])
    /\ pc # "idle" => turn > 0 /\ Len(list) <= Limit /\ (~fault => InOrder(list))
    /\ T!ShownAreOfReference

LEMMA SnapshotConstants ==
    Limit \in Nat \ {0} /\ MaxTurns \in Nat /\ OldTurns \in 0 .. MaxTurns
BY SnapshotsAssumed DEF T!SnapshotsAssumption

\* The rows that are written are rows, and those of this process are not old.
LEMMA RowsAreTyped ==
    ASSUME NEW t \in T!Turns
    PROVE  /\ T!UserRow(t) \in T!Row
           /\ T!UserRow(t).turn = t /\ T!UserRow(t).role = "user"
           /\ T!UserRow(t).type = "normal" /\ ~Old(T!UserRow(t))
           /\ \A sql, ok, kept \in BOOLEAN :
                 /\ T!AnswerRow(t, sql, ok, kept) \in T!Row
                 /\ T!AnswerRow(t, sql, ok, kept).turn = t
                 /\ T!AnswerRow(t, sql, ok, kept).role = "assistant"
                 /\ ~Old(T!AnswerRow(t, sql, ok, kept))
<1>1. T!UserRow(t) \in T!Row
  BY DEF T!UserRow, T!Row
<1>2. /\ T!UserRow(t).turn = t /\ T!UserRow(t).role = "user"
      /\ T!UserRow(t).type = "normal" /\ ~Old(T!UserRow(t))
  BY DEF T!UserRow, Old, T!IsReference
<1>3. ASSUME NEW sql \in BOOLEAN, NEW ok \in BOOLEAN, NEW kept \in BOOLEAN
      PROVE  /\ T!AnswerRow(t, sql, ok, kept) \in T!Row
             /\ T!AnswerRow(t, sql, ok, kept).turn = t
             /\ T!AnswerRow(t, sql, ok, kept).role = "assistant"
             /\ ~Old(T!AnswerRow(t, sql, ok, kept))
  <2>1. (ok /\ kept) \in BOOLEAN
    OBVIOUS
  <2>2. T!AnswerRow(t, sql, ok, kept) \in T!Row
    BY <2>1 DEF T!AnswerRow, T!Row
  <2> QED BY <2>2 DEF T!AnswerRow, Old, T!IsReference
<1> QED BY <1>1, <1>2, <1>3

\* What follows of a row, without the set of all rows.
LEMMA FieldsOfRow ==
    ASSUME NEW r \in T!Row
    PROVE  /\ r.turn \in T!Turns /\ r.role \in {"user", "assistant"}
           /\ r.nq \in BOOLEAN /\ T!Turns \subseteq Nat
<1>1. r.turn \in T!Turns /\ r.role \in {"user", "assistant"} /\ r.nq \in BOOLEAN
  BY Zenon DEF T!Row
<1>2. T!Turns \subseteq Nat
  BY SnapshotConstants DEF T!Turns
<1> QED BY <1>1, <1>2

\* The question before a row that a snapshot is made from is that of its turn.
LEMMA QuestionBefore ==
    ASSUME rows \in Seq(T!Row), RowsInOrder, NEW i \in DOMAIN rows, Old(rows[i])
    PROVE  T!UserSeq(i, TRUE) = i - 1
<1> DEFINE Found == {k \in 1 .. i - 1 : rows[k].role = "user" /\ rows[k].type = "normal"}
<1>1. i - 1 \in Found /\ \A k \in Found : k <= i - 1
  BY DEF RowsInOrder
<1>2. Found # {} /\ T!Max(Found) = i - 1
  <2>1. \A m \in Found : (\A k \in Found : m >= k) => m = i - 1
    BY <1>1
  <2>2. \A k \in Found : i - 1 >= k
    BY <1>1
  <2> QED BY <1>1, <2>1, <2>2 DEF T!Max
<1> QED BY <1>2 DEF T!UserSeq, T!SelectLastInSubSeq

\* A row that the LIMIT lets through.
LEMMA FetchedFits ==
    ASSUME rows \in Seq(T!Row)
    PROVE  /\ T!Fetched \subseteq T!References /\ IsFiniteSet(T!Fetched)
           /\ Cardinality(T!Fetched) <= Limit
<1>1. Limit \in Nat \ {0} /\ DOMAIN rows = 1 .. Len(rows) /\ Len(rows) \in Nat
  BY SnapshotConstants
<1>2. T!Fetched \subseteq T!References /\ T!References \subseteq DOMAIN rows
  BY DEF T!Fetched, T!References
<1>3. IsFiniteSet(T!References) /\ IsFiniteSet(T!Fetched)
  <2>1. IsFiniteSet(1 .. Len(rows))
    BY <1>1, FS_Interval
  <2> QED BY <1>1, <1>2, <2>1, FS_Subset
<1>4. CASE T!Fetched = {}
  BY <1>1, <1>2, <1>3, <1>4, FS_EmptySet
<1>5. CASE T!Fetched # {}
  <2>1. PICK least \in T!Fetched : \A j \in T!Fetched : least <= j
    BY <1>1, <1>2, <1>5, LeastOfNat
  <2> DEFINE newer == {j \in T!References : j > least}
  <2>2. Cardinality(newer) < Limit
    BY <2>1, SizesAreSame DEF T!Fetched
  <2>3. T!Fetched \ {least} \subseteq newer /\ IsFiniteSet(newer)
    BY <1>1, <1>2, <1>3, <2>1, FS_Subset
  <2>4. Cardinality(T!Fetched \ {least}) <= Cardinality(newer)
    BY <2>3, FS_Subset
  <2>5. Cardinality(T!Fetched \ {least}) = Cardinality(T!Fetched) - 1
    BY <1>3, <2>1, FS_RemoveElement
  <2>6. Cardinality(newer) \in Nat /\ Cardinality(T!Fetched) \in Nat
    BY <1>3, <2>3, FS_CardinalityType
  <2> QED BY <1>1, <1>2, <1>3, <2>2, <2>4, <2>5, <2>6
<1> QED BY <1>4, <1>5

\* What is restored refers to the turns of its rows, and is in the order of time
\* when the seqs of the questions could be read.
LEMMA RestoredHolds ==
    ASSUME SnapshotInv, NEW seqsRead \in BOOLEAN, NEW skipped,
           NEW restored \in T!Restored(seqsRead, skipped)
    PROVE  /\ restored \in Seq(T!Snapshot) /\ Len(restored) <= Limit
           /\ \A k \in DOMAIN restored : FindsItsTurn(restored[k])
           /\ seqsRead => InOrder(restored)
<1> DEFINE built == {i \in T!Fetched \ skipped : T!Parsed(i)}
           n == Cardinality(built)
<1>1. PICK order \in T!Sorted(built, seqsRead) :
        restored = [p \in DOMAIN order |-> T!SnapshotOf(order[p], seqsRead)]
  BY DEF T!Restored
<1>2. rows \in Seq(T!Row) /\ RowsInOrder
  BY DEF SnapshotInv, T!TypeOK
<1>3. n \in Nat /\ n <= Limit
  <2>1. /\ T!Fetched \subseteq T!References /\ IsFiniteSet(T!Fetched)
        /\ Cardinality(T!Fetched) <= Limit
    BY <1>2, FetchedFits
  <2>2. IsFiniteSet(built) /\ n <= Cardinality(T!Fetched)
    BY <2>1, FS_Subset
  <2>3. n \in Nat /\ Cardinality(T!Fetched) \in Nat
    BY <2>1, <2>2, FS_CardinalityType
  <2> QED BY <2>1, <2>2, <2>3, SnapshotConstants
<1>4. /\ order \in [1 .. n -> built]
      /\ \A p, q \in 1 .. n : p < q => T!Before(order[p], order[q], seqsRead)
  BY SizesAreSame DEF T!Sorted
<1>5. \A p \in 1 .. n : order[p] \in DOMAIN rows /\ Old(rows[order[p]])
  BY <1>4 DEF T!Fetched, T!References, T!Parsed, Old
<1>6. \A p \in 1 .. n :
        /\ seqsRead => T!UserSeq(order[p], seqsRead) = order[p] - 1
        /\ ~seqsRead => T!UserSeq(order[p], seqsRead) = 0
  <2>1. ASSUME NEW p \in 1 .. n, seqsRead PROVE T!UserSeq(order[p], seqsRead) = order[p] - 1
    BY <1>2, <1>5, <2>1, QuestionBefore DEF T!UserSeq
  <2>2. ASSUME NEW p \in 1 .. n, ~seqsRead PROVE T!UserSeq(order[p], seqsRead) = 0
    BY <2>2 DEF T!UserSeq
  <2> QED BY <2>1, <2>2
<1> HIDE DEF built, n
<1>7. /\ DOMAIN restored = 1 .. n
      /\ \A p \in 1 .. n :
            /\ restored[p] = T!SnapshotOf(order[p], seqsRead)
            /\ restored[p].turn = rows[order[p]].turn
            /\ restored[p].userSeq = T!UserSeq(order[p], seqsRead)
  BY <1>1, <1>4 DEF T!SnapshotOf
<1>8. ASSUME NEW p \in 1 .. n
      PROVE  restored[p] \in T!Snapshot /\ FindsItsTurn(restored[p])
  <2>1. order[p] \in DOMAIN rows /\ rows[order[p]] \in T!Row /\ DOMAIN rows \subseteq Nat \ {0}
    BY <1>2, <1>5
  <2>2. T!UserSeq(order[p], seqsRead) \in Nat
    <3>1. CASE seqsRead
      <4>1. T!UserSeq(order[p], seqsRead) = order[p] - 1
        BY <1>6, <3>1
      <4>2. order[p] \in Nat \ {0}
        BY <2>1
      <4> QED BY <4>1, <4>2
    <3>2. CASE ~seqsRead
      BY <1>6, <3>2
    <3> QED BY <3>1, <3>2
  <2>3. restored[p] \in T!Snapshot
    BY <1>7, <2>1, <2>2, FieldsOfRow DEF T!SnapshotOf, T!Snapshot
  <2>4. FindsItsTurn(restored[p])
    <3>1. CASE seqsRead
      <4>1. restored[p].userSeq = order[p] - 1
        BY <1>6, <1>7, <3>1
      <4>2. restored[p].userSeq + 1 = order[p]
        BY <2>1, <4>1
      <4> QED BY <1>5, <1>7, <2>1, <4>2 DEF FindsItsTurn, Old
    <3>2. CASE ~seqsRead
      BY <1>6, <1>7, <3>2 DEF FindsItsTurn
    <3> QED BY <3>1, <3>2
  <2> QED BY <2>3, <2>4
<1>9. restored \in Seq(T!Snapshot) /\ Len(restored) = n
  BY <1>1, <1>3, <1>4, <1>7, <1>8
<1>10. ASSUME seqsRead PROVE InOrder(restored)
  <2> SUFFICES ASSUME NEW p \in 1 .. n, NEW q \in 1 .. n, p < q
               PROVE  restored[p].turn < restored[q].turn
    BY <1>7 DEF InOrder
  <2>1. order[p] < order[q] /\ order[p] \in DOMAIN rows /\ order[q] \in DOMAIN rows
    <3>1. T!Before(order[p], order[q], seqsRead)
      BY <1>4
    <3>2. order[p] \in Nat /\ order[q] \in Nat
      BY <1>2, <1>5
    <3>3. /\ T!UserSeq(order[p], seqsRead) = order[p] - 1
          /\ T!UserSeq(order[q], seqsRead) = order[q] - 1
      BY <1>6, <1>10
    <3> QED BY <1>5, <3>1, <3>2, <3>3 DEF T!Before
  <2>2. /\ order[q] - 1 \in DOMAIN rows /\ rows[order[q] - 1].role = "user"
        /\ rows[order[q] - 1].turn = rows[order[q]].turn
    BY <1>2, <1>5 DEF RowsInOrder
  <2>3. rows[order[p]].role = "assistant"
    BY <1>5 DEF Old, T!IsReference
  <2>4. order[p] < order[q] - 1
    BY <1>2, <2>1, <2>2, <2>3
  <2>5. rows[order[p]].turn < rows[order[q] - 1].turn
    BY <1>2, <2>1, <2>2, <2>4 DEF RowsInOrder
  <2> QED BY <1>7, <2>2, <2>5
<1> QED BY <1>3, <1>7, <1>8, <1>9, <1>10

\* The rows stay in order when a row of the turn that runs, or of a new one that
\* begins with its question, comes at the end; the snapshots still find theirs.
LEMMA AppendKeeps ==
    ASSUME SnapshotInv, NEW r \in T!Row, rows' = Append(rows, r), ~Old(r),
           turn' \in Nat, turn <= turn', r.turn = turn',
           r.role = "user" => turn < turn'
    PROVE  /\ rows' \in Seq(T!Row) /\ RowsInOrder'
           /\ \A snap \in T!Snapshot : FindsItsTurn(snap) => FindsItsTurn(snap)'
<1>1. rows \in Seq(T!Row) /\ RowsInOrder /\ turn \in Nat
  BY SnapshotConstants DEF SnapshotInv, T!TypeOK
<1>2. /\ rows' \in Seq(T!Row) /\ DOMAIN rows = 1 .. Len(rows) /\ Len(rows) \in Nat
      /\ DOMAIN rows' = 1 .. Len(rows) + 1
      /\ rows'[Len(rows) + 1] = r /\ \A i \in DOMAIN rows : rows'[i] = rows[i]
  BY <1>1
<1>3. \A i \in DOMAIN rows : rows[i].turn \in Nat /\ rows[i].turn <= turn
  BY <1>1, FieldsOfRow DEF RowsInOrder
<1>4. \A i \in DOMAIN rows' : rows'[i].turn <= turn'
  BY <1>1, <1>2, <1>3
<1>5. ASSUME NEW i \in DOMAIN rows', NEW j \in DOMAIN rows', i < j
      PROVE  /\ rows'[i].turn <= rows'[j].turn
             /\ rows'[j].role = "user" => rows'[i].turn < rows'[j].turn
  <2>1. i \in DOMAIN rows
    BY <1>2, <1>5
  <2>2. CASE j \in DOMAIN rows
    BY <1>1, <1>2, <1>5, <2>1, <2>2 DEF RowsInOrder
  <2>3. CASE j = Len(rows) + 1
    BY <1>1, <1>2, <1>3, <2>1, <2>3
  <2> QED BY <1>2, <2>2, <2>3
<1>6. ASSUME NEW i \in DOMAIN rows', Old(rows'[i])
      PROVE  /\ i - 1 \in DOMAIN rows' /\ rows'[i - 1].role = "user"
             /\ rows'[i - 1].type = "normal" /\ rows'[i - 1].turn = rows'[i].turn
  <2>1. i \in DOMAIN rows
    BY <1>2, <1>6
  <2>2. /\ i - 1 \in DOMAIN rows /\ rows[i - 1].role = "user"
        /\ rows[i - 1].type = "normal" /\ rows[i - 1].turn = rows[i].turn
    BY <1>1, <1>2, <1>6, <2>1 DEF RowsInOrder
  <2> QED BY <1>2, <2>1, <2>2
<1>7. RowsInOrder'
  BY <1>4, <1>5, <1>6 DEF RowsInOrder, Old, T!IsReference
<1>8. ASSUME NEW snap \in T!Snapshot, FindsItsTurn(snap) PROVE FindsItsTurn(snap)'
  BY <1>2, <1>8 DEF FindsItsTurn, T!IsReference
<1> QED BY <1>2, <1>7, <1>8

\* The row of the answer is the first reference after its question.
LEMMA RowsAreOfTurn ==
    ASSUME rows \in Seq(T!Row), NEW snap \in T!Snapshot, FindsItsTurn(snap),
           T!RowsFromMetadata(snap) # 0
    PROVE  T!RowsFromMetadata(snap) = snap.turn
<1>1. snap.userSeq \in Nat
  BY DEF T!Snapshot
<1>2. snap.userSeq > 0
  BY DEF T!RowsFromMetadata
<1>3. /\ snap.userSeq + 1 \in DOMAIN rows /\ T!IsReference(rows[snap.userSeq + 1])
      /\ rows[snap.userSeq + 1].turn = snap.turn
  BY <1>1, <1>2 DEF FindsItsTurn
<1> DEFINE seqs == [i \in DOMAIN rows |-> i]
           Found == {k \in 1 .. Len(seqs) :
                        seqs[k] > snap.userSeq /\ T!IsReference(rows[seqs[k]])}
<1>4. /\ DOMAIN rows = 1 .. Len(rows) /\ Len(seqs) = Len(rows)
      /\ \A k \in 1 .. Len(rows) : seqs[k] = k
  OBVIOUS
<1> HIDE DEF seqs
<1>5. Found = {k \in DOMAIN rows : k > snap.userSeq /\ T!IsReference(rows[k])}
  BY SMTT(60), <1>4
<1>6. snap.userSeq + 1 \in Found /\ \A k \in Found : snap.userSeq + 1 <= k
  BY <1>1, <1>3, <1>5
<1>7. T!Min(Found) = snap.userSeq + 1
  <2>1. \A m \in Found : (\A k \in Found : m <= k) => m = snap.userSeq + 1
    BY <1>1, <1>5, <1>6
  <2> QED BY <1>6, <2>1 DEF T!Min
<1>8. T!MetadataRow(snap.userSeq) = snap.userSeq + 1
  BY <1>6, <1>7 DEF T!MetadataRow, T!SelectInSeq, seqs
<1> QED BY <1>3, <1>8 DEF T!RowsFromMetadata

\* A step within a turn that leaves the list alone and adds at most a row.
LEMMA RunsOn ==
    ASSUME SnapshotInv, UNCHANGED <<turn, list, fault>>, T!TypeOK',
           RowsInOrder', \A snap \in T!Snapshot : FindsItsTurn(snap) => FindsItsTurn(snap)',
           pc # "idle", T!ShownAreOfReference'
    PROVE  SnapshotInv'
<1>1. \A k \in DOMAIN list : list[k] \in T!Snapshot
  BY DEF SnapshotInv, T!TypeOK
<1>2. \A k \in DOMAIN list' : FindsItsTurn(list[k])'
  BY <1>1 DEF SnapshotInv
<1>3. turn' > 0 /\ Len(list') <= Limit /\ (~fault' => InOrder(list)')
  BY DEF SnapshotInv, InOrder
<1> QED BY <1>2, <1>3 DEF SnapshotInv

LEMMA SnapshotsStay ==
    UNCHANGED rows => \A snap \in T!Snapshot : FindsItsTurn(snap) => FindsItsTurn(snap)'
BY DEF FindsItsTurn, T!IsReference

LEMMA BeginKeeps ==
    ASSUME SnapshotInv, NEW restored, NEW failed \in BOOLEAN, T!Begin(restored, failed),
           restored \in Seq(T!Snapshot), Len(restored) <= Limit,
           \A k \in DOMAIN restored : FindsItsTurn(restored[k]),
           ~failed => InOrder(restored)
    PROVE  SnapshotInv'
<1>1. /\ turn < MaxTurns /\ turn' = turn + 1 /\ rows' = Append(rows, T!UserRow(turn'))
      /\ list' = restored /\ fault' = failed /\ pc' = "classify" /\ route' = "new"
      /\ shown' = 0
  BY DEF T!Begin
<1>2. turn \in 0 .. MaxTurns /\ turn' \in T!Turns /\ turn' \in Nat
  BY <1>1, SnapshotConstants DEF SnapshotInv, T!TypeOK, T!Turns
<1>3. T!UserRow(turn') \in T!Row /\ T!UserRow(turn').turn = turn' /\ ~Old(T!UserRow(turn'))
  BY <1>2, RowsAreTyped
<1>4. /\ rows' \in Seq(T!Row) /\ RowsInOrder'
      /\ \A snap \in T!Snapshot : FindsItsTurn(snap) => FindsItsTurn(snap)'
  BY <1>1, <1>2, <1>3, AppendKeeps
<1>5. T!TypeOK'
  BY <1>1, <1>2, <1>4, SnapshotConstants DEF T!TypeOK, T!Turns
<1>6. \A k \in DOMAIN list' : FindsItsTurn(list[k])'
  <2>1. \A k \in DOMAIN restored : restored[k] \in T!Snapshot
    OBVIOUS
  <2> QED BY <1>1, <1>4, <2>1
<1>7. turn' > 0 /\ Len(list') <= Limit
  BY <1>1, <1>2
<1>8. ~fault' => InOrder(list)'
  BY <1>1 DEF InOrder
<1>9. T!ShownAreOfReference'
  BY <1>1 DEF T!ShownAreOfReference
<1> QED BY <1>4, <1>5, <1>6, <1>7, <1>8, <1>9 DEF SnapshotInv

\* Any of the answers in words, of the questions and of the errors of the turn is a
\* row that no snapshot is made from.
LEMMA AnswersAreTyped ==
    ASSUME NEW t \in T!Turns
    PROVE  /\ LET r == [T!AnswerRow(t, FALSE, FALSE, FALSE)
                           EXCEPT !.type = "clarification", !.intent = ""]
              IN  r \in T!Row /\ r.turn = t /\ r.role = "assistant" /\ ~Old(r)
           /\ LET r == [T!AnswerRow(t, FALSE, FALSE, FALSE)
                           EXCEPT !.type = "error", !.status = "failure", !.intent = ""]
              IN  r \in T!Row /\ r.turn = t /\ r.role = "assistant" /\ ~Old(r)
           /\ LET r == [T!AnswerRow(t, TRUE, TRUE, TRUE) EXCEPT !.status = "cancelled"]
              IN  r \in T!Row /\ r.turn = t /\ r.role = "assistant" /\ ~Old(r)
BY DEF T!AnswerRow, T!Row, Old, T!IsReference

\* A row of the turn comes at the end, and the list stays.
LEMMA RowKeeps ==
    ASSUME SnapshotInv, pc # "idle", NEW r \in T!Row, r.turn = turn, r.role = "assistant",
           ~Old(r), rows' = Append(rows, r), UNCHANGED <<turn, list, shown, fault>>,
           pc' \in {"idle", "asked"}, route' \in T!Routes \cup {"new"}
    PROVE  SnapshotInv'
<1>1. turn \in 0 .. MaxTurns /\ turn \in Nat /\ T!TypeOK
  BY SnapshotConstants DEF SnapshotInv, T!TypeOK
<1>2. /\ rows' \in Seq(T!Row) /\ RowsInOrder'
      /\ \A snap \in T!Snapshot : FindsItsTurn(snap) => FindsItsTurn(snap)'
  BY <1>1, AppendKeeps
<1>3. T!TypeOK'
  BY <1>1, <1>2 DEF T!TypeOK
<1>4. T!ShownAreOfReference'
  BY DEF T!ShownAreOfReference
<1> QED BY <1>2, <1>3, <1>4, RunsOn

\* The answer that ends a turn, after which the list has grown or not.
LEMMA EndKeeps ==
    ASSUME SnapshotInv, pc # "idle", NEW r \in T!Row, r.turn = turn, r.role = "assistant",
           ~Old(r), NEW after \in {list, T!Saved}, T!End(r, after)
    PROVE  SnapshotInv'
<1>1. /\ rows' = Append(rows, r) /\ list' = after /\ pc' = "idle"
      /\ UNCHANGED <<turn, route, shown, fault>>
  BY DEF T!End
<1>2. CASE after = list
  BY <1>1, <1>2, RowKeeps DEF SnapshotInv, T!TypeOK
<1>3. CASE after = T!Saved
  <2>1. /\ T!TypeOK /\ turn \in Nat /\ turn \in T!Turns /\ Len(list) <= Limit
        /\ list \in Seq(T!Snapshot)
    BY SnapshotConstants DEF SnapshotInv, T!TypeOK, T!Turns
  <2>2. /\ rows' \in Seq(T!Row) /\ RowsInOrder'
        /\ \A snap \in T!Snapshot : FindsItsTurn(snap) => FindsItsTurn(snap)'
    BY <1>1, <2>1, AppendKeeps
  <2> DEFINE snap == [turn |-> turn, userSeq |-> 0, nq |-> TRUE]
  <2>3. snap \in T!Snapshot /\ snap.userSeq = 0
    BY <2>1 DEF T!Snapshot
  <2>4. list' = Append(list, snap)
    BY <1>1, <1>3 DEF T!Saved
  <2> HIDE DEF snap
  <2>5. list' \in Seq(T!Snapshot) /\ Len(list') <= Limit + 1
    BY <2>1, <2>3, <2>4, SnapshotConstants
  <2>6. ASSUME NEW k \in DOMAIN list' PROVE FindsItsTurn(list[k])'
    <3>1. CASE k \in DOMAIN list
      <4>1. list'[k] = list[k] /\ list[k] \in T!Snapshot
        BY <2>1, <2>3, <2>4, <3>1
      <4>2. FindsItsTurn(list[k])
        BY <3>1 DEF SnapshotInv
      <4> QED BY <2>2, <4>1, <4>2 DEF FindsItsTurn
    <3>2. CASE k \notin DOMAIN list
      <4>1. list'[k] = snap
        BY <2>1, <2>3, <2>4, <2>6, <3>2
      <4> QED BY <2>3, <4>1 DEF FindsItsTurn
    <3> QED BY <3>1, <3>2
  <2>7. T!TypeOK'
    BY <1>1, <2>1, <2>2, <2>5 DEF T!TypeOK
  <2>8. T!ShownAreOfReference'
    BY <1>1 DEF T!ShownAreOfReference
  <2> QED BY <1>1, <2>2, <2>6, <2>7, <2>8 DEF SnapshotInv
<1> QED BY <1>2, <1>3

\* In the table there are turns of one question and one answer each.
LEMMA SnapshotInit == ASSUME T!Init PROVE SnapshotInv
<1>1. PICK n \in 0 .. OldTurns : \E kept \in [1 .. n -> BOOLEAN] :
        rows = [i \in 1 .. 2 * n |-> T!OldRow(i, kept)] /\ turn = n
  BY DEF T!Init
<1>2. PICK kept \in [1 .. n -> BOOLEAN] :
        rows = [i \in 1 .. 2 * n |-> T!OldRow(i, kept)] /\ turn = n
  BY <1>1
<1>3. n \in Nat /\ n <= MaxTurns /\ MaxTurns \in Nat
  BY SnapshotConstants
<1>4. DOMAIN rows = 1 .. 2 * n /\ \A i \in 1 .. 2 * n : rows[i] = T!OldRow(i, kept)
  BY <1>2
<1>5. ASSUME NEW i \in 1 .. 2 * n
      PROVE  /\ (i + 1) \div 2 \in 1 .. n /\ (i + 1) \div 2 \in T!Turns
             /\ rows[i] \in T!Row /\ rows[i].turn = (i + 1) \div 2
             /\ i % 2 = 1 => rows[i].role = "user" /\ rows[i].type = "normal"
             /\ i % 2 # 1 => rows[i].role = "assistant"
  <2> DEFINE t == (i + 1) \div 2
  <2>1. t \in 1 .. n /\ t \in T!Turns
    BY <1>3 DEF T!Turns
  <2> HIDE DEF t
  <2>2. CASE i % 2 = 1
    <3>1. rows[i] = T!UserRow(t)
      BY <1>4, <2>2 DEF T!OldRow, t
    <3> QED BY <2>1, <2>2, <3>1, RowsAreTyped DEF t
  <2>3. CASE i % 2 # 1
    <3>1. rows[i] = [T!AnswerRow(t, TRUE, TRUE, kept[t]) EXCEPT !.intent = ""]
      BY <1>4, <2>3 DEF T!OldRow, t
    <3>2. kept[t] \in BOOLEAN /\ (TRUE /\ kept[t]) \in BOOLEAN
      BY <2>1
    <3>3. rows[i] \in T!Row /\ rows[i].turn = t /\ rows[i].role = "assistant"
      BY <2>1, <3>1, <3>2 DEF T!AnswerRow, T!Row
    <3> QED BY <2>1, <2>3, <3>3 DEF t
  <2> QED BY <2>2, <2>3
<1>6. rows \in Seq(T!Row) /\ turn = n
  BY <1>2, <1>3, <1>4, <1>5
<1>7. RowsInOrder
  <2>1. \A i \in DOMAIN rows : rows[i].turn <= turn
    BY <1>3, <1>4, <1>5, <1>6
  <2>2. ASSUME NEW i \in DOMAIN rows, NEW j \in DOMAIN rows, i < j
        PROVE  /\ rows[i].turn <= rows[j].turn
               /\ rows[j].role = "user" => rows[i].turn < rows[j].turn
    <3>1. rows[i].turn = (i + 1) \div 2 /\ rows[j].turn = (j + 1) \div 2
      BY <1>4, <1>5
    <3>2. rows[j].role = "user" => j % 2 = 1
      BY <1>4, <1>5
    <3>3. i \in Nat /\ j \in Nat
      BY <1>3, <1>4
    <3>4. (i + 1) \div 2 <= (j + 1) \div 2
      BY <2>2, <3>3
    <3>5. j % 2 = 1 => (i + 1) \div 2 < (j + 1) \div 2
      BY <2>2, <3>3
    <3> QED BY <3>1, <3>2, <3>4, <3>5
  <2>3. ASSUME NEW i \in DOMAIN rows, Old(rows[i])
        PROVE  /\ i - 1 \in DOMAIN rows /\ rows[i - 1].role = "user"
               /\ rows[i - 1].type = "normal" /\ rows[i - 1].turn = rows[i].turn
    <3>1. i % 2 # 1 /\ i \in 1 .. 2 * n
      BY <1>4, <1>5, <2>3 DEF Old, T!IsReference
    <3>2. i - 1 \in 1 .. 2 * n /\ (i - 1) % 2 = 1 /\ ((i - 1) + 1) \div 2 = (i + 1) \div 2
      BY <1>3, <3>1
    <3> QED BY <1>4, <1>5, <3>1, <3>2
  <2> QED BY <2>1, <2>2, <2>3 DEF RowsInOrder
<1>8. T!TypeOK
  <2>1. /\ list = <<>> /\ pc = "idle" /\ route = "new" /\ shown = 0
        /\ fault \in BOOLEAN
    BY DEF T!Init
  <2>2. list \in Seq(T!Snapshot) /\ Len(list) <= Limit + 1 /\ turn \in 0 .. MaxTurns
    BY <1>3, <1>6, <2>1, SnapshotConstants
  <2> QED BY <1>3, <1>6, <2>1, <2>2 DEF T!TypeOK
<1>9. \A k \in DOMAIN list : FindsItsTurn(list[k])
  BY DEF T!Init
<1> QED BY <1>7, <1>8, <1>9 DEF SnapshotInv, T!Init, T!ShownAreOfReference

LEMMA SnapshotStep == ASSUME SnapshotInv, [T!Next]_(T!vars) PROVE SnapshotInv'
<1>1. /\ T!TypeOK /\ RowsInOrder /\ rows \in Seq(T!Row) /\ list \in Seq(T!Snapshot)
      /\ turn \in 0 .. MaxTurns /\ MaxTurns \in Nat /\ turn \in Nat
      /\ route \in T!Routes \cup {"new"}
  BY SnapshotConstants DEF SnapshotInv, T!TypeOK
<1>2. pc # "idle" => turn \in T!Turns
  BY <1>1 DEF SnapshotInv, T!Turns
<1>3. CASE T!BeginWithout
  <2>1. T!Begin(<<>>, TRUE)
    BY <1>3 DEF T!BeginWithout
  <2>2. <<>> \in Seq(T!Snapshot) /\ Len(<<>>) <= Limit /\ DOMAIN <<>> = {}
    BY SnapshotConstants
  <2> QED BY <2>1, <2>2, BeginKeeps
<1>4. CASE T!BeginRestored
  <2>1. PICK seqsRead \in BOOLEAN, skipped \in {{}} \cup {{i} : i \in T!Fetched},
             failed \in BOOLEAN :
          /\ ~failed => seqsRead
          /\ \E restored \in T!Restored(seqsRead, skipped) : T!Begin(restored, failed)
    BY <1>4 DEF T!BeginRestored
  <2>2. PICK restored \in T!Restored(seqsRead, skipped) : T!Begin(restored, failed)
    BY <2>1
  <2> QED BY <2>1, <2>2, RestoredHolds, BeginKeeps
<1>5. CASE T!Ask
  <2> DEFINE r == [T!AnswerRow(turn, FALSE, FALSE, FALSE)
                     EXCEPT !.type = "clarification", !.intent = ""]
  <2>1. r \in T!Row /\ r.turn = turn /\ r.role = "assistant" /\ ~Old(r)
    BY <1>2, <1>5, AnswersAreTyped DEF T!Ask
  <2>2. /\ rows' = Append(rows, r) /\ pc' = "asked" /\ pc # "idle"
        /\ UNCHANGED <<turn, list, route, shown, fault>>
    BY <1>5 DEF T!Ask
  <2> HIDE DEF r
  <2> QED BY <1>1, <2>1, <2>2, RowKeeps
<1>6. CASE T!Answer
  <2>1. /\ pc = "asked" /\ turn' = turn + 1 /\ rows' = Append(rows, T!UserRow(turn'))
        /\ pc' = "classify" /\ UNCHANGED <<list, route, shown, fault>> /\ turn < MaxTurns
    BY <1>6 DEF T!Answer
  <2>2. turn' \in T!Turns /\ turn' \in Nat
    BY <1>1, <2>1 DEF T!Turns
  <2>3. T!UserRow(turn') \in T!Row /\ T!UserRow(turn').turn = turn' /\ ~Old(T!UserRow(turn'))
    BY <2>2, RowsAreTyped
  <2>4. /\ rows' \in Seq(T!Row) /\ RowsInOrder'
        /\ \A snap \in T!Snapshot : FindsItsTurn(snap) => FindsItsTurn(snap)'
    BY <1>1, <2>1, <2>2, <2>3, AppendKeeps
  <2>5. T!TypeOK'
    BY <1>1, <2>1, <2>2, <2>4 DEF T!TypeOK, T!Turns
  <2>6. \A k \in DOMAIN list' : FindsItsTurn(list[k])'
    BY <1>1, <2>1, <2>4 DEF SnapshotInv
  <2>7. turn' > 0 /\ Len(list') <= Limit /\ (~fault' => InOrder(list)')
    BY <1>1, <2>1 DEF SnapshotInv, InOrder
  <2>8. T!ShownAreOfReference'
    BY <2>1 DEF T!ShownAreOfReference
  <2> QED BY <2>4, <2>5, <2>6, <2>7, <2>8 DEF SnapshotInv
<1>7. CASE T!Forget
  <2>1. list' = <<>> /\ pc' = "idle" /\ UNCHANGED <<rows, turn, route, shown, fault>>
    BY <1>7 DEF T!Forget
  <2>2. <<>> \in Seq(T!Snapshot) /\ Len(<<>>) <= Limit + 1 /\ DOMAIN <<>> = {}
    BY SnapshotConstants
  <2>3. T!TypeOK'
    BY <1>1, <2>1, <2>2 DEF T!TypeOK
  <2>4. RowsInOrder'
    BY <1>1, <2>1 DEF RowsInOrder, Old, T!IsReference
  <2> QED BY <2>1, <2>2, <2>3, <2>4 DEF SnapshotInv, T!ShownAreOfReference
<1>8. CASE T!ClassifyNew \/ T!Regenerate
  <2>1. /\ pc # "idle" /\ pc' = "reason" /\ UNCHANGED <<rows, turn, list, shown, fault>>
        /\ route' \in T!Routes \cup {"new"}
    BY <1>8 DEF T!ClassifyNew, T!Regenerate, T!Routes
  <2>2. T!TypeOK' /\ T!ShownAreOfReference'
    BY <1>1, <2>1 DEF T!TypeOK, T!ShownAreOfReference
  <2>3. RowsInOrder'
    BY <1>1, <2>1 DEF RowsInOrder, Old, T!IsReference
  <2> QED BY <2>1, <2>2, <2>3, SnapshotsStay, RunsOn
<1>9. CASE T!ShowRows
  <2>1. /\ pc = "classify" /\ list # <<>> /\ route' \in T!Routes \cup {"new"}
        /\ UNCHANGED <<turn, list, fault>>
    BY <1>9 DEF T!ShowRows, T!Routes
  <2>2. /\ Len(list) \in DOMAIN list /\ T!Primary = list[Len(list)]
        /\ T!Primary \in T!Snapshot /\ FindsItsTurn(T!Primary)
    BY <1>1, <2>1 DEF T!Primary, T!Last, SnapshotInv
  <2>3. ASSUME shown' = T!Primary.turn, pc' = "display", UNCHANGED rows
        PROVE  SnapshotInv'
    <3>1. shown' \in 0 .. MaxTurns
      BY <1>1, <2>2, <2>3 DEF T!Snapshot, T!Turns
    <3>2. T!TypeOK'
      BY <1>1, <2>1, <2>3, <3>1 DEF T!TypeOK
    <3>3. T!ShownAreOfReference'
      BY <2>1, <2>3 DEF T!ShownAreOfReference, T!Primary
    <3>4. RowsInOrder'
      BY <1>1, <2>1, <2>3 DEF RowsInOrder, Old, T!IsReference
    <3> QED BY <2>1, <2>3, <3>2, <3>3, <3>4, SnapshotsStay, RunsOn
  <2>4. CASE /\ T!RowsFromMetadata(T!Primary) # 0
             /\ shown' = T!RowsFromMetadata(T!Primary)
             /\ pc' = "display" /\ UNCHANGED rows
    BY <1>1, <2>2, <2>3, <2>4, RowsAreOfTurn
  <2>5. CASE shown' = T!Primary.turn /\ pc' = "display" /\ UNCHANGED rows
    BY <2>3, <2>5
  <2>6. CASE /\ rows' = Append(rows, T!AnswerRow(turn, FALSE, FALSE, TRUE))
             /\ pc' = "idle" /\ UNCHANGED shown
    BY <1>2, <2>1, <2>6, RowsAreTyped, RowKeeps
  <2> QED BY <1>9, <2>4, <2>5, <2>6 DEF T!ShowRows
<1>10. CASE T!OrchestratorFails
  <2>1. /\ pc # "idle" /\ rows' = Append(rows, T!AnswerRow(turn, FALSE, FALSE, TRUE))
        /\ pc' = "idle" /\ UNCHANGED <<turn, list, route, shown, fault>>
    BY <1>10 DEF T!OrchestratorFails
  <2> QED BY <1>1, <1>2, <2>1, RowsAreTyped, RowKeeps
<1>11. CASE T!EndWithRows \/ T!EndWithError \/ T!EndWithoutSql \/ T!EndDisplay
  <2>1. PICK sql \in BOOLEAN, ok \in BOOLEAN, kept \in BOOLEAN, after \in {list, T!Saved} :
          pc # "idle" /\ T!End(T!AnswerRow(turn, sql, ok, kept), after)
    BY <1>11 DEF T!EndWithRows, T!EndWithError, T!EndWithoutSql, T!EndDisplay
  <2> QED BY <1>2, <2>1, RowsAreTyped, EndKeeps
<1>12. CASE T!EndCancelled
  <2> DEFINE r == [T!AnswerRow(turn, TRUE, TRUE, TRUE) EXCEPT !.status = "cancelled"]
  <2>1. pc # "idle" /\ \E after \in {list, T!Saved} : T!End(r, after)
    BY <1>12 DEF T!EndCancelled
  <2>2. r \in T!Row /\ r.turn = turn /\ r.role = "assistant" /\ ~Old(r)
    BY <1>2, <2>1, AnswersAreTyped
  <2> HIDE DEF r
  <2> QED BY <2>1, <2>2, EndKeeps
<1>13. CASE T!EndRaised
  <2> DEFINE r == [T!AnswerRow(turn, FALSE, FALSE, FALSE)
                     EXCEPT !.type = "error", !.status = "failure", !.intent = ""]
  <2>1. pc # "idle" /\ T!End(r, list)
    BY <1>13 DEF T!EndRaised
  <2>2. r \in T!Row /\ r.turn = turn /\ r.role = "assistant" /\ ~Old(r)
    BY <1>2, <2>1, AnswersAreTyped
  <2> HIDE DEF r
  <2> QED BY <2>1, <2>2, EndKeeps
<1>14. CASE UNCHANGED T!vars
  <2>1. UNCHANGED <<rows, turn, list, pc, route, shown, fault>>
    BY <1>14 DEF T!vars
  <2>2. T!TypeOK' /\ T!ShownAreOfReference'
    BY <2>1 DEF SnapshotInv, T!TypeOK, T!ShownAreOfReference, T!Primary
  <2>3. RowsInOrder'
    BY <1>1, <2>1 DEF RowsInOrder, Old, T!IsReference
  <2>4. \A k \in DOMAIN list' : FindsItsTurn(list[k])'
    BY <1>1, <2>1, SnapshotsStay DEF SnapshotInv
  <2>5. pc' # "idle" => turn' > 0 /\ Len(list') <= Limit /\ (~fault' => InOrder(list)')
    BY <2>1 DEF SnapshotInv, InOrder
  <2> QED BY <2>2, <2>3, <2>4, <2>5 DEF SnapshotInv
<1> QED
  BY <1>3, <1>4, <1>5, <1>6, <1>7, <1>8, <1>9, <1>10, <1>11, <1>12, <1>13, <1>14 DEF T!Next

\* The rows that a turn shows again are those of the turn it refers to, which is the
\* newest of those it restored, whatever was asked, cancelled or lost between.
THEOREM SnapshotsHold ==
    T!Spec => [](T!TypeOK /\ T!PrimaryIsNewest /\ T!ShownAreOfReference)
<1>1. T!Init => SnapshotInv
  BY SnapshotInit
<1>2. SnapshotInv /\ [T!Next]_(T!vars) => SnapshotInv'
  BY SnapshotStep
<1>3. ASSUME SnapshotInv PROVE T!TypeOK /\ T!PrimaryIsNewest /\ T!ShownAreOfReference
  BY <1>3 DEF SnapshotInv, T!PrimaryIsNewest, InOrder
<1> QED BY <1>1, <1>2, <1>3, PTL DEF T!Spec

-----------------------------------------------------------------------------
(* SessionIndex, for any threads, size of a page and number of questions    *)

\* Times are apart, and none is later than the last question.
TimesAreTold == \A s \in X!Indexed : lastActive[s] <= Len(OldThreads) + asked

\* Who is in the index has a title, and the user's stays; who has a question in
\* hand or a message is in the index unless registering it failed.
IndexIsTold ==
    /\ \A s \in X!Indexed : titles[s] # "none"
    /\ renamed \subseteq X!Indexed /\ \A s \in renamed : titles[s] = "user"
    /\ (written \cup busy) \ unindexed \subseteq X!Indexed

\* What the reader has not seen of the sessions that stayed is still listed, and
\* at an offset that the reader has yet to ask for.
UnreadAreAhead ==
    /\ next = 0 => pageFull
    /\ next # 0 /\ ~left =>
          \A s \in steady \ read :
              pageFull /\ s \in X!Listed /\ next <= Cardinality(X!Before(s))

SessionInv == X!TypeOK /\ TimesAreTold /\ IndexIsTold /\ UnreadAreAhead

LEMMA SessionConstants ==
    /\ IsFiniteSet(Threads) /\ OldThreads \in Seq(Threads)
    /\ \A i, j \in DOMAIN OldThreads : OldThreads[i] = OldThreads[j] => i = j
    /\ PageSize \in Nat \ {0} /\ MaxQuestions \in Nat
<1>1. X!IsFiniteSet(Threads) /\ X!IsInjective(OldThreads)
  BY SessionIndexAssumed DEF X!SessionIndexAssumption
<1>2. IsFiniteSet(Threads)
  BY <1>1 DEF X!IsFiniteSet, IsFiniteSet
<1>3. \A i, j \in DOMAIN OldThreads : OldThreads[i] = OldThreads[j] => i = j
  BY <1>1 DEF X!IsInjective
<1> QED BY <1>2, <1>3, SessionIndexAssumed DEF X!SessionIndexAssumption

\* A thread has the place of its entry in OldThreads, or none.
LEMMA OldPlace ==
    ASSUME NEW s
    PROVE  \/ X!OldActive(s) \in 1 .. Len(OldThreads) /\ OldThreads[X!OldActive(s)] = s
           \/ X!OldActive(s) = 0 /\ s \notin X!ToSet(OldThreads)
<1> DEFINE Found == {k \in 1 .. Len(OldThreads) : OldThreads[k] = s}
<1>1. Len(OldThreads) \in Nat /\ DOMAIN OldThreads = 1 .. Len(OldThreads)
  BY SessionConstants
<1>2. CASE Found = {}
  BY <1>1, <1>2 DEF X!OldActive, X!SelectInSeq, X!ToSet
<1>3. CASE Found # {}
  <2>1. PICK i \in Found : TRUE
    BY <1>3
  <2>2. Found = {i}
    BY <1>1, <2>1, SessionConstants
  <2>3. X!Min(Found) = i
    BY <1>1, <2>2 DEF X!Min
  <2> QED BY <1>1, <1>3, <2>1, <2>3 DEF X!OldActive, X!SelectInSeq
<1> QED BY <1>2, <1>3

LEMMA SessionInit == ASSUME X!Init PROVE SessionInv
<1>1. \A s \in Threads :
        \/ lastActive[s] \in 1 .. Len(OldThreads) /\ OldThreads[lastActive[s]] = s
        \/ lastActive[s] = 0 /\ s \notin X!ToSet(OldThreads)
  BY OldPlace DEF X!Init
<1>2. DOMAIN lastActive = Threads /\ lastActive = [s \in Threads |-> lastActive[s]]
  BY DEF X!Init
<1>3. Len(OldThreads) \in Nat /\ MaxQuestions \in Nat /\ X!ToSet(OldThreads) \subseteq Threads
  BY SessionConstants DEF X!ToSet
<1>4. X!Indexed = X!ToSet(OldThreads)
  BY <1>1, <1>3, SessionConstants DEF X!Indexed, X!ToSet
<1>5. X!TypeOK
  <2>1. lastActive \in [Threads -> 0 .. Len(OldThreads) + MaxQuestions]
    BY <1>1, <1>2, <1>3
  <2>2. \A r, s \in X!Indexed : lastActive[r] = lastActive[s] => r = s
    BY <1>1 DEF X!Indexed
  <2>3. titles \in [Threads -> {"none", "question", "user"}]
    BY DEF X!Init
  <2>4. /\ asked = 0 /\ next = 0 /\ pageFull \in BOOLEAN /\ left \in BOOLEAN
        /\ archived = {} /\ busy = {} /\ read = {} /\ steady = {} /\ renamed = {}
        /\ unindexed = {} /\ written = X!ToSet(OldThreads)
    BY DEF X!Init
  <2> QED BY <1>3, <1>4, <2>1, <2>2, <2>3, <2>4 DEF X!TypeOK
<1>6. TimesAreTold
  <2>1. asked = 0
    BY DEF X!Init
  <2> QED BY <1>1, <1>3, <2>1 DEF TimesAreTold, X!Indexed
<1>7. IndexIsTold
  <2>1. /\ \A s \in X!ToSet(OldThreads) : titles[s] = "question"
        /\ renamed = {} /\ busy = {} /\ written = X!ToSet(OldThreads)
    BY <1>3 DEF X!Init
  <2> QED BY <1>4, <2>1 DEF IndexIsTold
<1>8. UnreadAreAhead
  BY DEF UnreadAreAhead, X!Init
<1> QED BY <1>5, <1>6, <1>7, <1>8 DEF SessionInv

\* Who comes before a session that stays listed is not fewer after a step in which
\* nobody leaves the list and nobody falls behind.
LEMMA AheadStays ==
    ASSUME X!TypeOK, X!TypeOK', NEW s \in X!Listed, s \in X!Listed',
           X!Before(s) \subseteq X!Before(s)', NEW n \in Nat, n <= Cardinality(X!Before(s))
    PROVE  n <= Cardinality(X!Before(s))'
<1>1. X!Before(s)' \subseteq Threads /\ X!Before(s) \subseteq Threads
  BY DEF X!Before, X!Listed, X!Indexed
<1>2. IsFiniteSet(X!Before(s)') /\ IsFiniteSet(X!Before(s))
  BY <1>1, SessionConstants, FS_Subset
<1>3. Cardinality(X!Before(s)) <= Cardinality(X!Before(s)')
  BY <1>2, FS_Subset
<1>4. Cardinality(X!Before(s)) \in Nat /\ Cardinality(X!Before(s)') \in Nat
  BY <1>2, FS_CardinalityType
<1> QED BY <1>3, <1>4

\* The unread sessions stay ahead when those listed stay so and are not overtaken
\* by less.
LEMMA UnreadStays ==
    ASSUME SessionInv, X!TypeOK', UNCHANGED <<next, pageFull, read>>,
           steady' \subseteq steady,
           ~left' => /\ X!Listed \subseteq X!Listed'
                     /\ \A s \in steady', r \in X!Listed :
                            lastActive[r] > lastActive[s] => lastActive'[r] > lastActive'[s],
           left' \in BOOLEAN, left => left'
    PROVE  UnreadAreAhead'
<1>1. ASSUME next' # 0, ~left', NEW s \in steady' \ read'
      PROVE  (pageFull /\ s \in X!Listed /\ next <= Cardinality(X!Before(s)))'
  <2>1. pageFull /\ s \in X!Listed /\ next <= Cardinality(X!Before(s))
    BY <1>1 DEF SessionInv, UnreadAreAhead
  <2>2. s \in X!Listed' /\ X!Before(s) \subseteq X!Before(s)'
    BY <1>1, <2>1 DEF X!Before
  <2>3. next \in Nat
    BY DEF SessionInv, X!TypeOK
  <2>4. next <= Cardinality(X!Before(s))'
    BY <2>1, <2>2, <2>3, AheadStays DEF SessionInv
  <2> QED BY <2>1, <2>2, <2>4
<1>2. next' = 0 => pageFull'
  BY DEF SessionInv, UnreadAreAhead
<1> QED BY <1>1, <1>2 DEF UnreadAreAhead

LEMMA AskKeeps == ASSUME SessionInv, NEW s \in Threads, X!Ask(s) PROVE SessionInv'
<1>1. /\ asked < MaxQuestions /\ s \notin busy /\ asked' = asked + 1
      /\ busy' = busy \cup {s} /\ UNCHANGED <<archived, written, left, renamed>>
      /\ UNCHANGED <<next, pageFull, read>>
  BY DEF X!Ask, X!reader
<1>2. /\ X!TypeOK /\ TimesAreTold /\ IndexIsTold
      /\ Len(OldThreads) \in Nat /\ MaxQuestions \in Nat
  BY SessionConstants DEF SessionInv
<1>3. CASE /\ lastActive' = [lastActive EXCEPT ![s] = Len(OldThreads) + asked']
           /\ titles' = X!Upserted(s)
           /\ steady' = steady \ {s} /\ unindexed' = unindexed \ {s}
  <2>1. lastActive' \in [Threads -> 0 .. Len(OldThreads) + MaxQuestions]
    BY <1>1, <1>2, <1>3 DEF X!TypeOK
  <2>2. /\ lastActive'[s] = Len(OldThreads) + asked + 1
        /\ \A r \in Threads \ {s} : lastActive'[r] = lastActive[r]
    BY <1>1, <1>2, <1>3 DEF X!TypeOK
  <2>3. X!Indexed' = X!Indexed \cup {s}
    BY <1>2, <2>2 DEF X!Indexed, X!TypeOK
  <2>4. \A r \in X!Indexed : lastActive[r] < Len(OldThreads) + asked + 1
    BY <1>2 DEF TimesAreTold, X!TypeOK, X!Indexed
  <2>5. titles' \in [Threads -> {"none", "question", "user"}]
    BY <1>2, <1>3 DEF X!TypeOK, X!Upserted
  <2>6. \A q, r \in X!Indexed' : lastActive'[q] = lastActive'[r] => q = r
    BY <1>2, <2>2, <2>3, <2>4 DEF X!TypeOK, X!Indexed
  <2>7. X!TypeOK'
    BY <1>1, <1>2, <1>3, <2>1, <2>3, <2>5, <2>6 DEF X!TypeOK
  <2>8. TimesAreTold'
    BY <1>1, <1>2, <2>2, <2>3, <2>4 DEF TimesAreTold, X!TypeOK, X!Indexed
  <2>9. IndexIsTold'
    <3>1. \A r \in X!Indexed : titles'[r] = titles[r]
      BY <1>2, <1>3 DEF X!Upserted, X!TypeOK, X!Indexed
    <3>2. s \notin X!Indexed => titles'[s] = "question"
      BY <1>2, <1>3 DEF X!Upserted, X!TypeOK
    <3> QED BY <1>1, <1>2, <1>3, <2>3, <3>1, <3>2 DEF IndexIsTold
  <2>10. UnreadAreAhead'
    <3>1. X!Listed \subseteq X!Listed'
      BY <1>1, <2>3 DEF X!Listed
    <3>2. ASSUME NEW q \in steady', NEW r \in X!Listed, lastActive[r] > lastActive[q]
          PROVE  lastActive'[r] > lastActive'[q]
      <4>1. q \in Threads \ {s} /\ r \in Threads /\ r \in X!Indexed
        BY <1>2, <1>3 DEF X!TypeOK, X!Listed, X!Indexed
      <4>2. lastActive'[q] = lastActive[q] /\ lastActive[q] \in Nat /\ lastActive[r] \in Nat
        BY <1>2, <2>2, <4>1 DEF X!TypeOK
      <4>3. lastActive'[r] >= lastActive[r]
        BY <1>2, <2>2, <2>4, <4>1, <4>2 DEF X!TypeOK
      <4>4. lastActive'[r] \in Nat
        BY <2>1, <4>1
      <4> QED BY <3>2, <4>2, <4>3, <4>4
    <3> QED BY <1>1, <1>2, <1>3, <2>7, <3>1, <3>2, UnreadStays DEF X!TypeOK
  <2> QED BY <2>7, <2>8, <2>9, <2>10 DEF SessionInv
<1>4. CASE unindexed' = unindexed \cup {s} /\ UNCHANGED <<lastActive, titles, steady>>
  <2>1. X!Indexed' = X!Indexed /\ X!Listed' = X!Listed
    BY <1>1, <1>4 DEF X!Indexed, X!Listed
  <2>2. X!TypeOK'
    BY <1>1, <1>2, <1>4, <2>1 DEF X!TypeOK
  <2>3. TimesAreTold'
    BY <1>1, <1>2, <1>4, <2>1 DEF TimesAreTold, X!TypeOK, X!Indexed
  <2>4. IndexIsTold'
    BY <1>1, <1>2, <1>4, <2>1 DEF IndexIsTold
  <2>5. UnreadAreAhead'
    BY <1>1, <1>2, <1>4, <2>1, <2>2, UnreadStays DEF X!TypeOK
  <2> QED BY <2>2, <2>3, <2>4, <2>5 DEF SessionInv
<1> QED BY <1>3, <1>4 DEF X!Ask

\* A step that leaves the times alone, and takes nobody from the list unless `left'
\* says so, keeps the unread ahead.
LEMMA SameTimesKeep ==
    ASSUME SessionInv, X!TypeOK', UNCHANGED <<lastActive, next, pageFull, read, steady>>,
           left' \in BOOLEAN, left => left',
           ~left' => X!Listed \subseteq X!Listed'
    PROVE  UnreadAreAhead'
BY UnreadStays

LEMMA SaveKeeps == ASSUME SessionInv, NEW s \in Threads, X!Save(s) PROVE SessionInv'
<1>1. /\ s \in busy /\ busy' = busy \ {s} /\ written' \in {written \cup {s}, written}
      /\ UNCHANGED <<lastActive, archived, titles, asked, next, pageFull, read>>
      /\ UNCHANGED <<steady, left, renamed, unindexed>>
  BY DEF X!Save, X!index, X!reader, X!ghosts
<1>2. X!TypeOK /\ TimesAreTold /\ IndexIsTold
  BY DEF SessionInv
<1>3. X!Indexed' = X!Indexed /\ X!Listed \subseteq X!Listed'
  BY <1>1 DEF X!Indexed, X!Listed
<1>4. X!TypeOK'
  BY <1>1, <1>2, <1>3 DEF X!TypeOK
<1>5. TimesAreTold' /\ IndexIsTold'
  BY <1>1, <1>2, <1>3 DEF TimesAreTold, IndexIsTold
<1>6. UnreadAreAhead'
  BY <1>1, <1>2, <1>3, <1>4, SameTimesKeep DEF X!TypeOK
<1> QED BY <1>4, <1>5, <1>6 DEF SessionInv

LEMMA UserKeeps ==
    ASSUME SessionInv, NEW s \in Threads, X!Archive(s) \/ X!Unarchive(s) \/ X!Rename(s)
    PROVE  SessionInv'
<1>1. X!TypeOK /\ TimesAreTold /\ IndexIsTold
  BY DEF SessionInv
<1>2. /\ UNCHANGED <<lastActive, written, busy, asked, next, pageFull, read, steady>>
      /\ UNCHANGED unindexed
  BY DEF X!Archive, X!Unarchive, X!Rename, X!reader, X!ghosts
<1>3. X!Indexed' = X!Indexed
  BY <1>2 DEF X!Indexed
<1>4. CASE X!Archive(s)
  <2>1. X!TypeOK'
    BY <1>1, <1>2, <1>3, <1>4 DEF X!Archive, X!TypeOK
  <2>2. TimesAreTold' /\ IndexIsTold'
    BY <1>1, <1>2, <1>3, <1>4 DEF X!Archive, TimesAreTold, IndexIsTold
  <2>3. ~left' => X!Listed \subseteq X!Listed'
    BY <1>2, <1>3, <1>4 DEF X!Archive, X!Listed
  <2>4. left => left'
    BY <1>4 DEF X!Archive
  <2>5. UnreadAreAhead'
    BY <1>1, <1>2, <2>1, <2>3, <2>4, SameTimesKeep DEF X!TypeOK
  <2> QED BY <2>1, <2>2, <2>5 DEF SessionInv
<1>5. CASE X!Unarchive(s)
  <2>1. archived' = archived \ {s} /\ UNCHANGED <<titles, left, renamed>>
    BY <1>5 DEF X!Unarchive, X!ghosts
  <2>2. X!TypeOK'
    BY <1>1, <1>2, <1>3, <2>1 DEF X!TypeOK
  <2>3. TimesAreTold' /\ IndexIsTold'
    BY <1>1, <1>2, <1>3, <2>1 DEF TimesAreTold, IndexIsTold
  <2>4. X!Listed \subseteq X!Listed'
    BY <1>2, <1>3, <2>1 DEF X!Listed
  <2>5. UnreadAreAhead'
    BY <1>1, <1>2, <2>1, <2>2, <2>4, SameTimesKeep DEF X!TypeOK
  <2> QED BY <2>2, <2>3, <2>5 DEF SessionInv
<1>6. CASE X!Rename(s)
  <2>1. /\ s \in X!Indexed /\ titles' = [titles EXCEPT ![s] = "user"]
        /\ renamed' = renamed \cup {s} /\ UNCHANGED <<archived, left>>
    BY <1>6 DEF X!Rename
  <2>2. X!TypeOK'
    BY <1>1, <1>2, <1>3, <2>1 DEF X!TypeOK
  <2>3. IndexIsTold'
    <3>1. \A r \in Threads : titles'[r] = IF r = s THEN "user" ELSE titles[r]
      BY <1>1, <2>1 DEF X!TypeOK
    <3>2. X!Indexed \subseteq Threads
      BY DEF X!Indexed
    <3> QED BY <1>1, <1>2, <1>3, <2>1, <3>1, <3>2 DEF IndexIsTold
  <2>4. TimesAreTold'
    BY <1>1, <1>2, <1>3 DEF TimesAreTold
  <2>5. X!Listed' = X!Listed
    BY <1>2, <1>3, <2>1 DEF X!Listed
  <2>6. UnreadAreAhead'
    BY <1>1, <1>2, <2>1, <2>2, <2>5, SameTimesKeep DEF X!TypeOK
  <2> QED BY <2>2, <2>3, <2>4, <2>6 DEF SessionInv
<1> QED BY <1>4, <1>5, <1>6

\* A page has those of the unread that come next, and if it is the last one these
\* are all.
LEMMA ReadPageKeeps == ASSUME SessionInv, X!ReadPage PROVE SessionInv'
<1>1. /\ pageFull /\ read' = read \cup X!Page /\ next' = next + PageSize
      /\ pageFull' = (next + PageSize <= Cardinality(X!Listed))
      /\ steady' = (IF next = 0 THEN X!Listed ELSE steady) /\ left' = (left /\ next # 0)
      /\ UNCHANGED <<lastActive, archived, titles, written, busy, asked, renamed, unindexed>>
  BY SizesAreSame DEF X!ReadPage, X!index
<1>2. X!TypeOK /\ TimesAreTold /\ IndexIsTold /\ PageSize \in Nat \ {0}
  BY SessionConstants DEF SessionInv
<1>3. X!Indexed' = X!Indexed /\ X!Listed' = X!Listed /\ X!Listed \subseteq Threads
  BY <1>1 DEF X!Indexed, X!Listed
<1>4. X!TypeOK'
  <2>1. X!Page \subseteq X!Listed
    BY DEF X!Page
  <2> QED BY <1>1, <1>2, <1>3, <2>1 DEF X!TypeOK
<1>5. TimesAreTold' /\ IndexIsTold'
  BY <1>1, <1>2, <1>3 DEF TimesAreTold, IndexIsTold
<1>6. UnreadAreAhead'
  <2> SUFFICES ASSUME ~left', NEW s \in steady' \ read'
               PROVE  (pageFull /\ s \in X!Listed /\ next <= Cardinality(X!Before(s)))'
    <3>1. next' # 0
      BY <1>1, <1>2 DEF X!TypeOK
    <3> QED BY <3>1 DEF UnreadAreAhead
  <2> DEFINE size == Cardinality(X!Before(s))
  <2>1. s \in X!Listed /\ next <= size
    <3>1. CASE next = 0
      <4>1. X!Before(s) \subseteq Threads
        BY DEF X!Before, X!Listed, X!Indexed
      <4>2. size \in Nat
        BY <4>1, SessionConstants, FS_Subset, FS_CardinalityType
      <4> QED BY <1>1, <3>1, <4>2
    <3>2. CASE next # 0
      BY <1>1, <3>2 DEF SessionInv, UnreadAreAhead
    <3> QED BY <3>1, <3>2
  <2>2. X!Before(s)' = X!Before(s)
    BY <1>1, <1>3 DEF X!Before
  <2>3. X!Before(s) \subseteq X!Listed \ {s}
    BY <1>2, <2>1 DEF X!Before, X!Listed, X!Indexed, X!TypeOK
  <2>4. IsFiniteSet(X!Listed)
    BY <1>3, SessionConstants, FS_Subset
  <2>5. size \in Nat /\ Cardinality(X!Listed) \in Nat /\ size < Cardinality(X!Listed)
    <3>1. /\ IsFiniteSet(X!Listed \ {s})
          /\ Cardinality(X!Listed \ {s}) = Cardinality(X!Listed) - 1
      BY <2>1, <2>4, FS_RemoveElement
    <3>2. IsFiniteSet(X!Before(s)) /\ size <= Cardinality(X!Listed \ {s})
      BY <2>3, <3>1, FS_Subset
    <3>3. Cardinality(X!Listed) \in Nat /\ size \in Nat
      BY <2>4, <3>2, FS_CardinalityType
    <3> QED BY <3>1, <3>2, <3>3
  <2>6. s \notin X!Page
    BY <1>1
  <2>7. next + PageSize <= size
    BY <1>2, <2>1, <2>5, <2>6, SizesAreSame DEF X!Page, X!TypeOK
  <2>8. next + PageSize <= Cardinality(X!Listed)
    BY <1>2, <2>5, <2>7 DEF X!TypeOK
  <2> QED BY <1>1, <1>3, <2>1, <2>2, <2>7, <2>8
<1> QED BY <1>4, <1>5, <1>6 DEF SessionInv

LEMMA SessionStep == ASSUME SessionInv, [X!Next]_(X!vars) PROVE SessionInv'
<1>1. ASSUME NEW s \in Threads,
             X!Ask(s) \/ X!Save(s) \/ X!Archive(s) \/ X!Unarchive(s) \/ X!Rename(s)
      PROVE  SessionInv'
  BY <1>1, AskKeeps, SaveKeeps, UserKeeps
<1>2. CASE X!ReadPage
  BY <1>2, ReadPageKeeps
<1>3. CASE UNCHANGED X!vars
  <2>1. /\ UNCHANGED <<lastActive, archived, titles, written, busy, asked>>
        /\ UNCHANGED <<next, pageFull, read, steady, left, renamed, unindexed>>
    BY <1>3 DEF X!vars, X!index, X!reader, X!ghosts
  <2>2. X!Indexed' = X!Indexed /\ X!Listed' = X!Listed
    BY <2>1 DEF X!Indexed, X!Listed
  <2>3. X!TypeOK' /\ TimesAreTold' /\ IndexIsTold'
    BY <2>1, <2>2 DEF SessionInv, X!TypeOK, TimesAreTold, IndexIsTold
  <2>4. UnreadAreAhead'
    BY <2>1, <2>2, <2>3, SameTimesKeep DEF X!TypeOK, SessionInv
  <2> QED BY <2>3, <2>4 DEF SessionInv
<1> QED BY <1>1, <1>2, <1>3 DEF X!Next

\* Who goes on to the end of the list sees every session that stays in it, and the
\* list tells the truth, whatever sessions come, move or are archived meanwhile.
THEOREM SessionListHolds == X!Spec => [](X!TypeOK /\ X!SessionsHold)
<1>1. X!Init => SessionInv
  BY SessionInit
<1>2. SessionInv /\ [X!Next]_(X!vars) => SessionInv'
  BY SessionStep
<1>3. ASSUME SessionInv PROVE X!TypeOK /\ X!SessionsHold
  <2>1. X!TypeOK /\ IndexIsTold /\ UnreadAreAhead
    BY <1>3 DEF SessionInv
  <2>2. X!ListIsTrue
    <3>1. \A s \in X!Listed : X!Opens(s)
      BY <2>1 DEF X!Listed, X!Opens, X!Title, IndexIsTold
    <3>2. \A s \in written : s \in X!Listed \/ s \in archived \/ s \in unindexed
      BY <2>1 DEF X!Listed, IndexIsTold
    <3> QED BY <2>1, <3>1, <3>2 DEF X!ListIsTrue, IndexIsTold
  <2>3. X!ListIsComplete
    BY <2>1 DEF X!ListIsComplete, UnreadAreAhead
  <2> QED BY <2>1, <2>2, <2>3 DEF X!SessionsHold
<1> QED BY <1>1, <1>2, <1>3, PTL DEF X!Spec

\* Both together: what is shown again is what is referred to, of turns and of
\* sessions.
THEOREM ShownIsReferred == T!Spec /\ X!Spec => []ShownAreOfReference
BY SnapshotsHold, SessionListHolds, PTL DEF ShownAreOfReference

-----------------------------------------------------------------------------
(* Tracker, for any nodes, chains and events                                *)

\* Tracker counts as the library does.
LEMMA CountsAreSame == \A S : R!Cardinality(S) = Cardinality(S)
BY DEF R!Cardinality, Cardinality

\* The entries of a timeline, and the records of the visits.
EntryTypes == {"node_start", "node_end", "tool_call", "llm_call", "decision"}
NodeNames == Nodes \union {""}
TraceEntry ==
    [seq : Nat \ {0}, type : EntryTypes,
     node : NodeNames, parent : Nat]
VisitRecord == [node : Nodes, ok : BOOLEAN, visit : Nat]
Traces ==
    [timeline : Seq(TraceEntry), path : Seq(Nodes), nodes : Seq(VisitRecord),
     calls : Nat, total : Nat, retrievals : Nat]

\* Before entry i, the visit of n that began with number s has not ended.
OpenAt(tl, s, n, i) ==
    \E j \in 1 .. (i - 1) :
        /\ tl[j].seq = s /\ tl[j].type = "node_start" /\ tl[j].node = n
        /\ \A k \in (j + 1) .. (i - 1) : ~(tl[k].type = "node_end" /\ tl[k].parent = s)

\* A timeline is one story: ParentsWereOpen of it, with the order of any two entries.
Story(tl) ==
    /\ tl \in Seq(TraceEntry)
    /\ \A i, j \in DOMAIN tl : i < j => tl[i].seq < tl[j].seq
    /\ \A i \in DOMAIN tl :
          /\ tl[i].parent # 0 => tl[i].node \in Nodes /\ OpenAt(tl, tl[i].parent, tl[i].node, i)
          /\ tl[i].type = "node_end" => tl[i].parent # 0

\* The places of the entries of a type, and which of the visits begins at a place.
PlacesOf(tl, type) == {i \in DOMAIN tl : tl[i].type = type}
VisitAt(tl, i) == Cardinality({j \in PlacesOf(tl, "node_start") : j <= i})

\* The k-th start is that of the k-th node of the path, and the k-th record its own.
VisitsFollow(tl, path, nodes) ==
    /\ Len(path) = Cardinality(PlacesOf(tl, "node_start"))
    /\ \A k \in DOMAIN nodes : k <= Len(path) /\ nodes[k].node = path[k]
    /\ \A i \in PlacesOf(tl, "node_start") :
          VisitAt(tl, i) \in DOMAIN nodes => nodes[VisitAt(tl, i)].visit = tl[i].seq

\* The last visit of the path, that of n which began with number s, has no record yet.
LastIsOpen(tl, path, nodes, n, s) ==
    /\ Len(path) = Len(nodes) + 1 /\ path[Len(path)] = n
    /\ \A i \in PlacesOf(tl, "node_start") : VisitAt(tl, i) = Len(path) => tl[i].seq = s

\* An entry goes on with the story.
LEMMA StoryGrows ==
    ASSUME NEW tl, Story(tl), NEW e \in TraceEntry,
           \A i \in DOMAIN tl : tl[i].seq < e.seq,
           e.parent # 0 => e.node \in Nodes /\ OpenAt(tl, e.parent, e.node, Len(tl) + 1),
           e.type = "node_end" => e.parent # 0
    PROVE  Story(Append(tl, e))
<1> DEFINE grown == Append(tl, e)
<1>1. tl \in Seq(TraceEntry)
  BY DEF Story
<1>2. /\ grown \in Seq(TraceEntry) /\ DOMAIN grown = 1 .. Len(tl) + 1 /\ Len(tl) \in Nat
      /\ \A i \in DOMAIN tl : i \in DOMAIN grown /\ grown[i] = tl[i]
      /\ grown[Len(tl) + 1] = e /\ DOMAIN tl = 1 .. Len(tl)
  BY <1>1
<1> HIDE DEF grown
<1>3. ASSUME NEW i \in 1 .. Len(tl) + 1, NEW s, NEW n, OpenAt(tl, s, n, i)
      PROVE  OpenAt(grown, s, n, i)
  BY <1>2, <1>3 DEF OpenAt
<1>4. \A i, j \in DOMAIN grown : i < j => grown[i].seq < grown[j].seq
  <2>1. TAKE i, j \in DOMAIN grown
  <2>2. HAVE i < j
  <2>3. i \in DOMAIN tl
    BY <1>2, <2>1, <2>2
  <2>4. CASE j \in DOMAIN tl
    BY <1>2, <2>2, <2>3, <2>4 DEF Story
  <2>5. CASE j = Len(tl) + 1
    BY <1>2, <2>3, <2>5
  <2> QED BY <1>2, <2>4, <2>5
<1>5. ASSUME NEW i \in DOMAIN grown
      PROVE  /\ grown[i].parent # 0 =>
                   grown[i].node \in Nodes /\ OpenAt(grown, grown[i].parent, grown[i].node, i)
             /\ grown[i].type = "node_end" => grown[i].parent # 0
  <2>1. CASE i \in DOMAIN tl
    BY <1>2, <1>3, <2>1 DEF Story
  <2>2. CASE i = Len(tl) + 1
    BY <1>2, <1>3, <2>2
  <2> QED BY <1>2, <2>1, <2>2
<1> QED BY <1>2, <1>4, <1>5 DEF Story, grown

\* A visit stays open unless the entry is its end.
LEMMA OpenStays ==
    ASSUME NEW tl \in Seq(TraceEntry), NEW e \in TraceEntry, NEW s, NEW n,
           OpenAt(tl, s, n, Len(tl) + 1), e.type = "node_end" => e.parent # s
    PROVE  OpenAt(Append(tl, e), s, n, Len(tl) + 2)
<1> DEFINE grown == Append(tl, e)
<1>1. /\ Len(tl) \in Nat /\ \A i \in 1 .. Len(tl) : grown[i] = tl[i]
      /\ grown[Len(tl) + 1] = e
  OBVIOUS
<1> HIDE DEF grown
<1> QED BY <1>1 DEF OpenAt, grown

\* The start of a visit opens it.
LEMMA OpenBegins ==
    ASSUME NEW tl \in Seq(TraceEntry), NEW e \in TraceEntry, e.type = "node_start"
    PROVE  OpenAt(Append(tl, e), e.seq, e.node, Len(tl) + 2)
<1> DEFINE grown == Append(tl, e)
<1>1. Len(tl) \in Nat /\ grown[Len(tl) + 1] = e
  OBVIOUS
<1> HIDE DEF grown
<1> QED BY <1>1 DEF OpenAt, grown

\* An entry counts for its own type.
LEMMA PlacesGrow ==
    ASSUME NEW tl \in Seq(TraceEntry), NEW e \in TraceEntry, NEW type
    PROVE  /\ IsFiniteSet(PlacesOf(tl, type)) /\ Cardinality(PlacesOf(tl, type)) \in Nat
           /\ PlacesOf(Append(tl, e), type) =
                 IF e.type = type THEN PlacesOf(tl, type) \union {Len(tl) + 1}
                                  ELSE PlacesOf(tl, type)
           /\ Cardinality(PlacesOf(Append(tl, e), type)) =
                 Cardinality(PlacesOf(tl, type)) + (IF e.type = type THEN 1 ELSE 0)
<1> DEFINE grown == Append(tl, e)
<1>1. /\ Len(tl) \in Nat /\ DOMAIN tl = 1 .. Len(tl) /\ DOMAIN grown = 1 .. Len(tl) + 1
      /\ \A i \in 1 .. Len(tl) : grown[i] = tl[i]
      /\ grown[Len(tl) + 1] = e
  OBVIOUS
<1> HIDE DEF grown
<1>2. IsFiniteSet(PlacesOf(tl, type)) /\ Cardinality(PlacesOf(tl, type)) \in Nat
  <2>1. PlacesOf(tl, type) \in SUBSET (1 .. Len(tl))
    BY <1>1 DEF PlacesOf
  <2>2. IsFiniteSet(1 .. Len(tl))
    BY <1>1, FS_Interval
  <2>3. IsFiniteSet(PlacesOf(tl, type))
    BY <2>1, <2>2, FS_Subset
  <2> QED BY <2>3, FS_CardinalityType
<1>3. PlacesOf(grown, type) = IF e.type = type THEN PlacesOf(tl, type) \union {Len(tl) + 1}
                                               ELSE PlacesOf(tl, type)
  <2>1. ASSUME NEW i
        PROVE  i \in PlacesOf(grown, type) <=>
                  i \in PlacesOf(tl, type) \/ (i = Len(tl) + 1 /\ e.type = type)
    BY <1>1 DEF PlacesOf
  <2> QED BY <2>1
<1>4. Len(tl) + 1 \notin PlacesOf(tl, type)
  BY <1>1 DEF PlacesOf
<1>5. Cardinality(PlacesOf(tl, type) \union {Len(tl) + 1}) = Cardinality(PlacesOf(tl, type)) + 1
  BY <1>2, <1>4, FS_AddElement
<1> QED BY <1>2, <1>3, <1>5 DEF grown

\* The place of an entry in the order of the starts does not change, and a visit
\* that begins is the next one.
LEMMA VisitsGrow ==
    ASSUME NEW tl \in Seq(TraceEntry), NEW e \in TraceEntry
    PROVE  /\ \A i \in DOMAIN tl : VisitAt(Append(tl, e), i) = VisitAt(tl, i)
           /\ \A i \in DOMAIN tl : VisitAt(tl, i) \in 0 .. Cardinality(PlacesOf(tl, "node_start"))
           /\ e.type = "node_start" =>
                 VisitAt(Append(tl, e), Len(tl) + 1) = Cardinality(PlacesOf(tl, "node_start")) + 1
<1> DEFINE grown == Append(tl, e)
           type == "node_start"
           Upto(l, i) == {j \in PlacesOf(l, type) : j <= i}
<1>1. /\ Len(tl) \in Nat /\ DOMAIN tl = 1 .. Len(tl) /\ DOMAIN grown = 1 .. Len(tl) + 1
      /\ \A i \in 1 .. Len(tl) : grown[i] = tl[i]
      /\ grown[Len(tl) + 1] = e
  OBVIOUS
<1> HIDE DEF grown
<1>2. ASSUME NEW i \in DOMAIN tl PROVE Upto(grown, i) = Upto(tl, i)
  BY <1>1 DEF PlacesOf
<1>3. ASSUME NEW i \in DOMAIN tl
      PROVE  VisitAt(tl, i) \in 0 .. Cardinality(PlacesOf(tl, type))
  <2>1. Upto(tl, i) \in SUBSET PlacesOf(tl, type)
    OBVIOUS
  <2>2. IsFiniteSet(PlacesOf(tl, type)) /\ Cardinality(PlacesOf(tl, type)) \in Nat
    BY PlacesGrow
  <2>3. /\ IsFiniteSet(Upto(tl, i)) /\ Cardinality(Upto(tl, i)) \in Nat
        /\ Cardinality(Upto(tl, i)) <= Cardinality(PlacesOf(tl, type))
    BY <2>1, <2>2, FS_Subset, FS_CardinalityType
  <2> QED BY <2>2, <2>3 DEF VisitAt
<1>4. Upto(grown, Len(tl) + 1) = PlacesOf(grown, type)
  BY <1>1 DEF PlacesOf
<1>5. e.type = "node_start" =>
         Cardinality(PlacesOf(grown, type)) = Cardinality(PlacesOf(tl, type)) + 1
  BY PlacesGrow DEF grown
<1>6. e.type = "node_start" =>
         VisitAt(grown, Len(tl) + 1) = Cardinality(PlacesOf(tl, type)) + 1
  BY <1>4, <1>5 DEF VisitAt
<1>7. \A i \in DOMAIN tl : VisitAt(grown, i) = VisitAt(tl, i)
  BY <1>2 DEF VisitAt
<1> QED BY <1>3, <1>6, <1>7 DEF grown

\* Any entry but a start leaves the visits as they are.
LEMMA VisitsStay ==
    ASSUME NEW tl \in Seq(TraceEntry), NEW e \in TraceEntry, e.type # "node_start",
           NEW path \in Seq(Nodes), NEW nodes \in Seq(VisitRecord)
    PROVE  /\ VisitsFollow(tl, path, nodes) => VisitsFollow(Append(tl, e), path, nodes)
           /\ \A n, s : LastIsOpen(tl, path, nodes, n, s) =>
                           LastIsOpen(Append(tl, e), path, nodes, n, s)
<1> DEFINE grown == Append(tl, e)
<1>1. /\ Len(tl) \in Nat /\ DOMAIN tl = 1 .. Len(tl)
      /\ \A i \in 1 .. Len(tl) : grown[i] = tl[i]
  OBVIOUS
<1>2. PlacesOf(grown, "node_start") = PlacesOf(tl, "node_start")
  BY PlacesGrow
<1>3. \A i \in DOMAIN tl : VisitAt(grown, i) = VisitAt(tl, i)
  BY VisitsGrow
<1>4. \A i \in PlacesOf(tl, "node_start") : i \in DOMAIN tl
  BY DEF PlacesOf
<1> HIDE DEF grown
<1> QED BY <1>1, <1>2, <1>3, <1>4 DEF VisitsFollow, LastIsOpen, grown

\* A start is the last of the path.
LEMMA VisitBegins ==
    ASSUME NEW tl \in Seq(TraceEntry), NEW e \in TraceEntry, e.type = "node_start",
           NEW path \in Seq(Nodes), NEW nodes \in Seq(VisitRecord), e.node \in Nodes,
           VisitsFollow(tl, path, nodes), Len(path) = Len(nodes)
    PROVE  /\ VisitsFollow(Append(tl, e), Append(path, e.node), nodes)
           /\ LastIsOpen(Append(tl, e), Append(path, e.node), nodes, e.node, e.seq)
<1> DEFINE grown == Append(tl, e)
           longer == Append(path, e.node)
           starts == PlacesOf(tl, "node_start")
<1>1. /\ Len(tl) \in Nat /\ DOMAIN tl = 1 .. Len(tl)
      /\ \A i \in 1 .. Len(tl) : grown[i] = tl[i]
      /\ grown[Len(tl) + 1] = e
  OBVIOUS
<1>2. /\ Len(path) \in Nat /\ Len(longer) = Len(path) + 1 /\ longer[Len(path) + 1] = e.node
      /\ \A k \in 1 .. Len(path) : longer[k] = path[k]
      /\ DOMAIN nodes = 1 .. Len(path)
  OBVIOUS
<1>3. PlacesOf(grown, "node_start") = starts \union {Len(tl) + 1}
  BY PlacesGrow
<1>4. Len(longer) = Cardinality(PlacesOf(grown, "node_start"))
  BY <1>2, PlacesGrow DEF VisitsFollow
<1>5. \A i \in starts : /\ i \in DOMAIN tl /\ VisitAt(grown, i) = VisitAt(tl, i)
                        /\ VisitAt(tl, i) \in 0 .. Len(path)
  BY VisitsGrow DEF PlacesOf, VisitsFollow
<1>6. VisitAt(grown, Len(tl) + 1) = Len(path) + 1
  BY VisitsGrow DEF VisitsFollow
<1> HIDE DEF grown, longer, starts
<1>7. \A k \in DOMAIN nodes : k <= Len(longer) /\ nodes[k].node = longer[k]
  BY <1>2 DEF VisitsFollow
<1>8. ASSUME NEW i \in PlacesOf(grown, "node_start")
      PROVE  /\ VisitAt(grown, i) \in DOMAIN nodes => nodes[VisitAt(grown, i)].visit = grown[i].seq
             /\ VisitAt(grown, i) = Len(longer) => grown[i].seq = e.seq
  <2>1. CASE i \in starts
    BY <1>1, <1>2, <1>5, <2>1 DEF VisitsFollow, starts
  <2>2. CASE i = Len(tl) + 1
    BY <1>1, <1>2, <1>6, <2>2
  <2> QED BY <1>3, <2>1, <2>2
<1>9. VisitsFollow(grown, longer, nodes)
  BY <1>4, <1>7, <1>8 DEF VisitsFollow
<1>10. LastIsOpen(grown, longer, nodes, e.node, e.seq)
  BY <1>2, <1>8 DEF LastIsOpen
<1> QED BY <1>9, <1>10 DEF grown, longer

\* The record of an end is that of the last visit.
LEMMA VisitEnds ==
    ASSUME NEW tl \in Seq(TraceEntry), NEW path \in Seq(Nodes), NEW nodes \in Seq(VisitRecord),
           NEW v \in VisitRecord, VisitsFollow(tl, path, nodes),
           LastIsOpen(tl, path, nodes, v.node, v.visit)
    PROVE  VisitsFollow(tl, path, Append(nodes, v)) /\ Len(path) = Len(Append(nodes, v))
<1> DEFINE added == Append(nodes, v)
<1>1. /\ Len(nodes) \in Nat /\ Len(added) = Len(nodes) + 1 /\ added[Len(nodes) + 1] = v
      /\ DOMAIN nodes = 1 .. Len(nodes) /\ DOMAIN added = 1 .. Len(nodes) + 1
      /\ \A k \in DOMAIN nodes : added[k] = nodes[k]
  OBVIOUS
<1> HIDE DEF added
<1> QED BY <1>1 DEF VisitsFollow, LastIsOpen, added

\* Each visit of a path takes its own record for its bar.
LEMMA BarsAreVisits ==
    ASSUME NEW tr \in Traces, Len(tr.path) = Len(tr.nodes),
           \A k \in DOMAIN tr.nodes : tr.nodes[k].node = tr.path[k]
    PROVE  /\ Len(R!Bars(tr)) = Len(tr.path)
           /\ \A k \in DOMAIN tr.path : R!Bars(tr)[k] = tr.nodes[k].visit
<1> DEFINE N == Len(tr.path)
           Follow(at) ==
               [i \in 1 .. N + 1 |->
                   IF i = 1 THEN 1
                   ELSE LET own == R!OwnFrom(tr, at[i - 1], tr.path[i - 1])
                        IN  IF own = {} THEN at[i - 1] ELSE R!FirstOf(own) + 1]
           straight == [i \in 1 .. N + 1 |-> i]
           came == R!CameTo(tr)
<1>1. /\ N \in Nat /\ DOMAIN tr.path = 1 .. N /\ DOMAIN tr.nodes = 1 .. N
  BY DEF Traces
<1>2. ASSUME NEW k \in 1 .. N
      PROVE  R!OwnFrom(tr, k, tr.path[k]) # {} /\ R!FirstOf(R!OwnFrom(tr, k, tr.path[k])) = k
  <2> DEFINE own == R!OwnFrom(tr, k, tr.path[k])
  <2>1. k \in own /\ \A l \in own : l \in 1 .. N /\ k <= l
    BY <1>1, <1>2 DEF R!OwnFrom
  <2> HIDE DEF own
  <2> QED BY <1>1, <2>1 DEF R!FirstOf, own
<1>3. straight = Follow(straight)
  <2>1. \A i \in 1 .. N + 1 : straight[i] = i
    OBVIOUS
  <2>2. straight = [i \in 1 .. N + 1 |-> straight[i]]
    OBVIOUS
  <2> HIDE DEF straight
  <2>3. ASSUME NEW i \in 1 .. N + 1, i # 1
        PROVE  straight[i] = LET own == R!OwnFrom(tr, straight[i - 1], tr.path[i - 1])
                             IN  IF own = {} THEN straight[i - 1] ELSE R!FirstOf(own) + 1
    <3> DEFINE k == i - 1
               own == R!OwnFrom(tr, straight[k], tr.path[k])
    <3>1. k \in 1 .. N /\ straight[k] = k /\ straight[i] = k + 1
      BY <1>1, <2>1, <2>3
    <3> HIDE DEF k
    <3>2. own # {} /\ R!FirstOf(own) = k
      BY <1>2, <3>1, Zenon
    <3> HIDE DEF own
    <3>3. straight[i] = IF own = {} THEN straight[k] ELSE R!FirstOf(own) + 1
      BY <3>1, <3>2
    <3> QED BY <3>3, Zenon DEF own, k
  <2>4. straight[1] = 1
    BY <1>1, <2>1
  <2>5. ASSUME NEW i \in 1 .. N + 1
        PROVE  straight[i] = IF i = 1 THEN 1
                             ELSE LET own == R!OwnFrom(tr, straight[i - 1], tr.path[i - 1])
                                  IN  IF own = {} THEN straight[i - 1] ELSE R!FirstOf(own) + 1
    BY <2>3, <2>4, Zenon
  <2> QED BY <2>5, <2>2, Zenon
<1>4. came = Follow(came)
  <2>1. came = CHOOSE at : at = Follow(at)
    BY DEF R!CameTo
  <2> HIDE DEF Follow, straight, came
  <2> QED BY <1>3, <2>1, Zenon
<1>5. ASSUME NEW i \in 1 .. N + 1
      PROVE  came[i] = IF i = 1 THEN 1
                       ELSE LET own == R!OwnFrom(tr, came[i - 1], tr.path[i - 1])
                            IN  IF own = {} THEN came[i - 1] ELSE R!FirstOf(own) + 1
  BY <1>4
<1> HIDE DEF came
<1>6. \A i \in 1 .. N + 1 : came[i] = i
  <2> DEFINE Astray == {i \in 1 .. N + 1 : came[i] # i}
  <2>1. SUFFICES ASSUME Astray # {} PROVE FALSE
    BY Zenon
  <2>2. PICK i \in Astray : \A j \in Astray : i <= j
    <3>1. Astray \in SUBSET Nat
      BY <1>1
    <3> HIDE DEF Astray
    <3> QED BY <2>1, <3>1, LeastOfNat
  <2>3. CASE i = 1
    BY <1>1, <1>5, <2>2, <2>3
  <2>4. CASE i # 1
    <3>1. i - 1 \in 1 .. N /\ i - 1 \in 1 .. N + 1 /\ i - 1 \notin Astray /\ i \in 1 .. N + 1
      BY <1>1, <2>2, <2>4
    <3>2. came[i - 1] = i - 1
      BY <3>1
    <3>3. came[i] = (i - 1) + 1
      BY <1>2, <1>5, <2>4, <3>1, <3>2
    <3> QED BY <1>1, <2>2, <3>1, <3>3
  <2> QED BY <2>3, <2>4
<1>7. ASSUME NEW k \in 1 .. N PROVE R!OwnFrom(tr, came[k], tr.path[k]) = R!OwnFrom(tr, k, tr.path[k])
  BY <1>1, <1>6, <1>7
<1>8. R!Bars(tr) = [i \in 1 .. N |-> IF R!OwnFrom(tr, came[i], tr.path[i]) = {} THEN 0
                                     ELSE tr.nodes[R!FirstOf(R!OwnFrom(tr, came[i], tr.path[i]))].visit]
  BY <1>1 DEF R!Bars, came
<1>9. \A k \in 1 .. N : R!Bars(tr)[k] = tr.nodes[k].visit
  BY <1>2, <1>7, <1>8
<1>10. Len(R!Bars(tr)) = N
  BY <1>1, <1>8
<1> QED BY <1>1, <1>9, <1>10

\* A visit of a node lasts while a chain of it runs.
Visiting(n) == stack # <<>> /\ stack[1].node = n

\* A chain that runs.
Chain == [id : Nat, node : Nodes]

\* The handler knows the chains that run: the first as the node's, the others as
\* chains in it.
HandlerFollows ==
    /\ stack \in Seq(Chain)
    /\ \A i \in DOMAIN stack : stack[i].id \in 1 .. chains /\ stack[i].node = stack[1].node
    /\ \A i, j \in DOMAIN stack : i < j => stack[i].id < stack[j].id
    /\ handler.active = {n \in Nodes : Visiting(n)}
    /\ handler.nested = {stack[i].id : i \in DOMAIN stack \ {1}}
    /\ \A c \in R!Ids : handler.runs[c] =
                           IF stack # <<>> /\ stack[1].id = c THEN stack[1].node ELSE ""

\* A trace counts the calls of its timeline.
CallsCounted(tr) ==
    tr.total = tr.calls /\ tr.calls = Cardinality(PlacesOf(tr.timeline, "llm_call"))

\* The numbers go on from the timeline, and the visit that a timer names is open.
TimersFollow ==
    /\ \A i \in DOMAIN trace.timeline : trace.timeline[i].seq <= handler.seq
    /\ enabled => \A n \in Nodes :
          IF Visiting(n)
          THEN /\ handler.timers[n] # 0
               /\ OpenAt(trace.timeline, handler.timers[n], n, Len(trace.timeline) + 1)
          ELSE handler.timers[n] = 0

\* Of a run that resumes nothing the trace also counts the retrievals and has a
\* record of every visit but the open one.
RecordsFollow ==
    LET tr == trace
    IN  /\ tr.retrievals = Cardinality(PlacesOf(tr.timeline, "tool_call"))
        /\ VisitsFollow(tr.timeline, tr.path, tr.nodes)
        /\ IF enabled /\ stack # <<>>
           THEN LastIsOpen(tr.timeline, tr.path, tr.nodes, stack[1].node,
                           handler.timers[stack[1].node])
           ELSE Len(tr.path) = Len(tr.nodes)

\* What holds of the trace and of the file at any time.
TraceHolds ==
    /\ trace \in Traces /\ Story(trace.timeline) /\ CallsCounted(trace)
    /\ TimersFollow
    /\ ~resumed => RecordsFollow
    /\ ~enabled => trace = R!NewTrace /\ file = R!NoFile
    /\ file # R!NoFile => file \in Traces /\ Story(file.timeline) /\ CallsCounted(file)

\* The messages about a node are in turn that it begins and that it is done; the
\* last says whether it is visited now.
Message == [action : {"add", "done"}, node : Nodes]
OwnOf(scr, n) == {i \in DOMAIN scr : scr[i].node = n}
OwnBefore(scr, n, i) == Cardinality({j \in OwnOf(scr, n) : j < i})
Said(k) == IF k % 2 = 0 THEN "add" ELSE "done"
InTurn(scr, n) == \A i \in OwnOf(scr, n) : scr[i].action = Said(OwnBefore(scr, n, i))
ScreenHolds ==
    /\ screen \in Seq(Message)
    /\ \A n \in Shown : /\ InTurn(screen, n)
                        /\ (Cardinality(OwnOf(screen, n)) % 2 = 1) <=> Visiting(n)

\* The handlers.
Handlers ==
    [active : SUBSET Nodes, nested : SUBSET R!Ids,
     runs : [R!Ids -> NodeNames], timers : [Nodes -> Nat], seq : Nat]
HandlerTyped == handler \in Handlers

-----------------------------------------------------------------------------

\* What is assumed of the constants.
LEMMA TrackerConstants == /\ Shown \subseteq Nodes /\ "" \notin Nodes
                          /\ MaxChains \in Nat /\ MaxEvents \in Nat /\ MaxRuns \in Nat
BY TrackerAssumed DEF R!TrackerAssumption

\* The messages about a node can be counted.
LEMMA OwnAreCounted ==
    ASSUME NEW scr \in Seq(Message), NEW n
    PROVE  IsFiniteSet(OwnOf(scr, n)) /\ Cardinality(OwnOf(scr, n)) \in Nat
<1>1. OwnOf(scr, n) \in SUBSET (1 .. Len(scr)) /\ Len(scr) \in Nat
  BY DEF OwnOf
<1>2. IsFiniteSet(1 .. Len(scr))
  BY <1>1, FS_Interval
<1>3. IsFiniteSet(OwnOf(scr, n))
  BY <1>1, <1>2, FS_Subset
<1> QED BY <1>3, FS_CardinalityType

\* One more message about a node.
LEMMA ScreenGrows ==
    ASSUME NEW scr \in Seq(Message), NEW m \in Message, NEW n, InTurn(scr, n),
           m.node = n => m.action = Said(Cardinality(OwnOf(scr, n)))
    PROVE  /\ InTurn(Append(scr, m), n)
           /\ Cardinality(OwnOf(Append(scr, m), n)) =
                 Cardinality(OwnOf(scr, n)) + (IF m.node = n THEN 1 ELSE 0)
<1> DEFINE grown == Append(scr, m)
<1>1. /\ Len(scr) \in Nat /\ DOMAIN scr = 1 .. Len(scr) /\ DOMAIN grown = 1 .. Len(scr) + 1
      /\ \A i \in 1 .. Len(scr) : grown[i] = scr[i]
      /\ grown[Len(scr) + 1] = m
  OBVIOUS
<1> HIDE DEF grown
<1>2. IsFiniteSet(OwnOf(scr, n)) /\ Cardinality(OwnOf(scr, n)) \in Nat
  BY OwnAreCounted
<1>3. \A i : i \in OwnOf(grown, n) <=> i \in OwnOf(scr, n) \/ (i = Len(scr) + 1 /\ m.node = n)
  BY <1>1 DEF OwnOf
<1>4. \A i \in OwnOf(scr, n) : i \in 1 .. Len(scr)
  BY <1>1 DEF OwnOf
<1>5. ASSUME NEW i \in 1 .. Len(scr) PROVE OwnBefore(grown, n, i) = OwnBefore(scr, n, i)
  <2>1. {j \in OwnOf(grown, n) : j < i} = {j \in OwnOf(scr, n) : j < i}
    BY <1>1, <1>3, <1>4, <1>5
  <2> QED BY <2>1 DEF OwnBefore
<1>6. OwnBefore(grown, n, Len(scr) + 1) = Cardinality(OwnOf(scr, n))
  <2>1. {j \in OwnOf(grown, n) : j < Len(scr) + 1} = OwnOf(scr, n)
    BY <1>1, <1>3, <1>4
  <2> QED BY <2>1 DEF OwnBefore
<1>7. InTurn(grown, n)
  <2>1. ASSUME NEW i \in OwnOf(scr, n) PROVE grown[i].action = Said(OwnBefore(grown, n, i))
    BY <1>1, <1>4, <1>5, <2>1 DEF InTurn
  <2>2. CASE m.node = n
    BY <1>1, <1>3, <1>6, <2>1, <2>2 DEF InTurn
  <2>3. CASE m.node # n
    BY <1>3, <2>1, <2>3 DEF InTurn
  <2> QED BY <2>2, <2>3
<1>8. CASE m.node = n
  <2>1. OwnOf(grown, n) = OwnOf(scr, n) \union {Len(scr) + 1} /\ Len(scr) + 1 \notin OwnOf(scr, n)
    BY <1>1, <1>3, <1>4, <1>8
  <2>2. Cardinality(OwnOf(grown, n)) = Cardinality(OwnOf(scr, n)) + 1
    BY <1>2, <2>1, FS_AddElement
  <2> QED BY <1>2, <1>7, <1>8, <2>2 DEF grown
<1>9. CASE m.node # n
  <2>1. OwnOf(grown, n) = OwnOf(scr, n)
    BY <1>3, <1>9
  <2> QED BY <1>2, <1>7, <1>9, <2>1 DEF grown
<1> QED BY <1>8, <1>9

\* The message that a visit begins, when none lasts, or that the last one is done.
LEMMA ScreenFollows ==
    ASSUME ScreenHolds, NEW node \in Nodes, NEW action \in {"add", "done"},
           screen' = R!Emitted(node, action),
           action = "add" => stack = <<>> /\ stack' # <<>> /\ stack'[1].node = node,
           action = "done" => stack # <<>> /\ stack' = <<>> /\ stack[1].node = node
    PROVE  ScreenHolds'
<1> DEFINE m == [action |-> action, node |-> node]
<1>1. m \in Message /\ m.node = node /\ m.action = action
  BY DEF Message
<1>2. ASSUME NEW n \in Nodes, n # node PROVE Visiting(n)' <=> Visiting(n)
  BY <1>2 DEF Visiting
<1>3. /\ action = "add" => ~Visiting(node) /\ Visiting(node)'
      /\ action = "done" => Visiting(node) /\ ~Visiting(node)'
  BY DEF Visiting
<1>4. CASE node \notin Shown
  <2>1. screen' = screen
    BY <1>4 DEF R!Emitted
  <2> QED BY <1>2, <1>4, <2>1, TrackerConstants DEF ScreenHolds
<1>5. CASE node \in Shown
  <2>1. screen' = Append(screen, m)
    BY <1>5 DEF R!Emitted
  <2>2. screen' \in Seq(Message)
    BY <1>1, <2>1 DEF ScreenHolds
  <2>3. ASSUME NEW n \in Shown
        PROVE  InTurn(screen', n) /\ ((Cardinality(OwnOf(screen', n)) % 2 = 1) <=> Visiting(n)')
    <3>1. InTurn(screen, n) /\ ((Cardinality(OwnOf(screen, n)) % 2 = 1) <=> Visiting(n))
      BY DEF ScreenHolds
    <3>2. screen \in Seq(Message)
      BY DEF ScreenHolds
    <3> DEFINE k == Cardinality(OwnOf(screen, n))
    <3>3. k \in Nat
      BY <3>2, OwnAreCounted
    <3> HIDE DEF k
    <3>4. node = n => action = Said(k)
      BY <1>3, <3>1, <3>3 DEF Said, k
    <3>5. /\ InTurn(screen', n)
          /\ Cardinality(OwnOf(screen', n)) = k + (IF node = n THEN 1 ELSE 0)
      BY <1>1, <2>1, <3>1, <3>2, <3>4, ScreenGrows DEF k
    <3>6. CASE node = n
      BY <1>3, <3>1, <3>3, <3>5, <3>6 DEF k
    <3>7. CASE node # n
      <4>1. n \in Nodes
        BY TrackerConstants
      <4>2. Visiting(n)' <=> Visiting(n)
        BY <1>2, <3>7, <4>1
      <4>3. Cardinality(OwnOf(screen', n)) = Cardinality(OwnOf(screen, n))
        BY <3>3, <3>5, <3>7 DEF k
      <4> QED BY <3>1, <3>5, <4>2, <4>3, Zenon
    <3> QED BY <3>6, <3>7
  <2> QED BY <2>2, <2>3 DEF ScreenHolds
<1> QED BY <1>4, <1>5

\* The same visits last.
SameVisits == \A n \in Nodes : Visiting(n)' <=> Visiting(n)

\* Nothing is sent and the visits stay the same.
LEMMA ScreenStays ==
    ASSUME ScreenHolds, SameVisits, UNCHANGED screen PROVE ScreenHolds'
BY TrackerConstants DEF ScreenHolds, SameVisits

\* What a step that leaves the traces and the visit alone keeps.
LEMMA TraceStays ==
    ASSUME TraceHolds, UNCHANGED <<trace, file, enabled, resumed>>,
           handler'.timers = handler.timers, handler'.seq = handler.seq,
           (stack' # <<>>) <=> (stack # <<>>),
           stack # <<>> => stack'[1].node = stack[1].node
    PROVE  TraceHolds'
<1>1. \A n : Visiting(n)' <=> Visiting(n)
  BY DEF Visiting
<1>2. TimersFollow'
  BY <1>1 DEF TraceHolds, TimersFollow
<1>3. ASSUME ~resumed PROVE RecordsFollow'
  <2>1. RecordsFollow
    BY <1>3 DEF TraceHolds
  <2>2. CASE enabled /\ stack # <<>>
    BY <2>1, <2>2 DEF RecordsFollow
  <2>3. CASE ~(enabled /\ stack # <<>>)
    BY <2>1, <2>3 DEF RecordsFollow
  <2> QED BY <2>2, <2>3
<1> QED BY <1>2, <1>3 DEF TraceHolds

\* The fields of a handler.
LEMMA HandlerFields ==
    ASSUME NEW h \in Handlers
    PROVE  /\ h.active \in SUBSET Nodes /\ h.nested \in SUBSET R!Ids
           /\ h.runs \in [R!Ids -> NodeNames] /\ h.timers \in [Nodes -> Nat]
           /\ h.seq \in Nat
BY DEF Handlers

\* What a step does to a handler: it notes other chains in the nodes; the nodes
\* that are visited and the node of a chain; timers and the last number.
Nesting(h, c) == [h EXCEPT !.nested = c]
Visited(h, a, c, n) == [h EXCEPT !.active = a, !.runs[c] = n]
Timed(h, times, q) == [h EXCEPT !.timers = times, !.seq = q]
Clocked(h, n, q) == [h EXCEPT !.seq = h.seq + 1, !.timers[n] = q]
Counted(h) == [h EXCEPT !.seq = h.seq + 1]

\* Other chains are noted in the nodes.
LEMMA HandlerNests ==
    ASSUME NEW h \in Handlers, NEW c \in SUBSET R!Ids
    PROVE  LET g == Nesting(h, c)
           IN  /\ g \in Handlers /\ g.nested = c /\ g.active = h.active /\ g.runs = h.runs
               /\ g.timers = h.timers /\ g.seq = h.seq
BY DEF Handlers, Nesting

\* A node becomes visited, or is no longer.
LEMMA HandlerVisits ==
    ASSUME NEW h \in Handlers, NEW a \in SUBSET Nodes, NEW c \in R!Ids,
           NEW n \in NodeNames
    PROVE  LET g == Visited(h, a, c, n)
           IN  /\ g \in Handlers /\ g.nested = h.nested /\ g.active = a
               /\ \A i \in R!Ids : g.runs[i] = IF i = c THEN n ELSE h.runs[i]
               /\ g.timers = h.timers /\ g.seq = h.seq
BY DEF Handlers, Visited

\* The timers and the last number are set.
LEMMA HandlerSet ==
    ASSUME NEW h \in Handlers, NEW times \in [Nodes -> Nat], NEW q \in Nat
    PROVE  LET g == Timed(h, times, q)
           IN  /\ g \in Handlers /\ g.nested = h.nested /\ g.active = h.active
               /\ g.runs = h.runs /\ g.seq = q /\ g.timers = times
BY DEF Handlers, Timed

\* The next number is given, and the timer of a node is set to it or cleared.
LEMMA HandlerTimes ==
    ASSUME NEW h \in Handlers, NEW n \in Nodes, NEW q \in Nat
    PROVE  LET g == Clocked(h, n, q)
           IN  /\ g \in Handlers /\ g.nested = h.nested /\ g.active = h.active
               /\ g.runs = h.runs /\ g.seq = h.seq + 1 /\ g.timers[n] = q
               /\ \A i \in Nodes : i # n => g.timers[i] = h.timers[i]
<1> DEFINE times == [h.timers EXCEPT ![n] = q]
           s == h.seq + 1
           g == Clocked(h, n, q)
<1>1. h.timers \in [Nodes -> Nat] /\ h.seq \in Nat
  BY HandlerFields
<1>2. /\ times \in [Nodes -> Nat] /\ times[n] = q
      /\ \A i \in Nodes : i # n => times[i] = h.timers[i]
  BY <1>1
<1>3. s \in Nat
  BY <1>1
<1>4. g = Timed(h, times, s)
  BY DEF Timed, Clocked
<1> HIDE DEF times, s, g
<1>5. /\ g \in Handlers /\ g.nested = h.nested /\ g.active = h.active
      /\ g.runs = h.runs /\ g.seq = s /\ g.timers = times
  BY <1>2, <1>3, <1>4, HandlerSet
<1> QED BY <1>2, <1>5 DEF s, g

\* The next number is given.
LEMMA HandlerCounts ==
    ASSUME NEW h \in Handlers
    PROVE  LET g == Counted(h)
           IN  /\ g \in Handlers /\ g.nested = h.nested /\ g.active = h.active
               /\ g.runs = h.runs /\ g.seq = h.seq + 1 /\ g.timers = h.timers
<1> DEFINE s == h.seq + 1
           g == Counted(h)
<1>1. h.seq \in Nat
  BY HandlerFields
<1>2. s \in Nat
  BY <1>1
<1> HIDE DEF s
<1>3. g = [h EXCEPT !.seq = s]
  BY DEF s, Counted
<1> HIDE DEF g
<1>4. /\ g \in Handlers /\ g.nested = h.nested /\ g.active = h.active
      /\ g.runs = h.runs /\ g.seq = s /\ g.timers = h.timers
  BY <1>2, <1>3 DEF Handlers
<1> QED BY <1>4 DEF s, g

\* The chains that run.
LEMMA ChainsThatRun ==
    ASSUME HandlerFollows, stack # <<>>
    PROVE  /\ stack \in Seq(Chain)
           /\ Len(stack) \in Nat \ {0} /\ DOMAIN stack = 1 .. Len(stack)
           /\ stack[1].node \in Nodes
           /\ \A i \in DOMAIN stack : stack[i].id \in 1 .. chains /\ stack[i].node = stack[1].node
           /\ \A i, j \in DOMAIN stack : i < j => stack[i].id < stack[j].id
           /\ R!Last(stack) = stack[Len(stack)]
           /\ R!Front(stack) = [i \in 1 .. Len(stack) - 1 |-> stack[i]]
<1>1. /\ stack \in Seq(Chain)
      /\ \A i \in DOMAIN stack : stack[i].id \in 1 .. chains /\ stack[i].node = stack[1].node
      /\ \A i, j \in DOMAIN stack : i < j => stack[i].id < stack[j].id
  BY DEF HandlerFollows
<1>2. Len(stack) \in Nat \ {0} /\ DOMAIN stack = 1 .. Len(stack)
  BY <1>1
<1>3. R!Last(stack) = stack[Len(stack)] /\ R!Front(stack) = [i \in 1 .. Len(stack) - 1 |-> stack[i]]
  BY <1>1, <1>2 DEF R!Last, R!Front
<1>4. stack[1].node \in Nodes
  <2>1. stack[1] \in Chain
    BY <1>1, <1>2
  <2> QED BY <2>1 DEF Chain
<1> QED BY <1>1, <1>2, <1>3, <1>4

\* The parts of the state that are not the handler's.
Plain ==
    /\ enabled \in BOOLEAN /\ pending \in BOOLEAN /\ resumed \in BOOLEAN
    /\ graph \in {"idle", "running", "stopped"}
    /\ chains \in 0 .. MaxChains /\ runs \in 0 .. MaxRuns

\* The invariant: the handler follows the chains, the trace the handler and the
\* screen the visits.
TrackerInv ==
    /\ Plain /\ HandlerTyped /\ (graph = "idle" => stack = <<>>)
    /\ HandlerFollows /\ TraceHolds /\ ScreenHolds

\* A chain in a node that runs.
LEMMA ChainInNode ==
    ASSUME TrackerInv, NEW node \in Nodes, R!StartChain(node), node \in handler.active
    PROVE  TrackerInv'
<1> DEFINE c == [id |-> chains + 1, node |-> node]
<1>1. /\ chains < MaxChains /\ graph = "running" /\ chains' = chains + 1
      /\ stack' = Append(stack, c)
      /\ handler' = [handler EXCEPT !.nested = @ \union {chains + 1}]
      /\ UNCHANGED <<trace, screen, enabled, graph, file, pending, runs, resumed>>
  BY DEF R!StartChain, R!OnChainStart
<1>2. /\ Plain /\ HandlerTyped /\ HandlerFollows /\ TraceHolds /\ ScreenHolds
  BY DEF TrackerInv
<1>3. stack # <<>> /\ stack[1].node = node
  BY <1>2 DEF HandlerFollows, Visiting
<1>4. Plain' /\ chains \in Nat /\ chains + 1 \in R!Ids
  <2>1. chains \in 0 .. MaxChains /\ chains < MaxChains /\ chains' = chains + 1
    BY <1>1, <1>2, Zenon DEF Plain
  <2>2. MaxChains \in Nat
    BY TrackerConstants
  <2>3. chains' \in 0 .. MaxChains /\ chains \in Nat /\ chains + 1 \in 1 .. MaxChains
    BY <2>1, <2>2
  <2> QED BY <1>1, <1>2, <2>3, Zenon DEF Plain, R!Ids
<1>5. /\ stack \in Seq(Chain)
      /\ Len(stack) \in Nat \ {0} /\ DOMAIN stack = 1 .. Len(stack)
      /\ \A i \in DOMAIN stack : stack[i].id \in 1 .. chains /\ stack[i].node = node
      /\ \A i, j \in DOMAIN stack : i < j => stack[i].id < stack[j].id
  BY <1>2, <1>3, ChainsThatRun
<1>6. c \in Chain /\ c.id = chains + 1 /\ c.node = node
  BY <1>4 DEF Chain
<1> HIDE DEF c
<1>7. /\ stack' \in Seq(Chain) /\ DOMAIN stack' = 1 .. Len(stack) + 1
      /\ stack'[Len(stack) + 1] = c
      /\ \A i \in DOMAIN stack : stack'[i] = stack[i]
      /\ stack' # <<>> /\ stack'[1] = stack[1]
  BY <1>1, <1>5, <1>6
<1>8. /\ handler'.nested = handler.nested \union {chains + 1}
      /\ handler'.active = handler.active /\ handler'.runs = handler.runs
      /\ handler'.timers = handler.timers /\ handler'.seq = handler.seq
      /\ HandlerTyped'
  <2>1. handler \in Handlers /\ handler.nested \union {chains + 1} \in SUBSET R!Ids
    BY <1>2, <1>4, HandlerFields DEF HandlerTyped
  <2>2. handler' = Nesting(handler, handler.nested \union {chains + 1})
    BY <1>1 DEF Nesting
  <2> QED BY <2>1, <2>2, HandlerNests DEF HandlerTyped
<1>9. \A n : Visiting(n)' <=> Visiting(n)
  BY <1>3, <1>7 DEF Visiting
<1>10. HandlerFollows'
  <2>1. \A i \in DOMAIN stack' : stack'[i].id \in 1 .. chains' /\ stack'[i].node = stack'[1].node
    BY <1>1, <1>3, <1>4, <1>5, <1>6, <1>7
  <2>2. \A i, j \in DOMAIN stack' : i < j => stack'[i].id < stack'[j].id
    BY <1>4, <1>5, <1>6, <1>7
  <2>3. handler'.active = {n \in Nodes : Visiting(n)'}
    BY <1>2, <1>8, <1>9 DEF HandlerFollows
  <2>4. handler'.nested = {stack'[i].id : i \in DOMAIN stack' \ {1}}
    <3>1. handler.nested = {stack[i].id : i \in DOMAIN stack \ {1}}
      BY <1>2 DEF HandlerFollows
    <3> QED BY <1>5, <1>6, <1>7, <1>8, <3>1
  <2>5. \A i \in R!Ids : handler'.runs[i] =
             IF stack' # <<>> /\ stack'[1].id = i THEN stack'[1].node ELSE ""
    BY <1>2, <1>3, <1>7, <1>8 DEF HandlerFollows
  <2> QED BY <1>7, <2>1, <2>2, <2>3, <2>4, <2>5 DEF HandlerFollows
<1>11. TraceHolds'
  BY <1>1, <1>2, <1>3, <1>7, <1>8, TraceStays
<1>12. ScreenHolds'
  BY <1>1, <1>2, <1>9, ScreenStays DEF SameVisits
<1> QED BY <1>1, <1>4, <1>8, <1>10, <1>11, <1>12 DEF TrackerInv

\* Nothing is traced when no trace is wanted.
LEMMA TraceOff ==
    ASSUME TraceHolds, ~enabled, UNCHANGED <<trace, file, enabled, resumed>>
    PROVE  TraceHolds'
<1>1. trace = R!NewTrace /\ trace' = trace /\ DOMAIN trace.timeline = {}
  BY DEF TraceHolds, R!NewTrace
<1>2. TimersFollow'
  BY <1>1 DEF TimersFollow
<1>3. ASSUME ~resumed PROVE RecordsFollow'
  <2>1. RecordsFollow
    BY <1>3 DEF TraceHolds
  <2> QED BY <2>1 DEF RecordsFollow
<1> QED BY <1>2, <1>3 DEF TraceHolds

\* The fields of a trace.
LEMMA TraceFields ==
    ASSUME NEW tr \in Traces
    PROVE  /\ tr.timeline \in Seq(TraceEntry) /\ tr.path \in Seq(Nodes)
           /\ tr.nodes \in Seq(VisitRecord)
           /\ tr.calls \in Nat /\ tr.total \in Nat /\ tr.retrievals \in Nat
BY DEF Traces

\* A parent is the number of the visit that lasts.
LEMMA ParentIsOpen ==
    ASSUME TraceHolds, HandlerTyped, enabled, NEW node
    PROVE  /\ R!Parent(handler, node) \in Nat
           /\ R!Parent(handler, node) # 0 =>
                 /\ node \in Nodes /\ Visiting(node)
                 /\ OpenAt(trace.timeline, R!Parent(handler, node), node,
                           Len(trace.timeline) + 1)
<1>1. handler.timers \in [Nodes -> Nat]
  BY HandlerFields DEF HandlerTyped
<1>2. CASE node \in Nodes
  BY <1>1, <1>2 DEF R!Parent, TraceHolds, TimersFollow
<1>3. CASE node \notin Nodes
  BY <1>3 DEF R!Parent
<1> QED BY <1>2, <1>3

\* What an entry with the next number and the parent of its node leaves true.
LEMMA EntryAdded ==
    ASSUME TraceHolds, HandlerTyped, enabled, NEW e \in TraceEntry, e.seq = handler.seq + 1,
           e.parent = 0 \/ e.parent = R!Parent(handler, e.node),
           e.type = "node_end" => e.parent # 0
    PROVE  /\ trace.timeline \in Seq(TraceEntry)
           /\ Append(trace.timeline, e) \in Seq(TraceEntry)
           /\ Story(Append(trace.timeline, e))
           /\ \A i \in DOMAIN Append(trace.timeline, e) :
                 Append(trace.timeline, e)[i].seq <= handler.seq + 1
<1> DEFINE tl == trace.timeline
<1>1. Story(tl) /\ tl \in Seq(TraceEntry) /\ handler.seq \in Nat
  BY HandlerFields DEF TraceHolds, Story, HandlerTyped
<1>2. \A i \in DOMAIN tl : tl[i].seq <= handler.seq
  BY DEF TraceHolds, TimersFollow
<1>3. e.parent # 0 => e.node \in Nodes /\ OpenAt(tl, e.parent, e.node, Len(tl) + 1)
  BY ParentIsOpen
<1>4. \A i \in DOMAIN tl : tl[i] \in TraceEntry
  BY <1>1
<1>5. \A i \in DOMAIN tl : tl[i].seq \in Nat
  BY <1>4 DEF TraceEntry
<1> HIDE DEF tl
<1>6. \A i \in DOMAIN tl : tl[i].seq < e.seq
  BY <1>1, <1>2, <1>5
<1>7. Story(Append(tl, e))
  BY <1>1, <1>3, <1>6, StoryGrows
<1>8. \A i \in DOMAIN Append(tl, e) : Append(tl, e)[i].seq <= handler.seq + 1
  <2>1. TAKE i \in DOMAIN Append(tl, e)
  <2>2. CASE i \in DOMAIN tl
    <3>1. Append(tl, e)[i] = tl[i]
      BY <1>1, <2>2
    <3> QED BY <1>1, <1>2, <1>5, <2>2, <3>1
  <2>3. CASE i \notin DOMAIN tl
    <3>1. Append(tl, e)[i] = e
      BY <1>1, <2>1, <2>3
    <3> QED BY <1>1, <3>1
  <2> QED BY <2>2, <2>3
<1> QED BY <1>1, <1>7, <1>8 DEF tl

\* What the start of a visit leaves in the trace.
LEMMA StartIsTraced ==
    ASSUME TraceHolds, HandlerTyped, enabled, stack = <<>>, NEW node \in Nodes,
           NEW e \in TraceEntry, e.seq = handler.seq + 1, e.type = "node_start", e.node = node,
           e.parent = 0,
           trace' \in Traces, trace'.timeline = Append(trace.timeline, e),
           trace'.path = Append(trace.path, node), trace'.nodes = trace.nodes,
           trace'.calls = trace.calls, trace'.total = trace.total,
           trace'.retrievals = trace.retrievals,
           handler'.seq = handler.seq + 1, handler'.timers[node] = handler.seq + 1,
           \A n \in Nodes : n # node => handler'.timers[n] = handler.timers[n],
           stack' # <<>>, stack'[1].node = node,
           UNCHANGED <<file, enabled, resumed>>
    PROVE  TraceHolds'
<1> DEFINE tl == trace.timeline
<1>1. trace \in Traces /\ Story(tl) /\ CallsCounted(trace) /\ TimersFollow
  BY DEF TraceHolds
<1>2. handler.seq \in Nat
  BY HandlerFields DEF HandlerTyped
<1>3. /\ tl \in Seq(TraceEntry) /\ Append(tl, e) \in Seq(TraceEntry) /\ Story(Append(tl, e))
      /\ \A i \in DOMAIN Append(tl, e) : Append(tl, e)[i].seq <= handler'.seq
  BY EntryAdded
<1>4. trace.path \in Seq(Nodes) /\ trace.nodes \in Seq(VisitRecord)
  BY <1>1, TraceFields
<1>5. \A type : type # "node_start" =>
         Cardinality(PlacesOf(Append(tl, e), type)) = Cardinality(PlacesOf(tl, type))
  BY <1>3, PlacesGrow
<1>6. CallsCounted(trace')
  BY <1>1, <1>5 DEF CallsCounted
<1>7. \A n \in Nodes : /\ Visiting(n)' <=> n = node
                       /\ n # node => handler.timers[n] = 0
  BY <1>1 DEF Visiting, TimersFollow
<1>8. TimersFollow'
  <2>1. OpenAt(Append(tl, e), e.seq, node, Len(tl) + 2) /\ Len(Append(tl, e)) + 1 = Len(tl) + 2
    BY <1>3, OpenBegins
  <2>2. ASSUME NEW n \in Nodes
        PROVE  /\ Visiting(n)' => /\ handler'.timers[n] # 0
                                  /\ OpenAt(trace'.timeline, handler'.timers[n], n,
                                            Len(trace'.timeline) + 1)
               /\ ~Visiting(n)' => handler'.timers[n] = 0
    <3>1. CASE n = node
      BY <1>2, <1>7, <2>1, <3>1
    <3>2. CASE n # node
      BY <1>7, <3>2
    <3> QED BY <3>1, <3>2
  <2> QED BY <1>3, <2>2 DEF TimersFollow
<1>9. ASSUME ~resumed PROVE RecordsFollow'
  <2>1. /\ trace.retrievals = Cardinality(PlacesOf(tl, "tool_call"))
        /\ VisitsFollow(tl, trace.path, trace.nodes)
        /\ Len(trace.path) = Len(trace.nodes)
    BY <1>9 DEF TraceHolds, RecordsFollow
  <2>2. trace'.retrievals = Cardinality(PlacesOf(Append(tl, e), "tool_call"))
    BY <1>5, <2>1
  <2>3. /\ VisitsFollow(Append(tl, e), Append(trace.path, node), trace.nodes)
        /\ LastIsOpen(Append(tl, e), Append(trace.path, node), trace.nodes, node, e.seq)
    BY <1>3, <1>4, <2>1, VisitBegins
  <2> QED BY <2>2, <2>3 DEF RecordsFollow
<1> QED BY <1>1, <1>3, <1>6, <1>8, <1>9 DEF TraceHolds

\* What the end of a visit leaves in the trace.
LEMMA EndIsTraced ==
    ASSUME TraceHolds, HandlerTyped, enabled, NEW node \in Nodes, Visiting(node), stack' = <<>>,
           NEW e \in TraceEntry, e.seq = handler.seq + 1, e.type = "node_end", e.node = node,
           e.parent = R!Parent(handler, node),
           NEW v \in VisitRecord, v.node = node, v.visit = R!Parent(handler, node),
           trace' \in Traces, trace'.timeline = Append(trace.timeline, e),
           trace'.path = trace.path, trace'.nodes = Append(trace.nodes, v),
           trace'.calls = trace.calls, trace'.total = trace.total,
           trace'.retrievals = trace.retrievals,
           handler'.seq = handler.seq + 1, handler'.timers[node] = 0,
           \A n \in Nodes : n # node => handler'.timers[n] = handler.timers[n],
           UNCHANGED <<file, enabled, resumed>>
    PROVE  TraceHolds'
<1> DEFINE tl == trace.timeline
<1>1. trace \in Traces /\ Story(tl) /\ CallsCounted(trace) /\ TimersFollow
  BY DEF TraceHolds
<1>2. e.parent = handler.timers[node] /\ e.parent # 0
  BY <1>1 DEF R!Parent, TimersFollow
<1>3. /\ tl \in Seq(TraceEntry) /\ Append(tl, e) \in Seq(TraceEntry) /\ Story(Append(tl, e))
      /\ \A i \in DOMAIN Append(tl, e) : Append(tl, e)[i].seq <= handler'.seq
  BY <1>2, EntryAdded
<1>4. trace.path \in Seq(Nodes) /\ trace.nodes \in Seq(VisitRecord)
  BY <1>1, TraceFields
<1>5. \A type : type # "node_end" =>
         Cardinality(PlacesOf(Append(tl, e), type)) = Cardinality(PlacesOf(tl, type))
  BY <1>3, PlacesGrow
<1>6. CallsCounted(trace')
  BY <1>1, <1>5 DEF CallsCounted
<1>7. \A n \in Nodes : ~Visiting(n)' /\ (n # node => handler.timers[n] = 0)
  BY <1>1 DEF Visiting, TimersFollow
<1>8. TimersFollow'
  BY <1>3, <1>7 DEF TimersFollow
<1>9. ASSUME ~resumed PROVE RecordsFollow'
  <2>1. /\ trace.retrievals = Cardinality(PlacesOf(tl, "tool_call"))
        /\ VisitsFollow(tl, trace.path, trace.nodes)
        /\ LastIsOpen(tl, trace.path, trace.nodes, node, handler.timers[node])
    BY <1>9 DEF TraceHolds, RecordsFollow, Visiting
  <2>2. trace'.retrievals = Cardinality(PlacesOf(Append(tl, e), "tool_call"))
    BY <1>5, <2>1
  <2>3. /\ VisitsFollow(Append(tl, e), trace.path, trace.nodes)
        /\ LastIsOpen(Append(tl, e), trace.path, trace.nodes, v.node, v.visit)
    BY <1>2, <1>3, <1>4, <2>1, VisitsStay
  <2>4. /\ VisitsFollow(Append(tl, e), trace.path, Append(trace.nodes, v))
        /\ Len(trace.path) = Len(Append(trace.nodes, v))
    BY <1>3, <1>4, <2>3, VisitEnds
  <2> QED BY <2>2, <2>4 DEF RecordsFollow
<1> QED BY <1>1, <1>3, <1>6, <1>8, <1>9 DEF TraceHolds

\* What an event of a node leaves in the trace.
LEMMA EventIsTraced ==
    ASSUME TraceHolds, HandlerTyped, enabled,
           NEW e \in TraceEntry, e.seq = handler.seq + 1,
           e.type \in {"tool_call", "llm_call", "decision"},
           e.parent = R!Parent(handler, e.node),
           trace' \in Traces, trace'.timeline = Append(trace.timeline, e),
           trace'.path = trace.path, trace'.nodes = trace.nodes,
           trace'.calls = trace.calls + (IF e.type = "llm_call" THEN 1 ELSE 0),
           trace'.total = trace.total + (IF e.type = "llm_call" THEN 1 ELSE 0),
           trace'.retrievals = trace.retrievals + (IF e.type = "tool_call" THEN 1 ELSE 0),
           handler'.seq = handler.seq + 1, handler'.timers = handler.timers,
           UNCHANGED <<file, enabled, resumed, stack>>
    PROVE  TraceHolds'
<1> DEFINE tl == trace.timeline
<1>1. trace \in Traces /\ Story(tl) /\ CallsCounted(trace) /\ TimersFollow
  BY DEF TraceHolds
<1>2. /\ tl \in Seq(TraceEntry) /\ Append(tl, e) \in Seq(TraceEntry) /\ Story(Append(tl, e))
      /\ \A i \in DOMAIN Append(tl, e) : Append(tl, e)[i].seq <= handler'.seq
  BY EntryAdded
<1>3. trace.path \in Seq(Nodes) /\ trace.nodes \in Seq(VisitRecord)
  BY <1>1, TraceFields
<1>4. \A type : Cardinality(PlacesOf(Append(tl, e), type)) =
                   Cardinality(PlacesOf(tl, type)) + (IF e.type = type THEN 1 ELSE 0)
  BY <1>2, PlacesGrow
<1>5. CallsCounted(trace')
  BY <1>1, <1>4 DEF CallsCounted
<1>6. \A n \in Nodes : Visiting(n)' <=> Visiting(n)
  BY DEF Visiting
<1>7. TimersFollow'
  <2>1. ASSUME NEW n \in Nodes, Visiting(n)
        PROVE  /\ handler.timers[n] # 0
               /\ OpenAt(trace'.timeline, handler.timers[n], n, Len(trace'.timeline) + 1)
    <3>1. handler.timers[n] # 0 /\ OpenAt(tl, handler.timers[n], n, Len(tl) + 1)
      BY <1>1, <2>1 DEF TimersFollow
    <3>2. Len(Append(tl, e)) + 1 = Len(tl) + 2
      BY <1>2
    <3>3. OpenAt(Append(tl, e), handler.timers[n], n, Len(tl) + 2)
      BY <1>2, <3>1, OpenStays
    <3> QED BY <3>1, <3>2, <3>3
  <2>2. ASSUME NEW n \in Nodes, ~Visiting(n) PROVE handler.timers[n] = 0
    BY <1>1, <2>2 DEF TimersFollow
  <2> QED BY <1>2, <1>6, <2>1, <2>2 DEF TimersFollow
<1>8. ASSUME ~resumed PROVE RecordsFollow'
  <2>1. RecordsFollow
    BY <1>8 DEF TraceHolds
  <2>2. trace'.retrievals = Cardinality(PlacesOf(Append(tl, e), "tool_call"))
    BY <1>4, <2>1 DEF RecordsFollow
  <2>3. /\ VisitsFollow(Append(tl, e), trace.path, trace.nodes)
        /\ \A n, s : LastIsOpen(tl, trace.path, trace.nodes, n, s) =>
                        LastIsOpen(Append(tl, e), trace.path, trace.nodes, n, s)
    BY <1>2, <1>3, <2>1, VisitsStay DEF RecordsFollow
  <2>4. CASE stack # <<>>
    BY <2>1, <2>2, <2>3, <2>4 DEF RecordsFollow
  <2>5. CASE stack = <<>>
    BY <2>1, <2>2, <2>3, <2>5 DEF RecordsFollow
  <2> QED BY <2>4, <2>5
<1> QED BY <1>1, <1>2, <1>5, <1>7, <1>8 DEF TraceHolds

\* What a step does to a trace.
WithTimeline(tr, tl) == [tr EXCEPT !.timeline = tl]
WithPath(tr, path) == [tr EXCEPT !.path = path]
WithNodes(tr, nodes) == [tr EXCEPT !.nodes = nodes]

\* A part of a trace is set, the others stay.
LEMMA TraceSet ==
    ASSUME NEW tr \in Traces
    PROVE  /\ \A tl \in Seq(TraceEntry) :
                 LET nt == WithTimeline(tr, tl)
                 IN  /\ nt \in Traces /\ nt.timeline = tl /\ nt.path = tr.path
                     /\ nt.nodes = tr.nodes /\ nt.calls = tr.calls /\ nt.total = tr.total
                     /\ nt.retrievals = tr.retrievals
           /\ \A path \in Seq(Nodes) :
                 LET nt == WithPath(tr, path)
                 IN  /\ nt \in Traces /\ nt.timeline = tr.timeline /\ nt.path = path
                     /\ nt.nodes = tr.nodes /\ nt.calls = tr.calls /\ nt.total = tr.total
                     /\ nt.retrievals = tr.retrievals
           /\ \A nodes \in Seq(VisitRecord) :
                 LET nt == WithNodes(tr, nodes)
                 IN  /\ nt \in Traces /\ nt.timeline = tr.timeline /\ nt.path = tr.path
                     /\ nt.nodes = nodes /\ nt.calls = tr.calls /\ nt.total = tr.total
                     /\ nt.retrievals = tr.retrievals
<1>1. ASSUME NEW tl \in Seq(TraceEntry)
      PROVE  LET nt == WithTimeline(tr, tl)
             IN  /\ nt \in Traces /\ nt.timeline = tl /\ nt.path = tr.path
                 /\ nt.nodes = tr.nodes /\ nt.calls = tr.calls /\ nt.total = tr.total
                 /\ nt.retrievals = tr.retrievals
  BY DEF Traces, WithTimeline
<1>2. ASSUME NEW path \in Seq(Nodes)
      PROVE  LET nt == WithPath(tr, path)
             IN  /\ nt \in Traces /\ nt.timeline = tr.timeline /\ nt.path = path
                 /\ nt.nodes = tr.nodes /\ nt.calls = tr.calls /\ nt.total = tr.total
                 /\ nt.retrievals = tr.retrievals
  BY DEF Traces, WithPath
<1>3. ASSUME NEW nodes \in Seq(VisitRecord)
      PROVE  LET nt == WithNodes(tr, nodes)
             IN  /\ nt \in Traces /\ nt.timeline = tr.timeline /\ nt.path = tr.path
                 /\ nt.nodes = nodes /\ nt.calls = tr.calls /\ nt.total = tr.total
                 /\ nt.retrievals = tr.retrievals
  BY DEF Traces, WithNodes
<1> QED BY <1>1, <1>2, <1>3, Zenon

\* The types of the entries and the names they may have.
LEMMA NamesAreTyped ==
    /\ \A type \in {"node_start", "node_end", "tool_call", "llm_call", "decision"} :
          type \in EntryTypes
    /\ \A n \in Nodes : n \in NodeNames
    /\ "" \in NodeNames
BY DEF EntryTypes, NodeNames

\* An entry, and the trace with it.
EntryOf(h, type, node, parent) ==
    [seq |-> h.seq + 1, type |-> type, node |-> node, parent |-> parent]

\* The fields of an entry.
LEMMA EntryFields ==
    ASSUME NEW h \in Handlers,
           NEW type \in EntryTypes,
           NEW node \in NodeNames, NEW parent \in Nat
    PROVE  /\ EntryOf(h, type, node, parent) \in TraceEntry
           /\ EntryOf(h, type, node, parent).seq = h.seq + 1
           /\ EntryOf(h, type, node, parent).type = type
           /\ EntryOf(h, type, node, parent).node = node
           /\ EntryOf(h, type, node, parent).parent = parent
<1>1. h.seq \in Nat
  BY HandlerFields
<1>2. h.seq + 1 \in Nat \ {0}
  BY <1>1
<1> QED BY <1>2 DEF EntryOf, TraceEntry

\* The trace with the entry.
LEMMA NotedFields ==
    ASSUME NEW tr \in Traces, NEW h \in Handlers,
           NEW type \in EntryTypes,
           NEW node \in NodeNames, NEW parent \in Nat
    PROVE  LET nt == R!Noted(h, tr, type, node, parent)
           IN  /\ nt \in Traces
               /\ nt.timeline = Append(tr.timeline, EntryOf(h, type, node, parent))
               /\ nt.path = tr.path /\ nt.nodes = tr.nodes /\ nt.calls = tr.calls
               /\ nt.total = tr.total /\ nt.retrievals = tr.retrievals
<1> DEFINE e == EntryOf(h, type, node, parent)
           nt == R!Noted(h, tr, type, node, parent)
           tl == Append(tr.timeline, e)
<1>1. nt = WithTimeline(tr, tl)
  BY DEF R!Noted, EntryOf, WithTimeline
<1>2. e \in TraceEntry
  BY EntryFields
<1>3. tr.timeline \in Seq(TraceEntry)
  BY TraceFields
<1> HIDE DEF e
<1>4. tl \in Seq(TraceEntry)
  BY <1>2, <1>3
<1> HIDE DEF nt, tl
<1>5. /\ nt \in Traces /\ nt.timeline = tl /\ nt.path = tr.path
      /\ nt.nodes = tr.nodes /\ nt.calls = tr.calls /\ nt.total = tr.total
      /\ nt.retrievals = tr.retrievals
  BY <1>1, <1>4, TraceSet
<1> QED BY <1>5, Zenon DEF nt, tl, e

\* A node starts.
LEMMA VisitStarts ==
    ASSUME TrackerInv, NEW node \in Nodes, R!StartChain(node), node \notin handler.active
    PROVE  TrackerInv'
<1> DEFINE c == [id |-> chains + 1, node |-> node]
           h == [handler EXCEPT !.active = handler.active \union {node}, !.runs[chains + 1] = node]
           e == EntryOf(h, "node_start", node, 0)
           nt == R!Noted(h, trace, "node_start", node, 0)
<1>1. /\ chains < MaxChains /\ graph = "running" /\ chains' = chains + 1
      /\ stack # <<>> => node = R!Last(stack).node
      /\ stack' = Append(stack, c)
      /\ screen' = R!Emitted(node, "add")
      /\ enabled => /\ handler' = [h EXCEPT !.seq = @ + 1, !.timers[node] = h.seq + 1]
                    /\ trace' = [nt EXCEPT !.path = Append(@, node)]
      /\ ~enabled => handler' = h /\ trace' = trace
      /\ UNCHANGED <<enabled, graph, file, pending, runs, resumed>>
  BY DEF R!StartChain, R!OnChainStart
<1>2. /\ Plain /\ HandlerTyped /\ HandlerFollows /\ TraceHolds /\ ScreenHolds
  BY DEF TrackerInv
<1>3. stack = <<>>
  <2>1. SUFFICES ASSUME stack # <<>> PROVE FALSE
    OBVIOUS
  <2>2. stack[1].node = node
    BY <1>1, <1>2, <2>1, ChainsThatRun
  <2>3. node \in handler.active
    BY <1>2, <2>1, <2>2 DEF HandlerFollows, Visiting
  <2> QED BY <2>3
<1>4. Plain' /\ chains \in Nat /\ chains + 1 \in R!Ids
  <2>1. chains \in 0 .. MaxChains /\ chains < MaxChains /\ chains' = chains + 1
    BY <1>1, <1>2, Zenon DEF Plain
  <2>2. MaxChains \in Nat
    BY TrackerConstants
  <2>3. chains' \in 0 .. MaxChains /\ chains \in Nat /\ chains + 1 \in 1 .. MaxChains
    BY <2>1, <2>2
  <2> QED BY <1>1, <1>2, <2>3, Zenon DEF Plain, R!Ids
<1>5. /\ stack' = <<c>> /\ stack' # <<>> /\ stack'[1] = c /\ DOMAIN stack' = {1}
      /\ c \in Chain /\ c.id = chains + 1 /\ c.node = node
  BY <1>1, <1>3, <1>4 DEF Chain
<1> HIDE DEF c
<1>6. /\ handler.active = {} /\ handler.nested = {} /\ \A i \in R!Ids : handler.runs[i] = ""
      /\ \A n : ~Visiting(n)
  <2>1. \A n : ~Visiting(n)
    BY <1>3 DEF Visiting
  <2>2. handler.active = {}
    BY <1>2, <2>1 DEF HandlerFollows
  <2>3. DOMAIN stack = {}
    BY <1>3
  <2>4. handler.nested = {stack[i].id : i \in DOMAIN stack \ {1}}
    BY <1>2 DEF HandlerFollows
  <2>5. \A i \in R!Ids : handler.runs[i] = ""
    BY <1>2, <1>3 DEF HandlerFollows
  <2> QED BY <2>1, <2>2, <2>3, <2>4, <2>5
<1>7. \A n : Visiting(n)' <=> n = node
  BY <1>5 DEF Visiting
<1>8. /\ h \in Handlers /\ h.nested = handler.nested /\ h.active = handler.active \union {node}
      /\ \A i \in R!Ids : h.runs[i] = IF i = chains + 1 THEN node ELSE handler.runs[i]
      /\ h.timers = handler.timers /\ h.seq = handler.seq /\ h.seq + 1 \in Nat
  <2>1. handler \in Handlers /\ handler.active \union {node} \in SUBSET Nodes
    BY <1>2, HandlerFields DEF HandlerTyped
  <2>2. handler.seq \in Nat
    BY <2>1, HandlerFields
  <2>3. handler.seq + 1 \in Nat
    BY <2>2
  <2> HIDE DEF h
  <2>4. /\ h \in Handlers /\ h.nested = handler.nested /\ h.active = handler.active \union {node}
        /\ \A i \in R!Ids : h.runs[i] = IF i = chains + 1 THEN node ELSE handler.runs[i]
        /\ h.timers = handler.timers /\ h.seq = handler.seq
    <3>1. h = Visited(handler, handler.active \union {node}, chains + 1, node)
      BY DEF h, Visited
    <3>2. node \in NodeNames
      BY NamesAreTyped
    <3> DEFINE a == handler.active \union {node}
               g == Visited(handler, a, chains + 1, node)
    <3>3. handler \in Handlers /\ a \in SUBSET Nodes /\ h = g
      BY <2>1, <3>1
    <3> HIDE DEF a
    <3>4. /\ g \in Handlers /\ g.nested = handler.nested /\ g.active = a
          /\ \A i \in R!Ids : g.runs[i] = IF i = chains + 1 THEN node ELSE handler.runs[i]
          /\ g.timers = handler.timers /\ g.seq = handler.seq
      BY <1>4, <3>2, <3>3 DEF Handlers, Visited
    <3> HIDE DEF g
    <3> QED BY <3>3, <3>4 DEF a
  <2> QED BY <2>3, <2>4
<1> HIDE DEF h
<1>9. /\ handler' \in Handlers /\ handler'.nested = handler.nested
      /\ handler'.active = handler.active \union {node} /\ handler'.runs = h.runs
      /\ enabled => /\ handler'.seq = handler.seq + 1 /\ handler'.timers[node] = handler.seq + 1
                    /\ \A n \in Nodes : n # node => handler'.timers[n] = handler.timers[n]
  <2>1. CASE enabled
    <3> DEFINE q == h.seq + 1
    <3>1. handler' = Clocked(h, node, q) /\ q \in Nat
      BY <1>1, <1>8, <2>1 DEF Clocked
    <3> HIDE DEF q
    <3>2. /\ handler' \in Handlers /\ handler'.nested = h.nested /\ handler'.active = h.active
          /\ handler'.runs = h.runs /\ handler'.seq = h.seq + 1
          /\ handler'.timers[node] = q
          /\ \A i \in Nodes : i # node => handler'.timers[i] = h.timers[i]
      <4>1. h \in Handlers /\ q \in Nat
        BY <1>8, <3>1
      <4> DEFINE g == Clocked(h, node, q)
      <4>2. /\ g \in Handlers /\ g.nested = h.nested /\ g.active = h.active
            /\ g.runs = h.runs /\ g.seq = h.seq + 1 /\ g.timers[node] = q
            /\ \A i \in Nodes : i # node => g.timers[i] = h.timers[i]
        BY <4>1, HandlerTimes
      <4> HIDE DEF g
      <4>3. handler' = g
        BY <3>1 DEF g
      <4> QED BY <4>2, <4>3
    <3> QED BY <1>8, <3>2 DEF q
  <2>2. CASE ~enabled
    BY <1>1, <1>8, <2>2
  <2> QED BY <2>1, <2>2
<1>10. HandlerFollows'
  <2>1. /\ stack' \in Seq(Chain)
        /\ \A i, j \in DOMAIN stack' : i < j => stack'[i].id < stack'[j].id
    BY <1>5
  <2>2. \A i \in DOMAIN stack' : stack'[i].id \in 1 .. chains' /\ stack'[i].node = stack'[1].node
    BY <1>1, <1>4, <1>5
  <2>3. handler'.active = {n \in Nodes : Visiting(n)'}
    BY <1>6, <1>7, <1>9
  <2>4. handler'.nested = {stack'[i].id : i \in DOMAIN stack' \ {1}}
    BY <1>5, <1>6, <1>9
  <2>5. \A i \in R!Ids : handler'.runs[i] =
             IF stack' # <<>> /\ stack'[1].id = i THEN stack'[1].node ELSE ""
    BY <1>5, <1>6, <1>8, <1>9
  <2> QED BY <2>1, <2>2, <2>3, <2>4, <2>5 DEF HandlerFollows
<1>11. TraceHolds'
  <2>1. CASE enabled
    <3>1. trace \in Traces
      BY <1>2 DEF TraceHolds
    <3>2. /\ e \in TraceEntry /\ e.seq = handler.seq + 1 /\ e.type = "node_start" /\ e.node = node
          /\ e.parent = 0
          /\ nt \in Traces /\ nt.timeline = Append(trace.timeline, e) /\ nt.path = trace.path
          /\ nt.nodes = trace.nodes /\ nt.calls = trace.calls /\ nt.total = trace.total
          /\ nt.retrievals = trace.retrievals
      <4>1. "node_start" \in EntryTypes
            /\ node \in NodeNames /\ 0 \in Nat
        BY NamesAreTyped
      <4>2. /\ e \in TraceEntry /\ e.seq = h.seq + 1 /\ e.type = "node_start" /\ e.node = node
            /\ e.parent = 0
        BY <1>8, <4>1, EntryFields
      <4>3. /\ nt \in Traces /\ nt.timeline = Append(trace.timeline, e) /\ nt.path = trace.path
            /\ nt.nodes = trace.nodes /\ nt.calls = trace.calls /\ nt.total = trace.total
            /\ nt.retrievals = trace.retrievals
        BY <1>8, <3>1, <4>1, NotedFields
      <4> HIDE DEF e, nt
      <4> QED BY <1>8, <4>2, <4>3
    <3> HIDE DEF e, nt
    <3>3. /\ trace' \in Traces /\ trace'.timeline = Append(trace.timeline, e)
          /\ trace'.path = Append(trace.path, node) /\ trace'.nodes = trace.nodes
          /\ trace'.calls = trace.calls /\ trace'.total = trace.total
          /\ trace'.retrievals = trace.retrievals
      <4>1. trace' = WithPath(nt, Append(nt.path, node))
        BY <1>1, <2>1 DEF WithPath
      <4>2. Append(nt.path, node) \in Seq(Nodes)
        BY <3>2, TraceFields
      <4> DEFINE path == Append(nt.path, node)
      <4> HIDE DEF path
      <4>3. /\ trace' \in Traces /\ trace'.timeline = nt.timeline /\ trace'.path = path
            /\ trace'.nodes = nt.nodes /\ trace'.calls = nt.calls /\ trace'.total = nt.total
            /\ trace'.retrievals = nt.retrievals
        BY <3>2, <4>1, <4>2, TraceSet DEF path
      <4> QED BY <3>2, <4>3 DEF path
    <3>4. stack'[1].node = node
      BY <1>5
    <3> QED BY <1>1, <1>2, <1>3, <1>5, <1>9, <2>1, <3>2, <3>3, <3>4, StartIsTraced
  <2>2. CASE ~enabled
    BY <1>1, <1>2, <2>2, TraceOff
  <2> QED BY <2>1, <2>2
<1>12. ScreenHolds'
  BY <1>1, <1>2, <1>3, <1>5, ScreenFollows
<1> QED BY <1>1, <1>4, <1>9, <1>10, <1>11, <1>12 DEF TrackerInv, HandlerTyped

\* A chain in a node ends.
LEMMA ChainInNodeEnds ==
    ASSUME TrackerInv, NEW outcome \in {"ok", "error", "question"}, R!EndChain(outcome),
           Len(stack) > 1
    PROVE  TrackerInv'
<1> DEFINE id == stack[Len(stack)].id
           n1 == stack[1].node
<1>1. /\ stack # <<>> /\ stack' = R!Front(stack) /\ R!OnChainEnd(R!Last(stack).id, outcome = "ok")
      /\ UNCHANGED <<enabled, chains, file, runs, resumed>>
  BY DEF R!EndChain
<1>2. /\ Plain /\ HandlerTyped /\ HandlerFollows /\ TraceHolds /\ ScreenHolds
      /\ (graph = "idle" => stack = <<>>)
  BY DEF TrackerInv
<1>4. /\ stack \in Seq(Chain)
      /\ Len(stack) \in Nat /\ DOMAIN stack = 1 .. Len(stack)
      /\ \A i \in DOMAIN stack : stack[i].id \in 1 .. chains /\ stack[i].node = n1
      /\ \A i, j \in DOMAIN stack : i < j => stack[i].id < stack[j].id
      /\ R!Last(stack) = stack[Len(stack)]
      /\ R!Front(stack) = [i \in 1 .. Len(stack) - 1 |-> stack[i]]
  BY <1>1, <1>2, ChainsThatRun
<1>3. UNCHANGED <<graph, pending>>
  <2>1. Len(stack) # 1
    BY <1>4
  <2> QED BY <2>1, Zenon DEF R!EndChain
<1>5. \A i \in DOMAIN stack : stack[i].id \in Nat
  BY <1>4
<1>6. /\ stack' \in Seq(Chain) /\ DOMAIN stack' = 1 .. Len(stack) - 1
      /\ \A i \in DOMAIN stack' : i \in DOMAIN stack /\ stack'[i] = stack[i]
      /\ 1 \in DOMAIN stack'
  <2>1. stack' = [i \in 1 .. Len(stack) - 1 |-> stack[i]] /\ Len(stack) - 1 \in Nat
    BY <1>1, <1>4
  <2>2. \A i \in 1 .. Len(stack) - 1 : stack[i] \in Chain
    BY <1>4
  <2> QED BY <1>4, <2>1, <2>2
<1>7. stack' # <<>> /\ stack'[1] = stack[1]
  BY <1>6
<1>8. handler.nested = {stack[i].id : i \in DOMAIN stack \ {1}}
  BY <1>2 DEF HandlerFollows
<1>9. Len(stack) \in DOMAIN stack \ {1}
  BY <1>4
<1>10. id \in handler.nested
  BY <1>8, <1>9
<1>11. handler' = Nesting(handler, handler.nested \ {id}) /\ UNCHANGED <<trace, screen>>
  BY <1>1, <1>4, <1>10 DEF R!OnChainEnd, Nesting
<1>12. handler \in Handlers /\ handler.nested \ {id} \in SUBSET R!Ids
  BY <1>2, HandlerFields DEF HandlerTyped
<1>13. /\ handler' \in Handlers /\ handler'.nested = handler.nested \ {id}
       /\ handler'.active = handler.active /\ handler'.runs = handler.runs
       /\ handler'.timers = handler.timers /\ handler'.seq = handler.seq
  <2> DEFINE g == Nesting(handler, handler.nested \ {id})
  <2>1. /\ g \in Handlers /\ g.nested = handler.nested \ {id}
        /\ g.active = handler.active /\ g.runs = handler.runs
        /\ g.timers = handler.timers /\ g.seq = handler.seq
    BY <1>12, HandlerNests
  <2> HIDE DEF g
  <2>2. handler' = g
    BY <1>11 DEF g
  <2> QED BY <2>1, <2>2
<1>14. \A n : Visiting(n)' <=> Visiting(n)
  BY <1>1, <1>7 DEF Visiting
<1>15. HandlerFollows'
  <2>1. \A i \in DOMAIN stack' : stack'[i].id \in 1 .. chains' /\ stack'[i].node = stack'[1].node
    BY <1>1, <1>4, <1>6, <1>7
  <2>2. \A i, j \in DOMAIN stack' : i < j => stack'[i].id < stack'[j].id
    BY <1>4, <1>6
  <2>3. handler'.active = {n \in Nodes : Visiting(n)'}
    BY <1>2, <1>13, <1>14 DEF HandlerFollows
  <2>4. handler'.nested = {stack'[i].id : i \in DOMAIN stack' \ {1}}
    <3>1. \A i \in DOMAIN stack : i # Len(stack) => i < Len(stack)
      BY <1>4
    <3>2. \A i \in DOMAIN stack : stack[i].id = id <=> i = Len(stack)
      BY <1>4, <1>5, <1>9, <3>1
    <3>3. \A i : i \in DOMAIN stack' <=> i \in DOMAIN stack /\ i # Len(stack)
      BY <1>4, <1>6
    <3> HIDE DEF id
    <3> QED BY <1>6, <1>8, <1>13, <3>2, <3>3
  <2>5. \A i \in R!Ids : handler'.runs[i] =
             IF stack' # <<>> /\ stack'[1].id = i THEN stack'[1].node ELSE ""
    BY <1>1, <1>2, <1>7, <1>13 DEF HandlerFollows
  <2> QED BY <1>6, <2>1, <2>2, <2>3, <2>4, <2>5 DEF HandlerFollows
<1>16. TraceHolds'
  BY <1>1, <1>2, <1>7, <1>11, <1>13, TraceStays
<1>17. ScreenHolds'
  BY <1>2, <1>11, <1>14, ScreenStays DEF SameVisits
<1>18. Plain' /\ (graph' = "idle" => stack' = <<>>)
  <2>1. graph # "idle"
    BY <1>1, <1>2
  <2> QED BY <1>1, <1>3, <1>2, <2>1, Zenon DEF Plain
<1> QED BY <1>13, <1>15, <1>16, <1>17, <1>18 DEF TrackerInv, HandlerTyped

\* A node ends, or raises, or asks the user.
LEMMA NodeEnds ==
    ASSUME TrackerInv, NEW outcome \in {"ok", "error", "question"}, R!EndChain(outcome),
           Len(stack) = 1
    PROVE  TrackerInv'
<1> DEFINE id == stack[1].id
           node == stack[1].node
           h == Visited(handler, handler.active \ {node}, id, "")
           p == R!Parent(handler, node)
           v == [node |-> node, ok |-> (outcome = "ok"), visit |-> p]
           e == EntryOf(h, "node_end", node, p)
           nt == R!Noted(h, trace, "node_end", node, p)
<1>1. /\ stack # <<>> /\ stack' = R!Front(stack) /\ R!OnChainEnd(R!Last(stack).id, outcome = "ok")
      /\ UNCHANGED <<enabled, chains, file, runs, resumed>>
      /\ \/ graph' = "stopped" /\ pending' = (outcome = "question")
         \/ UNCHANGED <<graph, pending>>
  BY DEF R!EndChain
<1>2. /\ Plain /\ HandlerTyped /\ HandlerFollows /\ TraceHolds /\ ScreenHolds
  BY DEF TrackerInv
<1>3. /\ stack \in Seq(Chain) /\ DOMAIN stack = {1} /\ node \in Nodes
      /\ id \in 1 .. chains /\ R!Last(stack) = stack[1]
      /\ R!Front(stack) = [i \in 1 .. 0 |-> stack[i]]
  <2>1. /\ stack \in Seq(Chain) /\ DOMAIN stack = 1 .. 1 /\ node \in Nodes
        /\ \A i \in DOMAIN stack : stack[i].id \in 1 .. chains
        /\ R!Last(stack) = stack[1]
        /\ R!Front(stack) = [i \in 1 .. 1 - 1 |-> stack[i]]
    BY <1>1, <1>2, ChainsThatRun
  <2> QED BY <2>1
<1>4. stack' = <<>>
  BY <1>1, <1>3
<1>5. id \in R!Ids
  <2>1. chains \in 0 .. MaxChains /\ MaxChains \in Nat
    BY <1>2, TrackerConstants DEF Plain
  <2> QED BY <1>3, <2>1 DEF R!Ids
<1>6. /\ handler.active = {node} /\ handler.nested = {} /\ handler.runs[id] = node
      /\ \A i \in R!Ids : i # id => handler.runs[i] = ""
  <2>1. handler.active = {n \in Nodes : Visiting(n)}
    BY <1>2 DEF HandlerFollows
  <2>2. \A n \in Nodes : Visiting(n) <=> n = node
    BY <1>1 DEF Visiting
  <2>3. handler.active = {node}
    BY <1>3, <2>1, <2>2
  <2>4. handler.nested = {}
    BY <1>2, <1>3 DEF HandlerFollows
  <2>5. \A i \in R!Ids : handler.runs[i] = IF id = i THEN node ELSE ""
    BY <1>1, <1>2 DEF HandlerFollows
  <2> QED BY <1>5, <2>3, <2>4, <2>5
<1>7. node # ""
  BY <1>3, TrackerConstants
<1>8. R!Last(stack).id = id /\ id \notin handler.nested /\ handler.runs[id] = node
  BY <1>3, <1>6
<1> HIDE DEF id
<1>9. /\ h \in Handlers /\ h.nested = handler.nested /\ h.active = handler.active \ {node}
      /\ \A i \in R!Ids : h.runs[i] = IF i = id THEN "" ELSE handler.runs[i]
      /\ h.timers = handler.timers /\ h.seq = handler.seq
  <2>1. handler \in Handlers /\ handler.active \ {node} \in SUBSET Nodes
    BY <1>2, HandlerFields DEF HandlerTyped
  <2> DEFINE none == ""
             a == handler.active \ {node}
             g == Visited(handler, a, id, none)
  <2>2. none \in NodeNames
    BY NamesAreTyped
  <2>3. h = g
    OBVIOUS
  <2>4. handler \in Handlers /\ a \in SUBSET Nodes
    BY <2>1
  <2> HIDE DEF h, a, none, node
  <2>5. /\ g \in Handlers /\ g.nested = handler.nested /\ g.active = a
        /\ \A i \in R!Ids : g.runs[i] = IF i = id THEN none ELSE handler.runs[i]
        /\ g.timers = handler.timers /\ g.seq = handler.seq
    BY <1>5, <2>2, <2>4 DEF Handlers, Visited
  <2> HIDE DEF g
  <2> QED BY <2>3, <2>5 DEF a, none
<1>10. R!Parent(h, node) = p
  BY <1>9 DEF R!Parent
<1>11. /\ screen' = R!Emitted(node, "done")
       /\ handler' = IF enabled THEN [h EXCEPT !.seq = @ + 1, !.timers[node] = 0] ELSE h
       /\ trace' = IF enabled
                   THEN [R!Noted(h, trace, "node_end", node, R!Parent(h, node))
                         EXCEPT !.nodes = Append(@, [node |-> node, ok |-> (outcome = "ok"),
                                                     visit |-> R!Parent(h, node)])]
                   ELSE trace
  <2> HIDE DEF node
  <2>1. R!OnChainEnd(id, outcome = "ok")
    BY <1>1, <1>8
  <2>2. h = [handler EXCEPT !.runs[id] = "", !.active = @ \ {node}]
    BY DEF Visited
  <2> HIDE DEF h
  <2> QED BY <1>7, <1>8, <2>1, <2>2, Zenon DEF R!OnChainEnd
<1> HIDE DEF h, node
<1>12. /\ enabled => /\ handler' = Clocked(h, node, 0)
                     /\ trace' = WithNodes(nt, Append(nt.nodes, v))
       /\ ~enabled => handler' = h /\ trace' = trace
  BY <1>10, <1>11 DEF Clocked, WithNodes
<1>13. /\ handler' \in Handlers /\ handler'.nested = {} /\ handler'.active = {}
       /\ \A i \in R!Ids : handler'.runs[i] = ""
       /\ enabled => /\ handler'.seq = handler.seq + 1 /\ handler'.timers[node] = 0
                     /\ \A n \in Nodes : n # node => handler'.timers[n] = handler.timers[n]
  <2>1. h.nested = {} /\ h.active = {} /\ \A i \in R!Ids : h.runs[i] = ""
    BY <1>6, <1>9
  <2>2. CASE enabled
    <3> DEFINE g == Clocked(h, node, 0)
    <3>1. h \in Handlers /\ node \in Nodes /\ 0 \in Nat
      BY <1>3, <1>9
    <3>2. /\ g \in Handlers /\ g.nested = h.nested /\ g.active = h.active
          /\ g.runs = h.runs /\ g.seq = h.seq + 1 /\ g.timers[node] = 0
          /\ \A i \in Nodes : i # node => g.timers[i] = h.timers[i]
      BY <3>1, HandlerTimes
    <3> HIDE DEF g
    <3>3. handler' = g
      BY <1>12, <2>2 DEF g
    <3> QED BY <1>9, <2>1, <3>2, <3>3
  <2>3. CASE ~enabled
    BY <1>9, <1>12, <2>1, <2>3
  <2> QED BY <2>2, <2>3
<1>14. \A n : ~Visiting(n)'
  BY <1>4 DEF Visiting
<1>15. HandlerFollows'
  <2>1. stack' \in Seq(Chain) /\ DOMAIN stack' = {}
    BY <1>4
  <2>2. handler'.active = {n \in Nodes : Visiting(n)'}
    BY <1>13, <1>14
  <2>3. handler'.nested = {stack'[i].id : i \in DOMAIN stack' \ {1}}
    BY <1>13, <2>1
  <2>4. \A i \in R!Ids : handler'.runs[i] =
             IF stack' # <<>> /\ stack'[1].id = i THEN stack'[1].node ELSE ""
    BY <1>4, <1>13
  <2> QED BY <2>1, <2>2, <2>3, <2>4 DEF HandlerFollows
<1>16. TraceHolds'
  <2>1. CASE enabled
    <3>1. trace \in Traces /\ p \in Nat
      BY <1>2, <2>1, ParentIsOpen DEF TraceHolds
    <3> HIDE DEF p
    <3>2. v \in VisitRecord /\ v.node = node /\ v.visit = p
      <4>1. (outcome = "ok") \in BOOLEAN
        OBVIOUS
      <4> QED BY <1>3, <3>1, <4>1 DEF VisitRecord
    <3> HIDE DEF v
    <3>3. "node_end" \in EntryTypes /\ node \in NodeNames
      BY <1>3, NamesAreTyped
    <3>4. /\ e \in TraceEntry /\ e.seq = h.seq + 1 /\ e.type = "node_end" /\ e.node = node
          /\ e.parent = p
      <4>1. h \in Handlers
        BY <1>9
      <4> QED BY <3>1, <3>3, <4>1, EntryFields
    <3>5. /\ nt \in Traces /\ nt.timeline = Append(trace.timeline, e) /\ nt.path = trace.path
          /\ nt.nodes = trace.nodes /\ nt.calls = trace.calls /\ nt.total = trace.total
          /\ nt.retrievals = trace.retrievals
      <4>1. h \in Handlers
        BY <1>9
      <4> QED BY <3>1, <3>3, <4>1, NotedFields, ZenonT(60)
    <3> HIDE DEF e, nt
    <3>6. /\ trace' \in Traces /\ trace'.timeline = Append(trace.timeline, e)
          /\ trace'.path = trace.path /\ trace'.nodes = Append(trace.nodes, v)
          /\ trace'.calls = trace.calls /\ trace'.total = trace.total
          /\ trace'.retrievals = trace.retrievals
      <4> DEFINE nodes == Append(nt.nodes, v)
      <4>1. nt.nodes \in Seq(VisitRecord)
        BY <3>5, TraceFields
      <4>2. nodes \in Seq(VisitRecord)
        BY <3>2, <4>1
      <4>3. trace' = WithNodes(nt, nodes) /\ nt \in Traces
        BY <1>12, <2>1, <3>5
      <4> HIDE DEF nodes
      <4>4. /\ trace' \in Traces /\ trace'.timeline = nt.timeline /\ trace'.path = nt.path
            /\ trace'.nodes = nodes /\ trace'.calls = nt.calls /\ trace'.total = nt.total
            /\ trace'.retrievals = nt.retrievals
        BY <4>2, <4>3, TraceSet
      <4> QED BY <3>5, <4>4 DEF nodes
    <3>7. Visiting(node) /\ node \in Nodes
      BY <1>1, <1>3 DEF Visiting, node
    <3>8. e.parent = R!Parent(handler, node) /\ v.visit = R!Parent(handler, node)
      BY <3>2, <3>4 DEF p
    <3>9. /\ e.seq = handler.seq + 1 /\ handler'.seq = handler.seq + 1
          /\ handler'.timers[node] = 0
          /\ \A n \in Nodes : n # node => handler'.timers[n] = handler.timers[n]
      BY <1>9, <1>13, <2>1, <3>4
    <3>10. UNCHANGED <<file, enabled, resumed>> /\ TraceHolds /\ HandlerTyped
      BY <1>1, <1>2
    <3> QED BY <1>4, <2>1, <3>2, <3>4, <3>6, <3>7, <3>8, <3>9, <3>10, EndIsTraced
  <2>2. CASE ~enabled
    BY <1>1, <1>2, <1>12, <2>2, TraceOff
  <2> QED BY <2>1, <2>2
<1>17. ScreenHolds'
  <2> DEFINE action == "done"
  <2>1. /\ screen' = R!Emitted(node, action) /\ action \in {"add", "done"} /\ action # "add"
    BY <1>11
  <2>2. stack[1].node = node /\ node \in Nodes /\ stack # <<>>
    BY <1>1, <1>3 DEF node
  <2> HIDE DEF action
  <2> QED BY <1>2, <1>4, <2>1, <2>2, ScreenFollows
<1>18. Plain'
  <2>1. (outcome = "question") \in BOOLEAN
    OBVIOUS
  <2>2. pending' \in BOOLEAN /\ graph' \in {"idle", "running", "stopped"}
    BY <1>1, <1>2, <2>1, Zenon DEF Plain
  <2> QED BY <1>1, <1>2, <2>2, Zenon DEF Plain
<1> QED BY <1>4, <1>13, <1>15, <1>16, <1>17, <1>18 DEF TrackerInv, HandlerTyped

\* What an event adds to the counts of a trace.
Retrieved(tr) == [tr EXCEPT !.retrievals = tr.retrievals + 1]
Called(tr) == [tr EXCEPT !.calls = tr.calls + 1, !.total = tr.total + 1]

\* The counts are set, the other parts stay.
LEMMA CountsSet ==
    ASSUME NEW tr \in Traces
    PROVE  /\ LET nt == Retrieved(tr)
              IN  /\ nt \in Traces /\ nt.timeline = tr.timeline /\ nt.path = tr.path
                  /\ nt.nodes = tr.nodes /\ nt.calls = tr.calls /\ nt.total = tr.total
                  /\ nt.retrievals = tr.retrievals + 1
           /\ LET nt == Called(tr)
              IN  /\ nt \in Traces /\ nt.timeline = tr.timeline /\ nt.path = tr.path
                  /\ nt.nodes = tr.nodes /\ nt.calls = tr.calls + 1
                  /\ nt.total = tr.total + 1 /\ nt.retrievals = tr.retrievals
<1> DEFINE r == tr.retrievals + 1
           k == tr.calls + 1
           l == tr.total + 1
           one == Retrieved(tr)
           other == Called(tr)
<1>1. r \in Nat /\ k \in Nat /\ l \in Nat
  BY TraceFields
<1>2. one = [tr EXCEPT !.retrievals = r] /\ other = [tr EXCEPT !.calls = k, !.total = l]
  BY DEF Retrieved, Called
<1> HIDE DEF r, k, l, one, other
<1>3. /\ one \in Traces /\ one.timeline = tr.timeline /\ one.path = tr.path
      /\ one.nodes = tr.nodes /\ one.calls = tr.calls /\ one.total = tr.total
      /\ one.retrievals = r
  BY <1>1, <1>2 DEF Traces
<1>4. /\ other \in Traces /\ other.timeline = tr.timeline /\ other.path = tr.path
      /\ other.nodes = tr.nodes /\ other.calls = k
      /\ other.total = l /\ other.retrievals = tr.retrievals
  BY <1>1, <1>2 DEF Traces
<1> QED BY <1>3, <1>4, Zenon DEF r, k, l, one, other

\* An event of a node comes.
LEMMA EventHappens ==
    ASSUME TrackerInv, NEW kind \in {"tool_call", "llm_call", "decision"},
           NEW id \in {0} \union R!Ids, NEW named \in NodeNames,
           R!OnCustomEvent(kind, id, named),
           UNCHANGED <<enabled, graph, stack, chains, file, pending, runs, resumed>>
    PROVE  TrackerInv'
<1> DEFINE node == IF kind # "tool_call" THEN named ELSE IF id = 0 THEN "" ELSE handler.runs[id]
           p == R!Parent(handler, node)
           e == EntryOf(handler, kind, node, p)
           nt == R!Noted(handler, trace, kind, node, p)
<1>1. /\ screen' = screen
      /\ enabled => handler' = Counted(handler)
      /\ ~enabled => handler' = handler /\ trace' = trace
      /\ enabled /\ kind = "tool_call" => trace' = Retrieved(nt)
      /\ enabled /\ kind = "llm_call" => trace' = Called(nt)
      /\ enabled /\ kind = "decision" => trace' = nt
  <2> DEFINE one == Retrieved(nt)
             other == Called(nt)
             more == Counted(handler)
  <2> HIDE DEF nt
  <2>1. /\ screen' = screen
        /\ handler' = IF enabled THEN more ELSE handler
        /\ trace' = IF ~enabled THEN trace
                    ELSE CASE kind = "tool_call" -> one
                           [] kind = "llm_call" -> other
                           [] OTHER -> nt
    BY DEF R!OnCustomEvent, nt, Counted, Retrieved, Called
  <2> HIDE DEF one, other, more
  <2>2. CASE enabled /\ kind = "tool_call"
    BY <2>1, <2>2 DEF one, more
  <2>3. CASE enabled /\ kind = "llm_call"
    BY <2>1, <2>3 DEF other, more
  <2>4. CASE enabled /\ kind = "decision"
    BY <2>1, <2>4 DEF more
  <2>5. CASE ~enabled
    BY <2>1, <2>5
  <2> QED BY <2>2, <2>3, <2>4, <2>5
<1>2. /\ Plain /\ HandlerTyped /\ HandlerFollows /\ TraceHolds /\ ScreenHolds
      /\ (graph = "idle" => stack = <<>>)
  BY DEF TrackerInv
<1>3. handler \in Handlers
  BY <1>2 DEF HandlerTyped
<1>4. node \in NodeNames
  BY <1>3, HandlerFields, NamesAreTyped
<1> HIDE DEF node
<1>5. /\ handler' \in Handlers /\ handler'.nested = handler.nested
      /\ handler'.active = handler.active /\ handler'.runs = handler.runs
      /\ handler'.timers = handler.timers
      /\ enabled => handler'.seq = handler.seq + 1
  <2> DEFINE g == Counted(handler)
  <2>1. /\ g \in Handlers /\ g.nested = handler.nested /\ g.active = handler.active
        /\ g.runs = handler.runs /\ g.seq = handler.seq + 1 /\ g.timers = handler.timers
    BY <1>3, HandlerCounts
  <2> HIDE DEF g
  <2>2. CASE enabled
    <3>1. handler' = g
      BY <1>1, <2>2 DEF g
    <3> QED BY <2>1, <3>1
  <2>3. CASE ~enabled
    BY <1>1, <1>3, <2>3
  <2> QED BY <2>2, <2>3
<1>6. \A n : Visiting(n)' <=> Visiting(n)
  BY DEF Visiting
<1>7. HandlerFollows'
  <2>1. /\ stack \in Seq(Chain)
        /\ \A i \in DOMAIN stack : stack[i].id \in 1 .. chains /\ stack[i].node = stack[1].node
        /\ \A i, j \in DOMAIN stack : i < j => stack[i].id < stack[j].id
        /\ handler.nested = {stack[i].id : i \in DOMAIN stack \ {1}}
        /\ \A c \in R!Ids : handler.runs[c] =
                               IF stack # <<>> /\ stack[1].id = c THEN stack[1].node ELSE ""
    BY <1>2, Zenon DEF HandlerFollows
  <2>2. handler'.active = {n \in Nodes : Visiting(n)'}
    BY <1>2, <1>5, <1>6 DEF HandlerFollows
  <2>3. /\ UNCHANGED <<stack, chains>> /\ handler'.nested = handler.nested
        /\ handler'.runs = handler.runs
    BY <1>5
  <2>4. handler'.nested = {stack'[i].id : i \in DOMAIN stack' \ {1}}
    <3> DEFINE Others(chain) == {chain[i].id : i \in DOMAIN chain \ {1}}
    <3>1. handler.nested = Others(stack)
      BY <2>1, Zenon
    <3> HIDE DEF Others
    <3>2. handler'.nested = Others(stack')
      BY <2>3, <3>1
    <3> QED BY <3>2, Zenon DEF Others
  <2>5. \A c \in R!Ids : handler'.runs[c] =
             IF stack' # <<>> /\ stack'[1].id = c THEN stack'[1].node ELSE ""
    BY <2>1, <2>3
  <2>6. /\ stack' \in Seq(Chain)
        /\ \A i \in DOMAIN stack' : stack'[i].id \in 1 .. chains' /\ stack'[i].node = stack'[1].node
        /\ \A i, j \in DOMAIN stack' : i < j => stack'[i].id < stack'[j].id
    BY <2>1, <2>3
  <2> QED BY <2>2, <2>4, <2>5, <2>6 DEF HandlerFollows
<1>8. TraceHolds'
  <2>1. CASE enabled
    <3>1. trace \in Traces /\ p \in Nat
      BY <1>2, <2>1, ParentIsOpen DEF TraceHolds
    <3>2. kind \in EntryTypes
      BY NamesAreTyped
    <3> HIDE DEF p
    <3>3. /\ e \in TraceEntry /\ e.seq = handler.seq + 1 /\ e.type = kind /\ e.node = node
          /\ e.parent = p
      BY <1>3, <1>4, <3>1, <3>2, EntryFields
    <3>4. /\ nt \in Traces /\ nt.timeline = Append(trace.timeline, e) /\ nt.path = trace.path
          /\ nt.nodes = trace.nodes /\ nt.calls = trace.calls /\ nt.total = trace.total
          /\ nt.retrievals = trace.retrievals
      BY <1>3, <1>4, <3>1, <3>2, NotedFields, ZenonT(60)
    <3> HIDE DEF e, nt
    <3> DEFINE one == Retrieved(nt)
               other == Called(nt)
    <3>5. /\ one \in Traces /\ one.timeline = nt.timeline /\ one.path = nt.path
          /\ one.nodes = nt.nodes /\ one.calls = nt.calls /\ one.total = nt.total
          /\ one.retrievals = nt.retrievals + 1
          /\ other \in Traces /\ other.timeline = nt.timeline /\ other.path = nt.path
          /\ other.nodes = nt.nodes /\ other.calls = nt.calls + 1
          /\ other.total = nt.total + 1 /\ other.retrievals = nt.retrievals
      <4>1. nt \in Traces
        BY <3>4
      <4> QED BY <4>1, CountsSet
    <3>6. /\ kind = "tool_call" => trace' = one
          /\ kind = "llm_call" => trace' = other
          /\ kind = "decision" => trace' = nt
      BY <1>1, <2>1
    <3> HIDE DEF one, other
    <3>7. trace.calls \in Nat /\ trace.total \in Nat /\ trace.retrievals \in Nat
      BY <3>1, TraceFields
    <3>8. /\ trace' \in Traces /\ trace'.timeline = Append(trace.timeline, e)
          /\ trace'.path = trace.path /\ trace'.nodes = trace.nodes
          /\ trace'.calls = trace.calls + (IF e.type = "llm_call" THEN 1 ELSE 0)
          /\ trace'.total = trace.total + (IF e.type = "llm_call" THEN 1 ELSE 0)
          /\ trace'.retrievals = trace.retrievals + (IF e.type = "tool_call" THEN 1 ELSE 0)
      <4>1. CASE kind = "tool_call"
        BY <3>3, <3>4, <3>5, <3>6, <3>7, <4>1
      <4>2. CASE kind = "llm_call"
        BY <3>3, <3>4, <3>5, <3>6, <3>7, <4>2
      <4>3. CASE kind = "decision"
        BY <3>3, <3>4, <3>6, <3>7, <4>3
      <4> QED BY <4>1, <4>2, <4>3
    <3>9. e.type \in {"tool_call", "llm_call", "decision"} /\ e.parent = R!Parent(handler, e.node)
      BY <3>3 DEF p
    <3>10. handler'.seq = handler.seq + 1 /\ handler'.timers = handler.timers
      BY <1>5, <2>1
    <3> QED BY <1>2, <2>1, <3>3, <3>8, <3>9, <3>10, EventIsTraced
  <2>2. CASE ~enabled
    BY <1>1, <1>2, <2>2, TraceOff
  <2> QED BY <2>1, <2>2
<1>9. ScreenHolds'
  BY <1>1, <1>2, <1>6, ScreenStays DEF SameVisits
<1>10. Plain' /\ (graph' = "idle" => stack' = <<>>)
  BY <1>2, Zenon DEF Plain
<1> QED BY <1>5, <1>7, <1>8, <1>9, <1>10 DEF TrackerInv, HandlerTyped

\* The last number of a timeline.
LEMMA LastSeqIsLast ==
    ASSUME NEW tl, Story(tl)
    PROVE  R!LastSeq(tl) \in Nat /\ \A i \in DOMAIN tl : tl[i].seq <= R!LastSeq(tl)
<1>1. tl \in Seq(TraceEntry) /\ \A i, j \in DOMAIN tl : i < j => tl[i].seq < tl[j].seq
  BY DEF Story
<1>2. \A i \in DOMAIN tl : tl[i].seq \in Nat
  <2>1. \A i \in DOMAIN tl : tl[i] \in TraceEntry
    BY <1>1
  <2> QED BY <2>1 DEF TraceEntry
<1>3. CASE tl = <<>>
  BY <1>3 DEF R!LastSeq
<1>4. CASE tl # <<>>
  <2> DEFINE k == Len(tl)
             Numbers == {tl[i].seq : i \in DOMAIN tl}
  <2>1. k \in DOMAIN tl /\ \A i \in DOMAIN tl : i = k \/ i < k
    BY <1>1, <1>4
  <2> HIDE DEF k
  <2>2. \A i \in DOMAIN tl : tl[i].seq <= tl[k].seq
    BY <1>1, <1>2, <2>1
  <2>3. tl[k].seq \in Numbers
    BY <2>1
  <2>4. R!LastSeq(tl) = CHOOSE m \in Numbers : \A i \in DOMAIN tl : tl[i].seq <= m
    BY <1>4 DEF R!LastSeq
  <2>5. R!LastSeq(tl) \in Numbers /\ \A i \in DOMAIN tl : tl[i].seq <= R!LastSeq(tl)
    <3> HIDE DEF Numbers
    <3> QED BY <2>2, <2>3, <2>4, Zenon
  <2> QED BY <1>2, <2>5
<1> QED BY <1>3, <1>4

\* A new handler and a new trace know nothing.
LEMMA NewHandlerFields ==
    /\ R!NewHandler \in Handlers
    /\ R!NewHandler.active = {} /\ R!NewHandler.nested = {}
    /\ \A i \in R!Ids : R!NewHandler.runs[i] = ""
    /\ \A n \in Nodes : R!NewHandler.timers[n] = 0
    /\ R!NewHandler.seq = 0
<1> DEFINE names == [i \in R!Ids |-> ""]
           times == [n \in Nodes |-> 0]
<1>1. names \in [R!Ids -> NodeNames] /\ \A i \in R!Ids : names[i] = ""
  BY NamesAreTyped
<1>2. times \in [Nodes -> Nat] /\ \A n \in Nodes : times[n] = 0
  OBVIOUS
<1>3. R!NewHandler = [active |-> {}, nested |-> {}, runs |-> names, timers |-> times, seq |-> 0]
  BY DEF R!NewHandler
<1> HIDE DEF names, times
<1>4. /\ R!NewHandler.active = {} /\ R!NewHandler.nested = {}
      /\ R!NewHandler.runs = names /\ R!NewHandler.timers = times /\ R!NewHandler.seq = 0
  BY <1>3
<1>5. R!NewHandler \in Handlers
  BY <1>1, <1>2, <1>3 DEF Handlers
<1> QED BY <1>1, <1>2, <1>4, <1>5, Zenon

\* A new timeline has no entries.
LEMMA NoPlaces == \A type : PlacesOf(<<>>, type) = {} /\ Cardinality(PlacesOf(<<>>, type)) = 0
<1>1. \A type : PlacesOf(<<>>, type) = {}
  BY DEF PlacesOf
<1> QED BY <1>1, FS_EmptySet

\* A new trace is one story and counts nothing.
LEMMA NewTraceHolds ==
    /\ R!NewTrace \in Traces /\ R!NewTrace.timeline = <<>>
    /\ Story(R!NewTrace.timeline) /\ CallsCounted(R!NewTrace)
    /\ R!NewTrace.retrievals = Cardinality(PlacesOf(R!NewTrace.timeline, "tool_call"))
    /\ VisitsFollow(R!NewTrace.timeline, R!NewTrace.path, R!NewTrace.nodes)
    /\ Len(R!NewTrace.path) = Len(R!NewTrace.nodes)
<1> DEFINE tr == R!NewTrace
<1>1. /\ tr.timeline = <<>> /\ tr.path = <<>> /\ tr.nodes = <<>>
      /\ tr.calls = 0 /\ tr.total = 0 /\ tr.retrievals = 0
  BY DEF R!NewTrace
<1>2. tr \in Traces
  BY DEF R!NewTrace, Traces
<1> HIDE DEF tr
<1>3. Story(<<>>)
  BY DEF Story
<1>4. CallsCounted(tr) /\ tr.retrievals = Cardinality(PlacesOf(tr.timeline, "tool_call"))
  BY <1>1, NoPlaces DEF CallsCounted
<1>5. VisitsFollow(tr.timeline, tr.path, tr.nodes) /\ Len(tr.path) = Len(tr.nodes)
  BY <1>1, NoPlaces DEF VisitsFollow
<1> QED BY <1>1, <1>2, <1>3, <1>4, <1>5 DEF tr

\* A trace that goes on keeps the timeline and its calls.
LEMMA ResumedFields ==
    ASSUME NEW tr \in Traces
    PROVE  /\ R!Resumed(tr) \in Traces /\ R!Resumed(tr).timeline = tr.timeline
           /\ R!Resumed(tr).calls = tr.calls /\ R!Resumed(tr).total = tr.total
<1>1. /\ tr.timeline \in Seq(TraceEntry) /\ tr.path \in Seq(Nodes)
      /\ tr.calls \in Nat /\ tr.total \in Nat
  BY TraceFields
<1> DEFINE tl == tr.timeline
           path == tr.path
           k == tr.calls
           l == tr.total
           none == R!NewTrace
           nt == R!Resumed(tr)
<1>2. nt = [none EXCEPT !.timeline = tl, !.path = path, !.calls = k, !.total = l]
  BY DEF R!Resumed
<1>3. none \in Traces
  BY NewTraceHolds
<1> HIDE DEF tl, path, k, l, none, nt
<1>4. tl \in Seq(TraceEntry) /\ path \in Seq(Nodes) /\ k \in Nat /\ l \in Nat
  BY <1>1 DEF tl, path, k, l
<1>5. nt \in Traces /\ nt.timeline = tl /\ nt.calls = k /\ nt.total = l
  BY <1>2, <1>3, <1>4 DEF Traces
<1> QED BY <1>5 DEF nt, tl, k, l

\* A run starts, and goes on with the trace of the run that asked, or with none.
LEMMA RunStarts ==
    ASSUME TrackerInv, NEW load \in BOOLEAN, R!StartRun(load) PROVE TrackerInv'
<1> DEFINE go_on == pending /\ load /\ file # R!NoFile
<1>1. /\ graph = "idle" /\ runs < MaxRuns
      /\ graph' = "running" /\ runs' = runs + 1 /\ pending' = FALSE
      /\ resumed' = go_on /\ screen' = <<>>
      /\ go_on => /\ trace' = R!Resumed(file)
                  /\ handler' = [R!NewHandler EXCEPT !.seq = R!LastSeq(file.timeline)]
      /\ ~go_on => trace' = R!NewTrace /\ handler' = R!NewHandler
      /\ UNCHANGED <<enabled, stack, chains, file>>
  BY Zenon DEF R!StartRun
<1>2. /\ Plain /\ HandlerTyped /\ HandlerFollows /\ TraceHolds /\ ScreenHolds
      /\ stack = <<>>
  BY <1>1 DEF TrackerInv
<1>3. go_on \in BOOLEAN
  BY <1>2, Zenon DEF Plain
<1>4. Plain'
  <2>1. runs \in 0 .. MaxRuns /\ runs < MaxRuns /\ runs' = runs + 1 /\ MaxRuns \in Nat
    BY <1>1, <1>2, TrackerConstants DEF Plain
  <2>2. runs' \in 0 .. MaxRuns
    BY <2>1
  <2>3. pending' \in BOOLEAN /\ resumed' \in BOOLEAN
    BY <1>1, <1>3
  <2>4. graph' \in {"idle", "running", "stopped"}
    BY <1>1
  <2> QED BY <1>1, <1>2, <2>2, <2>3, <2>4, Zenon DEF Plain
<1>5. go_on => file \in Traces /\ Story(file.timeline) /\ CallsCounted(file) /\ enabled
  BY <1>2, Zenon DEF TraceHolds
<1>6. go_on => /\ R!LastSeq(file.timeline) \in Nat
               /\ \A i \in DOMAIN file.timeline :
                     file.timeline[i].seq <= R!LastSeq(file.timeline)
  BY <1>5, LastSeqIsLast, Zenon
<1> HIDE DEF go_on
<1>7. /\ handler' \in Handlers /\ handler'.active = {} /\ handler'.nested = {}
      /\ \A i \in R!Ids : handler'.runs[i] = ""
      /\ \A n \in Nodes : handler'.timers[n] = 0
      /\ go_on => handler'.seq = R!LastSeq(file.timeline)
  <2>1. CASE go_on
    <3> DEFINE q == R!LastSeq(file.timeline)
               new == R!NewHandler
    <3>1. handler' = [new EXCEPT !.seq = q] /\ q \in Nat
      BY <1>1, <1>6, <2>1
    <3> HIDE DEF q, new
    <3>2. /\ new \in Handlers /\ new.active = {} /\ new.nested = {}
          /\ \A i \in R!Ids : new.runs[i] = ""
          /\ \A n \in Nodes : new.timers[n] = 0
      BY NewHandlerFields DEF new
    <3>3. /\ handler' \in Handlers /\ handler'.active = new.active
          /\ handler'.nested = new.nested /\ handler'.runs = new.runs
          /\ handler'.timers = new.timers /\ handler'.seq = q
      <4>1. new \in Handlers
        BY <3>2
      <4> QED BY <3>1, <4>1 DEF Handlers
    <3> QED BY <3>2, <3>3 DEF q
  <2>2. CASE ~go_on
    BY <1>1, <2>2, NewHandlerFields
  <2> QED BY <2>1, <2>2
<1>8. stack' = <<>> /\ DOMAIN stack' = {} /\ stack' \in Seq(Chain) /\ \A n : ~Visiting(n)'
  BY <1>1, <1>2 DEF Visiting
<1>9. HandlerFollows'
  <2>1. handler'.nested = {stack'[i].id : i \in DOMAIN stack' \ {1}}
    BY <1>7, <1>8
  <2>2. handler'.active = {n \in Nodes : Visiting(n)'}
    BY <1>7, <1>8
  <2>3. \A i \in R!Ids : handler'.runs[i] =
             IF stack' # <<>> /\ stack'[1].id = i THEN stack'[1].node ELSE ""
    BY <1>7, <1>8
  <2> QED BY <1>8, <2>1, <2>2, <2>3 DEF HandlerFollows
<1>10. /\ trace' \in Traces /\ Story(trace'.timeline) /\ CallsCounted(trace')
       /\ \A i \in DOMAIN trace'.timeline : trace'.timeline[i].seq <= handler'.seq
  <2>1. CASE go_on
    <3>1. /\ trace' \in Traces /\ trace'.timeline = file.timeline
          /\ trace'.calls = file.calls /\ trace'.total = file.total
      BY <1>1, <1>5, <2>1, ResumedFields
    <3> QED BY <1>5, <1>6, <1>7, <2>1, <3>1 DEF CallsCounted
  <2>2. CASE ~go_on
    <3>1. trace' = R!NewTrace
      BY <1>1, <2>2
    <3>2. DOMAIN trace'.timeline = {}
      BY <3>1, NewTraceHolds
    <3> QED BY <3>1, <3>2, NewTraceHolds
  <2> QED BY <2>1, <2>2
<1>11. TraceHolds'
  <2>1. TimersFollow'
    BY <1>7, <1>8, <1>10 DEF TimersFollow
  <2>2. ASSUME ~resumed' PROVE RecordsFollow'
    <3>1. trace' = R!NewTrace
      BY <1>1, <2>2
    <3> QED BY <1>8, <3>1, NewTraceHolds DEF RecordsFollow
  <2>3. ~enabled' => trace' = R!NewTrace /\ file' = R!NoFile
    BY <1>1, <1>2, <1>5 DEF TraceHolds
  <2>4. file' # R!NoFile => file' \in Traces /\ Story(file'.timeline) /\ CallsCounted(file')
    BY <1>1, <1>2 DEF TraceHolds
  <2> QED BY <1>10, <2>1, <2>2, <2>3, <2>4 DEF TraceHolds
<1>12. ScreenHolds'
  <2>1. \A n : OwnOf(<<>>, n) = {}
    BY DEF OwnOf
  <2>2. \A n : InTurn(screen', n) /\ Cardinality(OwnOf(screen', n)) = 0
    BY <1>1, <2>1, FS_EmptySet DEF InTurn
  <2> QED BY <1>1, <1>8, <2>2 DEF ScreenHolds
<1> QED BY <1>1, <1>4, <1>7, <1>9, <1>11, <1>12 DEF TrackerInv, HandlerTyped

\* A run ends and its trace is saved, or is not.
LEMMA RunEnds ==
    ASSUME TrackerInv, NEW saves \in BOOLEAN, R!EndRun(saves) PROVE TrackerInv'
<1>1. /\ stack = <<>> /\ graph' = "idle"
      /\ file' = IF saves /\ enabled THEN trace ELSE file
      /\ UNCHANGED <<enabled, stack, chains, handler, trace, pending, screen, runs, resumed>>
  BY DEF R!EndRun
<1>2. /\ Plain /\ HandlerTyped /\ HandlerFollows /\ TraceHolds /\ ScreenHolds
  BY DEF TrackerInv
<1>3. \A n : Visiting(n)' <=> Visiting(n)
  BY <1>1 DEF Visiting
<1>4. HandlerFollows' /\ HandlerTyped'
  BY <1>1, <1>2, <1>3 DEF HandlerFollows, HandlerTyped
<1>5. TraceHolds'
  <2>1. TimersFollow'
    BY <1>1, <1>2, <1>3 DEF TraceHolds, TimersFollow
  <2>2. ~resumed' => RecordsFollow'
    BY <1>1, <1>2 DEF TraceHolds, RecordsFollow
  <2>3. /\ ~enabled' => trace' = R!NewTrace /\ file' = R!NoFile
        /\ file' # R!NoFile => file' \in Traces /\ Story(file'.timeline) /\ CallsCounted(file')
    <3>1. CASE saves /\ enabled
      BY <1>1, <1>2, <3>1 DEF TraceHolds
    <3>2. CASE ~(saves /\ enabled)
      BY <1>1, <1>2, <3>2 DEF TraceHolds
    <3> QED BY <3>1, <3>2
  <2>4. trace' \in Traces /\ Story(trace'.timeline) /\ CallsCounted(trace')
    BY <1>1, <1>2 DEF TraceHolds
  <2> QED BY <2>1, <2>2, <2>3, <2>4 DEF TraceHolds
<1>6. ScreenHolds'
  BY <1>1, <1>2, <1>3, ScreenStays DEF SameVisits
<1>7. Plain'
  BY <1>1, <1>2 DEF Plain
<1> QED BY <1>1, <1>4, <1>5, <1>6, <1>7 DEF TrackerInv

\* Tracker's variables stay the same.
LEMMA TrackerRests ==
    ASSUME TrackerInv, UNCHANGED trackerVars PROVE TrackerInv'
<1>1. UNCHANGED <<enabled, graph, stack, chains, handler, trace, file, pending, screen, runs,
                  resumed>>
  BY DEF trackerVars
<1>2. /\ Plain /\ HandlerTyped /\ HandlerFollows /\ TraceHolds /\ ScreenHolds
      /\ (graph = "idle" => stack = <<>>)
  BY DEF TrackerInv
<1>3. \A n : Visiting(n)' <=> Visiting(n)
  BY <1>1 DEF Visiting
<1>4. HandlerFollows' /\ HandlerTyped'
  BY <1>1, <1>2, <1>3 DEF HandlerFollows, HandlerTyped
<1>5. TraceHolds'
  BY <1>1, <1>2, TraceStays
<1>6. ScreenHolds'
  BY <1>1, <1>2, <1>3, ScreenStays DEF SameVisits
<1>7. Plain'
  BY <1>1, <1>2 DEF Plain
<1> QED BY <1>1, <1>2, <1>4, <1>5, <1>6, <1>7 DEF TrackerInv

\* The invariant holds at first.
LEMMA TrackerBegins == R!Init => TrackerInv
<1> SUFFICES ASSUME R!Init PROVE TrackerInv
  OBVIOUS
<1>1. /\ enabled \in BOOLEAN
      /\ graph = "idle" /\ stack = <<>> /\ chains = 0 /\ runs = 0
      /\ handler = R!NewHandler /\ trace = R!NewTrace
      /\ file = R!NoFile /\ pending = FALSE /\ screen = <<>> /\ resumed = FALSE
  BY DEF R!Init
<1>2. /\ DOMAIN stack = {} /\ stack \in Seq(Chain) /\ \A n : ~Visiting(n)
  BY <1>1 DEF Visiting
<1>3. Plain
  <2>1. MaxChains \in Nat /\ MaxRuns \in Nat
    BY TrackerConstants
  <2>2. chains \in 0 .. MaxChains /\ runs \in 0 .. MaxRuns
    BY <1>1, <2>1
  <2>3. pending \in BOOLEAN /\ resumed \in BOOLEAN
    BY <1>1, Zenon
  <2>4. graph \in {"idle", "running", "stopped"}
    BY <1>1
  <2> QED BY <1>1, <2>2, <2>3, <2>4, Zenon DEF Plain
<1>4. HandlerTyped
  BY <1>1, NewHandlerFields DEF HandlerTyped
<1>5. HandlerFollows
  <2>1. /\ handler.active = {} /\ handler.nested = {}
        /\ \A i \in R!Ids : handler.runs[i] = ""
    BY <1>1, NewHandlerFields
  <2>2. handler.nested = {stack[i].id : i \in DOMAIN stack \ {1}}
    BY <1>2, <2>1
  <2>3. handler.active = {n \in Nodes : Visiting(n)}
    BY <1>2, <2>1
  <2> QED BY <1>1, <1>2, <2>1, <2>2, <2>3 DEF HandlerFollows
<1>6. TraceHolds
  <2>1. DOMAIN trace.timeline = {}
    BY <1>1, NewTraceHolds
  <2>2. \A n \in Nodes : handler.timers[n] = 0
    BY <1>1, NewHandlerFields
  <2>3. TimersFollow
    BY <1>2, <2>1, <2>2 DEF TimersFollow
  <2>4. RecordsFollow
    BY <1>1, NewTraceHolds DEF RecordsFollow
  <2> QED BY <1>1, <2>3, <2>4, NewTraceHolds DEF TraceHolds
<1>7. ScreenHolds
  <2>1. \A n : OwnOf(<<>>, n) = {}
    BY DEF OwnOf
  <2>2. \A n : InTurn(screen, n) /\ Cardinality(OwnOf(screen, n)) = 0
    BY <1>1, <2>1, FS_EmptySet DEF InTurn
  <2> QED BY <1>1, <1>2, <2>2 DEF ScreenHolds
<1> QED BY <1>1, <1>3, <1>4, <1>5, <1>6, <1>7 DEF TrackerInv

\* Every step keeps the invariant.
LEMMA TrackerSteps == TrackerInv /\ [R!Next]_(R!trackerVars) => TrackerInv'
<1> SUFFICES ASSUME TrackerInv, [R!Next]_(R!trackerVars) PROVE TrackerInv'
  OBVIOUS
<1>1. ASSUME NEW load \in BOOLEAN, R!StartRun(load) PROVE TrackerInv'
  BY <1>1, RunStarts
<1>2. ASSUME NEW node \in Nodes, R!StartChain(node) PROVE TrackerInv'
  BY <1>2, ChainInNode, VisitStarts
<1>3. ASSUME NEW outcome \in {"ok", "error", "question"}, R!EndChain(outcome) PROVE TrackerInv'
  <2>1. HandlerFollows /\ stack # <<>>
    BY <1>3 DEF TrackerInv, R!EndChain
  <2>2. Len(stack) \in Nat \ {0}
    BY <2>1, ChainsThatRun
  <2>3. CASE Len(stack) = 1
    BY <1>3, <2>3, NodeEnds
  <2>4. CASE Len(stack) > 1
    BY <1>3, <2>4, ChainInNodeEnds
  <2> QED BY <2>2, <2>3, <2>4
<1>4. ASSUME R!Event PROVE TrackerInv'
  <2>1. UNCHANGED <<enabled, graph, stack, chains, file, pending, runs, resumed>>
    BY <1>4 DEF R!Event
  <2>2. HandlerFollows /\ Plain
    BY DEF TrackerInv
  <2>3. ASSUME stack # <<>>
        PROVE  /\ \A i \in DOMAIN stack : stack[i].id \in R!Ids
               /\ stack[1].id \in R!Ids /\ stack[1].node \in NodeNames
    <3>1. /\ \A i \in DOMAIN stack : stack[i].id \in 1 .. chains
          /\ 1 \in DOMAIN stack /\ stack[1].node \in Nodes
      BY <2>2, <2>3, ChainsThatRun
    <3>2. chains \in 0 .. MaxChains /\ MaxChains \in Nat
      BY <2>2, TrackerConstants DEF Plain
    <3>3. 1 .. chains \subseteq R!Ids
      BY <3>2 DEF R!Ids
    <3> QED BY <3>1, <3>3, NamesAreTyped
  <2>4. "" \in NodeNames
    BY NamesAreTyped
  <2>5. ASSUME NEW id \in {0} \union {stack[i].id : i \in DOMAIN stack},
               R!OnCustomEvent("tool_call", id, "")
        PROVE  TrackerInv'
    <3>1. id \in {0} \union R!Ids
      <4>1. CASE stack = <<>>
        <5>1. DOMAIN stack = {}
          BY <4>1
        <5> QED BY <2>5, <5>1
      <4>2. CASE stack # <<>>
        BY <2>3, <2>5, <4>2
      <4> QED BY <4>1, <4>2
    <3> DEFINE kind == "tool_call"
    <3>2. kind \in {"tool_call", "llm_call", "decision"} /\ R!OnCustomEvent(kind, id, "")
      BY <2>5
    <3> HIDE DEF kind
    <3> QED BY <2>1, <2>4, <3>1, <3>2, EventHappens
  <2>6. ASSUME stack # <<>>, R!OnCustomEvent("decision", stack[1].id, stack[1].node)
        PROVE  TrackerInv'
    <3> DEFINE kind == "decision"
    <3>1. kind \in {"tool_call", "llm_call", "decision"}
          /\ R!OnCustomEvent(kind, stack[1].id, stack[1].node)
      BY <2>6
    <3>2. stack[1].id \in {0} \union R!Ids /\ stack[1].node \in NodeNames
      BY <2>3, <2>6
    <3> HIDE DEF kind
    <3> QED BY <2>1, <3>1, <3>2, EventHappens
  <2>7. ASSUME stack # <<>>, NEW named \in {"", stack[1].node},
               R!OnCustomEvent("llm_call", stack[1].id, named)
        PROVE  TrackerInv'
    <3> DEFINE kind == "llm_call"
    <3>1. kind \in {"tool_call", "llm_call", "decision"}
          /\ R!OnCustomEvent(kind, stack[1].id, named)
      BY <2>7
    <3>2. stack[1].id \in {0} \union R!Ids /\ named \in NodeNames
      BY <2>3, <2>4, <2>7
    <3> HIDE DEF kind
    <3> QED BY <2>1, <3>1, <3>2, EventHappens
  <2> QED BY <1>4, <2>5, <2>6, <2>7, Zenon DEF R!Event
<1>5. ASSUME NEW saves \in BOOLEAN, R!EndRun(saves) PROVE TrackerInv'
  BY <1>5, RunEnds
<1>6. ASSUME UNCHANGED R!trackerVars PROVE TrackerInv'
  BY <1>6, TrackerRests DEF R!trackerVars, trackerVars
<1> QED BY <1>1, <1>2, <1>3, <1>4, <1>5, <1>6, Zenon DEF R!Next

\* The invariant, for any nodes, chains and events.
THEOREM TrackerInvariance == R!Spec => []TrackerInv
<1>1. R!Init => TrackerInv
  BY TrackerBegins
<1>2. TrackerInv /\ [R!Next]_(R!trackerVars) => TrackerInv'
  BY TrackerSteps
<1> QED BY <1>1, <1>2, PTL DEF R!Spec

\* ParentsWereOpen of a timeline that is one story.
LEMMA StoryIsOne == ASSUME TrackerInv PROVE R!ParentsWereOpen
<1> DEFINE tl == trace.timeline
           IsOpenBefore(s, i) ==
               /\ tl[i].node \in Nodes
               /\ \E j \in 1 .. (i - 1) :
                     /\ tl[j].seq = s /\ tl[j].type = "node_start" /\ tl[j].node = tl[i].node
                     /\ ~\E k \in (j + 1) .. (i - 1) : tl[k].type = "node_end" /\ tl[k].parent = s
<1>1. Story(tl) /\ tl \in Seq(TraceEntry)
  BY DEF TrackerInv, TraceHolds, Story
<1>2. DOMAIN tl = 1 .. Len(tl) /\ Len(tl) \in Nat
  BY <1>1
<1> HIDE DEF tl
<1>3. ASSUME NEW i \in DOMAIN tl
      PROVE  /\ i > 1 => tl[i - 1].seq < tl[i].seq
             /\ tl[i].parent # 0 => IsOpenBefore(tl[i].parent, i)
             /\ tl[i].type = "node_end" => tl[i].parent # 0
  <2>1. i > 1 => tl[i - 1].seq < tl[i].seq
    <3>1. i > 1 => i - 1 \in DOMAIN tl /\ i - 1 < i
      BY <1>2
    <3> QED BY <1>1, <3>1 DEF Story
  <2>2. /\ tl[i].parent # 0 =>
              tl[i].node \in Nodes /\ OpenAt(tl, tl[i].parent, tl[i].node, i)
        /\ tl[i].type = "node_end" => tl[i].parent # 0
    BY <1>1 DEF Story
  <2>3. ASSUME OpenAt(tl, tl[i].parent, tl[i].node, i), tl[i].node \in Nodes
        PROVE  IsOpenBefore(tl[i].parent, i)
    BY <2>3, Zenon DEF OpenAt
  <2> QED BY <2>1, <2>2, <2>3, Zenon
<1> QED BY <1>3 DEF R!ParentsWereOpen, tl

\* What the report of a run that is over says.
LEMMA ReportIsTrue == ASSUME TrackerInv PROVE R!ReportTellsTrace
<1> DEFINE tr == trace
           starts == R!Entries(tr, "node_start")
<1>1. SUFFICES ASSUME graph = "idle"
               PROVE  /\ tr.total = tr.calls
                      /\ tr.calls = R!Cardinality(R!Entries(tr, "llm_call"))
                      /\ "no_llm_call" \in R!Findings(tr) <=> R!Entries(tr, "llm_call") = {}
                      /\ ~resumed =>
                            /\ R!Len(R!Bars(tr)) = R!Cardinality(starts)
                            /\ \A i \in starts :
                                  R!Bars(tr)[R!Cardinality({j \in starts : j <= i})] =
                                     tr.timeline[i].seq
                            /\ "no_retrieval" \in R!Findings(tr) <=>
                                  R!Entries(tr, "tool_call") = {}
  BY DEF R!ReportTellsTrace
<1>2. /\ tr \in Traces /\ CallsCounted(tr) /\ (~resumed => RecordsFollow) /\ stack = <<>>
      /\ tr.timeline \in Seq(TraceEntry)
  BY <1>1 DEF TrackerInv, TraceHolds, Story
<1>3. \A type : /\ R!Entries(tr, type) = PlacesOf(tr.timeline, type)
                /\ IsFiniteSet(PlacesOf(tr.timeline, type))
                /\ Cardinality(PlacesOf(tr.timeline, type)) = 0 <=>
                      PlacesOf(tr.timeline, type) = {}
  <2>1. TAKE type
  <2>2. R!Entries(tr, type) = PlacesOf(tr.timeline, type)
    BY DEF R!Entries, PlacesOf
  <2>3. IsFiniteSet(PlacesOf(tr.timeline, type))
    <3>1. PlacesOf(tr.timeline, type) \in SUBSET (1 .. Len(tr.timeline))
          /\ Len(tr.timeline) \in Nat
      BY <1>2 DEF PlacesOf
    <3>2. IsFiniteSet(1 .. Len(tr.timeline))
      BY <3>1, FS_Interval
    <3> QED BY <3>1, <3>2, FS_Subset
  <2> QED BY <2>2, <2>3, FS_EmptySet
<1>4. /\ "no_llm_call" \in R!Findings(tr) <=> tr.calls = 0
      /\ "no_retrieval" \in R!Findings(tr) <=> tr.retrievals = 0
  BY DEF R!Findings
<1>5. /\ tr.total = tr.calls /\ tr.calls = R!Cardinality(R!Entries(tr, "llm_call"))
      /\ "no_llm_call" \in R!Findings(tr) <=> R!Entries(tr, "llm_call") = {}
  BY <1>2, <1>3, <1>4, CountsAreSame DEF CallsCounted
<1>6. ASSUME ~resumed
      PROVE  /\ R!Len(R!Bars(tr)) = R!Cardinality(starts)
             /\ \A i \in starts : R!Bars(tr)[R!Cardinality({j \in starts : j <= i})] =
                                     tr.timeline[i].seq
             /\ "no_retrieval" \in R!Findings(tr) <=> R!Entries(tr, "tool_call") = {}
  <2>1. /\ tr.retrievals = Cardinality(PlacesOf(tr.timeline, "tool_call"))
        /\ VisitsFollow(tr.timeline, tr.path, tr.nodes) /\ Len(tr.path) = Len(tr.nodes)
    BY <1>2, <1>6 DEF RecordsFollow
  <2>2. tr.path \in Seq(Nodes) /\ tr.nodes \in Seq(VisitRecord)
    BY <1>2, TraceFields
  <2>3. \A k \in DOMAIN tr.nodes : tr.nodes[k].node = tr.path[k]
    BY <2>1 DEF VisitsFollow
  <2>4. /\ Len(R!Bars(tr)) = Len(tr.path)
        /\ \A k \in DOMAIN tr.path : R!Bars(tr)[k] = tr.nodes[k].visit
    BY <1>2, <2>1, <2>3, BarsAreVisits
  <2>5. starts = PlacesOf(tr.timeline, "node_start")
    BY <1>3
  <2> HIDE DEF starts, tr
  <2>6. ASSUME NEW i \in starts
        PROVE  R!Bars(tr)[R!Cardinality({j \in starts : j <= i})] = tr.timeline[i].seq
    <3> DEFINE k == VisitAt(tr.timeline, i)
    <3>1. R!Cardinality({j \in starts : j <= i}) = k
      BY <2>5, CountsAreSame DEF VisitAt
    <3>2. k \in 1 .. Len(tr.path)
      <4> DEFINE upto == {j \in PlacesOf(tr.timeline, "node_start") : j <= i}
      <4>1. i \in upto
        BY <1>2, <2>5, <2>6 DEF PlacesOf
      <4>2. upto \in SUBSET PlacesOf(tr.timeline, "node_start")
        OBVIOUS
      <4>3. /\ IsFiniteSet(PlacesOf(tr.timeline, "node_start"))
            /\ Len(tr.path) = Cardinality(PlacesOf(tr.timeline, "node_start"))
        BY <1>3, <2>1 DEF VisitsFollow
      <4> HIDE DEF upto
      <4>4. /\ IsFiniteSet(upto) /\ Cardinality(upto) \in Nat /\ Len(tr.path) \in Nat
            /\ Cardinality(upto) <= Len(tr.path)
        BY <4>2, <4>3, FS_Subset, FS_CardinalityType
      <4>5. Cardinality(upto) # 0
        BY <4>1, <4>4, FS_EmptySet
      <4>6. Cardinality(upto) = k
        BY DEF VisitAt, upto
      <4> HIDE DEF k
      <4> QED BY <4>4, <4>5, <4>6
    <3> HIDE DEF k
    <3>3. k \in DOMAIN tr.path /\ k \in DOMAIN tr.nodes
      BY <2>1, <2>2, <3>2
    <3>4. tr.nodes[k].visit = tr.timeline[i].seq
      BY <2>1, <2>5, <2>6, <3>3 DEF VisitsFollow, k
    <3> QED BY <2>4, <3>1, <3>3, <3>4
  <2>7. R!Len(R!Bars(tr)) = R!Cardinality(starts)
    BY <2>1, <2>4, <2>5, CountsAreSame DEF VisitsFollow
  <2>8. "no_retrieval" \in R!Findings(tr) <=> R!Entries(tr, "tool_call") = {}
    BY <1>3, <1>4, <2>1
  <2> QED BY <2>6, <2>7, <2>8
<1> QED BY <1>5, <1>6

\* The messages about the visits are in turn.
LEMMA MessagesInTurn == ASSUME TrackerInv PROVE R!AddsAreDone
<1>1. ScreenHolds
  BY DEF TrackerInv
<1>2. ASSUME NEW n \in Shown
      PROVE  LET own == {i \in DOMAIN screen : screen[i].node = n}
             IN  /\ \A i \in own :
                       screen[i].action =
                          IF R!Cardinality({j \in own : j < i}) % 2 = 0 THEN "add" ELSE "done"
                 /\ (R!Cardinality(own) % 2 = 1) <=> (stack # <<>> /\ stack[1].node = n)
  <2> DEFINE own == {i \in DOMAIN screen : screen[i].node = n}
  <2>1. /\ InTurn(screen, n) /\ ((Cardinality(OwnOf(screen, n)) % 2 = 1) <=> Visiting(n))
    BY <1>1 DEF ScreenHolds
  <2>2. own = OwnOf(screen, n)
    BY DEF OwnOf
  <2> HIDE DEF own
  <2>3. \A i \in own : screen[i].action =
                          IF R!Cardinality({j \in own : j < i}) % 2 = 0 THEN "add" ELSE "done"
    BY <2>1, <2>2, CountsAreSame, Zenon DEF InTurn, OwnBefore, Said
  <2>4. (R!Cardinality(own) % 2 = 1) <=> (stack # <<>> /\ stack[1].node = n)
    BY <2>1, <2>2, CountsAreSame, Zenon DEF Visiting
  <2> QED BY <2>3, <2>4, Zenon DEF own
<1> QED BY <1>2, Zenon DEF R!AddsAreDone

\* The types of Tracker.
LEMMA TrackerIsTyped == ASSUME TrackerInv PROVE R!TypeOK
<1>1. Plain /\ handler \in Handlers /\ trace \in Traces
  BY DEF TrackerInv, HandlerTyped, TraceHolds
<1>2. /\ handler.active \in SUBSET Nodes /\ handler.nested \in SUBSET R!Ids
      /\ handler.runs \in [R!Ids -> NodeNames]
      /\ handler.timers \in [Nodes -> Nat] /\ handler.seq \in Nat
  BY <1>1, HandlerFields
<1>3. trace.calls \in Nat /\ trace.total \in Nat /\ trace.retrievals \in Nat
  BY <1>1, TraceFields
<1>4. NodeNames = Nodes \union {""}
  BY DEF NodeNames
<1>5. handler.runs \in [R!Ids -> Nodes \union {""}]
  BY <1>2, <1>4
<1> QED BY <1>1, <1>2, <1>3, <1>5 DEF Plain, R!TypeOK

\* The timeline of a trace is one story and the report tells what it shows, across a
\* question to the user too; the client sees every visit begin once and end once.
THEOREM TracesTell == R!Spec => []TraceTellsRun
<1>1. TrackerInv => TraceTellsRun
  BY StoryIsOne, ReportIsTrue, MessagesInTurn, TrackerIsTyped
  DEF TraceTellsRun, R!TraceTellsRun
<1> QED BY <1>1, TrackerInvariance, PTL
=============================================================================
