---------------------------- MODULE ResultCache ----------------------------
(***************************************************************************)
(* The SQL results that main.py keeps for /api/download: _sql_result_cache *)
(* holds one result for each of at most _MAX_CACHE sessions.  A turn of a  *)
(* WebSocket stores its result after stream.end, some awaited messages     *)
(* after it came back; a turn of the REST endpoint never does, nor does    *)
(* one whose client has gone.                                              *)
(*                                                                         *)
(* A connection runs one turn at a time; several connections may belong to *)
(* a session, and what their turns come back with may be stored in another *)
(* order.  How the messages of a turn are sent is Delivery.                *)
(***************************************************************************)
EXTENDS Naturals, Sequences, SequencesExt

CONSTANTS
    Conns, Sessions,
    SessionOf,  \* the session of each connection
    MaxCache,   \* _MAX_CACHE
    MaxTurns    \* bound: turns of all sessions together

CacheAssumption ==
    /\ SessionOf \in [Conns -> Sessions]
    /\ MaxCache \in Nat \ {0} /\ MaxTurns \in Nat

VARIABLES
    turns,     \* turns so far; they are numbered by arrival
    turn,      \* turn[c]: the turn in progress on a connection, 0 for none
    due,       \* due[c]: what its answer, still being sent, found, "none" for none yet
    cache,     \* _sql_result_cache, in the order of the dict
    newest,    \* newest[s]: the last turn of s that came back with rows
    announced, \* announced[s]: the last turn a download_ready named
    mishap,    \* sessions where something below went wrong (history)
    overlap    \* those whose last turn came back while another answer was due (history)

vars == <<turns, turn, due, cache, newest, announced, mishap, overlap>>

\* `rows' tells whether the entry has any.
Entry == [session : Sessions, turn : 1..MaxTurns, rows : BOOLEAN]

TypeOK ==
    /\ turns \in 0..MaxTurns
    /\ turn \in [Conns -> 0..MaxTurns]
    /\ due \in [Conns -> {"none", "rows", "bare"}]
    /\ \A c \in Conns : due[c] # "none" => turn[c] # 0
    /\ cache \in Seq(Entry) /\ Len(cache) <= MaxCache
    /\ \A i, j \in DOMAIN cache : cache[i].session = cache[j].session => i = j
    /\ newest \in [Sessions -> 0..MaxTurns]
    /\ announced \in [Sessions -> 0..MaxTurns]
    /\ mishap \subseteq Sessions /\ overlap \subseteq Sessions

Init ==
    /\ turns = 0 /\ turn = [c \in Conns |-> 0]
    /\ due = [c \in Conns |-> "none"]
    /\ cache = <<>>
    /\ newest = [s \in Sessions |-> 0] /\ announced = [s \in Sessions |-> 0]
    /\ mishap = {} /\ overlap = {}

-----------------------------------------------------------------------------
(* _cache_sql_result and download_data                                      *)

Place(entries, s) == SelectInSeq(entries, LAMBDA e : e.session = s)

\* A full cache gives up the first key of the dict, whoever is stored.
Evicted(entries) == IF Len(entries) >= MaxCache THEN Tail(entries) ELSE entries

Stored_KeepsFirst(entries, e) ==
    IF Place(entries, e.session) = 0 THEN Append(entries, e) ELSE entries

\* Assigning to a key that exists keeps its place in the order of the dict.
Stored(entries, e) ==
    IF Place(entries, e.session) = 0 THEN Append(entries, e)
    ELSE [entries EXCEPT ![Place(entries, e.session)] = e]

CacheSqlResult(s, t, hasRows) ==
    cache' = Stored(Evicted(cache),
                    [session |-> s, turn |-> t, rows |-> hasRows])

Cached(s) == Place(cache, s) # 0

\* The turn whose rows the session downloads, 0 for the answer 404.
Download(s) ==
    IF Cached(s) /\ cache[Place(cache, s)].rows
    THEN cache[Place(cache, s)].turn ELSE 0

-----------------------------------------------------------------------------

\* The session has an answer on its way, on another connection than c.
OtherIsDue(c) ==
    \E o \in Conns \ {c} : SessionOf[o] = SessionOf[c] /\ due[o] # "none"

Receive(c) ==
    /\ turn[c] = 0 /\ turns < MaxTurns
    /\ turns' = turns + 1
    /\ turn' = [turn EXCEPT ![c] = turns']
    /\ UNCHANGED <<due, cache, newest, announced, mishap, overlap>>

\* run_pipeline returns rows; the messages of the answer are to be sent.
TurnWithRows(c) ==
    /\ turn[c] # 0 /\ due[c] = "none"
    /\ due' = [due EXCEPT ![c] = "rows"]
    /\ newest' = [newest EXCEPT ![SessionOf[c]] = turn[c]]
    /\ overlap' = IF OtherIsDue(c) THEN overlap \cup {SessionOf[c]}
                  ELSE overlap \ {SessionOf[c]}
    /\ UNCHANGED <<turns, turn, cache, announced, mishap>>

\* run_pipeline fails after the graph has found rows: the row count of its
\* result is built from the state of the graph, its sql_result is empty.
TurnRaised(c) ==
    /\ turn[c] # 0 /\ due[c] = "none"
    /\ due' = [due EXCEPT ![c] = "bare"]
    /\ mishap' = mishap \cup {SessionOf[c]}
    /\ UNCHANGED <<turns, turn, cache, newest, announced, overlap>>

\* A turn without rows, or one that asks the user: nothing is stored.
TurnWithoutRows(c) ==
    /\ turn[c] # 0 /\ due[c] = "none"
    /\ turn' = [turn EXCEPT ![c] = 0]
    /\ UNCHANGED <<turns, due, cache, newest, announced, mishap, overlap>>

Finished(c) == turn' = [turn EXCEPT ![c] = 0] /\ due' = [due EXCEPT ![c] = "none"]

\* The client has gone before stream.start was sent: _run_ws_pipeline returns
\* without storing the rows.
ClientGone(c) ==
    /\ due[c] # "none" /\ Finished(c)
    /\ mishap' = mishap \cup {SessionOf[c]}
    /\ UNCHANGED <<turns, cache, newest, announced, overlap>>

\* stream.end was sent or tried.  The rows are stored whether or not the client
\* is there to be told; nothing is awaited between storing and announcing.
Store(c) ==
    /\ due[c] # "none" /\ Finished(c)
    /\ CacheSqlResult(SessionOf[c], turn[c], due[c] = "rows")
    /\ \/ /\ announced' = [announced EXCEPT ![SessionOf[c]] = turn[c]]
          /\ UNCHANGED mishap
       \/ /\ mishap' = mishap \cup {SessionOf[c]}
          /\ UNCHANGED announced
    /\ UNCHANGED <<turns, newest, overlap>>

\* POST /api/query answers with the rows and does not store them.
RestTurn(s) ==
    /\ turns < MaxTurns /\ turns' = turns + 1
    /\ newest' = [newest EXCEPT ![s] = turns']
    /\ mishap' = mishap \cup {s}
    /\ UNCHANGED <<turn, due, cache, announced, overlap>>

Next ==
    \/ \E c \in Conns : \/ Receive(c) \/ TurnWithRows(c) \/ TurnWithoutRows(c)
                        \/ TurnRaised(c) \/ ClientGone(c) \/ Store(c)
    \/ \E s \in Sessions : RestTurn(s)

Spec == Init /\ [][Next]_vars

-----------------------------------------------------------------------------
(* Properties                                                               *)

\* No answer of the session is on its way, and the last did not meet another.
Quiet(s) == s \notin overlap /\ \A c \in Conns : SessionOf[c] = s => due[c] = "none"

\* If no client of a session left, no run raised and REST was not used, then
\* whatever the turns of other connections and sessions do between, the session
\* downloads the rows it was told of last, or none because others displaced
\* them.  They are those that came back last, unless two answers of the session
\* were on their way at once: then the older may be stored over the newer.
DownloadIsNewest ==
    \A s \in Sessions \ mishap :
        /\ Download(s) \in {announced[s], 0}
        /\ Quiet(s) => announced[s] = newest[s]
=============================================================================
