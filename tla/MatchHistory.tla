---------------------------- MODULE MatchHistory ----------------------------
(***************************************************************************)
(* The match history of one account (players/match_history.rs): what the    *)
(* table holds, read through a batcher and a cache, is merged with what     *)
(* Steam answers, through another cache, and the rows the table seemed to   *)
(* lack are left in the insert batcher.  The read batcher is taken by its   *)
(* promise, KeyLookup: the rows of some moment of the call, or an error.    *)
(***************************************************************************)
EXTENDS InsertBatcher, FiniteSets

CONSTANTS
    Matches,
    Requests,
    Foreign,        \* rows that other programs insert
    Histories,      \* what Steam may answer: sequences of rows, no match twice
    None

ASSUME HistoryAssumption ==
    /\ Rows = [match : Matches, ranked : BOOLEAN]
    /\ Foreign \subseteq Rows
    /\ Histories \subseteq Seq(Rows)
    /\ \A h \in Histories : Len(h) <= MaxCall

VARIABLES
    stage,          \* stage[r]
    force,          \* force[r]: the request asks for a refetch
    ch,             \* ch[r]: the rows r read from the table, by way of the cache
    steam,          \* steam[r]: the rows r got from Steam, by way of the cache
    chCache,        \* the cached rows of the table, or None
    chLock,         \* the request that fills this cache, or None
    steamCache,     \* steamCache[f]: the cached answer of Steam with and without refetch
    steamLock,
    answer          \* answer[r]: the rows of the response

routeVars == <<stage, force, ch, steam, chCache, chLock, steamCache, steamLock, answer>>
vars == <<buffer, flushing, stored, accepted, pressed, failures, restarts, routeVars>>

Stages == {"new", "load", "loading", "limit", "steam", "fetching", "merge", "answered", "failed"}

Init ==
    /\ BatcherInit
    /\ stage = [r \in Requests |-> "new"]
    /\ force \in [Requests -> BOOLEAN]
    /\ ch = [r \in Requests |-> {}]
    /\ steam = [r \in Requests |-> <<>>]
    /\ chCache = None /\ chLock = None
    /\ steamCache = [f \in BOOLEAN |-> None]
    /\ steamLock = [f \in BOOLEAN |-> None]
    /\ answer = [r \in Requests |-> {}]

-----------------------------------------------------------------------------
(* The two cached fetches.                                                 *)

\* The table merges the rows of a match: ranked data stays once it is there.
Merged(rows) ==
    {[match |-> m, ranked |-> \E row \in rows : row.match = m /\ row.ranked] :
        m \in {row.match : row \in rows}}

Goes(r, next) == stage' = [stage EXCEPT ![r] = next]
OnlyTable == UNCHANGED <<force, steam, steamCache, steamLock, answer, batcherVars>>
OnlySteam == UNCHANGED <<force, ch, chCache, chLock, answer, batcherVars>>

LoadCached(r) ==
    /\ stage[r] = "load" /\ chLock = None /\ chCache # None
    /\ ch' = [ch EXCEPT ![r] = chCache]
    /\ Goes(r, "limit")
    /\ UNCHANGED <<chCache, chLock>> /\ OnlyTable

\* fetch_ch_match_history misses its cache; the batcher reads the table.
LoadReads(r) ==
    /\ stage[r] = "load" /\ chLock = None /\ chCache = None
    /\ chLock' = r
    /\ ch' = [ch EXCEPT ![r] = Merged(stored)]
    /\ Goes(r, "loading")
    /\ UNCHANGED chCache /\ OnlyTable

\* The rows arrive, however late.
LoadEnds(r) ==
    /\ stage[r] = "loading"
    /\ chCache' = ch[r]
    /\ chLock' = None
    /\ Goes(r, "limit")
    /\ UNCHANGED ch /\ OnlyTable

SteamCached(r) ==
    /\ stage[r] = "steam" /\ steamLock[force[r]] = None /\ steamCache[force[r]] # None
    /\ steam' = [steam EXCEPT ![r] = steamCache[force[r]]]
    /\ Goes(r, "merge")
    /\ UNCHANGED <<steamCache, steamLock>> /\ OnlySteam

SteamAsked(r) ==
    /\ stage[r] = "steam" /\ steamLock[force[r]] = None /\ steamCache[force[r]] = None
    /\ steamLock' = [steamLock EXCEPT ![force[r]] = r]
    /\ Goes(r, "fetching")
    /\ UNCHANGED <<steam, steamCache>> /\ OnlySteam

SteamAnswers(r) ==
    /\ stage[r] = "fetching"
    /\ \E h \in Histories :
        /\ steam' = [steam EXCEPT ![r] = h]
        /\ steamCache' = [steamCache EXCEPT ![force[r]] = h]
    /\ steamLock' = [steamLock EXCEPT ![force[r]] = None]
    /\ Goes(r, "merge")
    /\ OnlySteam

\* An error is not cached and counts as no rows.
SteamFails(r) ==
    /\ stage[r] = "fetching"
    /\ steamLock' = [steamLock EXCEPT ![force[r]] = None]
    /\ Goes(r, "merge")
    /\ UNCHANGED <<steam, steamCache>> /\ OnlySteam

ChExpires ==
    /\ chCache # None
    /\ chCache' = None
    /\ UNCHANGED <<stage, ch, chLock>> /\ OnlyTable

SteamExpires(f) ==
    /\ steamCache[f] # None
    /\ steamCache' = [steamCache EXCEPT ![f] = None]
    /\ UNCHANGED <<stage, steam, steamLock>> /\ OnlySteam

-----------------------------------------------------------------------------
(* The route.                                                              *)

Ends(r, end, rows) ==
    /\ Goes(r, end)
    /\ answer' = [answer EXCEPT ![r] = rows]
    /\ ch' = [ch EXCEPT ![r] = {}]
    /\ steam' = [steam EXCEPT ![r] = <<>>]
    /\ chLock' = IF chLock = r THEN None ELSE chLock
    /\ steamLock' = [f \in BOOLEAN |-> IF steamLock[f] = r THEN None ELSE steamLock[f]]
    /\ UNCHANGED <<force, chCache, steamCache>>

Begin(r) ==
    /\ stage[r] = "new"
    /\ Goes(r, "load")
    /\ UNCHANGED <<ch, chCache, chLock>> /\ OnlyTable

\* A protected user, a failed read of the table, or the client is gone.
Fail(r) ==
    /\ stage[r] \notin {"answered", "failed"}
    /\ Ends(r, "failed", {})
    /\ UNCHANGED batcherVars

\* Without a bot as friend, or beyond the limits: what the table holds. A refetch beyond
\* the limits is an error.
AnswerFromTable(r) ==
    /\ stage[r] = "limit"
    /\ Ends(r, "answered", ch[r])
    /\ UNCHANGED batcherVars

Admit(r) ==
    /\ stage[r] = "limit"
    /\ Goes(r, "steam")
    /\ UNCHANGED <<ch, chCache, chLock>> /\ OnlyTable

\* Mutant: a match the table has is not inserted again.
NotInTable(e, rows) == e.match \notin {row.match : row \in rows}

\* What the table seems to lack, or to have without the ranked data Steam gave.
Missing(e, rows) ==
    \A row \in rows : row.match = e.match => e.ranked /\ ~row.ranked

\* The positions of a set, first to last.
InOrder(positions) ==
    LET n == Cardinality(positions)
    IN  {at \in [1..n -> positions] : \A j, k \in 1..n : j < k => at[j] < at[k]}

MergeAndStore(r) ==
    /\ stage[r] = "merge"
    /\ LET pending == {i \in DOMAIN steam[r] : Missing(steam[r][i], ch[r])}
       IN  IF pending = {} THEN UNCHANGED batcherVars
           ELSE \E at \in InOrder(pending) : Insert([k \in DOMAIN at |-> steam[r][at[k]]])
    /\ Ends(r, "answered", Merged(ch[r] \cup Elements(steam[r])))

-----------------------------------------------------------------------------

RestartAll ==
    /\ Restart
    /\ stage' = [r \in Requests |-> IF stage[r] \in {"new", "answered"} THEN stage[r] ELSE "failed"]
    /\ ch' = [r \in Requests |-> {}] /\ steam' = [r \in Requests |-> <<>>]
    /\ chCache' = None /\ chLock' = None
    /\ steamCache' = [f \in BOOLEAN |-> None] /\ steamLock' = [f \in BOOLEAN |-> None]
    /\ UNCHANGED <<force, answer>>

Background ==
    /\ Flush \/ FlushSucceeds \/ FlushFails \/ \E row \in Foreign : OthersInsert(row)
    /\ UNCHANGED routeVars

Next ==
    \/ \E r \in Requests :
        \/ Begin(r) \/ Fail(r) \/ AnswerFromTable(r) \/ Admit(r) \/ MergeAndStore(r)
        \/ LoadCached(r) \/ LoadReads(r) \/ LoadEnds(r)
        \/ SteamCached(r) \/ SteamAsked(r) \/ SteamAnswers(r) \/ SteamFails(r)
    \/ ChExpires
    \/ \E f \in BOOLEAN : SteamExpires(f)
    \/ Background
    \/ RestartAll

\* The task ticks, and ClickHouse accepts rows in the end.
Fairness ==
    /\ WF_vars(Flush /\ UNCHANGED routeVars)
    /\ WF_vars((FlushSucceeds \/ FlushFails) /\ UNCHANGED routeVars)

Spec == Init /\ [][Next]_vars /\ Fairness

-----------------------------------------------------------------------------
(* Properties.                                                             *)

TypeOK ==
    /\ BatcherTypeOK
    /\ stage \in [Requests -> Stages]
    /\ force \in [Requests -> BOOLEAN]
    /\ ch \in [Requests -> SUBSET Rows] /\ answer \in [Requests -> SUBSET Rows]
    /\ steam \in [Requests -> {<<>>} \cup Histories]
    /\ chCache \in {None} \cup SUBSET Rows
    /\ chLock \in Requests \cup {None}
    /\ steamCache \in [BOOLEAN -> {None} \cup Histories]
    /\ steamLock \in [BOOLEAN -> Requests \cup {None}]

\* Whatever a response showed, of Steam or of the table, ranked data included, stays: it is
\* in the table or on its way there, although the request decided what to insert from rows
\* that may be outdated, unless more rows waited than the buffer holds or the process
\* restarted (match_history.rs:216-261).
AnswersAreKept ==
    ~pressed /\ restarts = 0 =>
        \A r \in Requests : \A row \in answer[r] :
            \E kept \in Kept : kept.match = row.match /\ (row.ranked => kept.ranked)

\* A row that was left in the batcher reaches the table, unless rows are lost
\* (clickhouse_insert_batcher.rs:60-111).
EveryRowIsStored ==
    \A row \in Rows : row \in accepted ~> row \in stored \/ pressed \/ restarts > 0
=============================================================================
