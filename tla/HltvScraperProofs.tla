-------------------------- MODULE HltvScraperProofs --------------------------
(***************************************************************************)
(* The bot's table stays within its limit and one round, in the bot alone    *)
(* and in the whole system, and a download that gave up no fragment has      *)
(* delivered every fragment in order, for every limit and every broadcast.   *)
(***************************************************************************)
EXTENDS HltvScraper, FiniteSetTheorems, SequenceTheorems, TLAPS

LEMMA Finite == ASSUME NEW S, S \subseteq Matches PROVE IsFiniteSet(S) /\ Cardinality(S) \in Nat
BY BotAssumption, FS_Subset, FS_CardinalityType

\* Every step of the bot keeps the bound: a round begins below the limit, and a granted
\* match moves from the round into the table.
LEMMA TableStep ==
    ASSUME BotTypeOK, TableIsBounded, [BotNext]_botVars
    PROVE  BotTypeOK' /\ TableIsBounded'
<1> USE DEF BotTypeOK, TableIsBounded
<1>0. /\ MaxSpectating \in Nat /\ MaxTries \in Nat \ {0}
      /\ Cardinality(spectated) \in Nat /\ Cardinality(todo) \in Nat
      /\ IsFiniteSet(spectated) /\ IsFiniteSet(todo)
  BY BotAssumption, Finite
<1>1. CASE PickActive
  <2>1. PICK m \in Matches \ spectated : todo' = {m}
    BY <1>1 DEF PickActive
  <2>2. Cardinality(todo') = 1
    BY <2>1, FS_Singleton
  <2> QED
    BY <1>0, <1>1, <2>1, <2>2 DEF PickActive, HasRoom
<1>2. CASE PickGaps
  <2>1. todo' \subseteq Matches
    BY <1>2 DEF PickGaps, Gaps
  <2>2. Cardinality(todo') \in Nat
    BY <2>1, Finite
  <2> QED
    BY <1>0, <1>2, <2>1, <2>2 DEF PickGaps, HasRoom
<1>3. CASE BotRestart
  <2>1. Cardinality({}) = 0
    BY FS_EmptySet
  <2> QED
    BY <1>0, <1>3, <2>1 DEF BotRestart
<1>4. ASSUME NEW m \in Matches, Spectate(m)
      PROVE  BotTypeOK' /\ TableIsBounded'
  <2>1. Cardinality(todo \ {m}) = Cardinality(todo) - 1
    BY <1>0, <1>4, FS_RemoveElement DEF Spectate
  <2>2. Cardinality(spectated \cup {m}) =
            IF m \in spectated THEN Cardinality(spectated) ELSE Cardinality(spectated) + 1
    BY <1>0, FS_AddElement
  <2>3. /\ todo' = todo \ {m}
        /\ spectated' = spectated \/ spectated' = spectated \cup {m}
    BY <1>4 DEF Spectate
  <2>4. BotTypeOK'
    BY <2>3
  <2>5. Cardinality(spectated') <= Cardinality(spectated) + 1 /\ Cardinality(spectated') \in Nat
    <3>1. CASE spectated' = spectated
      BY <1>0, <3>1
    <3>2. CASE spectated' = spectated \cup {m}
      <4>1. Cardinality(spectated') = Cardinality(spectated \cup {m})
        BY <3>2
      <4> QED
        BY <1>0, <2>2, <4>1
    <3> QED
      BY <2>3, <3>1, <3>2
  <2>6. Cardinality(todo') = Cardinality(todo) - 1
    BY <2>1, <2>3
  <2>7. Cardinality(spectated') + Cardinality(todo') <= MaxSpectating + MaxTries
    BY <1>0, <2>5, <2>6
  <2> QED
    BY <2>4, <2>7
<1>5. ASSUME NEW m \in Matches, Leaves(m)
      PROVE  BotTypeOK' /\ TableIsBounded'
  <2>1. Cardinality(spectated \ {m}) = Cardinality(spectated) - 1
    BY <1>0, <1>5, FS_RemoveElement DEF Leaves
  <2> QED
    BY <1>0, <1>5, <2>1 DEF Leaves
<1>6. CASE UNCHANGED botVars
  BY <1>6 DEF botVars
<1> QED
  BY <1>1, <1>2, <1>3, <1>4, <1>5, <1>6 DEF BotNext

LEMMA TableInit == BotInit => BotTypeOK /\ TableIsBounded
<1>1. Cardinality({}) = 0
  BY FS_EmptySet
<1> QED
  BY <1>1, BotAssumption DEF BotInit, BotTypeOK, TableIsBounded

\* The table of the bot outgrows its limit by no more than one round
\* (run_spectate_bot.rs:413-419, 502).
THEOREM TableTheorem == BotSpec => [](BotTypeOK /\ TableIsBounded)
<1>1. BotInit => BotTypeOK /\ TableIsBounded
  BY TableInit
<1>2. (BotTypeOK /\ TableIsBounded) /\ [BotNext]_botVars => (BotTypeOK /\ TableIsBounded)'
  BY TableStep
<1> QED
  BY <1>1, <1>2, PTL DEF BotSpec

-----------------------------------------------------------------------------
(* The composition.                                                        *)

TaskTypeOK == task \in [Tasks -> Download \cup End \cup {Free}]

\* What a download that gave nothing up has delivered determines what comes next.
Ordered(s) ==
    /\ \A i \in DOMAIN s.sent : s.sent[i] = Expected(s.first, i)
    /\ s.at = "init" => Len(s.sent) = 0
    /\ s.at = "sync" => IF Len(s.sent) = 0 THEN s.n = s.first
                        ELSE Len(s.sent) >= 2 /\ s.n = s.first + Len(s.sent) - 1
    /\ s.at = "fetch" => <<s.n, s.type>> = Expected(s.first, Len(s.sent) + 1)

AllOrdered == \A t \in Tasks : task[t].at \in Downloading /\ ~task[t].hard => Ordered(task[t])

Pairs == (0..Last) \X {"full", "delta"}
Fits(s) == s \in Download \cup End \cup {Free} /\ (s.at \in Downloading /\ ~s.hard => Ordered(s))

LEMMA Constants == Last \in Nat \ {0} /\ MaxNotFound \in Nat \ {0}
BY ScraperAssumption

\* The three kinds of task are told apart by the step they are at.
LEMMA Kinds ==
    ASSUME NEW s \in Download \cup End \cup {Free}
    PROVE  /\ s.at \in Downloading => s \in Download
           /\ s.at \in {"post", "ended", "push", "local"} => s \in End
BY DEF Download, End, Free, Downloading

\* A step of one task keeps the invariant when what the task becomes fits.
LEMMA OneTask ==
    ASSUME TaskTypeOK, AllOrdered, NEW t \in Tasks, NEW s, Fits(s), Becomes(t, s)
    PROVE  TaskTypeOK' /\ AllOrdered'
<1>1. task' \in [Tasks -> Download \cup End \cup {Free}]
  BY DEF TaskTypeOK, Fits, Becomes
<1>2. \A u \in Tasks : task'[u] = IF u = t THEN s ELSE task[u]
  BY DEF TaskTypeOK, Becomes
<1> QED
  BY <1>1, <1>2 DEF TaskTypeOK, AllOrdered, Fits

LEMMA EndFits ==
    ASSUME NEW m \in Matches, NEW meta \in BOOLEAN, NEW step \in {"post", "ended", "push", "local"}
    PROVE  Fits(Ending(m, meta, step))
BY DEF Fits, Ending, End, Downloading

LEMMA FreeFits == Fits(Free)
BY DEF Fits, Free, Downloading

\* What a task that fetches becomes by going on to what follows the current request.
LEMMA AdvancedType ==
    ASSUME NEW s \in Download, s.at = "fetch"
    PROVE  Advanced(s) \in Download /\ Advanced(s).hard = s.hard
<1>1. CASE s.type = "full"
  <2>1. Advanced(s) = [s EXCEPT !.type = "delta", !.notFound = 0]
    BY <1>1 DEF Advanced
  <2> QED
    <3> DEFINE r == [s EXCEPT !.type = "delta"]
    <3>1. r \in Download /\ r.hard = s.hard
      BY DEF Download
    <3>2. Advanced(s) = [r EXCEPT !.notFound = 0]
      BY <2>1 DEF Download
    <3>3. 0 \in 0..MaxNotFound
      BY Constants
    <3> HIDE DEF r
    <3> QED
      BY <3>1, <3>2, <3>3 DEF Download
<1>2. CASE s.type # "full"
  <2> DEFINE m == IF s.n <= Last THEN s.n + 1 ELSE s.n
  <2>1. Advanced(s) = [s EXCEPT !.at = "sync", !.n = m]
    BY <1>2 DEF Advanced
  <2>2. s.n \in 0..Last + 1
    BY DEF Download
  <2>3. m \in 0..Last + 1 /\ "sync" \in Downloading
    BY <2>2, Constants DEF Downloading
  <2> QED
    BY <2>1, <2>3 DEF Download
<1> QED
  BY <1>1, <1>2

LEMMA FetchFits ==
    ASSUME NEW s \in Download, s.at = "fetch", ~s.hard => Ordered(s), s.n <= s.high
    PROVE  Fits(Advanced([s EXCEPT !.sent = Append(@, <<s.n, s.type>>)]))
<1> DEFINE next == Append(s.sent, <<s.n, s.type>>)
           u == [s EXCEPT !.sent = next]
<1>1. /\ s.sent \in Seq(Pairs) /\ <<s.n, s.type>> \in Pairs
      /\ s.n \in 0..Last /\ s.first \in 0..Last /\ s.type \in {"full", "delta"}
  BY Constants DEF Download, Pairs
<1>2. /\ next \in Seq(Pairs) /\ Len(next) = Len(s.sent) + 1
      /\ \A i \in 1..Len(s.sent) : next[i] = s.sent[i]
      /\ next[Len(s.sent) + 1] = <<s.n, s.type>>
  BY <1>1, AppendProperties
<1>3. u \in Download /\ u.at = "fetch" /\ u.sent = next
      /\ u.n = s.n /\ u.first = s.first /\ u.type = s.type /\ u.hard = s.hard
  BY <1>2 DEF Download, Pairs
<1>4. Advanced(u) \in Download /\ Advanced(u).hard = s.hard
  BY <1>3, AdvancedType
<1>5. ASSUME ~s.hard
      PROVE  Ordered(Advanced(u))
  <2>1. Len(s.sent) \in Nat /\ DOMAIN s.sent = 1..Len(s.sent) /\ DOMAIN next = 1..Len(s.sent) + 1
    BY <1>1, <1>2, LenProperties
  <2>2. /\ \A i \in 1..Len(s.sent) : s.sent[i] = Expected(s.first, i)
        /\ <<s.n, s.type>> = Expected(s.first, Len(s.sent) + 1)
    BY <1>5, <2>1 DEF Ordered
  <2>3. \A i \in DOMAIN next : next[i] = Expected(s.first, i)
    BY <1>2, <2>1, <2>2
  <2>4. CASE s.type = "full"
    <3>1. Len(s.sent) = 0 /\ s.n = s.first
      BY <2>1, <2>2, <2>4, <1>1 DEF Expected
    <3>2. /\ Advanced(u).at = "fetch" /\ Advanced(u).sent = next /\ Advanced(u).n = s.n
          /\ Advanced(u).first = s.first /\ Advanced(u).type = "delta"
      BY <1>3, <2>4 DEF Advanced, Download
    <3>3. <<s.n, "delta">> = Expected(s.first, Len(next) + 1)
      BY <1>1, <1>2, <3>1 DEF Expected
    <3> QED
      BY <2>3, <3>2, <3>3 DEF Ordered
  <2>5. CASE s.type = "delta"
    <3>1. Len(s.sent) >= 1 /\ s.n = s.first + Len(s.sent) - 1
      BY <2>1, <2>2, <2>5, <1>1 DEF Expected
    <3>2. /\ Advanced(u).at = "sync" /\ Advanced(u).sent = next /\ Advanced(u).n = s.n + 1
          /\ Advanced(u).first = s.first
      BY <1>1, <1>3, <2>5 DEF Advanced, Download
    <3>3. Len(next) >= 2 /\ s.n + 1 = s.first + Len(next) - 1
      BY <1>1, <1>2, <2>1, <3>1
    <3> DEFINE v == Advanced(u)
    <3> HIDE DEF v, next, u
    <3> QED
      BY <2>1, <2>3, <3>2, <3>3 DEF Ordered, v
  <2> QED
    BY <1>1, <2>4, <2>5
<1> QED
  BY <1>3, <1>4, <1>5 DEF Fits

\* What a task that is downloading is, with the parts of its record that matter.
LEMMA Current ==
    ASSUME TaskTypeOK, AllOrdered, NEW t \in Tasks
    PROVE  /\ task[t] \in Download \cup End \cup {Free}
           /\ task[t].at \in Downloading => task[t] \in Download
           /\ task[t].at \in Downloading /\ ~task[t].hard => Ordered(task[t])
           /\ task[t].at \in {"post", "ended", "push", "local"} => task[t] \in End
BY Kinds DEF TaskTypeOK, AllOrdered

LEMMA ChooseFits ==
    ASSUME NEW m \in Matches, NEW high \in 1..Last
    PROVE  Fits([at |-> "init", match |-> m, alive |-> TRUE, high |-> high, n |-> 0, first |-> 0,
                 type |-> "full", notFound |-> 0, hard |-> FALSE, sent |-> <<>>])
<1> DEFINE s == [at |-> "init", match |-> m, alive |-> TRUE, high |-> high, n |-> 0, first |-> 0,
                 type |-> "full", notFound |-> 0, hard |-> FALSE, sent |-> <<>>]
<1>1. <<>> \in Seq(Pairs) /\ Len(<<>>) = 0 /\ DOMAIN <<>> = {}
  BY EmptySeq
<1>2. s \in Download
  BY <1>1, Constants DEF Download, Downloading, Pairs
<1>3. Ordered(s)
  BY <1>1 DEF Ordered
<1> QED
  BY <1>2, <1>3 DEF Fits

LEMMA InitialSyncFits ==
    ASSUME NEW s \in Download, s.at = "init", ~s.hard => Ordered(s), NEW n \in 1..s.high
    PROVE  Fits([s EXCEPT !.at = "sync", !.n = n, !.first = n])
<1> DEFINE u == [s EXCEPT !.at = "sync", !.n = n, !.first = n]
<1>1. n \in 0..Last /\ n \in 0..Last + 1 /\ "sync" \in Downloading
  BY Constants DEF Download, Downloading
<1>2. u = [s EXCEPT !.at = "sync", !.n = n, !.first = n] /\ u.at = "sync" /\ u.n = n /\ u.first = n
      /\ u.sent = s.sent /\ u.hard = s.hard
  BY DEF Download
<1>3. u \in Download
  BY <1>1, <1>2 DEF Download
<1>4. ASSUME ~s.hard
      PROVE  Ordered(u)
  <2>1. s.sent \in Seq(Pairs) /\ Len(s.sent) = 0
    BY <1>4 DEF Ordered, Download, Pairs
  <2>2. DOMAIN s.sent = {}
    BY <2>1, LenProperties
  <2> HIDE DEF u
  <2> QED
    BY <1>2, <2>1, <2>2 DEF Ordered
<1> HIDE DEF u
<1> QED
  BY <1>2, <1>3, <1>4 DEF Fits

LEMMA ToFetchType ==
    ASSUME NEW s \in Download
    PROVE  /\ ToFetch(s) \in Download
           /\ ToFetch(s).at = "fetch" /\ ToFetch(s).hard = s.hard
           /\ ToFetch(s).n = s.n /\ ToFetch(s).first = s.first /\ ToFetch(s).sent = s.sent
           /\ ToFetch(s).type = IF s.n = s.first THEN "full" ELSE "delta"
<1> DEFINE type == IF s.n = s.first THEN "full" ELSE "delta"
<1>1. "fetch" \in Downloading /\ 0 \in 0..MaxNotFound /\ type \in {"full", "delta"}
  BY Constants DEF Downloading
<1>2. ToFetch(s) = [s EXCEPT !.at = "fetch", !.notFound = 0, !.type = type]
  BY DEF ToFetch
<1> HIDE DEF type
<1>3. ToFetch(s) \in Download
  BY <1>1, <1>2 DEF Download
<1> QED
  BY <1>2, <1>3 DEF Download, type

LEMMA SyncFits ==
    ASSUME NEW s \in Download, s.at = "sync", ~s.hard, Ordered(s)
    PROVE  Fits(ToFetch(s))
<1> DEFINE u == ToFetch(s)
<1>1. s.sent \in Seq(Pairs) /\ Len(s.sent) \in Nat /\ s.n \in Int /\ s.first \in Int
  BY Constants, LenProperties DEF Download, Pairs
<1>2. u \in Download /\ u.at = "fetch" /\ u.n = s.n /\ u.first = s.first /\ u.sent = s.sent
      /\ u.type = IF s.n = s.first THEN "full" ELSE "delta"
  BY ToFetchType
<1> HIDE DEF u
<1>3. <<u.n, u.type>> = Expected(s.first, Len(s.sent) + 1)
  BY <1>1, <1>2 DEF Ordered, Expected
<1> QED
  BY <1>2, <1>3 DEF Ordered, Fits, u

LEMMA HardFits ==
    ASSUME NEW s \in Download, s.hard, NEW n \in 1..s.high
    PROVE  Fits(ToFetch([s EXCEPT !.n = IF n > s.n THEN n ELSE s.n]))
<1> DEFINE m == IF n > s.n THEN n ELSE s.n
           u == [s EXCEPT !.n = m]
<1>1. m \in 0..Last + 1
  BY Constants DEF Download
<1> HIDE DEF m
<1>2. u \in Download /\ u.hard
  BY <1>1 DEF Download
<1> QED
  BY <1>2, ToFetchType DEF Fits, m

LEMMA NotFoundFits ==
    ASSUME NEW s \in Download, s.at = "fetch", ~s.hard => Ordered(s),
           NEW k \in 0..MaxNotFound
    PROVE  Fits([s EXCEPT !.notFound = k]) /\ Fits(GivenUp(s))
<1> DEFINE u == [s EXCEPT !.notFound = k]
           h == [s EXCEPT !.hard = TRUE]
<1>1. /\ u \in Download /\ u.at = s.at /\ u.hard = s.hard /\ u.sent = s.sent
      /\ u.n = s.n /\ u.first = s.first /\ u.type = s.type
  BY DEF Download
<1>2. h \in Download /\ h.at = "fetch" /\ h.hard = TRUE
  BY DEF Download
<1>3. Fits(u)
  <2> HIDE DEF u
  <2> QED
    BY <1>1 DEF Fits, Ordered
<1>4. Fits(Advanced(h))
  BY <1>2, AdvancedType DEF Fits
<1> QED
  BY <1>3, <1>4 DEF GivenUp

LEMMA BroadcastFits ==
    ASSUME NEW s \in Download, ~s.hard => Ordered(s)
    PROVE  /\ s.high < Last => Fits([s EXCEPT !.high = @ + 1])
           /\ Fits([s EXCEPT !.alive = FALSE])
<1> DEFINE u == [s EXCEPT !.high = s.high + 1]
           v == [s EXCEPT !.alive = FALSE]
<1>1. ASSUME s.high < Last
      PROVE  /\ u \in Download /\ u.at = s.at /\ u.hard = s.hard /\ u.sent = s.sent
             /\ u.n = s.n /\ u.first = s.first /\ u.type = s.type
  <2>1. s.high + 1 \in 1..Last
    BY <1>1, Constants DEF Download
  <2> QED
    BY <2>1 DEF Download
<1>2. /\ v \in Download /\ v.at = s.at /\ v.hard = s.hard /\ v.sent = s.sent
      /\ v.n = s.n /\ v.first = s.first /\ v.type = s.type
  BY DEF Download
<1> HIDE DEF u, v
<1>3. (s.high < Last => Fits(u)) /\ Fits(v)
  BY <1>1, <1>2 DEF Fits, Ordered
<1> QED
  BY <1>3 DEF u, v

LEMMA DownloadStep ==
    ASSUME TaskTypeOK, AllOrdered, NEW t \in Tasks,
           \/ InitialSync(t) \/ Sync(t) \/ Abandon(t) \/ Fetch(t) \/ NotFound(t)
           \/ Produce(t) \/ BroadcastEnds(t)
    PROVE  TaskTypeOK' /\ AllOrdered'
<1> DEFINE s == task[t]
<1>1. SUFFICES \E u : Fits(u) /\ Becomes(t, u)
  BY OneTask
<1>2. /\ s.at \in Downloading => s \in Download
      /\ s.at \in Downloading /\ ~s.hard => Ordered(s)
  BY Current
<1>3. CASE InitialSync(t)
  BY <1>2, <1>3, InitialSyncFits DEF InitialSync, At, Downloading
<1>4. CASE Sync(t)
  <2>1. s.at = "sync" /\ s \in Download /\ (~s.hard => Ordered(s))
    BY <1>2, <1>4 DEF Sync, At, Downloading
  <2>2. CASE s.hard
    BY <1>4, <2>1, <2>2, HardFits DEF Sync
  <2>3. CASE ~s.hard
    BY <1>4, <2>1, <2>3, SyncFits DEF Sync
  <2> QED
    BY <2>2, <2>3
<1>5. CASE Abandon(t)
  <2>1. s.match \in Matches
    BY <1>2, <1>5 DEF Abandon, Download
  <2> QED
    BY <1>5, <2>1, EndFits DEF Abandon
<1>6. CASE Fetch(t)
  <2>1. s.at = "fetch" /\ s \in Download /\ (~s.hard => Ordered(s)) /\ s.n <= s.high
    BY <1>2, <1>6 DEF Fetch, At, Downloading, Has
  <2>2. s.match \in Matches
    BY <2>1 DEF Download
  <2>3. CASE \E meta \in BOOLEAN : Becomes(t, Ending(s.match, meta, "post"))
    BY <2>2, <2>3, EndFits
  <2>4. CASE Becomes(t, Advanced([s EXCEPT !.sent = Append(@, <<s.n, s.type>>)]))
    BY <2>1, <2>4, FetchFits
  <2> QED
    BY <1>6, <2>3, <2>4 DEF Fetch
<1>7. CASE NotFound(t)
  <2>1. s.at = "fetch" /\ s \in Download /\ (~s.hard => Ordered(s))
    BY <1>2, <1>7 DEF NotFound, At, Downloading
  <2>2. s.match \in Matches /\ s.notFound \in 0..MaxNotFound
    BY <2>1 DEF Download
  <2>3. CASE s.notFound = 0
    BY <1>7, <2>1, <2>3, Constants, NotFoundFits DEF NotFound
  <2>4. CASE s.notFound # 0 /\ ~s.alive
    BY <1>7, <2>2, <2>4, EndFits DEF NotFound
  <2>5. CASE s.notFound # 0 /\ s.alive /\ s.notFound < MaxNotFound
    <3>1. s.notFound + 1 \in 0..MaxNotFound
      BY <2>2, <2>5, Constants
    <3> QED
      BY <1>7, <2>1, <2>5, <3>1, NotFoundFits DEF NotFound
  <2>6. CASE s.notFound # 0 /\ s.alive /\ ~(s.notFound < MaxNotFound)
    BY <1>7, <2>1, <2>2, <2>6, NotFoundFits DEF NotFound
  <2> QED
    BY <2>3, <2>4, <2>5, <2>6
<1>8. CASE Produce(t)
  BY <1>2, <1>8, BroadcastFits DEF Produce
<1>9. CASE BroadcastEnds(t)
  BY <1>2, <1>9, BroadcastFits DEF BroadcastEnds
<1> QED
  BY <1>3, <1>4, <1>5, <1>6, <1>7, <1>8, <1>9

LEMMA EndStep ==
    ASSUME TaskTypeOK, AllOrdered, NEW t \in Tasks,
           \/ Post(t) \/ Ended(t) \/ Push(t) \/ PushFails(t) \/ StoreLocally(t) \/ StoreFails(t)
    PROVE  TaskTypeOK' /\ AllOrdered'
<1> DEFINE s == task[t]
<1>1. SUFFICES \E u : Fits(u) /\ Becomes(t, u)
  BY OneTask
<1>2. s.at \in {"post", "ended", "push", "local"} => s \in End
  BY Current
<1>3. ASSUME NEW step \in {"ended", "push", "local"}, s \in End
      PROVE  Fits([s EXCEPT !.at = step])
  BY <1>3 DEF Fits, End, Downloading
<1>4. CASE Post(t)
  BY <1>2, <1>3, <1>4 DEF Post, At
<1>5. CASE Ended(t)
  BY <1>2, <1>3, <1>5, FreeFits DEF Ended, At
<1>6. CASE Push(t) \/ StoreLocally(t) \/ StoreFails(t)
  BY <1>6, FreeFits DEF Push, StoreLocally, StoreFails
<1>7. CASE PushFails(t)
  BY <1>2, <1>3, <1>7 DEF PushFails, At
<1> QED
  BY <1>4, <1>5, <1>6, <1>7

LEMMA OrderStep ==
    ASSUME TaskTypeOK, AllOrdered, [Next]_vars
    PROVE  TaskTypeOK' /\ AllOrdered'
<1>1. CASE UNCHANGED task
  BY <1>1 DEF TaskTypeOK, AllOrdered
<1>2. ASSUME NEW t \in Tasks, NEW m \in Matches, Choose(t, m)
      PROVE  TaskTypeOK' /\ AllOrdered'
  BY <1>2, ChooseFits, OneTask DEF Choose
<1>3. CASE Restart
  <2>1. \A t \in Tasks : task'[t] = Free
    BY <1>3 DEF Restart
  <2>2. TaskTypeOK'
    BY <1>3 DEF Restart, TaskTypeOK
  <2> QED
    BY <2>1, <2>2 DEF AllOrdered, Free, Downloading
<1>4. CASE (BotNext /\ UNCHANGED scraperVars) \/ GetMatches \/ UNCHANGED vars
  BY <1>1, <1>4 DEF scraperVars, vars, GetMatches
<1>5. ASSUME NEW t \in Tasks, TaskStep(t) \/ NetworkError(t) \/ Produce(t) \/ BroadcastEnds(t)
      PROVE  TaskTypeOK' /\ AllOrdered'
  BY <1>1, <1>5, DownloadStep, EndStep DEF TaskStep, NetworkError, vars, scraperVars
<1> QED
  BY <1>2, <1>3, <1>4, <1>5 DEF Next

\* Whatever broadcasts do and whichever requests fail, a download that gave up no fragment
\* has delivered all of them in order (hltv_download.rs:173-278).
THEOREM OrderTheorem == Spec => []DeliveredInOrder
<1>1. Init => TaskTypeOK /\ AllOrdered
  BY DEF Init, TaskTypeOK, AllOrdered, Free, Downloading
<1>2. (TaskTypeOK /\ AllOrdered) /\ [Next]_vars => (TaskTypeOK /\ AllOrdered)'
  BY OrderStep
<1>3. AllOrdered => DeliveredInOrder
  BY DEF AllOrdered, DeliveredInOrder, Ordered
<1> QED
  BY <1>1, <1>2, <1>3, PTL DEF Spec

\* To the bot the scraper is what makes entries leave: the whole implements BotSpec, so the
\* table stays bounded there too (run_spectate_bot.rs:537-585).
THEOREM BotRefinement == Spec => BotSpec /\ []TableIsBounded
<1>1. Init => BotInit
  BY DEF Init
<1>2. Init => TaskTypeOK /\ AllOrdered
  BY DEF Init, TaskTypeOK, AllOrdered, Free, Downloading
<1>3. TaskTypeOK /\ AllOrdered /\ [Next]_vars => (TaskTypeOK /\ AllOrdered)'
  BY OrderStep
<1>4. TaskTypeOK /\ BotTypeOK /\ [Next]_vars => [BotNext]_botVars
  <2> SUFFICES ASSUME TaskTypeOK, BotTypeOK, [Next]_vars
               PROVE  [BotNext]_botVars
    OBVIOUS
  <2>1. ASSUME NEW t \in Tasks, Post(t)
        PROVE  [BotNext]_botVars
    <3>1. CASE spectated' = spectated
      BY <2>1, <3>1 DEF Post, botVars
    <3>2. CASE spectated' = spectated \ {task[t].match} /\ task[t].match \in spectated
      <4>1. Leaves(task[t].match) /\ task[t].match \in Matches
        BY <2>1, <3>2 DEF Post, Leaves, BotTypeOK
      <4> QED
        BY <4>1 DEF BotNext
    <3>3. CASE spectated' = spectated \ {task[t].match} /\ task[t].match \notin spectated
      <4>1. spectated' = spectated
        BY <3>3
      <4> QED
        BY <2>1, <4>1 DEF Post, botVars
    <3> QED
      BY <2>1, <3>1, <3>2, <3>3 DEF Post
  <2>2. CASE UNCHANGED botVars
    BY <2>2
  <2>3. ASSUME NEW t \in Tasks, TaskStep(t), ~Post(t)
        PROVE  UNCHANGED botVars
    BY <2>3 DEF TaskStep, InitialSync, Sync, Abandon, Fetch, NotFound, Ended, Push, PushFails,
                StoreLocally, StoreFails, OnlyTask
  <2>4. ASSUME NEW t \in Tasks,
               \/ \E m \in Matches : Choose(t, m)
               \/ NetworkError(t) \/ Produce(t) \/ BroadcastEnds(t)
        PROVE  UNCHANGED botVars
    BY <2>4 DEF Choose, NetworkError, Produce, BroadcastEnds, OnlyTask, vars
  <2>5. CASE GetMatches \/ Restart \/ UNCHANGED vars
    BY <2>5, <2>2 DEF GetMatches, Restart, vars
  <2> QED
    BY <2>1, <2>2, <2>3, <2>4, <2>5 DEF Next
<1>5. BotInit => BotTypeOK /\ TableIsBounded
  BY TableInit
<1>6. BotTypeOK /\ TableIsBounded /\ [BotNext]_botVars => (BotTypeOK /\ TableIsBounded)'
  BY TableStep
<1> QED
  BY <1>1, <1>2, <1>3, <1>4, <1>5, <1>6, PTL DEF Spec, BotSpec

=============================================================================
