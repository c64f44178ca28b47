---------------------- MODULE MatchdataDownloaderProofs ----------------------
(***************************************************************************)
(* What the downloader remembers of its matches, for any matches, batch      *)
(* sizes, attempts and restarts; and what it may conclude from an upload     *)
(* when it downloads one match at a time.                                    *)
(***************************************************************************)
EXTENDS MatchdataDownloader, FiniteSetTheorems, SequenceTheorems, TLAPS

LEMMA Sizes ==
    /\ Concurrency \in Nat \ {0} /\ BatchLimit \in Nat \ {0} /\ MaxAttempts \in Nat \ {0}
    /\ MaxFaults \in Nat /\ MaxRestarts \in Nat /\ IsFiniteSet(Matches)
BY DownloaderAssumption

LEMMA SeqElements ==
    ASSUME NEW S, NEW s \in Seq(S)
    PROVE  /\ Len(s) \in Nat /\ DOMAIN s = 1..Len(s)
           /\ Elements(s) \subseteq S /\ s \in Seq(Elements(s))
<1>1. Len(s) \in Nat /\ DOMAIN s = 1..Len(s)
  BY LenProperties
<1>2. \A n \in DOMAIN s : s[n] \in S
  BY <1>1, ElementOfSeq
<1>3. s \in [1..Len(s) -> Elements(s)]
  BY <1>1, LenProperties DEF Elements
<1>4. s \in Seq(Elements(s))
  BY <1>1, <1>3, IsASeq
<1> QED
  BY <1>1, <1>2, <1>4 DEF Elements

LEMMA EmptyElements == <<>> \in Seq(Matches) /\ Elements(<<>>) = {} /\ Len(<<>>) = 0 /\ \A S : <<>> \in Seq(S)
BY EmptySeq DEF Elements

LEMMA AppendElements ==
    ASSUME NEW S, NEW s \in Seq(S), NEW m \in S
    PROVE  /\ Append(s, m) \in Seq(S) /\ Len(Append(s, m)) = Len(s) + 1
           /\ DOMAIN Append(s, m) = 1..(Len(s) + 1)
           /\ \A n \in DOMAIN s : Append(s, m)[n] = s[n]
           /\ Append(s, m)[Len(s) + 1] = m
           /\ Elements(Append(s, m)) = Elements(s) \cup {m}
<1>1. /\ Append(s, m) \in Seq(S) /\ Len(Append(s, m)) = Len(s) + 1
      /\ \A n \in 1..Len(s) : Append(s, m)[n] = s[n]
      /\ Append(s, m)[Len(s) + 1] = m
      /\ Len(s) \in Nat /\ DOMAIN s = 1..Len(s)
  BY AppendProperties, LenProperties
<1>2. DOMAIN Append(s, m) = 1..(Len(s) + 1)
  BY <1>1, LenProperties
<1>3. \A n \in DOMAIN Append(s, m) : Append(s, m)[n] \in Elements(s) \cup {m}
  <2> SUFFICES ASSUME NEW n \in DOMAIN Append(s, m) PROVE Append(s, m)[n] \in Elements(s) \cup {m}
    OBVIOUS
  <2>1. CASE n = Len(s) + 1
    BY <1>1, <2>1
  <2>2. CASE n # Len(s) + 1
    BY <1>1, <1>2, <2>2 DEF Elements
  <2> QED
    BY <2>1, <2>2
<1>4. \A n \in DOMAIN s : s[n] \in Elements(Append(s, m))
  BY <1>1, <1>2 DEF Elements
<1>5. m \in Elements(Append(s, m))
  BY <1>1, <1>2 DEF Elements
<1>6. Elements(Append(s, m)) = Elements(s) \cup {m}
  BY <1>3, <1>4, <1>5 DEF Elements
<1> QED
  BY <1>1, <1>2, <1>6

\* Two sequences of which the first repeats nothing and has only elements of the second.
LEMMA NoLonger ==
    ASSUME NEW S, NEW s \in Seq(S), NEW t \in Seq(S), Elements(s) \subseteq Elements(t),
           \A i, j \in DOMAIN s : s[i] = s[j] => i = j
    PROVE  Len(s) <= Len(t)
<1> DEFINE f == [i \in 1..Len(s) |-> CHOOSE n \in 1..Len(t) : t[n] = s[i]]
<1>1. /\ Len(s) \in Nat /\ Len(t) \in Nat
      /\ DOMAIN s = 1..Len(s) /\ DOMAIN t = 1..Len(t)
  BY SeqElements
<1>2. \A i \in 1..Len(s) : \E n \in 1..Len(t) : t[n] = s[i]
  BY <1>1 DEF Elements
<1>3. \A i \in 1..Len(s) : f[i] \in 1..Len(t) /\ t[f[i]] = s[i]
  BY <1>2
<1>4. f \in [1..Len(s) -> 1..Len(t)]
  BY <1>3
<1> HIDE DEF f
<1>5. f \in Injection(1..Len(s), 1..Len(t))
  BY <1>1, <1>3, <1>4 DEF Injection, IsInjective
<1>6. /\ IsFiniteSet(1..Len(s)) /\ Cardinality(1..Len(s)) = Len(s)
      /\ IsFiniteSet(1..Len(t)) /\ Cardinality(1..Len(t)) = Len(t)
  <2>1. \A n \in Nat : IsFiniteSet(1..n) /\ Cardinality(1..n) = IF 1 > n THEN 0 ELSE n - 1 + 1
    BY FS_Interval
  <2>2. \A n \in Nat : (IF 1 > n THEN 0 ELSE n - 1 + 1) = n
    OBVIOUS
  <2> QED
    BY <1>1, <2>1, <2>2
<1> QED
  BY <1>1, <1>5, <1>6, FS_Injection

-----------------------------------------------------------------------------
(* The keys.                                                               *)

KeysOf(m) == {MainKey(m), IngestHltvKey(m), ProcessedKey(m), FailedKey(m), FailedHltvKey(m),
              OutdatedHltvKey(m), CacheKey(m), CacheHltvKey(m)}

LEMMA KeysType == \A m \in Matches : KeysOf(m) \subseteq Keys
BY DEF KeysOf, Keys

LEMMA KeysDiffer ==
    /\ \A m, n : MainKey(m) = MainKey(n) => m = n
    /\ \A m, n : MainKey(m) \notin {IngestHltvKey(n), ProcessedKey(n), FailedKey(n), FailedHltvKey(n),
                                    OutdatedHltvKey(n)}
    /\ \A m, n : OutdatedHltvKey(m) \notin {ProcessedKey(n), FailedKey(n), IngestHltvKey(n)}
    /\ \A m, n : IngestHltvKey(m) \notin {ProcessedKey(n), FailedKey(n)}
BY DEF MainKey, IngestHltvKey, ProcessedKey, FailedKey, FailedHltvKey, OutdatedHltvKey

-----------------------------------------------------------------------------
(* The invariant.                                                          *)

\* The results are those of the batch, each once.
ResultsOfBatch ==
    /\ \A i, j \in DOMAIN finished : finished[i] = finished[j] => i = j
    /\ \A m \in Matches : m \in Elements(finished) <=> dl[m] \in {"ok", "err"}
    /\ \A m \in Matches : dl[m] # "none" => m \in Elements(batch)

ByPhase ==
    /\ phase = "download" => \A m \in Elements(batch) : dl[m] # "none"
    /\ phase # "download" => batch = <<>>
    /\ phase # "select" => pending = {}

\* The members of the batch were eligible, and still are.
StillEligible == \A m \in Elements(batch) : attempts[m] < MaxAttempts

\* A match that was looked at has salts and remains a candidate until it has player rows.
RemainsCandidate ==
    /\ pending \subseteq Elements(salts) /\ Elements(batch) \subseteq Elements(salts)
    /\ \A m \in Matches :
          known[m] # "unknown" =>
              m \in Elements(salts) /\ (phase = "select" => m \in pending \/ m \in player)

\* A remembered absence was followed by an attempt: it failed, or it stands as uploaded
\* until the match is no candidate any more, or it is under way.
AbsenceWasUsed ==
    \A m \in Matches :
        known[m] = "no" =>
            \/ attempts[m] > 0 \/ m \in uploaded
            \/ m \in player /\ m \notin pending /\ m \notin Elements(batch)
            \/ dl[m] \in {"fetching", "uploading", "ok", "err"}

IInv ==
    /\ TypeOK /\ ResultsOfBatch /\ ByPhase /\ StillEligible /\ OneVerdict
    /\ RemainsCandidate /\ AbsenceWasUsed /\ RefetchedOnlyAfterFailure

LEMMA InvInit == Init => IInv
<1> SUFFICES ASSUME Init PROVE IInv
  OBVIOUS
<1>1. /\ batch = <<>> /\ finished = <<>> /\ salts = <<>>
      /\ Elements(batch) = {} /\ Elements(finished) = {} /\ Len(batch) = 0 /\ Len(finished) = 0
      /\ \A S : finished \in Seq(S)
      /\ \A S : batch \in Seq(S) /\ salts \in Seq(S)
      /\ DOMAIN finished = {}
  BY EmptyElements DEF Init, ProcessInit
<1>2. TypeOK
  BY <1>1, Sizes DEF Init, ProcessInit, TypeOK
<1>3. ResultsOfBatch /\ ByPhase /\ StillEligible
  BY <1>1 DEF Init, ProcessInit, ResultsOfBatch, ByPhase, StillEligible
<1>4. OneVerdict /\ RemainsCandidate /\ AbsenceWasUsed /\ RefetchedOnlyAfterFailure
  BY <1>1 DEF Init, ProcessInit, OneVerdict, RemainsCandidate, AbsenceWasUsed, RefetchedOnlyAfterFailure
<1> QED
  BY <1>2, <1>3, <1>4 DEF IInv

\* The other writers of the stores.
LEMMA OthersInv ==
    ASSUME IInv, Others
    PROVE  IInv'
<1>0. /\ TypeOK /\ ResultsOfBatch /\ ByPhase /\ StillEligible /\ OneVerdict
      /\ RemainsCandidate /\ AbsenceWasUsed /\ RefetchedOnlyAfterFailure
  BY DEF IInv
<1>1. UNCHANGED <<phase, pending, batch, dl, finished, known, uploaded, attempts, cooling, faults, restarts>>
  BY DEF Others, memory
<1>2. PICK m \in Matches : SaltsArrive(m) \/ HltvUpload(m) \/ Ingest(m)
  BY DEF Others
<1>3. /\ salts' \in Seq(Matches) /\ Elements(salts) \subseteq Elements(salts')
      /\ player \subseteq player' /\ player' \subseteq Matches
      /\ bucket' \subseteq Keys /\ cache' \subseteq Keys
      /\ \A n \in Matches : MainKey(n) \in bucket' => MainKey(n) \in bucket
  <2>1. CASE SaltsArrive(m)
    <3>1. salts' = <<m>> \o salts /\ player' = player /\ bucket' = bucket /\ cache' = cache
      BY <2>1 DEF SaltsArrive
    <3>2. /\ salts \in Seq(Matches) /\ <<m>> \in Seq(Matches) /\ Len(<<m>>) = 1
          /\ Len(salts) \in Nat /\ DOMAIN salts = 1..Len(salts)
      BY <1>0, SeqElements DEF TypeOK
    <3>3. /\ salts' \in Seq(Matches) /\ Len(salts') = 1 + Len(salts)
          /\ \A i \in 1..1 + Len(salts) : salts'[i] = IF i <= 1 THEN <<m>>[i] ELSE salts[i - 1]
      BY <3>1, <3>2, ConcatProperties
    <3>4. DOMAIN salts' = 1..1 + Len(salts)
      BY <3>3, LenProperties
    <3>5. \A n \in DOMAIN salts : n + 1 \in DOMAIN salts' /\ salts'[n + 1] = salts[n]
      BY <3>2, <3>3, <3>4
    <3>6. Elements(salts) \subseteq Elements(salts')
      BY <3>5 DEF Elements
    <3> QED
      BY <1>0, <3>1, <3>3, <3>6 DEF TypeOK
  <2>2. CASE HltvUpload(m)
    <3>1. /\ bucket' = bucket \cup {IngestHltvKey(m)} /\ cache' \subseteq cache \cup {CacheHltvKey(m)}
          /\ salts' = salts /\ player' = player
      BY <2>2 DEF HltvUpload
    <3> QED
      BY <1>0, <3>1, KeysType, KeysDiffer DEF TypeOK, KeysOf
  <2>3. CASE Ingest(m)
    <3>1. /\ salts' = salts /\ cache' = cache
          /\ player \subseteq player' /\ player' \subseteq player \cup {m}
          /\ bucket' \subseteq bucket \cup {ProcessedKey(m), FailedKey(m), FailedHltvKey(m), OutdatedHltvKey(m)}
      BY <2>3 DEF Ingest
    <3> QED
      BY <1>0, <3>1, KeysType, KeysDiffer DEF TypeOK, KeysOf
  <2> QED
    BY <1>2, <2>1, <2>2, <2>3
<1>4. TypeOK'
  BY <1>0, <1>1, <1>3 DEF TypeOK
<1>5. ResultsOfBatch' /\ ByPhase' /\ StillEligible' /\ OneVerdict'
  BY <1>0, <1>1 DEF ResultsOfBatch, ByPhase, StillEligible, OneVerdict
<1>6. RemainsCandidate' /\ AbsenceWasUsed' /\ RefetchedOnlyAfterFailure'
  BY <1>0, <1>1, <1>3 DEF RemainsCandidate, AbsenceWasUsed, RefetchedOnlyAfterFailure
<1> QED
  BY <1>4, <1>5, <1>6 DEF IInv

LEMMA QueryInv ==
    ASSUME IInv, QueryPending
    PROVE  IInv'
<1>0. /\ TypeOK /\ ResultsOfBatch /\ ByPhase /\ StillEligible /\ OneVerdict
      /\ RemainsCandidate /\ AbsenceWasUsed /\ RefetchedOnlyAfterFailure
  BY DEF IInv
<1>1. /\ phase = "idle" /\ phase' = "select" /\ pending' = Elements(salts) \ player
      /\ UNCHANGED <<salts, player, bucket, cache, batch, dl, finished, known, uploaded, attempts,
                     cooling, faults, restarts>>
  BY DEF QueryPending, stores, memory
<1>2. Elements(salts) \subseteq Matches /\ batch = <<>>
  BY <1>0, <1>1, SeqElements DEF TypeOK, ByPhase
<1>3. TypeOK'
  BY <1>0, <1>1, <1>2 DEF TypeOK
<1>4. ResultsOfBatch' /\ ByPhase' /\ StillEligible' /\ OneVerdict' /\ RefetchedOnlyAfterFailure'
  BY <1>0, <1>1, <1>2 DEF ResultsOfBatch, ByPhase, StillEligible, OneVerdict, RefetchedOnlyAfterFailure
<1>5. RemainsCandidate' /\ AbsenceWasUsed'
  BY <1>0, <1>1 DEF RemainsCandidate, AbsenceWasUsed
<1> QED
  BY <1>3, <1>4, <1>5 DEF IInv

LEMMA SelectInv ==
    ASSUME IInv, SelectBatch
    PROVE  IInv'
<1>0. /\ TypeOK /\ ResultsOfBatch /\ ByPhase /\ StillEligible /\ OneVerdict
      /\ RemainsCandidate /\ AbsenceWasUsed /\ RefetchedOnlyAfterFailure
  BY DEF IInv
<1>1. /\ phase = "select" /\ pending' = {} /\ finished' = <<>>
      /\ uploaded' = uploaded \cap pending /\ cooling' = cooling \cap pending
      /\ attempts' = [m \in Matches |-> IF m \in pending THEN attempts[m] ELSE 0]
      /\ UNCHANGED <<salts, player, bucket, cache, known, faults, restarts>>
  BY DEF SelectBatch, Prune, stores
<1>2. /\ batch' \in Batches
      /\ IsBatch(batch', {m \in pending : Eligible(m)})
      /\ dl' = [m \in Matches |-> IF m \in Elements(batch') THEN "queued" ELSE "none"]
      /\ phase' = IF batch' = <<>> THEN "idle" ELSE "download"
  BY DEF SelectBatch
<1>3. PICK n \in 0..BatchLimit : batch' \in [1..n -> Matches]
  BY <1>2 DEF Batches
<1>4. batch' \in Seq(Matches) /\ Len(batch') <= BatchLimit /\ Len(batch') \in Nat
  BY <1>3, IsASeq, LenProperties, Sizes
<1>5. \A m \in Elements(batch') : m \in pending /\ m \notin uploaded /\ attempts[m] < MaxAttempts
  BY <1>2 DEF IsBatch, Eligible
<1>6. TypeOK'
  <2>1. attempts' \in [Matches -> 0..MaxAttempts]
    BY <1>0, <1>1, Sizes DEF TypeOK
  <2>2. dl' \in [Matches -> {"none", "queued", "fetching", "uploading", "ok", "err"}]
    BY <1>2
  <2>3. finished' \in Seq(Elements(batch')) /\ Len(finished') <= Len(batch')
    BY <1>1, <1>4, EmptyElements
  <2>4. phase' \in {"idle", "select", "download"} /\ uploaded' \subseteq Matches /\ cooling' \subseteq Matches
    BY <1>0, <1>1, <1>2 DEF TypeOK
  <2> QED
    BY <1>0, <1>1, <1>4, <2>1, <2>2, <2>3, <2>4 DEF TypeOK
<1>7. ResultsOfBatch'
  <2>1. Elements(finished') = {} /\ DOMAIN finished' = {}
    BY <1>1, EmptyElements DEF Elements
  <2> QED
    BY <1>2, <2>1 DEF ResultsOfBatch
<1>8. ByPhase' /\ StillEligible' /\ OneVerdict'
  <2>1. Elements(batch') \subseteq Matches
    BY <1>4, SeqElements
  <2>2. ByPhase'
    BY <1>1, <1>2, <2>1 DEF ByPhase
  <2>3. StillEligible'
    BY <1>1, <1>5, <2>1 DEF StillEligible
  <2>4. OneVerdict'
    BY <1>0, <1>1, <1>5 DEF OneVerdict, TypeOK
  <2> QED
    BY <2>2, <2>3, <2>4
<1>9. RemainsCandidate'
  BY <1>0, <1>1, <1>2, <1>5 DEF RemainsCandidate
<1>10. AbsenceWasUsed'
  <2> SUFFICES ASSUME NEW m \in Matches, known[m] = "no"
               PROVE  \/ attempts'[m] > 0 \/ m \in uploaded'
                      \/ m \in player /\ m \notin Elements(batch')
    BY <1>1 DEF AbsenceWasUsed
  <2>1. dl[m] = "none"
    <3>1. batch = <<>>
      BY <1>0, <1>1 DEF ByPhase
    <3> QED
      BY <1>0, <3>1, EmptyElements DEF ResultsOfBatch
  <2>2. m \in pending \/ m \in player
    BY <1>0, <1>1 DEF RemainsCandidate
  <2>3. CASE m \in pending
    BY <1>0, <1>1, <2>1, <2>3 DEF AbsenceWasUsed
  <2>4. CASE m \notin pending
    BY <1>5, <2>2, <2>4
  <2> QED
    BY <2>3, <2>4
<1>11. RefetchedOnlyAfterFailure'
  BY <1>2 DEF RefetchedOnlyAfterFailure
<1> QED
  BY <1>6, <1>7, <1>8, <1>9, <1>10, <1>11 DEF IInv

LEMMA HandleInv ==
    ASSUME IInv, HandleResults
    PROVE  IInv'
<1>0. /\ TypeOK /\ ResultsOfBatch /\ ByPhase /\ StillEligible /\ OneVerdict
      /\ RemainsCandidate /\ AbsenceWasUsed /\ RefetchedOnlyAfterFailure
  BY DEF IInv
<1> DEFINE good == {batch[n] : n \in {k \in DOMAIN batch : Result(k) = "ok"}}
           bad == Elements(batch) \ good
<1>1. /\ phase = "download" /\ phase' = "idle" /\ batch' = <<>> /\ finished' = <<>>
      /\ uploaded' = uploaded \cup good
      /\ attempts' = [m \in Matches |-> IF m \in bad THEN attempts[m] + 1
                                        ELSE IF m \in good THEN 0 ELSE attempts[m]]
      /\ cooling' = (cooling \ good) \cup bad
      /\ dl' = [m \in Matches |-> "none"]
      /\ UNCHANGED <<salts, player, bucket, cache, pending, known, faults, restarts>>
  BY DEF HandleResults, stores
<1>2. good \subseteq Elements(batch) /\ Elements(batch) \subseteq Matches /\ good \cup bad = Elements(batch)
  BY <1>0, SeqElements DEF TypeOK, Elements
<1> HIDE DEF good
<1>3. Elements(batch') = {} /\ Elements(finished') = {} /\ DOMAIN finished' = {}
  BY <1>1, EmptyElements DEF Elements
<1>4. TypeOK'
  <2>1. attempts' \in [Matches -> 0..MaxAttempts]
    <3> SUFFICES ASSUME NEW m \in Matches PROVE attempts'[m] \in 0..MaxAttempts
      BY <1>1
    <3>1. attempts[m] \in 0..MaxAttempts /\ (m \in bad => attempts[m] < MaxAttempts)
      BY <1>0, <1>2 DEF TypeOK, StillEligible
    <3> QED
      BY <1>1, <3>1, Sizes
  <2>2. batch' \in Seq(Matches) /\ Len(batch') <= BatchLimit
        /\ finished' \in Seq(Elements(batch')) /\ Len(finished') <= Len(batch')
    BY <1>1, EmptyElements, Sizes
  <2>3. uploaded' \subseteq Matches /\ cooling' \subseteq Matches
        /\ dl' \in [Matches -> {"none", "queued", "fetching", "uploading", "ok", "err"}]
    BY <1>0, <1>1, <1>2 DEF TypeOK
  <2> QED
    BY <1>0, <1>1, <2>1, <2>2, <2>3 DEF TypeOK
<1>5. ResultsOfBatch' /\ ByPhase' /\ StillEligible'
  BY <1>0, <1>1, <1>3 DEF ResultsOfBatch, ByPhase, StillEligible
<1>6. OneVerdict'
  <2> SUFFICES ASSUME NEW m \in Matches
               PROVE  /\ m \in uploaded' => attempts'[m] = 0 /\ m \notin cooling'
                      /\ m \in cooling' => attempts'[m] > 0
    BY <1>2, <1>3, <1>4 DEF OneVerdict, TypeOK
  <2>1. /\ m \in uploaded => attempts[m] = 0 /\ m \notin cooling /\ m \notin Elements(batch)
        /\ m \in cooling => attempts[m] > 0
        /\ attempts[m] \in Nat
    BY <1>0 DEF OneVerdict, TypeOK
  <2> QED
    BY <1>1, <1>2, <2>1
<1>7. RemainsCandidate'
  BY <1>0, <1>1, <1>3 DEF RemainsCandidate
<1>8. AbsenceWasUsed'
  <2> SUFFICES ASSUME NEW m \in Matches, known[m] = "no"
               PROVE  \/ attempts'[m] > 0 \/ m \in uploaded'
                      \/ m \in player /\ m \notin pending
    BY <1>1, <1>3 DEF AbsenceWasUsed
  <2>1. attempts[m] \in Nat
    BY <1>0 DEF TypeOK
  <2>2. CASE m \in good
    BY <1>1, <2>2
  <2>3. CASE m \in bad
    BY <1>1, <2>1, <2>3
  <2>4. CASE m \notin Elements(batch)
    <3>1. dl[m] = "none" /\ m \notin good /\ m \notin bad
      BY <1>0, <1>2, <2>4 DEF ResultsOfBatch
    <3> QED
      BY <1>0, <1>1, <3>1 DEF AbsenceWasUsed
  <2> QED
    BY <1>2, <2>2, <2>3, <2>4
<1>9. RefetchedOnlyAfterFailure'
  BY <1>1 DEF RefetchedOnlyAfterFailure
<1> QED
  BY <1>4, <1>5, <1>6, <1>7, <1>8, <1>9 DEF IInv

\* A cooldown ends, or the process does.
LEMMA CooldownInv ==
    ASSUME IInv, NEW m \in Matches, CooldownEnds(m)
    PROVE  IInv'
<1>1. /\ cooling' = cooling \ {m}
      /\ UNCHANGED <<salts, player, bucket, cache, phase, pending, batch, dl, finished, known, uploaded,
                     attempts, faults, restarts>>
  BY DEF CooldownEnds, stores
<1>2. TypeOK' /\ OneVerdict'
  BY <1>1 DEF IInv, TypeOK, OneVerdict
<1> QED
  BY <1>1, <1>2 DEF IInv, ResultsOfBatch, ByPhase, StillEligible, RemainsCandidate, AbsenceWasUsed,
       RefetchedOnlyAfterFailure

LEMMA RestartInv ==
    ASSUME IInv, Restart
    PROVE  IInv'
<1>0. TypeOK
  BY DEF IInv
<1>1. /\ restarts < MaxRestarts /\ restarts' = restarts + 1
      /\ phase' = "idle" /\ pending' = {} /\ batch' = <<>> /\ finished' = <<>>
      /\ dl' = [m \in Matches |-> "none"] /\ known' = [m \in Matches |-> "unknown"]
      /\ uploaded' = {} /\ cooling' = {} /\ attempts' = [m \in Matches |-> 0]
      /\ UNCHANGED <<salts, player, bucket, cache, faults>>
  BY DEF Restart, stores
<1>2. /\ Elements(batch') = {} /\ Elements(finished') = {} /\ DOMAIN finished' = {}
      /\ batch' \in Seq(Matches) /\ Len(batch') = 0 /\ finished' \in Seq({}) /\ Len(finished') = 0
  BY <1>1, EmptyElements DEF Elements
<1>3. TypeOK'
  BY <1>0, <1>1, <1>2, Sizes DEF TypeOK
<1> QED
  BY <1>1, <1>2, <1>3 DEF IInv, ResultsOfBatch, ByPhase, StillEligible, OneVerdict, RemainsCandidate,
       AbsenceWasUsed, RefetchedOnlyAfterFailure

\* What may be remembered of m after such a step.
Looked(m) == {known} \cup {[known EXCEPT ![m] = answer] : answer \in {"yes", "no", "error"}}

\* A step of one download, from one of its states to another.
LEMMA LookedType ==
    ASSUME TypeOK, NEW m \in Matches, known' \in Looked(m)
    PROVE  /\ known' \in [Matches -> {"unknown", "yes", "no", "error"}]
           /\ \A n \in Matches : n # m => known'[n] = known[n]
BY DEF Looked, TypeOK

LEMMA DownloadInv ==
    ASSUME IInv, NEW m \in Matches, NEW state \in {"fetching", "uploading", "ok", "err"},
           dl[m] \in {"queued", "fetching", "uploading"}, dl' = [dl EXCEPT ![m] = state],
           \/ state \in {"fetching", "uploading"} /\ finished' = finished
           \/ state \in {"ok", "err"} /\ finished' = Append(finished, m),
           known' \in Looked(m),
           state \in {"fetching", "uploading"} /\ MainKey(m) \in bucket =>
               attempts[m] > 0 \/ known'[m] = "error",
           \A n \in Matches : MainKey(n) \in bucket' =>
               MainKey(n) \in bucket \/ (n = m /\ state \in {"ok", "err"}),
           bucket' \subseteq Keys, cache' \subseteq Keys, faults' \in 0..MaxFaults,
           UNCHANGED <<salts, player, phase, pending, batch, uploaded, attempts, cooling, restarts>>
    PROVE  IInv'
<1>0. /\ TypeOK /\ ResultsOfBatch /\ ByPhase /\ StillEligible /\ OneVerdict
      /\ RemainsCandidate /\ AbsenceWasUsed /\ RefetchedOnlyAfterFailure
  BY DEF IInv
<1>1. dl'[m] = state /\ \A n \in Matches : n # m => dl'[n] = dl[n] /\ known'[n] = known[n]
  BY <1>0, LookedType DEF TypeOK
<1>2. m \in Elements(batch) /\ m \notin Elements(finished) /\ Elements(batch) \subseteq Matches
  BY <1>0, SeqElements DEF ResultsOfBatch, TypeOK
<1>3. /\ finished' \in Seq(Elements(batch)) /\ Len(finished') <= Len(batch)
      /\ \A i, j \in DOMAIN finished' : finished'[i] = finished'[j] => i = j
      /\ Elements(finished') = Elements(finished) \cup (IF state \in {"ok", "err"} THEN {m} ELSE {})
  <2>0. finished \in Seq(Elements(batch)) /\ Len(finished) \in Nat /\ DOMAIN finished = 1..Len(finished)
    BY <1>0, SeqElements DEF TypeOK
  <2>1. CASE state \in {"fetching", "uploading"}
    BY <1>0, <2>0, <2>1 DEF TypeOK, ResultsOfBatch
  <2>2. CASE state \in {"ok", "err"}
    <3>1. /\ finished' \in Seq(Elements(batch)) /\ Len(finished') = Len(finished) + 1
          /\ DOMAIN finished' = 1..(Len(finished) + 1)
          /\ \A n \in DOMAIN finished : finished'[n] = finished[n]
          /\ finished'[Len(finished) + 1] = m
          /\ Elements(finished') = Elements(finished) \cup {m}
      <4>1. finished' = Append(finished, m)
        BY <2>2
      <4>2. /\ Append(finished, m) \in Seq(Elements(batch)) /\ Len(Append(finished, m)) = Len(finished) + 1
            /\ DOMAIN Append(finished, m) = 1..(Len(finished) + 1)
            /\ \A n \in DOMAIN finished : Append(finished, m)[n] = finished[n]
            /\ Append(finished, m)[Len(finished) + 1] = m
            /\ Elements(Append(finished, m)) = Elements(finished) \cup {m}
        BY <1>2, <2>0, AppendElements
      <4> QED
        BY <4>1, <4>2 DEF Elements
    <3>2. \A n \in DOMAIN finished : finished[n] # m
      BY <1>2 DEF Elements
    <3>3. \A i, j \in DOMAIN finished' : finished'[i] = finished'[j] => i = j
      <4> SUFFICES ASSUME NEW i \in DOMAIN finished', NEW j \in DOMAIN finished',
                          finished'[i] = finished'[j]
                   PROVE  i = j
        OBVIOUS
      <4>1. CASE i # Len(finished) + 1 /\ j # Len(finished) + 1
        <5>1. i \in DOMAIN finished /\ j \in DOMAIN finished
          BY <2>0, <3>1, <4>1
        <5> QED
          BY <1>0, <3>1, <5>1 DEF ResultsOfBatch
      <4>2. CASE i = Len(finished) + 1 /\ j # Len(finished) + 1
        <5>1. j \in DOMAIN finished
          BY <2>0, <3>1, <4>2
        <5> QED
          BY <3>1, <3>2, <4>2, <5>1
      <4>3. CASE i # Len(finished) + 1 /\ j = Len(finished) + 1
        <5>1. i \in DOMAIN finished
          BY <2>0, <3>1, <4>3
        <5> QED
          BY <3>1, <3>2, <4>3, <5>1
      <4> QED
        BY <4>1, <4>2, <4>3
    <3>4. batch \in Seq(Elements(batch)) /\ Elements(finished') \subseteq Elements(batch)
      BY <1>0, <3>1, SeqElements DEF TypeOK
    <3>5. Len(finished') <= Len(batch)
      BY <3>1, <3>3, <3>4, NoLonger
    <3> QED
      BY <2>2, <3>1, <3>3, <3>5
  <2> QED
    BY <2>1, <2>2
<1>4. TypeOK'
  <2>1. dl' \in [Matches -> {"none", "queued", "fetching", "uploading", "ok", "err"}]
    BY <1>0 DEF TypeOK
  <2>2. known' \in [Matches -> {"unknown", "yes", "no", "error"}]
    BY <1>0, LookedType
  <2> QED
    BY <1>0, <1>3, <2>1, <2>2 DEF TypeOK
<1>5. ResultsOfBatch'
  BY <1>0, <1>1, <1>2, <1>3 DEF ResultsOfBatch
<1>6. ByPhase' /\ StillEligible' /\ OneVerdict'
  BY <1>0, <1>1, <1>2 DEF ByPhase, StillEligible, OneVerdict
<1>7. phase = "download"
  BY <1>0, <1>2, EmptyElements DEF ByPhase
<1>8. RemainsCandidate'
  BY <1>0, <1>1, <1>2, <1>7 DEF RemainsCandidate
<1>9. AbsenceWasUsed'
  BY <1>0, <1>1 DEF AbsenceWasUsed
<1>10. RefetchedOnlyAfterFailure'
  BY <1>0, <1>1 DEF RefetchedOnlyAfterFailure
<1> QED
  BY <1>4, <1>5, <1>6, <1>8, <1>9, <1>10 DEF IInv

\* One that does not end the download, and writes nothing.
LEMMA GoesOnInv ==
    ASSUME IInv, NEW m \in Matches, NEW state \in {"fetching", "uploading"},
           dl[m] \in {"queued", "fetching", "uploading"}, dl' = [dl EXCEPT ![m] = state],
           known' \in Looked(m),
           MainKey(m) \in bucket => attempts[m] > 0 \/ known'[m] = "error",
           faults' \in 0..MaxFaults,
           UNCHANGED <<salts, player, bucket, cache, phase, pending, batch, finished, uploaded, attempts,
                       cooling, restarts>>
    PROVE  IInv'
<1>1. \/ state \in {"fetching", "uploading"} /\ finished' = finished
      \/ state \in {"ok", "err"} /\ finished' = Append(finished, m)
  OBVIOUS
<1>2. state \in {"fetching", "uploading"} /\ MainKey(m) \in bucket => attempts[m] > 0 \/ known'[m] = "error"
  OBVIOUS
<1>3. \A n \in Matches : MainKey(n) \in bucket' =>
          MainKey(n) \in bucket \/ (n = m /\ state \in {"ok", "err"})
  OBVIOUS
<1>4. state \in {"fetching", "uploading", "ok", "err"} /\ bucket' \subseteq Keys /\ cache' \subseteq Keys
  BY DEF IInv, TypeOK
<1> QED
  BY <1>1, <1>2, <1>3, <1>4, DownloadInv

LEMMA CheckInv ==
    ASSUME IInv, NEW m \in Matches, CheckExists(m)
    PROVE  IInv'
<1>0. TypeOK /\ OneVerdict /\ AbsenceWasUsed /\ ByPhase /\ bucket \subseteq Keys /\ cache \subseteq Keys
  BY DEF IInv, TypeOK
<1>1. dl[m] = "queued" /\ m \in Elements(batch)
  BY DEF CheckExists, IsNext, Elements
<1>2. UNCHANGED <<salts, player, bucket, cache, phase, pending, batch, uploaded, attempts, cooling, restarts>>
  BY DEF CheckExists, stores, memory
<1>3. faults' \in 0..MaxFaults
  BY <1>0, Sizes DEF CheckExists, Fault, TypeOK
<1>4. \/ known' = known /\ known[m] # "unknown"
      \/ known' = [known EXCEPT ![m] = HeadRequest(m)]
      \/ known' = [known EXCEPT ![m] = "error"]
  BY DEF CheckExists
<1>5. HeadRequest(m) \in {"yes", "no"} /\ (HeadRequest(m) = "no" => MainKey(m) \notin bucket)
  BY DEF HeadRequest
<1>6. known' \in Looked(m)
  BY <1>4, <1>5 DEF Looked
<1>7. CASE known'[m] = "yes"
  <2>1. dl' = [dl EXCEPT ![m] = "ok"] /\ finished' = Append(finished, m)
    BY <1>7 DEF CheckExists, End
  <2> QED
    BY <1>0, <1>1, <1>2, <1>3, <1>6, <2>1, DownloadInv
<1>8. CASE known'[m] # "yes"
  <2>1. dl' = [dl EXCEPT ![m] = "fetching"] /\ finished' = finished
    BY <1>8 DEF CheckExists
  <2>2. MainKey(m) \in bucket => attempts[m] > 0 \/ known'[m] = "error"
    <3>1. CASE known' = known /\ known[m] # "unknown"
      <4>1. known[m] = "no" => attempts[m] > 0
        BY <1>0, <1>1 DEF AbsenceWasUsed, OneVerdict
      <4>2. known[m] \in {"no", "error"}
        BY <1>0, <1>8, <3>1 DEF TypeOK
      <4> QED
        BY <3>1, <4>1, <4>2
    <3>2. CASE known' = [known EXCEPT ![m] = HeadRequest(m)]
      BY <1>0, <1>5, <1>8, <3>2 DEF TypeOK
    <3>3. CASE known' = [known EXCEPT ![m] = "error"]
      BY <1>0, <3>3 DEF TypeOK
    <3> QED
      BY <1>4, <3>1, <3>2, <3>3
  <2> QED
    BY <1>1, <1>2, <1>3, <1>6, <2>1, <2>2, GoesOnInv
<1> QED
  BY <1>7, <1>8

LEMMA FetchInv ==
    ASSUME IInv, NEW m \in Matches, FetchMetadata(m)
    PROVE  IInv'
<1>0. TypeOK /\ RefetchedOnlyAfterFailure /\ bucket \subseteq Keys /\ cache \subseteq Keys
  BY DEF IInv, TypeOK
<1>1. /\ dl[m] = "fetching"
      /\ UNCHANGED <<salts, player, bucket, cache, phase, pending, batch, known, uploaded, attempts,
                     cooling, restarts>>
  BY DEF FetchMetadata, stores, memory
<1>2. faults' \in 0..MaxFaults
  BY <1>0, Sizes DEF FetchMetadata, Fault, TypeOK
<1>3. MainKey(m) \in bucket => attempts[m] > 0 \/ known'[m] = "error"
  BY <1>0, <1>1 DEF RefetchedOnlyAfterFailure
<1>4. \/ dl' = [dl EXCEPT ![m] = "uploading"] /\ finished' = finished
      \/ dl' = [dl EXCEPT ![m] = "err"] /\ finished' = Append(finished, m)
  BY DEF FetchMetadata, End
<1>5. bucket' \subseteq Keys /\ cache' \subseteq Keys
  BY <1>0, <1>1
<1>6. \A n \in Matches : MainKey(n) \in bucket' => MainKey(n) \in bucket
  BY <1>1
<1>9. known' \in Looked(m)
  BY <1>1 DEF Looked
<1>7. CASE dl' = [dl EXCEPT ![m] = "uploading"] /\ finished' = finished
  BY <1>1, <1>2, <1>3, <1>7, <1>9, GoesOnInv
<1>8. CASE dl' = [dl EXCEPT ![m] = "err"] /\ finished' = Append(finished, m)
  BY <1>1, <1>2, <1>5, <1>6, <1>8, <1>9, DownloadInv
<1> QED
  BY <1>4, <1>7, <1>8

LEMMA UploadInv ==
    ASSUME IInv, NEW m \in Matches, UploadMetadata(m)
    PROVE  IInv'
<1>0. TypeOK /\ bucket \subseteq Keys /\ cache \subseteq Keys
  BY DEF IInv, TypeOK
<1>1. /\ dl[m] = "uploading"
      /\ UNCHANGED <<salts, player, phase, pending, batch, known, uploaded, attempts, cooling, restarts>>
  BY DEF UploadMetadata, memory
<1>2. faults' \in 0..MaxFaults
  BY <1>0, Sizes DEF UploadMetadata, Fault, End, TypeOK
<1>3. bucket' \subseteq bucket \cup {MainKey(m)} /\ cache' \subseteq cache \cup {CacheKey(m)}
  BY DEF UploadMetadata
<1>4. /\ bucket' \subseteq Keys /\ cache' \subseteq Keys
      /\ \A n \in Matches : MainKey(n) \in bucket' => MainKey(n) \in bucket \/ n = m
  BY <1>0, <1>3, KeysType, KeysDiffer DEF KeysOf
<1>5. PICK state \in {"ok", "err"} : dl' = [dl EXCEPT ![m] = state] /\ finished' = Append(finished, m)
  BY DEF UploadMetadata, End
<1> QED
  BY <1>0, <1>1, <1>2, <1>4, <1>5, DownloadInv DEF Looked

LEMMA InvStep == IInv /\ [Next]_vars => IInv'
<1> SUFFICES ASSUME IInv, [Next]_vars
             PROVE  IInv'
  OBVIOUS
<1>1. CASE UNCHANGED vars
  BY <1>1 DEF vars, stores, memory, IInv, TypeOK, ResultsOfBatch, ByPhase, StillEligible, OneVerdict,
       RemainsCandidate, AbsenceWasUsed, RefetchedOnlyAfterFailure
<1> QED
  BY <1>1, OthersInv, QueryInv, SelectInv, HandleInv, CooldownInv, RestartInv, CheckInv, FetchInv, UploadInv
  DEF Next, Iteration, DownloadMatch

LEMMA InvHolds == Spec => []IInv
BY InvInit, InvStep, PTL DEF Spec

\* The batch keeps its limit and every match of it has one result at most; no attempt is
\* made after the last (main.rs:203-346).
THEOREM TypeTheorem == Spec => []TypeOK
<1>1. IInv => TypeOK
  BY DEF IInv
<1> QED
  BY InvHolds, <1>1, PTL

\* A match is not both uploaded and backing off, whatever the order of the results
\* (main.rs:263-346).
THEOREM VerdictTheorem == Spec => []OneVerdict
<1>1. IInv => OneVerdict
  BY DEF IInv
<1> QED
  BY InvHolds, <1>1, PTL

\* What still waits for the ingest-worker is fetched again only after a failure, although
\* key_exists remembers absences for good (main.rs:359-365, 467-476).
THEOREM RefetchTheorem == Spec => []RefetchedOnlyAfterFailure
<1>1. IInv => RefetchedOnlyAfterFailure
  BY DEF IInv
<1> QED
  BY InvHolds, <1>1, PTL

-----------------------------------------------------------------------------
(* One download at a time: the results come in the order of the batch.     *)

\* An object that was seen, or uploaded, is under one of its keys.
SeenHasArrived == \A m \in Matches : known[m] = "yes" \/ dl[m] = "ok" => Arrived(m)

SaltsAreDistinct == \A i, j \in DOMAIN salts : salts[i] = salts[j] => i = j

\* Those before the results' end are finished, the next may be under way, the others wait.
InOrder ==
    /\ \A i, j \in DOMAIN batch : batch[i] = batch[j] => i = j
    /\ \A n \in DOMAIN finished : finished[n] = batch[n]
    /\ \A n \in DOMAIN batch :
          /\ n <= Len(finished) => dl[batch[n]] \in {"ok", "err"}
          /\ n = Len(finished) + 1 => dl[batch[n]] \in {"queued", "fetching", "uploading"}
          /\ n > Len(finished) + 1 => dl[batch[n]] = "queued"

OInv == SeenHasArrived /\ SaltsAreDistinct /\ InOrder /\ UploadedHasArrived

LEMMA OrderInit == Init => OInv
<1> SUFFICES ASSUME Init PROVE OInv
  OBVIOUS
<1>1. DOMAIN salts = {} /\ DOMAIN batch = {} /\ DOMAIN finished = {}
  BY EmptyElements DEF Init, ProcessInit
<1> QED
  BY <1>1 DEF Init, ProcessInit, OInv, SeenHasArrived, SaltsAreDistinct, InOrder, UploadedHasArrived

\* What has arrived stays, under one key or another.
LEMMA ArrivedStays ==
    ASSUME IInv, [Next]_vars
    PROVE  \A m \in Matches : Arrived(m) => Arrived(m)'
<1> SUFFICES ASSUME NEW m \in Matches, Arrived(m) PROVE Arrived(m)'
  OBVIOUS
<1>1. ASSUME NEW n \in Matches, SaltsArrive(n) \/ HltvUpload(n) PROVE bucket \subseteq bucket'
  BY <1>1 DEF SaltsArrive, HltvUpload
<1>2. ASSUME NEW n \in Matches, Ingest(n) PROVE Arrived(m)'
  <2>1. CASE /\ MainKey(n) \in bucket
             /\ \E k \in {ProcessedKey(n), FailedKey(n)} : bucket' = (bucket \ {MainKey(n)}) \cup {k}
    <3>1. PICK k \in {ProcessedKey(n), FailedKey(n)} : bucket' = (bucket \ {MainKey(n)}) \cup {k}
      BY <2>1
    <3>2. CASE n = m
      BY <3>1, <3>2 DEF Arrived
    <3>3. CASE n # m
      BY <3>1, <3>3, KeysDiffer DEF Arrived
    <3> QED
      BY <3>2, <3>3
  <2>2. CASE bucket \ {IngestHltvKey(n)} \subseteq bucket'
    BY <2>2, KeysDiffer DEF Arrived
  <2> QED
    BY <1>2, <2>1, <2>2 DEF Ingest
<1>3. ASSUME NEW n \in Matches, UploadMetadata(n) PROVE Arrived(m)'
  <2>1. bucket \ {OutdatedHltvKey(n)} \subseteq bucket'
    BY <1>3 DEF UploadMetadata
  <2> QED
    BY <2>1, KeysDiffer DEF Arrived
<1>4. CASE bucket \subseteq bucket'
  BY <1>4 DEF Arrived
<1>5. ASSUME NEW n \in Matches,
             CheckExists(n) \/ FetchMetadata(n) \/ CooldownEnds(n) \/ QueryPending \/ SelectBatch
                 \/ HandleResults \/ Restart
      PROVE  bucket' = bucket
  BY <1>5 DEF CheckExists, FetchMetadata, CooldownEnds, QueryPending, SelectBatch, HandleResults, Restart,
       stores
<1>6. CASE UNCHANGED vars
  BY <1>6, <1>4 DEF vars, stores
<1> QED
  BY <1>1, <1>2, <1>3, <1>4, <1>5, <1>6 DEF Next, Iteration, DownloadMatch, Others

\* Four of four requests.
LEMMA FourOfFour ==
    ASSUME NEW done \in SUBSET {"main", "cache", "delMain", "delCache"}, Cardinality(done) = 4
    PROVE  "main" \in done
<1> SUFFICES ASSUME "main" \notin done PROVE FALSE
  OBVIOUS
<1>1. done \subseteq {"cache", "delMain", "delCache"}
  OBVIOUS
<1>2. /\ IsFiniteSet({}) /\ Cardinality({}) = 0
      /\ IsFiniteSet({"cache"}) /\ Cardinality({"cache"}) = 1
  BY FS_EmptySet, FS_Singleton
<1>3. IsFiniteSet({"cache"} \cup {"delMain"}) /\ Cardinality({"cache"} \cup {"delMain"}) <= 2
  BY <1>2, FS_AddElement
<1>4. {"cache"} \cup {"delMain"} \cup {"delCache"} = {"cache", "delMain", "delCache"}
  OBVIOUS
<1>5. /\ IsFiniteSet({"cache"} \cup {"delMain"} \cup {"delCache"})
      /\ Cardinality({"cache"} \cup {"delMain"} \cup {"delCache"}) <= 3
  <2> DEFINE two == {"cache"} \cup {"delMain"}
  <2>1. IsFiniteSet(two) /\ Cardinality(two) <= 2 /\ "delCache" \notin two
    BY <1>3
  <2> HIDE DEF two
  <2>2. Cardinality(two) \in Nat
    BY <2>1, FS_CardinalityType
  <2>3. IsFiniteSet(two \cup {"delCache"}) /\ Cardinality(two \cup {"delCache"}) = Cardinality(two) + 1
    BY <2>1, FS_AddElement
  <2>4. Cardinality(two \cup {"delCache"}) <= 3
    BY <2>1, <2>2, <2>3
  <2> QED
    BY <2>3, <2>4 DEF two
<1>6. Cardinality(done) <= Cardinality({"cache", "delMain", "delCache"})
  BY <1>1, <1>4, <1>5, FS_Subset
<1>7. Cardinality({"cache", "delMain", "delCache"}) <= 3
  BY <1>4, <1>5
<1> QED
  BY <1>4, <1>5, <1>6, <1>7, FS_CardinalityType

\* An answer or a result that says the object is there is right when it is given.
LEMMA SeenStep == IInv /\ OInv /\ [Next]_vars => SeenHasArrived'
<1> SUFFICES ASSUME IInv, OInv, [Next]_vars, NEW m \in Matches, known'[m] = "yes" \/ dl'[m] = "ok"
             PROVE  Arrived(m)'
  BY DEF SeenHasArrived
<1>0. TypeOK /\ SeenHasArrived /\ (Arrived(m) => Arrived(m)')
  BY ArrivedStays DEF IInv, OInv
<1>1. CASE known[m] = "yes" \/ dl[m] = "ok"
  BY <1>0, <1>1 DEF SeenHasArrived
<1>2. CASE ~(known[m] = "yes" \/ dl[m] = "ok")
  <2>1. ASSUME NEW n \in Matches, CheckExists(n) PROVE Arrived(m)
    <3>1. n = m
      BY <1>0, <1>2, <2>1 DEF CheckExists, End, TypeOK
    <3>2. known'[m] = "yes"
      BY <1>0, <1>2, <2>1, <3>1 DEF CheckExists, End, TypeOK
    <3>3. HeadRequest(m) = "yes"
      BY <1>0, <1>2, <2>1, <3>1, <3>2 DEF CheckExists, TypeOK
    <3> QED
      BY <3>3 DEF HeadRequest, Arrived
  <2>2. ASSUME NEW n \in Matches, UploadMetadata(n) PROVE Arrived(m)'
    <3>1. known' = known
      BY <2>2 DEF UploadMetadata
    <3>2. n = m
      BY <1>0, <1>2, <2>2, <3>1 DEF UploadMetadata, End, TypeOK
    <3>3. PICK done \in SUBSET {"main", "cache", "delMain", "delCache"} :
            /\ bucket' = (bucket \ (IF "delMain" \in done THEN {OutdatedHltvKey(m)} ELSE {}))
                          \cup (IF "main" \in done THEN {MainKey(m)} ELSE {})
            /\ IF Cardinality(done) = 4
               THEN UNCHANGED faults /\ End(m, "ok")
               ELSE Fault /\ End(m, "err")
      BY <2>2, <3>2 DEF UploadMetadata
    <3>4. Cardinality(done) = 4
      BY <1>0, <1>2, <3>1, <3>3 DEF End, TypeOK
    <3>5. "main" \in done
      BY <3>4, FourOfFour
    <3> QED
      BY <3>3, <3>5 DEF Arrived
  <2>3. ASSUME NEW n \in Matches,
               FetchMetadata(n) \/ CooldownEnds(n) \/ QueryPending \/ SelectBatch \/ HandleResults \/ Restart
        PROVE  FALSE
    BY <1>0, <1>2, <2>3 DEF FetchMetadata, CooldownEnds, QueryPending, SelectBatch, HandleResults, Restart,
         End, TypeOK
  <2>4. CASE Others \/ UNCHANGED vars
    BY <1>2, <2>4 DEF Others, vars
  <2> QED
    BY <1>0, <2>1, <2>2, <2>3, <2>4 DEF Next, Iteration, DownloadMatch
<1> QED
  BY <1>1, <1>2

LEMMA SaltsStep == IInv /\ OInv /\ [Next]_vars => SaltsAreDistinct'
<1> SUFFICES ASSUME IInv, OInv, [Next]_vars
             PROVE  SaltsAreDistinct'
  OBVIOUS
<1>0. TypeOK /\ SaltsAreDistinct
  BY DEF IInv, OInv
<1>1. ASSUME NEW m \in Matches, SaltsArrive(m) PROVE SaltsAreDistinct'
  <2>1. salts' = <<m>> \o salts /\ m \notin Elements(salts)
    BY <1>1 DEF SaltsArrive
  <2>2. /\ salts \in Seq(Matches) /\ <<m>> \in Seq(Matches) /\ Len(<<m>>) = 1 /\ <<m>>[1] = m
        /\ Len(salts) \in Nat /\ DOMAIN salts = 1..Len(salts)
    BY <1>0, SeqElements DEF TypeOK
  <2>3. /\ salts' \in Seq(Matches) /\ Len(salts') = 1 + Len(salts)
        /\ \A i \in 1..1 + Len(salts) : salts'[i] = IF i <= 1 THEN <<m>>[i] ELSE salts[i - 1]
    BY <2>1, <2>2, ConcatProperties
  <2>4. DOMAIN salts' = 1..1 + Len(salts)
    BY <2>3, LenProperties
  <2>5. \A n \in DOMAIN salts : salts[n] # m
    BY <2>1 DEF Elements
  <2>6. \A i \in DOMAIN salts' : (i = 1 /\ salts'[i] = m) \/ (i - 1 \in DOMAIN salts /\ salts'[i] = salts[i - 1])
    <3> SUFFICES ASSUME NEW i \in DOMAIN salts'
                 PROVE  (i = 1 /\ salts'[i] = m) \/ (i - 1 \in DOMAIN salts /\ salts'[i] = salts[i - 1])
      OBVIOUS
    <3>1. CASE i = 1
      BY <2>2, <2>3, <2>4, <3>1
    <3>2. CASE i # 1
      BY <2>2, <2>3, <2>4, <3>2
    <3> QED
      BY <3>1, <3>2
  <2> SUFFICES ASSUME NEW i \in DOMAIN salts', NEW j \in DOMAIN salts', salts'[i] = salts'[j]
               PROVE  i = j
    BY DEF SaltsAreDistinct
  <2>7. CASE i = 1 \/ j = 1
    BY <2>4, <2>5, <2>6, <2>7
  <2>8. CASE i # 1 /\ j # 1
    <3>1. i - 1 = j - 1
      BY <1>0, <2>6, <2>8 DEF SaltsAreDistinct
    <3> QED
      BY <2>2, <2>4, <3>1
  <2> QED
    BY <2>7, <2>8
<1>2. CASE UNCHANGED salts
  BY <1>0, <1>2 DEF SaltsAreDistinct
<1>3. ASSUME NEW m \in Matches,
             HltvUpload(m) \/ Ingest(m) \/ DownloadMatch(m) \/ CooldownEnds(m)
                 \/ QueryPending \/ SelectBatch \/ HandleResults \/ Restart
      PROVE  UNCHANGED salts
  BY <1>3 DEF HltvUpload, Ingest, DownloadMatch, CheckExists, FetchMetadata, UploadMetadata, CooldownEnds,
       QueryPending, SelectBatch, HandleResults, Restart, stores
<1>4. QueryPending \/ SelectBatch \/ HandleResults \/ Restart => UNCHANGED salts
  BY DEF QueryPending, SelectBatch, HandleResults, Restart, stores
<1> QED
  BY <1>1, <1>2, <1>3, <1>4 DEF Next, Iteration, Others, vars, stores

\* The download that makes a step is the one after the results.
LEMMA NextInLine ==
    ASSUME IInv, OInv, Concurrency = 1, NEW m \in Matches, DownloadMatch(m)
    PROVE  /\ Len(finished) + 1 \in DOMAIN batch /\ m = batch[Len(finished) + 1]
           /\ Len(finished) \in Nat /\ DOMAIN finished = 1..Len(finished)
           /\ Len(batch) \in Nat /\ DOMAIN batch = 1..Len(batch)
<1>0. TypeOK /\ ResultsOfBatch /\ InOrder
  BY DEF IInv, OInv
<1>1. /\ Len(finished) \in Nat /\ DOMAIN finished = 1..Len(finished)
      /\ Len(batch) \in Nat /\ DOMAIN batch = 1..Len(batch)
      /\ \A n \in DOMAIN batch : batch[n] \in Matches
  BY <1>0, SeqElements DEF TypeOK, Elements
<1>2. CASE dl[m] \in {"fetching", "uploading"}
  <2>1. PICK n \in DOMAIN batch : batch[n] = m
    BY <1>0, <1>2 DEF ResultsOfBatch, Elements
  <2>2. n = Len(finished) + 1
    BY <1>0, <1>1, <1>2, <2>1 DEF InOrder
  <2> QED
    BY <1>1, <2>1, <2>2
<1>3. CASE IsNext(m)
  <2>1. Running = {}
    <3>1. Running \subseteq Matches /\ IsFiniteSet(Running)
      BY Sizes, FS_Subset DEF Running
    <3>2. Cardinality(Running) \in Nat /\ Cardinality(Running) < 1
      BY <1>3, <3>1, FS_CardinalityType DEF IsNext
    <3> QED
      BY <3>1, <3>2, FS_EmptySet
  <2>2. PICK n \in DOMAIN batch :
          batch[n] = m /\ dl[m] = "queued" /\ \A k \in 1..(n - 1) : dl[batch[k]] # "queued"
    BY <1>3 DEF IsNext
  <2>3. n > Len(finished)
    BY <1>0, <1>1, <2>2 DEF InOrder
  <2>4. ASSUME n > Len(finished) + 1 PROVE FALSE
    <3> DEFINE k == Len(finished) + 1
    <3>1. k \in DOMAIN batch /\ k \in 1..(n - 1)
      BY <1>1, <2>4
    <3>2. dl[batch[k]] \in {"queued", "fetching", "uploading"}
      BY <1>0, <3>1 DEF InOrder
    <3> QED
      BY <1>1, <2>1, <2>2, <3>1, <3>2 DEF Running
  <2> QED
    BY <1>1, <2>2, <2>3, <2>4
<1> QED
  BY <1>2, <1>3 DEF DownloadMatch, CheckExists, FetchMetadata, UploadMetadata

LEMMA OrderStep == Concurrency = 1 /\ IInv /\ OInv /\ [Next]_vars => InOrder'
<1> SUFFICES ASSUME Concurrency = 1, IInv, OInv, [Next]_vars
             PROVE  InOrder'
  OBVIOUS
<1>0. TypeOK /\ ResultsOfBatch /\ InOrder /\ SaltsAreDistinct
  BY DEF IInv, OInv
<1>1. ASSUME NEW m \in Matches, DownloadMatch(m) PROVE InOrder'
  <2> DEFINE next == Len(finished) + 1
  <2>1. /\ next \in DOMAIN batch /\ m = batch[next]
        /\ Len(finished) \in Nat /\ DOMAIN finished = 1..Len(finished)
        /\ Len(batch) \in Nat /\ DOMAIN batch = 1..Len(batch)
    BY <1>1, NextInLine
  <2>2. PICK state \in {"fetching", "uploading", "ok", "err"} :
          /\ dl' = [dl EXCEPT ![m] = state]
          /\ \/ state \in {"fetching", "uploading"} /\ finished' = finished
             \/ state \in {"ok", "err"} /\ finished' = Append(finished, m)
    BY <1>1 DEF DownloadMatch, CheckExists, FetchMetadata, UploadMetadata, End
  <2>3. batch' = batch
    BY <1>1 DEF DownloadMatch, CheckExists, FetchMetadata, UploadMetadata
  <2>4. dl'[batch[next]] = state /\ \A n \in DOMAIN batch : n # next => dl'[batch[n]] = dl[batch[n]]
    <3>1. \A n \in DOMAIN batch : batch[n] \in Matches /\ (n # next => batch[n] # m)
      BY <1>0, <2>1, SeqElements DEF TypeOK, InOrder, Elements
    <3> QED
      BY <1>0, <2>1, <2>2, <3>1 DEF TypeOK
  <2> HIDE DEF next
  <2>5. CASE state \in {"fetching", "uploading"}
    BY <1>0, <2>1, <2>2, <2>3, <2>4, <2>5 DEF InOrder, next
  <2>6. CASE state \in {"ok", "err"}
    <3>1. /\ Len(finished') = Len(finished) + 1 /\ DOMAIN finished' = 1..(Len(finished) + 1)
          /\ \A n \in DOMAIN finished : finished'[n] = finished[n]
          /\ finished'[Len(finished) + 1] = m
      <4>1. finished \in Seq(Matches)
        BY <1>0, SeqElements DEF TypeOK
      <4>2. finished' = Append(finished, m)
        BY <2>2, <2>6
      <4> QED
        BY <4>1, <4>2, AppendElements
    <3>2. \A n \in DOMAIN finished' : finished'[n] = batch[n]
      BY <1>0, <2>1, <3>1 DEF InOrder, next
    <3>3. \A n \in DOMAIN batch :
            /\ n <= Len(finished') => dl'[batch[n]] \in {"ok", "err"}
            /\ n = Len(finished') + 1 => dl'[batch[n]] \in {"queued", "fetching", "uploading"}
            /\ n > Len(finished') + 1 => dl'[batch[n]] = "queued"
      BY <1>0, <2>1, <2>4, <2>6, <3>1 DEF InOrder, next
    <3> QED
      BY <1>0, <2>3, <3>2, <3>3 DEF InOrder
  <2> QED
    BY <2>2, <2>5, <2>6
<1>2. CASE SelectBatch
  <2>1. /\ IsBatch(batch', {m \in pending : Eligible(m)}) /\ finished' = <<>> /\ batch' \in Batches
        /\ dl' = [m \in Matches |-> IF m \in Elements(batch') THEN "queued" ELSE "none"]
    BY <1>2 DEF SelectBatch
  <2>2. PICK k \in 0..BatchLimit : batch' \in [1..k -> Matches]
    BY <2>1 DEF Batches
  <2>3. \A n \in DOMAIN batch' : n \in Nat /\ n > 0 /\ batch'[n] \in Matches /\ batch'[n] \in Elements(batch')
    BY <2>2, Sizes DEF Elements
  <2>4. ASSUME NEW i \in DOMAIN batch', NEW j \in DOMAIN batch', i < j PROVE batch'[i] # batch'[j]
    <3>1. Newer(batch'[i], batch'[j])
      BY <2>1, <2>4 DEF IsBatch
    <3>2. PICK a, b \in DOMAIN salts : a < b /\ salts[a] = batch'[i] /\ salts[b] = batch'[j]
      BY <3>1 DEF Newer
    <3>3. a \in Nat /\ b \in Nat
      BY <1>0, SeqElements DEF TypeOK
    <3> QED
      BY <1>0, <3>2, <3>3 DEF SaltsAreDistinct
  <2>5. Len(finished') = 0 /\ DOMAIN finished' = {}
    BY <2>1, EmptyElements
  <2>6. \A i, j \in DOMAIN batch' : batch'[i] = batch'[j] => i = j
    BY <2>3, <2>4
  <2>7. \A n \in DOMAIN batch' : dl'[batch'[n]] = "queued"
    BY <2>1, <2>3
  <2> QED
    BY <2>3, <2>5, <2>6, <2>7 DEF InOrder
<1>3. CASE batch' = <<>> /\ finished' = <<>>
  BY <1>3 DEF InOrder
<1>4. CASE UNCHANGED <<batch, finished, dl>>
  BY <1>0, <1>4 DEF InOrder
<1>5. HandleResults \/ Restart => batch' = <<>> /\ finished' = <<>>
  BY DEF HandleResults, Restart
<1>6. QueryPending \/ Others \/ UNCHANGED vars => UNCHANGED <<batch, finished, dl>>
  BY DEF QueryPending, Others, vars
<1>7. ASSUME NEW m \in Matches, CooldownEnds(m) PROVE UNCHANGED <<batch, finished, dl>>
  BY <1>7 DEF CooldownEnds
<1> QED
  BY <1>1, <1>2, <1>3, <1>4, <1>5, <1>6, <1>7 DEF Next, Iteration

LEMMA UploadedStep == IInv /\ OInv /\ [Next]_vars => UploadedHasArrived'
<1> SUFFICES ASSUME IInv, OInv, [Next]_vars
             PROVE  UploadedHasArrived'
  OBVIOUS
<1>0. TypeOK /\ UploadedHasArrived /\ \A m \in Matches : Arrived(m) => Arrived(m)'
  BY ArrivedStays DEF IInv, OInv
<1>1. CASE uploaded' \subseteq uploaded
  BY <1>0, <1>1 DEF UploadedHasArrived, TypeOK
<1>2. CASE HandleResults
  <2> SUFFICES ASSUME NEW m \in {batch[n] : n \in {k \in DOMAIN batch : Result(k) = "ok"}}
               PROVE  m \in Matches /\ Arrived(m)
    BY <1>0, <1>2 DEF HandleResults, UploadedHasArrived, TypeOK
  <2>1. PICK n \in DOMAIN batch : m = batch[n] /\ Result(n) = "ok"
    OBVIOUS
  <2>2. DOMAIN finished = DOMAIN batch
    BY <1>0, <1>2, SeqElements DEF HandleResults, TypeOK
  <2>3. finished[n] = m
    BY <2>1, <2>2 DEF OInv, InOrder
  <2>4. m \in Matches
    BY <1>0, <2>1, SeqElements DEF TypeOK, Elements
  <2> QED
    BY <2>1, <2>3, <2>4 DEF Result, OInv, SeenHasArrived
<1>3. SelectBatch \/ Restart \/ QueryPending \/ Others \/ UNCHANGED vars => uploaded' \subseteq uploaded
  BY DEF SelectBatch, Prune, Restart, QueryPending, Others, vars, memory
<1>4. ASSUME NEW m \in Matches, DownloadMatch(m) \/ CooldownEnds(m) PROVE uploaded' \subseteq uploaded
  BY <1>4 DEF DownloadMatch, CheckExists, FetchMetadata, UploadMetadata, CooldownEnds, memory
<1> QED
  BY <1>1, <1>2, <1>3, <1>4 DEF Next, Iteration

\* With one download at a time a match is marked uploaded only if its object has arrived
\* (main.rs:248-274); with more, run downloader_mixed_up shows that it need not have.
THEOREM UploadedTheorem ==
    ASSUME Concurrency = 1
    PROVE  Spec => []UploadedHasArrived
<1>1. IInv /\ OInv /\ [Next]_vars => OInv'
  BY SeenStep, SaltsStep, OrderStep, UploadedStep DEF OInv
<1>2. OInv => UploadedHasArrived
  BY DEF OInv
<1> QED
  BY InvHolds, InvInit, OrderInit, <1>1, <1>2, PTL DEF Spec
=============================================================================
