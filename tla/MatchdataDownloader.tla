------------------------- MODULE MatchdataDownloader -------------------------
(***************************************************************************)
(* tools/matchdata-downloader: every iteration asks ClickHouse for the     *)
(* matches that have salts and no player rows, downloads those that are    *)
(* neither uploaded nor cooling down, CONCURRENCY at a time, and notes the *)
(* result of each in memory.  The ingest-worker and the HLTV scraper write *)
(* the same buckets.  A restart forgets what is in memory.                 *)
(*                                                                         *)
(* Time is abstract: a cooldown (retry_delay) may end at any moment.       *)
(***************************************************************************)
EXTENDS Naturals, Sequences, FiniteSets

CONSTANTS
    Matches,
    Unfetchable,   \* matches for which the replay server answers 502 for ever
    Concurrency,   \* CONCURRENCY
    BatchLimit,    \* BATCH_LIMIT
    MaxAttempts,   \* MAX_ATTEMPTS
    MaxFaults,     \* bound: transient failures in a behaviour
    MaxRestarts,   \* bound: restarts in a behaviour
    MaxHltv        \* bound: matches the HLTV scraper has uploaded too

ASSUME DownloaderAssumption ==
    /\ IsFiniteSet(Matches) /\ Unfetchable \subseteq Matches
    /\ {Concurrency, BatchLimit, MaxAttempts} \subseteq Nat \ {0}
    /\ {MaxFaults, MaxRestarts, MaxHltv} \subseteq Nat

VARIABLES
    salts,      \* match_salts, newest first
    player,     \* matches with rows in match_player
    bucket,     \* keys of the main bucket
    cache,      \* keys of the cache bucket
    phase,      \* run_iteration: idle, selecting or downloading
    pending,    \* what the query returned; its order is that of salts
    batch,      \* to_fetch
    dl,         \* dl[m]: where download_match is
    finished,   \* matches of the batch in the order their download ended
    known,      \* known[m]: what key_exists has cached
    uploaded,   \* State::uploaded
    attempts,   \* State::failed, the count of an entry; 0 is no entry
    cooling,    \* State::failed, entries whose next is in the future
    faults, restarts

stores == <<salts, player, bucket, cache>>
memory == <<uploaded, attempts, cooling>>
vars == <<stores, phase, pending, batch, dl, finished, known, memory, faults, restarts>>

Elements(seq) == {seq[n] : n \in DOMAIN seq}

MainKey(m) == <<"ingest/meta", m>>
IngestHltvKey(m) == <<"ingest/meta_hltv", m>>
ProcessedKey(m) == <<"processed/meta", m>>
FailedKey(m) == <<"failed/meta", m>>
FailedHltvKey(m) == <<"failed/meta_hltv", m>>
OutdatedHltvKey(m) == <<"processed/meta_hltv", m>>
CacheKey(m) == <<"meta", m>>
CacheHltvKey(m) == <<"meta_hltv", m>>

Keys == UNION {{MainKey(m), IngestHltvKey(m), ProcessedKey(m), FailedKey(m), FailedHltvKey(m),
                OutdatedHltvKey(m), CacheKey(m), CacheHltvKey(m)} : m \in Matches}

TypeOK ==
    /\ salts \in Seq(Matches) /\ pending \subseteq Matches
    /\ batch \in Seq(Matches) /\ Len(batch) <= BatchLimit
    /\ finished \in Seq(Elements(batch)) /\ Len(finished) <= Len(batch)
    /\ player \subseteq Matches
    /\ bucket \subseteq Keys /\ cache \subseteq Keys
    /\ phase \in {"idle", "select", "download"}
    /\ dl \in [Matches -> {"none", "queued", "fetching", "uploading", "ok", "err"}]
    /\ known \in [Matches -> {"unknown", "yes", "no", "error"}]
    /\ uploaded \subseteq Matches /\ cooling \subseteq Matches
    /\ attempts \in [Matches -> 0..MaxAttempts]
    /\ faults \in 0..MaxFaults /\ restarts \in 0..MaxRestarts

ProcessInit ==
    /\ phase = "idle" /\ pending = {} /\ batch = <<>> /\ finished = <<>>
    /\ dl = [m \in Matches |-> "none"]
    /\ known = [m \in Matches |-> "unknown"]
    /\ uploaded = {} /\ cooling = {}
    /\ attempts = [m \in Matches |-> 0]

Init ==
    /\ salts = <<>> /\ player = {} /\ bucket = {} /\ cache = {}
    /\ ProcessInit
    /\ faults = 0 /\ restarts = 0

-----------------------------------------------------------------------------
(* The others who write the stores.                                        *)

SaltsArrive(m) ==
    /\ m \notin Elements(salts)
    /\ salts' = <<m>> \o salts
    /\ UNCHANGED <<player, bucket, cache>>

\* The upload of the HLTV scraper, whose second half may fail.
HltvUpload(m) ==
    /\ Cardinality({x \in Matches : \E k \in {IngestHltvKey(x), OutdatedHltvKey(x),
                                              FailedHltvKey(x), CacheHltvKey(x)} : k \in bucket \cup cache}) < MaxHltv
    /\ bucket' = bucket \cup {IngestHltvKey(m)}
    /\ cache' \in {cache, cache \cup {CacheHltvKey(m)}}
    /\ UNCHANGED <<salts, player>>

\* The ingest-worker files an object: inserted, or set aside as unparseable.
Ingest(m) ==
    /\ UNCHANGED <<salts, cache>>
    /\ \/ /\ MainKey(m) \in bucket
          /\ \/ /\ bucket' = (bucket \ {MainKey(m)}) \cup {ProcessedKey(m)}
                /\ player' = player \cup {m}
             \/ /\ bucket' = (bucket \ {MainKey(m)}) \cup {FailedKey(m)}
                /\ UNCHANGED player
       \/ /\ IngestHltvKey(m) \in bucket
          /\ \/ /\ bucket' = (bucket \ {IngestHltvKey(m)}) \cup {OutdatedHltvKey(m)}
                /\ player' = player \cup {m}
             \/ /\ bucket' = (bucket \ {IngestHltvKey(m)}) \cup {FailedHltvKey(m)}
                /\ UNCHANGED player

Others ==
    /\ \E m \in Matches : SaltsArrive(m) \/ HltvUpload(m) \/ Ingest(m)
    /\ UNCHANGED <<phase, pending, batch, dl, finished, known, memory, faults, restarts>>

Fault == faults < MaxFaults /\ faults' = faults + 1

-----------------------------------------------------------------------------
(* run_iteration                                                           *)

QueryPending ==
    /\ phase = "idle"
    /\ pending' = Elements(salts) \ player
    /\ phase' = "select"
    /\ UNCHANGED <<stores, batch, dl, finished, known, memory, faults, restarts>>

Prune ==
    /\ uploaded' = uploaded \cap pending
    /\ cooling' = cooling \cap pending
    /\ attempts' = [m \in Matches |-> IF m \in pending THEN attempts[m] ELSE 0]

\* Mutant: the cooldown is looked at, the number of attempts is not.
NeverParked(m) == m \notin uploaded /\ m \notin cooling

\* Mutant: what is uploaded is selected again.
EligibleThoughUploaded(m) == attempts[m] < MaxAttempts /\ m \notin cooling

Eligible(m) == m \notin uploaded /\ attempts[m] < MaxAttempts /\ m \notin cooling

Newer(m, n) == \E i, j \in DOMAIN salts : i < j /\ salts[i] = m /\ salts[j] = n

\* The newest matches of a set, newest first, as many as a batch takes.
IsBatch(toFetch, eligible) ==
    /\ Elements(toFetch) \subseteq eligible
    /\ \A i, j \in DOMAIN toFetch : i < j => Newer(toFetch[i], toFetch[j])
    /\ \A m \in Elements(toFetch), n \in eligible \ Elements(toFetch) : Newer(m, n)
    /\ Len(toFetch) = BatchLimit \/ Elements(toFetch) = eligible

Batches == UNION {[1..n -> Matches] : n \in 0..BatchLimit}

SelectBatch ==
    /\ phase = "select"
    /\ Prune
    /\ \E toFetch \in Batches :
          /\ IsBatch(toFetch, {m \in pending : Eligible(m)})
          /\ batch' = toFetch
          /\ dl' = [m \in Matches |-> IF m \in Elements(toFetch) THEN "queued" ELSE "none"]
          /\ phase' = IF toFetch = <<>> THEN "idle" ELSE "download"
    /\ pending' = {}
    /\ finished' = <<>>
    /\ UNCHANGED <<stores, known, faults, restarts>>

-----------------------------------------------------------------------------
(* process_batch: buffer_unordered starts the downloads in order and yields  *)
(* their results in the order they end.                                    *)

Running == {m \in Matches : dl[m] \in {"fetching", "uploading"}}

IsNext(m) ==
    /\ Cardinality(Running) < Concurrency
    /\ \E n \in DOMAIN batch :
          /\ batch[n] = m /\ dl[m] = "queued"
          /\ \A k \in 1..(n - 1) : dl[batch[k]] # "queued"

End(m, result) ==
    /\ dl' = [dl EXCEPT ![m] = result]
    /\ finished' = Append(finished, m)

\* Mutant: the object is assumed to be missing.
NothingExists(m) == "no"

HeadRequest(m) == IF MainKey(m) \in bucket THEN "yes" ELSE "no"

\* key_exists: a cached answer, or a HEAD request.  One that fails counts, and is
\* cached, as an object that does not exist.
CheckExists(m) ==
    /\ phase = "download" /\ IsNext(m)
    /\ \/ /\ known[m] # "unknown"
          /\ UNCHANGED <<known, faults>>
       \/ /\ known[m] = "unknown"
          /\ \/ known' = [known EXCEPT ![m] = HeadRequest(m)] /\ UNCHANGED faults
             \/ known' = [known EXCEPT ![m] = "error"] /\ Fault
    /\ IF known'[m] = "yes"
       THEN End(m, "ok")
       ELSE dl' = [dl EXCEPT ![m] = "fetching"] /\ UNCHANGED finished
    /\ UNCHANGED <<stores, phase, pending, batch, memory, restarts>>

FetchMetadata(m) ==
    /\ dl[m] = "fetching"
    /\ \/ /\ m \notin Unfetchable
          /\ dl' = [dl EXCEPT ![m] = "uploading"]
          /\ UNCHANGED <<finished, faults>>
       \/ /\ IF m \in Unfetchable THEN UNCHANGED faults ELSE Fault
          /\ End(m, "err")
    /\ UNCHANGED <<stores, phase, pending, batch, known, memory, restarts>>

\* The four requests of tokio::join!, each of which may fail by itself.
UploadMetadata(m) ==
    /\ dl[m] = "uploading"
    /\ \E done \in SUBSET {"main", "cache", "delMain", "delCache"} :
          /\ bucket' = (bucket \ (IF "delMain" \in done THEN {OutdatedHltvKey(m)} ELSE {}))
                          \cup (IF "main" \in done THEN {MainKey(m)} ELSE {})
          /\ cache' = (cache \ (IF "delCache" \in done THEN {OutdatedHltvKey(m)} ELSE {}))
                          \cup (IF "cache" \in done THEN {CacheKey(m)} ELSE {})
          /\ IF Cardinality(done) = 4
             THEN UNCHANGED faults /\ End(m, "ok")
             ELSE Fault /\ End(m, "err")
    /\ UNCHANGED <<salts, player, phase, pending, batch, known, memory, restarts>>

\* Mutant: a failed download counts as done.
ResultIgnored(n) == "ok"

\* handle_results zips the batch with the results, in the order they came.
Result(n) == dl[finished[n]]

HandleResults ==
    /\ phase = "download"
    /\ Len(finished) = Len(batch)
    /\ LET good == {batch[n] : n \in {k \in DOMAIN batch : Result(k) = "ok"}}
           bad == Elements(batch) \ good
       IN  /\ uploaded' = uploaded \cup good
           /\ attempts' = [m \in Matches |-> IF m \in bad THEN attempts[m] + 1
                                             ELSE IF m \in good THEN 0 ELSE attempts[m]]
           /\ cooling' = (cooling \ good) \cup bad
    /\ phase' = "idle"
    /\ batch' = <<>> /\ finished' = <<>>
    /\ dl' = [m \in Matches |-> "none"]
    /\ UNCHANGED <<stores, pending, known, faults, restarts>>

CooldownEnds(m) ==
    /\ m \in cooling
    /\ cooling' = cooling \ {m}
    /\ UNCHANGED <<stores, phase, pending, batch, dl, finished, known, uploaded, attempts,
                   faults, restarts>>

\* The process is restarted: State::new and an empty key_exists cache.
Restart ==
    /\ restarts < MaxRestarts
    /\ restarts' = restarts + 1
    /\ phase' = "idle" /\ pending' = {} /\ batch' = <<>> /\ finished' = <<>>
    /\ dl' = [m \in Matches |-> "none"]
    /\ known' = [m \in Matches |-> "unknown"]
    /\ uploaded' = {} /\ cooling' = {}
    /\ attempts' = [m \in Matches |-> 0]
    /\ UNCHANGED <<stores, faults>>

-----------------------------------------------------------------------------
DownloadMatch(m) == CheckExists(m) \/ FetchMetadata(m) \/ UploadMetadata(m)

Iteration ==
    QueryPending \/ SelectBatch \/ HandleResults \/ \E m \in Matches : DownloadMatch(m)

Next ==
    \/ Iteration
    \/ \E m \in Matches : CooldownEnds(m)
    \/ Restart
    \/ Others

Spec == Init /\ [][Next]_vars

\* The loop of main runs on, every request ends and every cooldown too.
FairSpec ==
    /\ Spec
    /\ WF_vars(Iteration)
    /\ \A m \in Matches : WF_vars(CooldownEnds(m))

-----------------------------------------------------------------------------
Arrived(m) == \E k \in {MainKey(m), ProcessedKey(m), FailedKey(m)} : k \in bucket

\* State::uploaded is "Uploaded but not yet visible in match_player"
\* (main.rs:287): a match is marked only if its object has reached the bucket,
\* so that none silently stops being a candidate (main.rs:82-83).
UploadedHasArrived == \A m \in uploaded : Arrived(m)

\* A match has one verdict: marked uploaded and backing off exclude each other,
\* also while the next batch, chosen from an older view, is under way.
OneVerdict ==
    /\ \A m \in uploaded : attempts[m] = 0 /\ m \notin cooling
    /\ \A m \in cooling : attempts[m] > 0
    /\ uploaded \cap Elements(batch) = {}

\* A match whose object still waits for the ingest-worker is fetched again only
\* after an attempt, or the HEAD request, of this process has failed.
RefetchedOnlyAfterFailure ==
    \A m \in Matches :
        dl[m] \in {"fetching", "uploading"} /\ MainKey(m) \in bucket =>
            attempts[m] > 0 \/ known[m] = "error"

\* A download that succeeds leaves no outdated HLTV copy behind, in the cache
\* bucket as in the main one (main.rs:379-380).
OutdatedCopiesAreDeleted ==
    [][\A m \in Matches :
          dl[m] = "uploading" /\ dl'[m] = "ok" =>
              OutdatedHltvKey(m) \notin bucket' /\ CacheHltvKey(m) \notin cache']_vars

\* Every match whose replay exists is downloaded, however many newer ones fail
\* for ever in front of it: those cool down and are parked in the end.
EveryReplayArrives ==
    \A m \in Matches \ Unfetchable :
        m \in Elements(salts) ~> (Arrived(m) \/ m \in player)
=============================================================================
