# A verification project for deadlock-api

TLA+ models, TLC runs and TLAPS proofs about the services of the
`deadlock-api` monorepo: the public API (`api/`), the ingest micro-services
(`tools/`), the live-event stream (`live-events/`) and the web site
(`website/`). Line numbers below are those of the files under `src/`.

## 1. The system

The services talk to each other through durable stores, hardly ever directly:
an S3-compatible object store, ClickHouse, Postgres and Redis.

    hltv-scraper / matchdata-downloader / api ingest route
            |  upload  ingest/metadata/{id}.meta[.bz2]
            v
      object store --list/get--> ingest-worker --insert--> ClickHouse
            ^                        |                     match_player
            |  rename to processed/ or failed/             player_match_history
            +------------------------+                          |
                                                 read by matchdata-downloader
                                                 ("salts not in match_player"),
                                                 api query batchers, analytics
    Patreon --webhooks, OAuth--> api --Postgres--> prioritized_steam_accounts
                                                 read by salt-scraper,
                                                 history-fetcher, api

### Components, their state, and what makes them correct

| Component | State | Operations | Hard behaviour | What must hold |
|---|---|---|---|---|
| ingest-worker, live loop (`tools/ingest-worker/src/main.rs`) | object store folders, two tables, in-flight set, bounded channel, per-inserter batches, receiver mutex | list, claim, fetch/parse, reject, send, receive, drain, timed flush, insert, move | N inserters share one receiver; stale listings; partial inserts; timeouts; restarts | nothing lost, nothing filed before stored, exact custody, every object eventually filed |
| ingest-worker, re-ingest (same file) | channel, cancellation token, per-inserter batches | fetch, send, insert, cancel | inserters die while producers block | terminates; reports only what it stored |
| matchdata-downloader (`tools/matchdata-downloader`) | retry state, upload cache, object store, `match_player` | select, download, record result | results in completion order; upload of several objects in part | a pending match stays a candidate |
| patron accounts (`api/src/services/patreon`, `api/src/routes/v1/patron`, `api/src/routes/v1/auth`) | `patrons`, `prioritized_steam_accounts`, retry queue | add, list, delete, replace, reactivate, login, webhook, hourly job, retry loop | check-then-act between concurrent requests; webhooks against jobs | slot limits, cooldowns, user deletions respected |
| priority cache (`is_account_prioritized`) | one-hour read-through cache | load, invalidate | load overtaken by write and invalidation | staleness bounded |
| ClickHouse query batcher (`clickhouse_batcher.rs`) | request channel, pending batch, tasks | load, load_many, collect, execute, distribute | many callers, one query | one answer per request, its own rows |
| ClickHouse insert batcher (`clickhouse_insert_batcher.rs`) | bounded buffer | insert, flush | failure puts rows back while others arrive | rows are lost only to pressure or a restart |
| match history route (`players/match_history.rs`) | two read-through caches, the insert batcher | read, ask Steam, merge, leave new rows | two reads at different moments, cached answers, rows still on their way | what was shown is stored or on its way |
| demo query jobs (`routes/v1/matches/demo/query/jobs`) | job records in Redis, bounded queue, semaphore, artifacts | submit, dispatch, run, stream, record | two submissions of a job at once; records outlive the process | records and artifacts agree, no job runs twice |
| rate limiter (`services/rate_limiter`) | Redis sorted sets | increment, check | count, check and global count apart; Redis fails | what a period lets through, per caller and per route |
| cohort refresh (`cohort_agg_refresh.rs`) | watermarks, staging table, partitions | find stale days, rebuild, record | several replicas share the staging table | a recorded day was rebuilt from the source |
| hltv-scraper (`tools/hltv-scraper`) | spectated table, download LRU, fragments | spectate, expire, download, upload | fragments missing for a while, broadcasts that stall or end | fragments in order, no hole without a fragment given up, metadata stored |
| history-fetcher | due list, shared inserters, ack channels | fetch, insert, acknowledge | the receiver mutex of the ingest worker again | one ack per request |
| live-events | bounded and unbounded channels | pump, parse, stream | slow clients, end of match | `end` comes last |

Left aside: analytics, assets, GraphQL and SQL routes of the API (stateless
query building), the web site, scripts, Dockerfiles and migrations.
The file `PROJECT.json` lists every component with its status, and every hazard
at its line; a hazard without a property says why.

## 2. Modules

| Module | Models | Abstract specification / composition |
|---|---|---|
| `IngestLedger` | what the live ingest pipeline promises per object | the specification `IngestWorker` implements |
| `IngestWorker` | `run_ingest_loop`, `fetch_parse_and_send`, `live_batch_inserter`, `flush_live_batch` | refines `IngestLedger` (`LedgerPhase` is the mapping) |
| `MCIngestWorker` | symmetry of inserters and matches for TLC | |
| `IngestWorkerProofs` | theorems about `IngestWorker` | |
| `Reingest` | `reingest_from_file`, `batch_inserter`, `flush_batch` | |
| `MatchdataDownloader` | `run_iteration`, `process_batch`, `handle_results`, `download_match`, `key_exists`, with the ingest-worker and the HLTV scraper as environment | |
| `ReingestProofs` | theorems about `Reingest` | |
| `MatchdataDownloaderProofs` | theorems about `MatchdataDownloader` | |
| `PatronAccounts` | the patron's requests, the webhook, the login, both loops of the verification job, and `is_account_prioritized` | |
| `MCPatronAccounts` | the memberships TLC chooses from | |
| `PatronAccountsProofs` | theorems about `PatronAccounts` | |
| `RateLimiter` | `apply_limits` and what it calls, one Redis call at a time | |
| `MCRateLimiter` | quotas, callers and symmetry for TLC | |
| `RateLimiterProofs` | theorems about `RateLimiter` | |
| `KeyLookup` | what callers of a batcher are promised | the specification `QueryBatcher` implements |
| `QueryBatcher` | `BatchEngine`: `load`, `load_many`, the collecting loop, one task per group | refines `KeyLookup` (`Gained` is the mapping) |
| `MCQueryBatcher` | the calls TLC runs | |
| `DemoJobs` | submission, dispatcher, tasks, records and artifacts of demo queries | |
| `MCDemoJobs` | which submission asks for which job | |
| `DemoJobsProofs` | theorems about `DemoJobs` | |
| `InsertBatcher` | `ClickhouseInsertBatcher` | |
| `MatchHistory` | the match history request with its caches | extends, so composes with, `InsertBatcher`; uses `KeyLookup`'s promise |
| `MCMatchHistory` | the rows and Steam's answers TLC chooses from | |
| `BatcherProofs` | theorems about `InsertBatcher`, `MatchHistory` and `QueryBatcher` | |
| `SpectateBot` | `run-spectate-bot` and the Redis table | implemented by `HltvScraper` |
| `HltvScraper` | `scrape-hltv-matches` and one download, fragment by fragment | extends, so composes with, `SpectateBot` |
| `HltvScraperProofs` | theorems about both | |

A definition commented `Mutant:` is a plausible mistake in the definition below
it. No specification uses it; it is there to see that a property would notice.

### IngestWorker

`loc[k]` are the folders object `k` is present under (a rename is a copy and a
delete, so it can be under two); `matchPlayer` and `history` are the keys whose
rows are in the two tables; these three survive `Crash`. `inflight` is the
`InflightSet`; `task[k]` the future of `buffer_unordered`; `chan` the
`mpsc::channel`; `rxQueue` the tokio mutex around its receiver, which is fair:
the holder is the head, the others wait in order. `ins[i]`, `batch[i]`,
`tries[i]` and `moving[i]` are the locals of inserter `i`.

There is one action per await point. `Recv` takes an item and queues for the
mutex again, because `live_batch_inserter` drops the guard when the select
returns and locks a second time to drain (main.rs:338). `FlushTick` is the
timer branch; it is only polled in the select, and cancelling the receive future
takes the inserter out of the mutex's queue. `PartialWrite` gives the outcomes
an insert that reports an error may leave behind: the tables are ended one after
the other. `TaskFails` is any error or the 30 s timeout around a fetch.
Parsing is abstracted to three kinds of objects: usable, `Unparseable`
(parse error or an error outcome), `Corrupt` (cannot be decompressed).

### Reingest

One run of the program: `main` is `reingest_from_file` itself, `task[m]` a
producer future, `cancelled` the token, `ins[i]` an inserter, `reported[i]` the
matches its returned total counts. The function keeps its own handle of the
receiver until it returns, so `Send` has no error outcome: a producer that meets a full
channel waits for a permit. `Stuck` names the state in which nobody is left to make room. The mutex is not a
variable: here an inserter drains under the guard it received with, and whoever
holds the mutex takes items until the channel is empty, so every order in which
items reach inserters is covered by letting any of them take the next.

### MatchdataDownloader

`salts` and `player` are what the query reads, `bucket` and `cache` the two
object stores as sets of keys, `uploaded`, `attempts` and `cooling` the `State`,
`known` the cache of `key_exists`, `batch` and `dl` the batch and its
downloads (what is pending is computed as a set, of which the batch is the newest
by the order of `salts`, which is the query's order), `finished` the order in which they end. `HandleResults` attributes the
n-th result to the n-th match of the batch, as the `zip` does. A cooldown may
end at any moment. `Ingest` is the ingest-worker, which files either object of a match under
`processed/` with its rows or under `failed/` without.

### PatronAccounts

One patron. `rows` is the table in order of `created_at`; a row is unused,
active, deleted (by the `user` or not, still in its cooldown or not) or gone.
`call[p]` is the local state of a process: one action per SQL statement or
request to Patreon, because no handler uses a transaction. The processes are
handlers of the patron's requests, tasks (a webhook, a login or the retry loop),
the hourly job `"verify"` and readers of the cache. `Evict` removes the entries
of the accounts a statement has returned, one at a time. `patreon` is the truth
about the membership, `mail` the webhooks that have not arrived, in no order, `token`
whether Patreon still takes the refresh token in the database.
`alone` and `stale` are history variables that only the properties read.

What can go wrong does so before a commit (`Fails`), after it (`Committed`: the statement
has been executed and its caller sees an error, so the `?` skips the loop over
`cache_remove`) or at any step of a handler, whose future is dropped when its client
disconnects (`Dropped`); webhooks and jobs are tasks of their own and are not dropped.
`OnError` says where a call goes on then. A refresh of tokens that fails may have
used up the refresh token; the hourly job then passes the patron over, without a retry, until the next
login (`RefreshToken`). A retry uses the access token of the attempt that failed, so
it may fail as often as it is queued again (`RetryFails`, which no bound limits).

### RateLimiter

`hits[k]` is the sorted set under a key of Redis. Score and member are both the
time, so two requests at the same moment are one entry; what the limiter can
count is instants. A request counts itself under its caller (`Count`), checks its
quotas one call after another, and only then counts itself under the route: the
clock and other requests move in between. Every call of Redis and of Postgres
may fail, and then the request passes unlimited, as in the code. `passed` is
a history variable that remembers which request passed which quota, and when.

### KeyLookup and QueryBatcher

`KeyLookup` has no batches: a call asks, every position of it gets one answer,
which is what the table held under its own key and group at some moment between
question and answer, or an error; a `load_many` leaves failed keys out and a
`load` fails. `QueryBatcher` has the channel (callers wait for room, one key at a
time), the batch being collected, and one task for each group of a closed batch (tasks are records in a set: at any
moment no two have a position in common), which queries each key once and distributes the rows. A caller may be gone before
its rows arrive. `Gained` maps what has been queried to what has been answered,
so that one `Serve` of the abstract specification is one query.

### DemoJobs

`record[j]` and `artifact[j]` outlive the process; `queue`, `held` (what the
dispatcher holds while it waits for a permit) and `task` do not. A submission
reads the record, reserves a place in the queue, writes the record and releases
the job: four steps, with its client free to leave between them. `Expire` is the
24-hour TTL of a record, counted from its last write; it is taken that no job is in
work for that long. Writes to Redis may fail at each point
where the code makes one; an artifact whose stream breaks is `truncated`.
`raced` is a history variable: jobs with two submissions open at a time.

### InsertBatcher and MatchHistory

`buffer` and `flushing` are the rows that wait and those the task has taken.
A flush that reports an error may have inserted the rows or not; what fits is
put back, as the code does, behind what has arrived meanwhile. `MatchHistory`
adds the requests of one account: the read of the table (any rows of some moment
of the call: the promise of `KeyLookup`), the two caches, each filled by one
request while the others wait, the outcomes of the rate limiter, and the merge, which
leaves in the buffer what the table seemed to lack, in the order of Steam's answer
(`InOrder`). Other programs insert
`Foreign` rows meanwhile. The ranked fields of a match are one flag, because Steam
sends all or none of them (match_history.rs:292).

### SpectateBot and HltvScraper

The bot's round (`todo`) takes a live match or a few gaps between live ids when
the table has room; the failures it remembers are forgotten any time, so any
match may be passed over. The two Redis calls of `mark_spectated` are one
step: the entry between them has no TTL, and no fairness is assumed of the TTL.
The scraper reads the table into `view`, skips what it is downloading or has
downloaded lately (`already`, an LRU), and starts a task. A download is a record:
`n` the fragment it asks for, `type` full or delta, `notFound` and `hard` its
retry state, `sent` what it has delivered (a network error changes nothing: the same fragment
is asked for again, without a limit and without asking sync); `alive` and `high` are the broadcast
as this task meets it, which grows, stalls and ends on its own. The copy in the
HLTV cache bucket is an outcome of the upload. `MaxSpectating` is an option of the bot;
when it is not set there is no limit, which is a number no table reaches. `Tasks` bounds downloads at a time;
they share only `downloading` and `already`.

## 3. Runs

| Run | Bounds | Shows |
|---|---|---|
| `ingest_safety` | 2 matches, 1 unparseable object, 2 inserters, batches of 1 (channel of 2), 2 tasks, 1 retry, 1 restart, symmetry | `TypeOK`; `FiledOnlyWhenStored`; `OneHolder`, `InflightIsHeld`, `FetchedIsUnfiled`: exact custody; `LeavesOnlyWhenFiled`; `LedgerSpec`, the refinement |
| `ingest_liveness` | 2 matches, 1 inserter (the default), batches of 2, 1 retry, 1 restart | `EventuallyFiled`, `BatchIsFlushed` |
| `reingest_pass` | 7 matches, 2 inserters, either or both of which may fail for good, batches of 2, a channel that fills | `TypeOK`, `ReportIsTrue`, `CountedOnce`, `TerminatesUnlessStuck` |
| `reingest_stuck` | the same | **violation** of `Terminates` |
| `downloader_pass` | 2 matches, the newer unfetchable, batches of 1, 2 attempts, 1 fault, 1 restart, 1 HLTV upload | `TypeOK`, `UploadedHasArrived`, `OneVerdict`, `RefetchedOnlyAfterFailure`, `EveryReplayArrives` |
| `downloader_mixed_up` | 2 downloads at a time | **violation** of `UploadedHasArrived` |
| `patron_pass` | 2 accounts, 2 rows, 3 memberships, any 2 of 4 processes at a time, 1 change of membership or 1 failure (`OneDisturbance`), any number of dropped handlers | `TypeOK` with the unique index, `CacheIsExact`, `LimitHoldsAlone`, `UserDeletionStands`, `SyncRespectsPledge` |
| `rate_limiter` | 3 requests, of which two share an address and one may present a key with quotas of its own or a disabled one; quotas of 1 in 1 (address), 1 in 2 (key), 1 in 3 (route), 2 in 3 (custom); 4 instants, 1 fault, symmetry | `TypeOK`, `WindowHolds`, `GlobalHolds`, `OnlyTheAdmittedCount` |
| `query_batcher` | 3 calls sharing a key, 2 groups, 1 `load_many`, channel of 1, batches of 2, 1 failing query, 1 write per key | `EngineTypeOK`, `ImplementsLookup`, `EveryCallEnds` |
| `demo_jobs` | 3 submissions of 2 jobs, queue of 2, 2 tasks, 2 faults of Redis, 1 restart | `TypeOK`, `RecordsAreTrue`, `Deduplicated`, `EveryRecordSettles` |
| `match_history` | 2 requests, 2 matches, buffer of 3, calls of up to 2 rows, 2 failed flushes, 1 restart, 3 answers of Steam | `TypeOK`, `AnswersAreKept`, `EveryRowIsStored` |
| `hltv` | 3 matches, table of 1, 4 fragments, a fragment given up after its second 404, LRU of 1, 2 failed uploads or writes, any number of network errors, 1 restart | `DeliveredInOrder`, `DownloadsEndWell` |

Why the bounds are enough to be interesting. Every race the models contain is
between two actors over one object, so two of each suffice for it; the third
object of `ingest_safety` is there for the other kind of object, the third call of
`query_batcher` for the other group, the third request of `rate_limiter` for the
other caller, the third submission of `demo_jobs` for the other job. The seven matches of
`reingest_pass` are two batches that fail with their inserters and a channel that
fills behind them while one more match waits for room. In `patron_pass` the constraint
`OneDisturbance` keeps the run small: a member who pays for two accounts, or whose payment
was declined, goes over to paying for one, or one thing fails, not both. So a sync meets a
downgrade, a cancelled membership and one that is taken up again; dropped handlers, late
retries and ends of the TTL come on top, and the theorems about this module have no such bound. The clock of `rate_limiter` covers the longest period and the
instant after it has run out for a shorter one. Channels, buffers, tables and
batches are the smallest that fill up. One restart finds whatever state the
first life leaves behind; a second one finds nothing else, since a restart
forgets all but the durable state. One failure of each kind is enough to take each
error path while everything else is under way, and two where a second one can
meet the repair of the first (`demo_jobs`, `match_history`, `hltv`); the liveness
run of the ingest-worker has no bound on failures besides the retries of a flush.
Bounds are constants named in each module (`MaxCrashes`, `MaxFailures`, `MaxErrors`,
`MaxFaults`, `MaxRestarts`, `MaxHltv`, `MaxRows`, `MaxCalls`, `MaxChanges`,
`MaxTime`, `MaxVersion`, `Tasks`).

### Fairness

* `IngestWorker`: weak fairness on each local step of a future or inserter, as
  the runtime polls what is ready. Strong fairness on steps that need the store
  or ClickHouse (`FetchAndParse`, `Send`, `WriteOk`, the moves): they may fail
  any number of times but not for ever. `Send` is strong because the channel can
  fill again before the task is polled. `Recv` is only weakly fair, which is
  what a fair mutex and a polled future give.
* `Reingest`: weak fairness on the producers, on each inserter and on the end.
  A flush ends one way or the other; nothing says that it succeeds, also not twice.
* `MatchdataDownloader`: the loop runs on and cooldowns end; nothing obliges the
  others to write, or the ingest-worker to file.
* `PatronAccounts` states none: nothing in the code obliges a membership to be synced.
  A lost refresh token keeps the hourly job from it until the patron logs in, webhooks
  overtake each other, and a retry may never succeed. Its properties are about what a step
  may do and leave behind.
* `QueryBatcher`: weak fairness on putting a key into a channel with room, on the
  loop and on each task. Queries may fail; calls need never come.
* `DemoJobs`: weak fairness on submissions that are under way, on the dispatcher,
  on the tasks and on the TTL of a record. A job may fail; clients may leave.
* `MatchHistory`: weak fairness on the tick of the insert batcher and on the end of
  a flush, which may fail as often as the bound allows. None on requests.
* `HltvScraper`: weak fairness on the steps of a task and on the end of a
  broadcast. The first includes that network errors of one fragment do not follow each other
  for ever: the code would ask for it for ever then (hltv_download.rs:260-264). None on the bot, on the loop or on the TTL of an entry.
* `RateLimiter` states none: all its properties are about what may not happen.

`CHECK_DEADLOCK` is left on in every passing run but `reingest_pass`, whose program
really may stop for ever; what it may stop in is `TerminatesUnlessStuck`. `Reingest` has a
stuttering step for the program that has returned, and the modules in which
everything may have been asked and answered have one for that state.

## 4. Where code and comments disagree

Two runs exhibit a disagreement.

`downloader_mixed_up` (matchdata-downloader
main.rs:264): results arrive in the order downloads end and are attributed in the
order of the batch, so a match that failed can be marked as uploaded. With one
download at a time the same property holds (`downloader_pass`), and that is
proved for every instance (`UploadedTheorem`).

`reingest_stuck` (ingest-worker main.rs:552, comment 553-554): "All inserters have exited —
stop producing". When every inserter has failed for good and the channel is full, `send`
does not return an error but waits for ever, because `reingest_from_file` itself still
holds the receiver (524-525); the errors of the inserters are never reported. That this is the only
way not to end is `TerminatesUnlessStuck` (`reingest_pass`).

The others are described here with the constants that show them; the property is a
definition of the module, or follows from one.

| Where | What | Property, and constants that violate it |
|---|---|---|
| ingest-worker main.rs:338, doc 299-303 | an inserter with items in its batch waits for the receiver's mutex, outside the select that polls its flush timer, while its sibling holds the mutex and waits for an item; when no object arrives, the batch stays where it is. With the default single inserter it cannot happen | `IngestWorker!BatchIsFlushed`, `FairSpec`, Keys = {k1, k2}, Inserters = {a, b}, BatchSize = 2, Parallelism = 2, MaxRetries = 1, MaxCrashes = 0 |
| ingest-worker main.rs:441, doc 424-426 | an object that cannot be decompressed is neither filed nor set aside, and is fetched again in every round | `IngestWorker!UnreadableIsSetAside`, Keys = {k1, bad, torn}, Unparseable = {bad}, Corrupt = {torn}, one inserter, BatchSize = 2, Parallelism = 1 |
| matchdata-downloader main.rs:375, log 380 | the outdated HLTV copy in the cache bucket is deleted under a key nobody writes | `MatchdataDownloader!OutdatedCopiesAreDeleted`, 1 match, Concurrency = BatchLimit = MaxAttempts = MaxHltv = 1 |
| steam_accounts.rs:191, doc 65 | concurrent additions both pass the slot check | `PatronAccounts!LimitHolds`, 2 accounts and rows, 2 requests, no task or reader, MaxCalls = 2, MaxChanges = MaxFaults = 0, `Memberships <- UpOrDown` |
| demo query status.rs:64 and the docs of submit.rs | a completed job is called immutable, but of two overlapping submissions the slower one can put the record of a finished job back to queued | `Deduplicated` without its condition on `raced`, the constants of `demo_jobs` |
| hltv_download.rs:71-72 | the doc says that 404s are retried as long as the broadcast is alive; the code gives a fragment up after six (251-257) and goes on with the next (277), in the hard-retry mode it never leaves | `DeliveredInOrder` without its exception for a fragment that was given up |

Further reading of the same kind:

* `UserDeletionStands` is stated of syncs no other call interrupts. The list of
  accounts to reactivate is read before the statement (membership.rs:38, 50),
  and that statement does not look at `user_deleted` again: a patron who
  reactivates and deletes an account in between finds it active.
* `CacheIsExact` excludes entries that a reader stored after the row had changed
  under it, and those whose removal was skipped because the handler was dropped or told of
  an error after the commit (steam_accounts_repository.rs:533): so a deleted account can stay
  prioritized, and an added one stay without priority, until the TTL ends or another write
  removes the entry.
* A replacement takes a slot without a check, and a member whose payment was
  declined can add accounts until the next sync because `slot_limit` looks at
  the pledge alone. `SyncRespectsPledge` says that a sync repairs both; with one
  disturbance and two rows the run has the excess after a downgrade and of a declined
  member, and not that of a third, inserted account. It is stated of the membership the sync
  was told of, which for a webhook may be an older one, and not of a sync whose
  statement fails.
* `GlobalHolds` is the bound that holds: one is subtracted for a request's own
  entry (client.rs:173) also where it is not there yet, so requests one after
  another pass a route's quota once more than it says, and concurrent ones
  each pass it (client.rs:141).
* The scraper writes metadata it cannot upload below `/matches`, while the
  directory it creates at its start is `./localstore`.

## 5. Proofs

Every theorem is about all values of the constants that satisfy the named
assumption of its module, and so about any number of requests, tasks, inserters,
accounts or matches. Theorems of a property a run checks:

| Module | Theorem | States |
|---|---|---|
| `IngestWorkerProofs` | `TypeCorrect` | `TypeOK`, with the capacity of the channel and the retries of a flush |
| | `StoredBeforeFiled` | `FiledOnlyWhenStored` |
| | `HolderTheorem`, `CustodyIsExact`, `FetchedTheorem` | `OneHolder`, `InflightIsHeld`, `FetchedIsUnfiled` |
| | `ObjectsAreNeverLost` | `LeavesOnlyWhenFiled`, an action property |
| | `ImplementsLedger` | `Spec => LedgerSpec`: the worker implements `IngestLedger` |
| `ReingestProofs` | `TypeTheorem`, `ReportTheorem`, `CountTheorem` | `TypeOK`, `ReportIsTrue`, `CountedOnce` |
| `MatchdataDownloaderProofs` | `TypeTheorem`, `VerdictTheorem`, `RefetchTheorem` | `TypeOK`, `OneVerdict`, `RefetchedOnlyAfterFailure` |
| | `UploadedTheorem` | `UploadedHasArrived` where `Concurrency = 1` |
| `PatronAccountsProofs` | `TypeTheorem`, `CacheTheorem` | `TypeOK`, `CacheIsExact` |
| | `LimitTheorem`, `DeletionTheorem` | `LimitHoldsAlone`, `UserDeletionStands`, action properties |
| `RateLimiterProofs` | `TypeTheorem`, `WindowTheorem`, `AdmittedTheorem` | `TypeOK`, `WindowHolds`, `OnlyTheAdmittedCount` |
| | `GlobalTheorem` | `GlobalHolds` |
| `DemoJobsProofs` | `TypeTheorem`, `RecordsTheorem`, `DeduplicatedTheorem` | `TypeOK`, `RecordsAreTrue`, `Deduplicated`, an action property |
| `HltvScraperProofs` | `OrderTheorem` | `DeliveredInOrder` |
| `BatcherProofs` | `TypeTheorem`, `AnswersTheorem` | `TypeOK` and `AnswersAreKept` of `MatchHistory` |
| | `EngineTypeTheorem` | `EngineTypeOK` |
| | `LookupTheorem` | `EngineSpec => Lookup!LookupSpec`: the query batcher implements `KeyLookup` |

So each safety property a run checks, each action property and each refinement is
also a theorem, but for `SyncRespectsPledge`: that the `n` oldest rows of a set are `n`
in number takes an induction over sets, so it stays with TLC. Theorems beyond the runs: `BatcherProofs!BufferTheorem` (the bound
of the buffer), `LossTheorem` (rows are lost only when more wait than the buffer holds,
or in a restart) and `UsesBatcher` (the match history route implements the
insert batcher's own specification, so both hold there); `NoLossTheorem` (each key a
call has put into the query batcher's channel is answered or still on its way, which is
the part of `EveryCallEnds` that needs no fairness); `HltvScraperProofs!TableTheorem`
(the table exceeds its limit by at most one round) and `BotRefinement` (the scraper with its downloads
implements the bot alone, so the table stays bounded there too).

The arguments, in short.

* **IngestWorker.** The inductive invariant is `IInv`. `FiledOnlyWhenStored` alone is
  not inductive: a copy to `processed/` is only safe because what an inserter is
  moving has been stored (`MovingIsStored`), which survives other steps only
  because no key has two holders (`OneHolder`), which in turn needs that a listing
  never claims a held key, that is, that `inflight` is what is held. A stale listing
  is harmless because the fetch looks at the store again and no inserter files
  a key that somebody else holds (`FetchedIsUnfiled`). An object that does not
  parse never gets past its task (`KindsApart`). The custody facts are used in
  pointwise form, one statement per place a key can be. For the refinement,
  completing the second table is `Store`, the copy to a folder is `Archive` or
  `Reject`, and everything else, `Crash` included, is a stutter; it needs
  `WrittenIsPresent` besides `IInv`.
* **Reingest.** The same custody argument without a mutex, extended by what the
  ends of the program say: an inserter that has returned leaves nothing in
  its batch, and one that has returned without an error leaves nothing in the
  channel that it could have taken.
* **MatchdataDownloader.** `OneVerdict` needs that the batch, which was chosen from
  an older view, shares no match with `uploaded` or `cooling` as they are
  now. With one download at a time `finished` is a prefix of the batch, so the n-th
  result is that of the n-th match; that is all `UploadedTheorem` adds.
* **PatronAccounts.** `CacheIsExact` is inductive together with the types, the unique
  index and two facts: only a call that is removing entries has any on its list
  (`EvictsThere`), and what is loaded and kept is an account that is followed
  (`ReadsWatched`). A statement that writes rows leaves each of their accounts on such a list,
  or marks it in `stale` if its entry has become wrong, as does whoever drops a list; a
  loader compares what it keeps with the rows. Every action of a call changes only that call, some rows and some
  entries (`Effect`), so the argument is made once for what a step of a call may
  do, and each action is shown to be such a step. `LimitHoldsAlone` and
  `UserDeletionStands` are about calls no other writer interrupts. Their invariant,
  `Careful`, says of such a call that every other writer is idle (`Lonely`) and that
  what it has read of the rows, and concluded from it, is still so when the
  statement runs that relies on it (`UpToDate`): a count is the number of active
  rows, a checked insertion has a slot, a reactivated row was in its cooldown or
  finds a slot, and no account in the list to reactivate was deleted by the user.
* **RateLimiter.** Among the requests of a caller that passed a quota in a period,
  the one that checked last saw the entries of all the others, because each
  counted itself before it checked, entries of a period no longer than `Keep`
  are still there, and a set has one entry per instant. Failures of Redis only take
  requests out of the account: those pass as unlimited. The same argument is made a
  second time for the route (`GlobalHolds`), where a request enters only after all
  its checks (`EntersLast`): of requests that follow one another, the last to be
  checked has seen all the others (`SawTheRoute`), whose entries are still there
  (`RouteEntryIsKept`), and has subtracted one of them in place of its own.
* **DemoJobs.** Wherever a job is (queue, dispatcher, task), it has a record,
  and a record that says done has a complete artifact: the order of the writes at
  the start and the end of a task. Where no two submissions
  of a job were ever open together, a job is in one of these places at most (`Once`),
  and it is in none while its record is final (`Alone`).
* **HltvScraper.** `sent` is the first fragment, full and as a delta, and then every
  delta up to the one before `n`, unless the task has given a fragment up.
* **InsertBatcher and MatchHistory.** While the buffer is not under pressure, what
  waits and what is under insertion fit into it together (`Roomy`), so a failed flush
  finds room to put everything back. The route decides what to insert
  from rows that may be outdated; `AnswersAreKept` holds because they are never
  wrong: whatever a request or the cache has read of the table is kept
  (`ShownIsKept`), as what is kept only grows and a ranked row never loses its
  flag to the merge, and what the request could not find there it inserts.
* **QueryBatcher.** A position is in one place, once in the channel, in the batch
  or with one task (`OnePlace`), and has no answer while it is there
  (`MovingWaits`); nor before it is sent (`UnsentWaits`). A position is therefore in
  the task of one group only, and is delivered once. For the refinement, the query
  of a task is the lookup of all its positions at that moment (`QueryServes`),
  a failed one denies them all, a delivery changes nothing that had not been gained
  (`DeliverGains`), a call that ends does so on what was delivered, which is
  what was gained (`ConcludeEnds`), and collecting and closing are stutters.

Only model-checked: everything under fairness (`EventuallyFiled`, `BatchIsFlushed`,
`TerminatesUnlessStuck`, `EveryReplayArrives`, `EveryCallEnds`, `EveryRecordSettles`, `EveryRowIsStored`, `DownloadsEndWell`), which
is out of the prover's reach, as is the absence of deadlock, which speaks of what is
enabled. No theorem speaks of what recursive data computes: the modules define
no recursive operator, and what needs an order (the last request of a window) is found
as the least element of a set of numbers.

The assumptions are those the code gives: sizes that are positive, kinds of processes
that differ, answers of Steam within the call's maximum, and values that stand
for "none", "error" and "not read yet" that are no rows. TLC evaluates each of
them for the constants of the runs.

## 6. Not modelled

Within the modelled parts: the contents of matches, the building of rows and
statistics (three kinds of objects stand for it), duplicate lines of the file
that is re-ingested and a re-ingestion with no inserters (which the command line
would accept), `download_from_file` (one batch without bookkeeping), the values and
expiry of Patreon tokens (the hourly job may find its refresh token used up, no more is told apart), the creation of a patron, duplicated webhooks, more than one
replica of the API, the response headers of the rate limiter and the hour for which
a disabled key stays cached, the window of the query batcher (it only moves the
moment a batch is closed), the estimate of a job's waiting time, the second copy
of the insert batcher in `request_logger`, the patch version and the extra matches
of the bot, and wall-clock time (cooldowns, TTLs and timers may end at any
moment).

Most of the source by volume is left out on purpose: the parsing of game files
into assets, the construction of SQL for analytics, leaderboards and players, demo
decoding and the web site. It transforms data and keeps no state across calls, and
what it must get right is text and numbers, which tests on real inputs show better
than states do. Single-loop fetchers (builds, profiles, assets, active matches,
salts) keep nothing between rounds beyond the database; the rows they write are
environment actions here. Cohort refresh, history-fetcher and live-events do have
behaviour of the kind modelled here and are next in the plan. `PROJECT.json` lists
all of them with status `not_modelled` and the reason.

## 7. Plan

Done: the modules of section 2 and the theorems of section 5. Left, in this order:

1. `CohortRefresh`: two replicas, staging table, watermarks recorded after the last
   rebuilt day.
2. `HistoryFetcher`: one acknowledgement per request, and the receiver's mutex of
   the ingest-worker again.
3. `MatchPipeline`: `MatchdataDownloader` and `IngestWorker` composed over one
   store, in place of the environment actions of each.
4. The pump of live-events, whose `end` must come last.
5. Theorems: the invariants of these modules, once they are written, and, of the
   present ones, the parts of the liveness properties that need no fairness, as
   `NoLossTheorem` is for the query batcher: who is left to act when work remains.
