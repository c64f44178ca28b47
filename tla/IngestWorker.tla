---------------------------- MODULE IngestWorker ----------------------------
(***************************************************************************)
(* The live loop of tools/ingest-worker: one producer lists ingest/,       *)
(* fetches and parses the new objects and sends them down a bounded        *)
(* channel; a set of inserter tasks share the receiver behind a fair       *)
(* mutex, batch the matches, write them to two ClickHouse tables and file  *)
(* the objects under processed/.  One action per await point.              *)
(***************************************************************************)
EXTENDS Naturals, Sequences, FiniteSets

CONSTANTS
    Keys,          \* object names under ingest/metadata/
    Unparseable,   \* objects that do not parse, or have an error outcome
    Corrupt,       \* objects whose payload cannot be decompressed
    Inserters,     \* the num_inserters tasks
    BatchSize,     \* ingest_batch_size
    Parallelism,   \* ingest_parallelism
    MaxRetries,    \* retries of a batch flush (5 in tools/common/src/retry.rs)
    MaxCrashes     \* bound: restarts of the process a behaviour may contain

ASSUME IngestAssumption ==
    /\ Unparseable \subseteq Keys
    /\ Corrupt \subseteq Keys
    /\ Unparseable \cap Corrupt = {}
    /\ IsFiniteSet(Inserters)
    /\ BatchSize \in Nat
    /\ Parallelism \in Nat \ {0}
    /\ MaxRetries \in Nat
    /\ MaxCrashes \in Nat

VARIABLES
    loc,          \* durable: loc[k], the prefixes of the store k is present under
    matchPlayer,  \* durable: keys whose rows are in match_player
    history,      \* durable: keys whose rows are in player_match_history
    inflight,     \* the InflightSet
    phase,        \* the producer's place in its loop
    listed,       \* its latest listing
    task,         \* task[k]: the fetch_parse_and_send future of k
    chan,         \* contents of the mpsc channel
    rxQueue,      \* the receiver's mutex: holder first, then the waiters in order
    ins,          \* ins[i]: the await point inserter i is at
    batch,        \* batch[i]: what it has accumulated
    tries,        \* tries[i]: failed attempts of its current flush
    moving,       \* moving[i]: stored objects it is filing under processed/
    crashes

durable == <<loc, matchPlayer, history>>
producerVars == <<phase, listed, task>>
inserterVars == <<rxQueue, ins, batch, tries, moving>>
vars == <<durable, inflight, producerVars, chan, inserterVars, crashes>>

Prefixes == {"ingest", "processed", "failed"}
TaskStates == {"none", "queued", "fetching", "rejecting", "sending"}
InserterStates == {"recv", "drain", "write", "move"}

\* Tokio tasks polled by buffer_unordered; the others wait in its stream.
Active == {k \in Keys : task[k] \in {"fetching", "rejecting", "sending"}}

ChanCap == 2 * (IF BatchSize > 1 THEN BatchSize ELSE 1)

\* The channel's contents as a set.
Queued == {chan[n] : n \in DOMAIN chan}

TypeOK ==
    /\ loc \in [Keys -> SUBSET Prefixes]
    /\ matchPlayer \subseteq Keys /\ history \subseteq Keys
    /\ inflight \subseteq Keys
    /\ phase \in {"list", "filter", "drain"}
    /\ listed \subseteq Keys
    /\ task \in [Keys -> TaskStates]
    /\ chan \in Seq(Keys) /\ Len(chan) <= ChanCap
    /\ rxQueue \in Seq(Inserters)
    /\ ins \in [Inserters -> InserterStates]
    /\ batch \in [Inserters -> SUBSET Keys]
    /\ tries \in [Inserters -> 0..MaxRetries]
    /\ moving \in [Inserters -> SUBSET Keys]
    /\ crashes \in 0..MaxCrashes

\* The inserters of a process that has just started race for the mutex and
\* queue up in any order.
StartOrders == {q \in [1..Cardinality(Inserters) -> Inserters] :
                   \A i \in Inserters : \E n \in DOMAIN q : q[n] = i}

Init ==
    /\ loc \in [Keys -> {{}, {"ingest"}}]
    /\ matchPlayer = {} /\ history = {}
    /\ inflight = {}
    /\ phase = "list" /\ listed = {}
    /\ task = [k \in Keys |-> "none"]
    /\ chan = <<>>
    /\ rxQueue \in StartOrders
    /\ ins = [i \in Inserters |-> "recv"]
    /\ batch = [i \in Inserters |-> {}]
    /\ tries = [i \in Inserters |-> 0]
    /\ moving = [i \in Inserters |-> {}]
    /\ crashes = 0

-----------------------------------------------------------------------------
(* The environment: downloaders upload objects; the process may die.       *)

Upload(k) ==
    /\ loc[k] = {}
    /\ loc' = [loc EXCEPT ![k] = {"ingest"}]
    /\ UNCHANGED <<matchPlayer, history, inflight, producerVars, chan,
                   inserterVars, crashes>>

\* Everything but the object store and the tables is lost.
Crash ==
    /\ crashes < MaxCrashes
    /\ crashes' = crashes + 1
    /\ inflight' = {}
    /\ phase' = "list" /\ listed' = {}
    /\ task' = [k \in Keys |-> "none"]
    /\ chan' = <<>>
    /\ rxQueue' \in StartOrders
    /\ ins' = [i \in Inserters |-> "recv"]
    /\ batch' = [i \in Inserters |-> {}]
    /\ tries' = [i \in Inserters |-> 0]
    /\ moving' = [i \in Inserters |-> {}]
    /\ UNCHANGED durable

-----------------------------------------------------------------------------
(* The producer: run_ingest_loop and fetch_parse_and_send.                 *)

IngestObjects == {k \in Keys : "ingest" \in loc[k]}

\* A failed listing and an empty one leave the loop where it is.
ListIngestObjects ==
    /\ phase = "list"
    /\ listed' = IngestObjects
    /\ phase' = IF listed' = {} THEN "list" ELSE "filter"
    /\ UNCHANGED <<durable, inflight, task, chan, inserterVars, crashes>>

\* Mutant: the listing is not filtered.
AllListed == listed

\* The listed objects that nobody holds.  The listing may be stale: an inserter
\* may have filed one of them and released it since.
NewKeys == listed \ inflight

ClaimNewKeys ==
    /\ phase = "filter"
    /\ inflight' = inflight \cup NewKeys
    /\ task' = [k \in Keys |-> IF k \in NewKeys THEN "queued" ELSE task[k]]
    /\ phase' = IF NewKeys = {} THEN "list" ELSE "drain"
    /\ listed' = {}
    /\ UNCHANGED <<durable, chan, inserterVars, crashes>>

StartTask(k) ==
    /\ task[k] = "queued"
    /\ Cardinality(Active) < Parallelism
    /\ task' = [task EXCEPT ![k] = "fetching"]
    /\ UNCHANGED <<durable, inflight, phase, listed, chan, inserterVars, crashes>>

\* Mutant: an error path that forgets the in-flight set.
ReleaseTaskOnly(k) ==
    /\ task' = [task EXCEPT ![k] = "none"]
    /\ UNCHANGED <<inflight, phase, listed, chan, inserterVars, crashes>>

\* The task ends without having handed its object over: the key is released.
ReleaseTask(k) ==
    /\ task' = [task EXCEPT ![k] = "none"]
    /\ inflight' = inflight \ {k}
    /\ UNCHANGED <<phase, listed, chan, inserterVars, crashes>>

\* get_object reports NotFound: somebody has filed the object already.
FetchMissing(k) ==
    /\ task[k] = "fetching"
    /\ "ingest" \notin loc[k]
    /\ ReleaseTask(k)
    /\ UNCHANGED durable

\* decompress and parse_match_data: the same outcome at every attempt.
Decompresses(k) == k \notin Corrupt
Parses(k) == k \notin Unparseable

\* Mutant: the object is taken from a copy made at listing time.
FetchStaleCopy(k) ==
    /\ task[k] = "fetching"
    /\ task' = [task EXCEPT ![k] = IF Parses(k) THEN "sending" ELSE "rejecting"]
    /\ UNCHANGED <<durable, inflight, phase, listed, chan, inserterVars, crashes>>

FetchAndParse(k) ==
    /\ task[k] = "fetching"
    /\ "ingest" \in loc[k] /\ Decompresses(k)
    /\ task' = [task EXCEPT ![k] = IF Parses(k) THEN "sending" ELSE "rejecting"]
    /\ UNCHANGED <<durable, inflight, phase, listed, chan, inserterVars, crashes>>

\* A rename in the object store is a copy followed by a delete.
RejectCopy(k) ==
    /\ task[k] = "rejecting"
    /\ "failed" \notin loc[k]
    /\ loc' = [loc EXCEPT ![k] = @ \cup {"failed"}]
    /\ UNCHANGED <<matchPlayer, history, inflight, producerVars, chan,
                   inserterVars, crashes>>

RejectDelete(k) ==
    /\ task[k] = "rejecting"
    /\ "failed" \in loc[k]
    /\ loc' = [loc EXCEPT ![k] = @ \ {"ingest"}]
    /\ ReleaseTask(k)
    /\ UNCHANGED <<matchPlayer, history>>

\* Mutant: the key is released on Ok(true) as on Ok(false).
SendAndRelease(k) ==
    /\ task[k] = "sending"
    /\ Len(chan) < ChanCap
    /\ chan' = Append(chan, k)
    /\ task' = [task EXCEPT ![k] = "none"]
    /\ inflight' = inflight \ {k}
    /\ UNCHANGED <<durable, phase, listed, inserterVars, crashes>>

\* A send completes in the poll that finds room, so a timeout never drops it
\* half done.  The key stays in flight, owned by whoever receives it.
Send(k) ==
    /\ task[k] = "sending"
    /\ Len(chan) < ChanCap
    /\ chan' = Append(chan, k)
    /\ task' = [task EXCEPT ![k] = "none"]
    /\ UNCHANGED <<durable, inflight, phase, listed, inserterVars, crashes>>

\* A store error, a failed decompression or move, or the 30 s timeout.
TaskFails(k) ==
    /\ k \in Active
    /\ ReleaseTask(k)
    /\ UNCHANGED durable

\* buffer_unordered(..).collect(): the next listing waits for every task.
RoundDone ==
    /\ phase = "drain"
    /\ \A k \in Keys : task[k] = "none"
    /\ phase' = "list"
    /\ UNCHANGED <<durable, inflight, listed, task, chan, inserterVars, crashes>>

-----------------------------------------------------------------------------
(* The inserters: live_batch_inserter and flush_live_batch.                *)

Holds(i) == rxQueue # <<>> /\ Head(rxQueue) = i

\* The receiver's holder takes an item.  Its guard is dropped, which hands the
\* mutex to the first waiter, and it asks for the mutex again to drain.
Recv(i) ==
    /\ ins[i] = "recv" /\ Holds(i)
    /\ chan # <<>>
    /\ chan' = Tail(chan)
    /\ batch' = [batch EXCEPT ![i] = @ \cup {Head(chan)}]
    /\ ins' = [ins EXCEPT ![i] = "drain"]
    /\ rxQueue' = Append(Tail(rxQueue), i)
    /\ UNCHANGED <<durable, inflight, producerVars, tries, moving, crashes>>

\* try_recv, while the batch has room.
DrainItem(i) ==
    /\ ins[i] = "drain" /\ Holds(i)
    /\ Cardinality(batch[i]) < BatchSize
    /\ chan # <<>>
    /\ chan' = Tail(chan)
    /\ batch' = [batch EXCEPT ![i] = @ \cup {Head(chan)}]
    /\ UNCHANGED <<durable, inflight, producerVars, rxQueue, ins, tries, moving,
                   crashes>>

\* The channel is empty or the batch is full: flush a full batch, otherwise
\* select again, queueing for the mutex behind whoever waits.
DrainDone(i) ==
    /\ ins[i] = "drain" /\ Holds(i)
    /\ \/ /\ Cardinality(batch[i]) >= BatchSize
          /\ ins' = [ins EXCEPT ![i] = "write"]
          /\ rxQueue' = Tail(rxQueue)
       \/ /\ Cardinality(batch[i]) < BatchSize
          /\ chan = <<>>
          /\ ins' = [ins EXCEPT ![i] = "recv"]
          /\ rxQueue' = Append(Tail(rxQueue), i)
    /\ UNCHANGED <<durable, inflight, producerVars, chan, batch, tries, moving,
                   crashes>>

\* Mutant: the timer only looks at full batches.
FullBatch(i) == Cardinality(batch[i]) >= BatchSize /\ batch[i] # {}

\* The condition of the select's timer branch.
HasBatch(i) == batch[i] # {}

\* The timer branch, polled only in the select.  The receive future is dropped,
\* and its place in the mutex queue with it.
FlushTick(i) ==
    /\ ins[i] = "recv"
    /\ HasBatch(i)
    /\ ins' = [ins EXCEPT ![i] = "write"]
    /\ \E n \in DOMAIN rxQueue :
          /\ rxQueue[n] = i
          /\ rxQueue' = SubSeq(rxQueue, 1, n - 1) \o SubSeq(rxQueue, n + 1, Len(rxQueue))
    /\ UNCHANGED <<durable, inflight, producerVars, chan, batch, tries, moving,
                   crashes>>

\* Mutant: hi.end() is forgotten.
CommitPlayersOnly(i) ==
    /\ matchPlayer' = matchPlayer \cup batch[i]
    /\ UNCHANGED history

\* write_parsed_refs succeeds: both inserts are ended.
CommitBatch(i) ==
    /\ matchPlayer' = matchPlayer \cup batch[i]
    /\ history' = history \cup batch[i]

WriteOk(i) ==
    /\ ins[i] = "write"
    /\ CommitBatch(i)
    /\ moving' = [moving EXCEPT ![i] = batch[i]]
    /\ batch' = [batch EXCEPT ![i] = {}]
    /\ tries' = [tries EXCEPT ![i] = 0]
    /\ ins' = [ins EXCEPT ![i] = "move"]
    /\ UNCHANGED <<loc, inflight, producerVars, chan, rxQueue, crashes>>

\* What an attempt that reports an error may have committed: the tables are
\* ended one after the other, and a committed insert may lose its answer.
PartialWrite(i) ==
    \/ UNCHANGED <<matchPlayer, history>>
    \/ /\ matchPlayer' = matchPlayer \cup batch[i]
       /\ history' \in {history, history \cup batch[i]}

\* Mutant: one retry too many.
RetryAgain(i) == tries[i] <= MaxRetries

RetriesLeft(i) == tries[i] < MaxRetries

WriteFails(i) ==
    /\ ins[i] = "write"
    /\ RetriesLeft(i)
    /\ PartialWrite(i)
    /\ tries' = [tries EXCEPT ![i] = @ + 1]
    /\ UNCHANGED <<loc, inflight, producerVars, chan, rxQueue, ins, batch, moving,
                   crashes>>

\* Mutant: the keys of a dropped batch stay in flight.
DropBatchOnly(i) ==
    /\ batch' = [batch EXCEPT ![i] = {}]
    /\ ins' = [ins EXCEPT ![i] = "recv"]
    /\ rxQueue' = Append(rxQueue, i)
    /\ UNCHANGED <<inflight, moving>>

\* Mutant: the objects of a failed batch are filed all the same.
FileBatchAnyway(i) ==
    /\ batch' = [batch EXCEPT ![i] = {}]
    /\ moving' = [moving EXCEPT ![i] = batch[i]]
    /\ ins' = [ins EXCEPT ![i] = "move"]
    /\ UNCHANGED <<inflight, rxQueue>>

DropBatch(i) ==
    /\ inflight' = inflight \ batch[i]
    /\ batch' = [batch EXCEPT ![i] = {}]
    /\ ins' = [ins EXCEPT ![i] = "recv"]
    /\ rxQueue' = Append(rxQueue, i)
    /\ UNCHANGED moving

\* The last retry fails: the batch is dropped and its keys released.
WriteGivesUp(i) ==
    /\ ins[i] = "write"
    /\ ~RetriesLeft(i)
    /\ PartialWrite(i)
    /\ DropBatch(i)
    /\ tries' = [tries EXCEPT ![i] = 0]
    /\ UNCHANGED <<loc, producerVars, chan, crashes>>

MoveCopy(i, k) ==
    /\ ins[i] = "move" /\ k \in moving[i]
    /\ "ingest" \in loc[k] /\ "processed" \notin loc[k]
    /\ loc' = [loc EXCEPT ![k] = @ \cup {"processed"}]
    /\ UNCHANGED <<matchPlayer, history, inflight, producerVars, chan,
                   inserterVars, crashes>>

\* The inserter is done with object k, wherever it is now.
FinishMove(i, k) ==
    /\ ins[i] = "move" /\ k \in moving[i]
    /\ moving' = [moving EXCEPT ![i] = @ \ {k}]
    /\ inflight' = inflight \ {k}
    /\ UNCHANGED <<matchPlayer, history, producerVars, chan, rxQueue, ins, batch,
                   tries, crashes>>

\* Mutant: the delete does not wait for the copy.
DeleteFirst(i, k) ==
    /\ loc' = [loc EXCEPT ![k] = @ \ {"ingest"}]
    /\ FinishMove(i, k)

MoveDelete(i, k) ==
    /\ "processed" \in loc[k]
    /\ loc' = [loc EXCEPT ![k] = @ \ {"ingest"}]
    /\ FinishMove(i, k)

\* Only logged: the object stays in ingest/ and will be listed again.
MoveFails(i, k) ==
    /\ FinishMove(i, k)
    /\ UNCHANGED loc

FlushDone(i) ==
    /\ ins[i] = "move"
    /\ moving[i] = {}
    /\ ins' = [ins EXCEPT ![i] = "recv"]
    /\ rxQueue' = Append(rxQueue, i)
    /\ UNCHANGED <<durable, inflight, producerVars, chan, batch, tries, moving,
                   crashes>>

-----------------------------------------------------------------------------
Producer ==
    \/ ListIngestObjects \/ ClaimNewKeys \/ RoundDone
    \/ \E k \in Keys :
          \/ StartTask(k) \/ FetchMissing(k) \/ FetchAndParse(k) \/ RejectCopy(k)
          \/ RejectDelete(k) \/ Send(k) \/ TaskFails(k)

Inserter(i) ==
    \/ Recv(i) \/ DrainItem(i) \/ DrainDone(i) \/ FlushTick(i)
    \/ WriteOk(i) \/ WriteFails(i) \/ WriteGivesUp(i) \/ FlushDone(i)
    \/ \E k \in Keys : MoveCopy(i, k) \/ MoveDelete(i, k) \/ MoveFails(i, k)

Next ==
    \/ Producer
    \/ \E i \in Inserters : Inserter(i)
    \/ \E k \in Keys : Upload(k)
    \/ Crash

Spec == Init /\ [][Next]_vars

-----------------------------------------------------------------------------
(* What may never happen.                                                  *)

\* Who holds key k at the moment: its own task, the channel, an inserter's
\* batch or its list of stored objects to file.
Held == {k \in Keys : task[k] # "none"} \cup Queued
           \cup UNION {batch[i] \cup moving[i] : i \in Inserters}

\* Past the fetch: the holder works from a copy of the object's data.
Fetched == {k \in Keys : task[k] \in {"rejecting", "sending"}} \cup Queued
              \cup UNION {batch[i] \cup moving[i] : i \in Inserters}

\* An object is filed under processed/ only when its rows are in both tables,
\* whatever partial writes, retries and restarts came before: nothing is lost
\* by dropping a batch or by ending the two inserts one after the other.
FiledOnlyWhenStored ==
    \A k \in Keys : "processed" \in loc[k] => k \in matchPlayer \cap history

\* No key has two holders: neither two listings nor two inserters can process
\* an object at the same time.
OneHolder ==
    /\ \A m, n \in DOMAIN chan : chan[m] = chan[n] => m = n
    /\ \A k \in Keys : task[k] # "none" => k \notin Queued
    /\ \A i \in Inserters :
          /\ batch[i] \cap moving[i] = {}
          /\ \A k \in batch[i] \cup moving[i] : task[k] = "none" /\ k \notin Queued
          /\ \A j \in Inserters \ {i} :
                (batch[i] \cup moving[i]) \cap (batch[j] \cup moving[j]) = {}

\* The in-flight set names exactly the keys somebody holds: a key that stayed
\* in it would be skipped by every later listing, one that left it early would
\* be processed twice.
InflightIsHeld == inflight = Held

\* Whatever was fetched is still in ingest/ while it is on its way to the
\* tables: an object that was filed is not written again from a stale copy,
\* although the listing it came from may be stale.
FetchedIsUnfiled == \A k \in Fetched : "ingest" \in loc[k]

\* An object leaves ingest/ only for one of the two other folders, and never
\* disappears from the store.
LeavesOnlyWhenFiled ==
    [][\A k \in Keys : loc[k] # {} =>
          /\ loc'[k] # {}
          /\ "ingest" \in loc[k] \ loc'[k] =>
                IF k \in Unparseable THEN "failed" \in loc'[k] ELSE "processed" \in loc'[k]]_vars

-----------------------------------------------------------------------------
(* The promise of IngestLedger, read off the durable state.                *)

LedgerPhase ==
    [k \in Keys |-> IF loc[k] = {} THEN "absent"
                    ELSE IF "failed" \in loc[k] THEN "rejected"
                    ELSE IF "processed" \in loc[k] THEN "archived"
                    ELSE IF k \in matchPlayer \cap history THEN "stored"
                    ELSE "waiting"]

Ledger == INSTANCE IngestLedger WITH phase <- LedgerPhase

\* Every step of the worker, crashes included, is a step of the ledger or
\* leaves it alone.
LedgerSpec == Ledger!Spec

-----------------------------------------------------------------------------
(* Fairness.  The runtime polls every ready task, so each local step is     *)
(* weakly fair.  Steps that need the store or ClickHouse may fail any       *)
(* number of times; strong fairness says that they do not fail for ever.    *)

\* The objects the pipeline is meant for.
Matches == Keys \ (Unparseable \cup Corrupt)

ProducerFairness ==
    /\ WF_vars(ListIngestObjects)
    /\ WF_vars(ClaimNewKeys)
    /\ WF_vars(RoundDone)
    /\ \A k \in Keys : WF_vars(StartTask(k)) /\ WF_vars(FetchMissing(k))
    /\ \A k \in Corrupt : WF_vars(TaskFails(k))
    /\ \A k \in Unparseable :
          SF_vars(FetchAndParse(k)) /\ SF_vars(RejectCopy(k) \/ RejectDelete(k))
    /\ \A k \in Matches : SF_vars(FetchAndParse(k)) /\ SF_vars(Send(k))

InserterFairness(i) ==
    /\ WF_vars(Recv(i))
    /\ WF_vars(DrainItem(i))
    /\ WF_vars(DrainDone(i))
    /\ WF_vars(FlushTick(i))
    /\ WF_vars(WriteFails(i) \/ WriteGivesUp(i) \/ WriteOk(i))
    /\ SF_vars(WriteOk(i))
    /\ \A k \in Matches : SF_vars(MoveCopy(i, k) \/ MoveDelete(i, k))
    /\ WF_vars(FlushDone(i))

FairSpec ==
    Spec /\ ProducerFairness /\ \A i \in Inserters : InserterFairness(i)

\* Every object of ingest/ that can be read is eventually filed, across failed
\* fetches, moves and inserts, dropped batches, timeouts and a restart.
EventuallyFiled ==
    \A k \in Keys \ Corrupt : "ingest" \in loc[k] ~> "ingest" \notin loc[k]

\* What the doc comment of live_batch_inserter says (main.rs:299-303): a batch
\* that is not empty is flushed, when it is full or after the flush interval.
BatchIsFlushed ==
    \A i \in Inserters : batch[i] # {} ~> batch[i] = {}

\* What the doc comment of fetch_parse_and_send says (main.rs:424-426): after
\* fetch, decompression and parsing, an object that cannot be parsed is moved
\* to failed/.
UnreadableIsSetAside ==
    \A k \in Unparseable \cup Corrupt : "ingest" \in loc[k] ~> "failed" \in loc[k]
=============================================================================
