------------------------------ MODULE Reingest ------------------------------
(***************************************************************************)
(* The one-shot mode of tools/ingest-worker: reingest_from_file fetches a  *)
(* list of matches and sends them down a bounded channel, whose receiver a *)
(* few batch_inserter tasks share; the program ends when all of them have. *)
(***************************************************************************)
EXTENDS Naturals, Sequences, FiniteSets

CONSTANTS
    Matches,       \* the lines of the file, by number and taken as distinct
    Inserters,     \* reingest_inserters tasks
    Parallelism,   \* reingest_parallelism
    BatchSize,     \* reingest_batch_size
    MaxFailures    \* bound: flushes that fail permanently in a behaviour

ASSUME ReingestAssumption ==
    /\ Matches \subseteq Nat /\ IsFiniteSet(Matches) /\ IsFiniteSet(Inserters) /\ Inserters # {}
    /\ Parallelism \in Nat \ {0}
    /\ BatchSize \in Nat \ {0}
    /\ MaxFailures \in Nat

VARIABLES
    main,         \* reingest_from_file: producing, joining the inserters, done
    task,         \* task[m]: the producer future of m
    chan,         \* contents of the channel
    cancelled,    \* the CancellationToken
    ins,          \* ins[i]: where batch_inserter i is
    batch,        \* batch[i]: received and not yet flushed
    reported,     \* reported[i]: what i counts in its total_inserted
    matchPlayer, history,  \* matches whose rows are in the tables
    failures

tables == <<matchPlayer, history>>
vars == <<main, task, chan, cancelled, ins, batch, reported, tables, failures>>

TaskStates == {"queued", "fetching", "sending", "sent", "failed", "skipped"}
InserterStates == {"recv", "flush", "final", "ok", "error"}

ChanCap == Parallelism * 2
Active == {m \in Matches : task[m] \in {"fetching", "sending"}}
Finished == {m \in Matches : task[m] \in {"sent", "failed", "skipped"}}

TypeOK ==
    /\ main \in {"produce", "join", "done"}
    /\ task \in [Matches -> TaskStates]
    /\ chan \in Seq(Matches) /\ Len(chan) <= ChanCap
    /\ cancelled \in BOOLEAN
    /\ ins \in [Inserters -> InserterStates]
    /\ batch \in [Inserters -> SUBSET Matches]
    /\ \A i \in Inserters : Cardinality(batch[i]) <= BatchSize
    /\ reported \in [Inserters -> SUBSET Matches]
    /\ matchPlayer \subseteq Matches /\ history \subseteq Matches
    /\ failures \in 0..MaxFailures

Init ==
    /\ main = "produce"
    /\ task = [m \in Matches |-> "queued"]
    /\ chan = <<>>
    /\ cancelled = FALSE
    /\ ins = [i \in Inserters |-> "recv"]
    /\ batch = [i \in Inserters |-> {}]
    /\ reported = [i \in Inserters |-> {}]
    /\ matchPlayer = {} /\ history = {}
    /\ failures = 0

-----------------------------------------------------------------------------
(* The producers.                                                          *)

SetTask(m, state) ==
    /\ task' = [task EXCEPT ![m] = state]
    /\ UNCHANGED <<main, cancelled, ins, batch, reported, tables, failures>>

\* The futures start in the order of the file; one polled for the first time looks
\* at the token once.
StartTask(m) ==
    /\ task[m] = "queued" /\ \A k \in Matches : k < m => task[k] # "queued"
    /\ Cardinality(Active) < Parallelism
    /\ SetTask(m, IF cancelled THEN "skipped" ELSE "fetching")
    /\ UNCHANGED chan

\* find_match_object, decompress and parse_match_data, one of which may fail.
FetchAndParseMatch(m) ==
    /\ task[m] = "fetching"
    /\ \E outcome \in {"sending", "failed"} : SetTask(m, outcome)
    /\ UNCHANGED chan

\* Mutant: the capacity is off by one.
RoomForOneMore == Len(chan) <= ChanCap

HasRoom == Len(chan) < ChanCap

\* reingest_from_file keeps a handle of the receiver until it returns, so a send
\* never fails: without room it waits.
Send(m) ==
    /\ task[m] = "sending"
    /\ HasRoom
    /\ chan' = Append(chan, m)
    /\ SetTask(m, "sent")

\* Every producer has ended: drop(tx).
DropSender ==
    /\ main = "produce"
    /\ Finished = Matches
    /\ main' = "join"
    /\ UNCHANGED <<task, chan, cancelled, ins, batch, reported, tables, failures>>

\* Every handle has been awaited.
Return ==
    /\ main = "join"
    /\ \A i \in Inserters : ins[i] \in {"ok", "error"}
    /\ main' = "done"
    /\ UNCHANGED <<task, chan, cancelled, ins, batch, reported, tables, failures>>

-----------------------------------------------------------------------------
(* The inserters.  Whichever holds the receiver's mutex takes items until    *)
(* the channel is empty or its batch full; the others can only wait for it,  *)
(* so one item at a time by any of them covers every order of the mutex.     *)

Recv(i) ==
    /\ ins[i] = "recv"
    /\ chan # <<>>
    /\ chan' = Tail(chan)
    /\ batch' = [batch EXCEPT ![i] = @ \cup {Head(chan)}]
    /\ ins' = [ins EXCEPT ![i] = IF Cardinality(batch'[i]) >= BatchSize THEN "flush" ELSE "recv"]
    /\ UNCHANGED <<main, task, cancelled, reported, tables, failures>>

\* Mutant: the sender is not dropped.
NeverClosed == FALSE

\* recv returns None: every sender is gone and the channel is empty.
Closed == main # "produce" /\ chan = <<>>

\* Mutant: what remains in the batch is forgotten.
LeaveAtOnce(i) == "ok"

\* Where the loop ends: in the final flush, if there is anything to flush.
AfterLoop(i) == IF batch[i] = {} THEN "ok" ELSE "final"

ChannelClosed(i) ==
    /\ ins[i] = "recv"
    /\ Closed
    /\ ins' = [ins EXCEPT ![i] = AfterLoop(i)]
    /\ UNCHANGED <<main, task, chan, cancelled, batch, reported, tables, failures>>

\* Mutant: batch.clear() is forgotten.
KeepBatch(i) == batch[i]

ClearBatch(i) == {}

FlushOk(i) ==
    /\ ins[i] \in {"flush", "final"}
    /\ matchPlayer' = matchPlayer \cup batch[i]
    /\ history' = history \cup batch[i]
    /\ reported' = [reported EXCEPT ![i] = @ \cup batch[i]]
    /\ batch' = [batch EXCEPT ![i] = ClearBatch(i)]
    /\ ins' = [ins EXCEPT ![i] = IF @ = "flush" THEN "recv" ELSE "ok"]
    /\ UNCHANGED <<main, task, chan, cancelled, failures>>

\* Every retry has failed, possibly after it stored something.  The task ends
\* with an error; only a failure inside the loop cancels the producers.
FlushFails(i) ==
    /\ ins[i] \in {"flush", "final"}
    /\ failures < MaxFailures
    /\ failures' = failures + 1
    /\ \/ UNCHANGED tables
       \/ /\ matchPlayer' = matchPlayer \cup batch[i]
          /\ history' \in {history, history \cup batch[i]}
    /\ cancelled' = (cancelled \/ ins[i] = "flush")
    /\ batch' = [batch EXCEPT ![i] = {}]
    /\ ins' = [ins EXCEPT ![i] = "error"]
    /\ UNCHANGED <<main, task, chan, reported>>

-----------------------------------------------------------------------------
Producer == \E m \in Matches : StartTask(m) \/ FetchAndParseMatch(m) \/ Send(m)

Inserter(i) == Recv(i) \/ ChannelClosed(i) \/ FlushOk(i) \/ FlushFails(i)

\* The program has returned.
Terminated == main = "done" /\ UNCHANGED vars

Next ==
    \/ Producer \/ DropSender \/ Return \/ Terminated
    \/ \E i \in Inserters : Inserter(i)

Spec == Init /\ [][Next]_vars

\* The runtime polls every ready future; a flush ends, one way or the other.
FairSpec ==
    /\ Spec
    /\ WF_vars(Producer) /\ WF_vars(DropSender) /\ WF_vars(Return)
    /\ \A i \in Inserters : WF_vars(Inserter(i))

-----------------------------------------------------------------------------
\* What the program reports as inserted is in both tables, and if no inserter
\* reported an error then every match that could be fetched is: no match gets
\* stuck in the channel or in a partial batch when the channel closes.
ReportIsTrue ==
    /\ \A i \in Inserters : reported[i] \subseteq matchPlayer \cap history
    /\ main = "done" /\ (\A i \in Inserters : ins[i] = "ok") =>
          \A m \in Matches : task[m] = "sent" => \E i \in Inserters : m \in reported[i]

\* No match is counted by two inserters, nor counted while it is still on its
\* way: the totals add up to the number of matches stored.
CountedOnce ==
    \A i \in Inserters :
        /\ \A j \in Inserters \ {i} : reported[i] \cap (reported[j] \cup batch[j]) = {}
        /\ reported[i] \cap (batch[i] \cup {chan[n] : n \in DOMAIN chan}) = {}

\* What the comments in reingest_from_file say (main.rs:553-555): when all
\* inserters have exited the producers stop and the program reports the error.
Terminates == <>(main = "done")

\* Nobody is left to take from the full channel, nor to close it.
Stuck ==
    /\ \A i \in Inserters : ins[i] = "error"
    /\ Len(chan) = ChanCap
    /\ \E m \in Matches : task[m] = "sending"

\* However many inserters fail for good, whatever they leave in the channel and in
\* their batches, the program ends, but for that one case (main.rs:540-598).
TerminatesUnlessStuck == <>(main = "done" \/ Stuck)
=============================================================================
