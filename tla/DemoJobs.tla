------------------------------ MODULE DemoJobs ------------------------------
(***************************************************************************)
(* The asynchronous demo queries of the API: a submission looks for the     *)
(* record of its job in Redis, reserves a place in a bounded queue, writes  *)
(* the record and releases the job; a dispatcher hands jobs to a few tasks, *)
(* which stream an artifact to the bucket and write the outcome into the    *)
(* record.  Records outlive the process, queue and tasks do not.            *)
(***************************************************************************)
EXTENDS Integers, Sequences, FiniteSets

CONSTANTS
    Jobs,           \* job ids: match, query and format
    Submissions,
    JobOf,          \* JobOf[s]: the job that s asks for
    MaxQueueDepth,
    Slots,          \* the permits of the semaphore: MAX_CONCURRENT of them
    None,
    MaxFaults,      \* bound: failed calls of Redis
    MaxRestarts     \* bound

ASSUME JobsAssumption ==
    /\ JobOf \in [Submissions -> Jobs]
    /\ MaxQueueDepth \in Nat \ {0} /\ IsFiniteSet(Slots)
    /\ None \notin Jobs
    /\ MaxFaults \in Nat /\ MaxRestarts \in Nat

VARIABLES
    record,         \* record[j]: the status in Redis
    artifact,       \* artifact[j]: the object in the bucket
    sub,            \* sub[s]: how far a submission is
    queue,          \* the channel
    held,           \* the job whose permit the dispatcher waits for
    dispatching,    \* the dispatcher has not stopped
    task,           \* task[w]: the job under a permit and how far it is
    raced,          \* history: jobs with two submissions open at a time
    shuttingDown,
    faults,
    restarts

vars == <<record, artifact, sub, queue, held, dispatching, task, raced, shuttingDown,
          faults, restarts>>
process == <<queue, held, dispatching, task>>
bounds == <<shuttingDown, faults, restarts>>

Statuses == {"queued", "running", "done", "failed"}
Phases == {"starting", "working", "downloaded", "streaming", "complete", "broken", "done", "failed"}
Free == [job |-> None, phase |-> "free"]
\* The submissions that looked for a record and have not released their job.
Open(s) == sub[s] \in {"checked", "reserved", "stored"}

Reserved == {s \in Submissions : sub[s] \in {"reserved", "stored"}}

TypeOK ==
    /\ record \in [Jobs -> Statuses \cup {"none"}]
    /\ artifact \in [Jobs -> {"none", "complete", "truncated"}]
    /\ sub \in [Submissions -> {"new", "checked", "reserved", "stored", "accepted", "known", "refused"}]
    /\ queue \in Seq(Jobs)
    /\ Len(queue) + (IF dispatching THEN Cardinality(Reserved) ELSE 0) <= MaxQueueDepth
    /\ held \in Jobs \cup {None}
    /\ dispatching \in BOOLEAN
    /\ task \in [Slots -> [job : Jobs, phase : Phases] \cup {Free}]
    /\ raced \subseteq Jobs
    /\ shuttingDown \in BOOLEAN
    /\ faults \in 0..MaxFaults
    /\ restarts \in 0..MaxRestarts

Init ==
    /\ record = [j \in Jobs |-> "none"]
    /\ artifact = [j \in Jobs |-> "none"]
    /\ sub = [s \in Submissions |-> "new"]
    /\ queue = <<>>
    /\ held = None
    /\ dispatching = TRUE
    /\ task = [w \in Slots |-> Free]
    /\ raced = {}
    /\ shuttingDown = FALSE
    /\ faults = 0
    /\ restarts = 0

Fault == faults < MaxFaults /\ faults' = faults + 1 /\ UNCHANGED <<shuttingDown, restarts>>

\* A write to Redis that reports an error may still have happened.
Written(j, status) == record' = [record EXCEPT ![j] = status]
MaybeWritten(j, status) == Written(j, status) \/ UNCHANGED record

-----------------------------------------------------------------------------
(* submit.                                                                 *)

Goes(s, stage) == sub' = [sub EXCEPT ![s] = stage]

\* Mutant: only a finished job short-circuits.
OnlyDone(j) == record[j] = "done"

\* A queued, running or finished job short-circuits, a failed one does not.
ShortCircuits(j) == record[j] \notin {"none", "failed"}

Check(s) ==
    /\ sub[s] = "new"
    /\ Goes(s, IF ShortCircuits(JobOf[s]) THEN "known" ELSE "checked")
    /\ raced' = raced \cup
         (IF ~ShortCircuits(JobOf[s]) /\ \E t \in Submissions : Open(t) /\ JobOf[t] = JobOf[s]
          THEN {JobOf[s]} ELSE {})
    /\ UNCHANGED <<record, artifact, process, bounds>>

\* A limit or Redis, before the look; after it the salts, or a full or closed queue.
Refuse(s) ==
    /\ sub[s] \in {"new", "checked"}
    /\ Goes(s, "refused")
    /\ UNCHANGED <<record, artifact, raced, process, bounds>>

\* Mutant: places that are reserved and not filled yet are not counted.
ReserveAgain(s) ==
    /\ sub[s] = "checked"
    /\ dispatching
    /\ Len(queue) < MaxQueueDepth
    /\ Goes(s, "reserved")
    /\ UNCHANGED <<record, artifact, raced, process, bounds>>

Reserve(s) ==
    /\ sub[s] = "checked"
    /\ dispatching
    /\ Len(queue) + Cardinality(Reserved) < MaxQueueDepth
    /\ Goes(s, "reserved")
    /\ UNCHANGED <<record, artifact, raced, process, bounds>>

Store(s) ==
    /\ sub[s] = "reserved"
    /\ Written(JobOf[s], "queued")
    /\ Goes(s, "stored")
    /\ UNCHANGED <<artifact, raced, process, bounds>>

\* The slot is dropped.
StoreFails(s) ==
    /\ sub[s] = "reserved"
    /\ Fault
    /\ MaybeWritten(JobOf[s], "queued")
    /\ Goes(s, "refused")
    /\ UNCHANGED <<artifact, raced, process>>

\* Nobody receives what is sent after the dispatcher has stopped.
Send(s) ==
    /\ sub[s] = "stored"
    /\ queue' = IF dispatching THEN Append(queue, JobOf[s]) ELSE queue
    /\ Goes(s, "accepted")
    /\ UNCHANGED <<record, artifact, raced, held, dispatching, task, bounds>>

\* The client is gone while its request waits for an answer.
Leave(s) ==
    /\ Open(s)
    /\ Goes(s, "refused")
    /\ UNCHANGED <<record, artifact, raced, process, bounds>>

-----------------------------------------------------------------------------
(* The dispatcher.                                                         *)

Take ==
    /\ dispatching /\ held = None /\ queue # <<>>
    /\ IF shuttingDown
       THEN dispatching' = FALSE /\ queue' = <<>> /\ UNCHANGED held
       ELSE held' = Head(queue) /\ queue' = Tail(queue) /\ UNCHANGED dispatching
    /\ UNCHANGED <<record, artifact, sub, task, raced, bounds>>

Start(w) ==
    /\ held # None
    /\ task[w] = Free
    /\ task' = [task EXCEPT ![w] = [job |-> held, phase |-> "starting"]]
    /\ held' = None
    /\ UNCHANGED <<record, artifact, sub, queue, dispatching, raced, bounds>>

-----------------------------------------------------------------------------
(* run_job.                                                                *)

Reaches(w, from, to) == task[w].phase = from /\ task' = [task EXCEPT ![w].phase = to]
Ends(w, from) == task[w].phase = from /\ task' = [task EXCEPT ![w] = Free]
OnlyTask == UNCHANGED <<sub, queue, held, dispatching, raced>>

MarkRunning(w) ==
    /\ Reaches(w, "starting", "working")
    /\ Written(task[w].job, "running")
    /\ UNCHANGED <<artifact, bounds>> /\ OnlyTask

MarkRunningFails(w) ==
    /\ Ends(w, "starting")
    /\ MaybeWritten(task[w].job, "running")
    /\ Fault
    /\ UNCHANGED artifact /\ OnlyTask

\* In ranges or, when that fails, in one piece.
Download(w) ==
    /\ Reaches(w, "working", "downloaded")
    /\ UNCHANGED <<record, artifact, bounds>> /\ OnlyTask

\* The demo is decompressed, the query runs and the multipart upload is open.
Stream(w) ==
    /\ Reaches(w, "downloaded", "streaming")
    /\ UNCHANGED <<record, artifact, bounds>> /\ OnlyTask

\* The chunks end, with or without an error of the query or the serializer.
ChunksEnd(w) ==
    /\ \E end \in {"complete", "broken"} : Reaches(w, "streaming", end)
    /\ UNCHANGED <<record, artifact, bounds>> /\ OnlyTask

\* Mutant: the upload is finished whatever the pipeline says.
CommitAnything(w) ==
    /\ \/ Reaches(w, "complete", "done")
             /\ artifact' = [artifact EXCEPT ![task[w].job] = "complete"]
       \/ Reaches(w, "broken", "done")
             /\ artifact' = [artifact EXCEPT ![task[w].job] = "truncated"]
    /\ UNCHANGED <<record, bounds>> /\ OnlyTask

\* The upload is finished when the pipeline reports success: the object appears whole.
Commit(w) ==
    /\ Reaches(w, "complete", "done")
    /\ artifact' = [artifact EXCEPT ![task[w].job] = "complete"]
    /\ UNCHANGED <<record, bounds>> /\ OnlyTask

\* The download, the query, the pipeline or the upload fails; a multipart is aborted.
ProcessFails(w) ==
    /\ \E from \in {"working", "downloaded", "streaming", "complete", "broken"} :
        Reaches(w, from, "failed")
    /\ UNCHANGED <<record, artifact, bounds>> /\ OnlyTask

Finish(w) ==
    /\ \E end \in {"done", "failed"} : Ends(w, end) /\ Written(task[w].job, end)
    /\ UNCHANGED <<artifact, bounds>> /\ OnlyTask

FinishFails(w) ==
    /\ \E end \in {"done", "failed"} : Ends(w, end) /\ MaybeWritten(task[w].job, end)
    /\ Fault
    /\ UNCHANGED artifact /\ OnlyTask

RunJob(w) ==
    \/ MarkRunning(w) \/ MarkRunningFails(w) \/ Download(w) \/ Stream(w) \/ ChunksEnd(w)
    \/ Commit(w) \/ ProcessFails(w) \/ Finish(w) \/ FinishFails(w)

-----------------------------------------------------------------------------
(* The process and the records.                                            *)

Shutdown ==
    /\ ~shuttingDown
    /\ shuttingDown' = TRUE
    /\ UNCHANGED <<record, artifact, sub, raced, process, faults, restarts>>

\* The process ends, drained or not, and a new one starts.
Restart ==
    /\ restarts < MaxRestarts
    /\ restarts' = restarts + 1
    /\ sub' = [s \in Submissions |-> IF Open(s) THEN "refused" ELSE sub[s]]
    /\ queue' = <<>> /\ held' = None /\ dispatching' = TRUE
    /\ task' = [w \in Slots |-> Free]
    /\ shuttingDown' = FALSE
    /\ UNCHANGED <<record, artifact, raced, faults>>

InQueue(j) == {i \in DOMAIN queue : queue[i] = j}
Tasks(j) == {w \in Slots : task[w].job = j}
InWork(j) == InQueue(j) # {} \/ held = j \/ Tasks(j) # {}

\* Mutant: a record that says running is kept.
ExpireButRunning(j) ==
    /\ record[j] \notin {"none", "running"}
    /\ ~InWork(j) /\ ~\E s \in Submissions : JobOf[s] = j /\ sub[s] = "stored"
    /\ Written(j, "none")
    /\ UNCHANGED <<artifact, sub, raced, process, bounds>>

\* 24 hours after the last write; no job is in work for that long.
Expire(j) ==
    /\ record[j] # "none"
    /\ ~InWork(j) /\ ~\E s \in Submissions : JobOf[s] = j /\ sub[s] = "stored"
    /\ Written(j, "none")
    /\ UNCHANGED <<artifact, sub, raced, process, bounds>>

Terminated ==
    /\ \A s \in Submissions : sub[s] \in {"accepted", "known", "refused"}
    /\ \A j \in Jobs : ~InWork(j) /\ record[j] = "none"
    /\ UNCHANGED vars

Submit(s) ==
    \/ Check(s) \/ Refuse(s) \/ Reserve(s) \/ Store(s) \/ StoreFails(s) \/ Send(s) \/ Leave(s)

Next ==
    \/ \E s \in Submissions : Submit(s)
    \/ Take
    \/ \E w \in Slots : Start(w) \/ RunJob(w)
    \/ Shutdown \/ Restart
    \/ \E j \in Jobs : Expire(j)
    \/ Terminated

\* Requests end, the runtime runs every ready task, and Redis lets records expire.
Fairness ==
    /\ \A s \in Submissions : WF_vars(Open(s) /\ Submit(s))
    /\ WF_vars(Take)
    /\ WF_vars(\E w \in Slots : Start(w))
    /\ \A w \in Slots : WF_vars(RunJob(w))
    /\ \A j \in Jobs : WF_vars(Expire(j))

Spec == Init /\ [][Next]_vars /\ Fairness

-----------------------------------------------------------------------------
(* Properties.                                                             *)

\* The worker never takes a job without a record (worker.rs:90-92, submit.rs:129-131), and
\* a record that says done has its artifact in the bucket, whole, whatever became of other
\* runs of the job (worker.rs:196-201).
RecordsAreTrue ==
    \A j \in Jobs :
        /\ InWork(j) => record[j] # "none"
        /\ record[j] = "done" => artifact[j] = "complete"

Runs(j) == Cardinality(InQueue(j)) + (IF held = j THEN 1 ELSE 0) + Cardinality(Tasks(j))

NeitherTwiceNorUndone ==
    \A j \in Jobs \ raced' :
        /\ Runs(j)' <= 1
        /\ record[j] = "done" => record'[j] \in {"done", "none"}

\* As long as no two submissions of a job look for its record at a time, it is never
\* queued or run twice, and the record of a finished job, which clients may cache, only
\* goes by expiring (submit.rs:93-103, status.rs:64-65).
Deduplicated == [][NeitherTwiceNorUndone]_vars

\* A record does not say queued or running for ever: neither when its job is lost in a
\* restart nor when the write of its outcome fails (job.rs:14, worker.rs:124-167).
EveryRecordSettles ==
    \A j \in Jobs : record[j] \in {"queued", "running"} ~> record[j] \notin {"queued", "running"}
=============================================================================
