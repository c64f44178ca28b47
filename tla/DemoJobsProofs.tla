--------------------------- MODULE DemoJobsProofs ---------------------------
(***************************************************************************)
(* Proofs about the demo jobs, for any number of jobs, submissions, places  *)
(* and tasks: types and the bound of the queue, the agreement of records    *)
(* with work and artifacts, and the deduplication of submissions.           *)
(***************************************************************************)
EXTENDS DemoJobs, FiniteSetTheorems, SequenceTheorems, TLAPS

-----------------------------------------------------------------------------
(* Types, and the places of the queue.                                     *)

Shapes ==
    /\ record \in [Jobs -> Statuses \cup {"none"}]
    /\ artifact \in [Jobs -> {"none", "complete", "truncated"}]
    /\ sub \in [Submissions -> {"new", "checked", "reserved", "stored", "accepted", "known", "refused"}]
    /\ queue \in Seq(Jobs)
    /\ held \in Jobs \cup {None}
    /\ dispatching \in BOOLEAN
    /\ task \in [Slots -> [job : Jobs, phase : Phases] \cup {Free}]
    /\ raced \subseteq Jobs
    /\ shuttingDown \in BOOLEAN
    /\ faults \in 0..MaxFaults
    /\ restarts \in 0..MaxRestarts

Places ==
    /\ IsFiniteSet(Reserved)
    /\ Len(queue) + (IF dispatching THEN Cardinality(Reserved) ELSE 0) <= MaxQueueDepth

LEMMA ShapesStart ==
  ASSUME Init PROVE Shapes
<1>1. faults \in 0..MaxFaults /\ restarts \in 0..MaxRestarts
  BY JobsAssumption DEF Init
<1>2. task \in [Slots -> [job : Jobs, phase : Phases] \cup {Free}]
  BY DEF Init
<1>3. dispatching \in BOOLEAN /\ shuttingDown \in BOOLEAN
  BY Zenon DEF Init
<1>4. queue \in Seq(Jobs)
  BY DEF Init
<1> QED
  BY <1>1, <1>2, <1>3, <1>4 DEF Init, Shapes

LEMMA ShapesSubmit ==
  ASSUME Shapes, NEW s \in Submissions, Submit(s)
  PROVE  Shapes'
<1> USE JobsAssumption
<1>0. JobOf[s] \in Jobs
  OBVIOUS
<1>1. CASE Check(s)
  BY <1>0, <1>1 DEF Check, Goes, Shapes, process, bounds
<1>2. CASE Refuse(s)
  BY <1>2 DEF Refuse, Goes, Shapes, process, bounds
<1>3. CASE Reserve(s)
  BY <1>3 DEF Reserve, Goes, Shapes, process, bounds
<1>4. CASE Store(s)
  BY <1>0, <1>4 DEF Store, Written, Statuses, Goes, Shapes, process, bounds
<1>5. CASE StoreFails(s)
  BY <1>0, <1>5 DEF StoreFails, MaybeWritten, Fault, Written, Statuses, Goes, Shapes, process
<1>6. CASE Send(s)
  <2>1. queue' \in Seq(Jobs)
    BY <1>0, <1>6, AppendProperties DEF Send, Shapes
  <2> QED
    BY <1>6, <2>1 DEF Send, Goes, Shapes, bounds
<1>7. CASE Leave(s)
  BY <1>7 DEF Leave, Goes, Shapes, process, bounds
<1> QED
  BY <1>1, <1>2, <1>3, <1>4, <1>5, <1>6, <1>7 DEF Submit

\* What a step of a task does to it.
LEMMA ReachesShape ==
  ASSUME Shapes, NEW w \in Slots, NEW from \in Phases, NEW to \in Phases, Reaches(w, from, to)
  PROVE  /\ task[w] \in [job : Jobs, phase : Phases]
         /\ task[w].phase = from
         /\ task'[w] \in [job : Jobs, phase : Phases]
         /\ task'[w].job = task[w].job
         /\ task'[w].phase = to
         /\ \A v \in Slots \ {w} : task'[v] = task[v]
         /\ task' \in [Slots -> [job : Jobs, phase : Phases] \cup {Free}]
<1>1. task[w] \in [job : Jobs, phase : Phases]
  BY DEF Reaches, Shapes, Free, Phases
<1>2. [task[w] EXCEPT !.phase = to] = [job |-> task[w].job, phase |-> to]
  BY <1>1
<1>3. task' = [task EXCEPT ![w] = [task[w] EXCEPT !.phase = to]]
  BY DEF Reaches
<1>4. task'[w] = [job |-> task[w].job, phase |-> to]
  BY <1>2, <1>3 DEF Shapes
<1>5. [job |-> task[w].job, phase |-> to] \in [job : Jobs, phase : Phases]
  BY <1>1
<1>6. \A v \in Slots \ {w} : task'[v] = task[v]
  BY <1>3 DEF Shapes
<1>7. task' \in [Slots -> [job : Jobs, phase : Phases] \cup {Free}]
  BY <1>2, <1>3, <1>5 DEF Shapes
<1> QED
  BY <1>1, <1>4, <1>5, <1>6, <1>7 DEF Reaches

LEMMA EndsShape ==
  ASSUME Shapes, NEW w \in Slots, NEW from \in Phases, Ends(w, from)
  PROVE  /\ task[w] \in [job : Jobs, phase : Phases]
         /\ task'[w] = Free
         /\ \A v \in Slots \ {w} : task'[v] = task[v]
         /\ task' \in [Slots -> [job : Jobs, phase : Phases] \cup {Free}]
BY DEF Ends, Shapes, Free, Phases

\* A step of a task, seen from the records: only its job's record can change, and only
\* its job's artifact.
TaskStep(w) ==
    /\ task[w] \in [job : Jobs, phase : Phases]
    /\ task'[w] = Free \/ (task'[w] \in [job : Jobs, phase : Phases] /\ task'[w].job = task[w].job)
    /\ \A v \in Slots \ {w} : task'[v] = task[v]
    /\ task' \in [Slots -> [job : Jobs, phase : Phases] \cup {Free}]
    /\ UNCHANGED record \/ \E status \in {"running", "done", "failed"} : Written(task[w].job, status)
    /\ UNCHANGED artifact \/ artifact' = [artifact EXCEPT ![task[w].job] = "complete"]
    /\ UNCHANGED <<sub, queue, held, dispatching, raced, shuttingDown, restarts>>
    /\ faults' \in 0..MaxFaults
    /\ record'[task[w].job] = "done" => record[task[w].job] = "done" \/ task[w].phase = "done"
    /\ task'[w].phase = "done" => artifact'[task[w].job] = "complete"

LEMMA TaskSteps ==
  ASSUME Shapes, NEW w \in Slots, RunJob(w)
  PROVE  TaskStep(w)
<1> USE JobsAssumption
<1>0. /\ record \in [Jobs -> Statuses \cup {"none"}]
      /\ artifact \in [Jobs -> {"none", "complete", "truncated"}]
      /\ faults \in 0..MaxFaults
  BY DEF Shapes
<1>1. CASE MarkRunning(w)
  <2>1. Reaches(w, "starting", "working")
    BY <1>1 DEF MarkRunning
  <2> QED
    BY <1>0, <1>1, <2>1, ReachesShape DEF MarkRunning, Written, OnlyTask, bounds, TaskStep, Phases
<1>2. CASE MarkRunningFails(w)
  <2>1. Ends(w, "starting")
    BY <1>2 DEF MarkRunningFails
  <2> QED
    BY <1>0, <1>2, <2>1, EndsShape
    DEF MarkRunningFails, MaybeWritten, Written, Fault, OnlyTask, TaskStep, Phases, Free
<1>3. CASE Download(w)
  <2>1. Reaches(w, "working", "downloaded")
    BY <1>3 DEF Download
  <2> QED
    BY <1>0, <1>3, <2>1, ReachesShape DEF Download, OnlyTask, bounds, TaskStep, Phases
<1>4. CASE Stream(w)
  <2>1. Reaches(w, "downloaded", "streaming")
    BY <1>4 DEF Stream
  <2> QED
    BY <1>0, <1>4, <2>1, ReachesShape DEF Stream, OnlyTask, bounds, TaskStep, Phases
<1>5. CASE ChunksEnd(w)
  <2>1. PICK end \in {"complete", "broken"} : Reaches(w, "streaming", end)
    BY <1>5 DEF ChunksEnd
  <2> QED
    BY <1>0, <1>5, <2>1, ReachesShape DEF ChunksEnd, OnlyTask, bounds, TaskStep, Phases
<1>6. CASE Commit(w)
  <2>1. Reaches(w, "complete", "done")
    BY <1>6 DEF Commit
  <2> QED
    BY <1>0, <1>6, <2>1, ReachesShape DEF Commit, OnlyTask, bounds, TaskStep, Phases
<1>7. CASE ProcessFails(w)
  <2>1. PICK from \in {"working", "downloaded", "streaming", "complete", "broken"} :
            Reaches(w, from, "failed")
    BY <1>7 DEF ProcessFails
  <2> QED
    BY <1>0, <1>7, <2>1, ReachesShape DEF ProcessFails, OnlyTask, bounds, TaskStep, Phases
<1>8. CASE Finish(w)
  <2>1. PICK end \in {"done", "failed"} : Ends(w, end) /\ Written(task[w].job, end)
    BY <1>8 DEF Finish
  <2>2. task[w].phase = end
    BY <2>1 DEF Ends
  <2>3. /\ task[w] \in [job : Jobs, phase : Phases] /\ task'[w] = Free
        /\ \A v \in Slots \ {w} : task'[v] = task[v]
        /\ task' \in [Slots -> [job : Jobs, phase : Phases] \cup {Free}]
    BY <2>1, EndsShape DEF Phases
  <2>4. record'[task[w].job] = end
    BY <1>0, <2>1, <2>3 DEF Written
  <2>5. task'[w].phase # "done"
    BY <2>3 DEF Free
  <2> QED
    BY <1>0, <1>8, <2>1, <2>2, <2>3, <2>4, <2>5 DEF Finish, OnlyTask, bounds, TaskStep
<1>9. CASE FinishFails(w)
  <2>1. PICK end \in {"done", "failed"} : Ends(w, end) /\ MaybeWritten(task[w].job, end)
    BY <1>9 DEF FinishFails
  <2>2. task[w].phase = end
    BY <2>1 DEF Ends
  <2> QED
    BY <1>0, <1>9, <2>1, <2>2, EndsShape
    DEF FinishFails, MaybeWritten, Written, Fault, OnlyTask, TaskStep, Phases, Free
<1> QED
  BY <1>1, <1>2, <1>3, <1>4, <1>5, <1>6, <1>7, <1>8, <1>9 DEF RunJob

LEMMA ShapesStep ==
  ASSUME Shapes, [Next]_vars
  PROVE  Shapes'
<1> USE JobsAssumption
<1>1. CASE \E s \in Submissions : Submit(s)
  BY <1>1, ShapesSubmit
<1>2. CASE Take
  <2>1. queue # <<>> => Head(queue) \in Jobs /\ Tail(queue) \in Seq(Jobs)
    BY HeadTailProperties DEF Shapes
  <2>2. <<>> \in Seq(Jobs)
    OBVIOUS
  <2>3. queue' \in Seq(Jobs) /\ held' \in Jobs \cup {None} /\ dispatching' \in BOOLEAN
    BY <1>2, <2>1, <2>2 DEF Take, Shapes
  <2> QED
    BY <1>2, <2>3 DEF Take, Shapes, bounds
<1>3. CASE \E w \in Slots : Start(w)
  <2>1. PICK w \in Slots : Start(w)
    BY <1>3
  <2>2. [job |-> held, phase |-> "starting"] \in [job : Jobs, phase : Phases]
    BY <2>1 DEF Start, Shapes, Phases
  <2> QED
    BY <2>1, <2>2 DEF Start, Shapes, bounds
<1>4. CASE \E w \in Slots : RunJob(w)
  <2>1. PICK w \in Slots : RunJob(w)
    BY <1>4
  <2>2. TaskStep(w)
    BY <2>1, TaskSteps
  <2>3. record' \in [Jobs -> Statuses \cup {"none"}]
    BY <2>2 DEF TaskStep, Written, Shapes, Statuses
  <2>4. artifact' \in [Jobs -> {"none", "complete", "truncated"}]
    BY <2>2 DEF TaskStep, Shapes
  <2> QED
    BY <2>2, <2>3, <2>4 DEF TaskStep, Shapes
<1>5. CASE Shutdown
  BY <1>5 DEF Shutdown, Shapes, process
<1>6. CASE Restart
  <2>1. dispatching' \in BOOLEAN /\ shuttingDown' \in BOOLEAN
    BY <1>6, Zenon DEF Restart
  <2>2. queue' \in Seq(Jobs) /\ restarts' \in 0..MaxRestarts
    BY <1>6 DEF Restart, Shapes
  <2> QED
    BY <1>6, <2>1, <2>2 DEF Restart, Shapes
<1>7. CASE \E j \in Jobs : Expire(j)
  BY <1>7 DEF Expire, Written, Shapes, process, bounds
<1>8. CASE Terminated \/ UNCHANGED vars
  BY <1>8 DEF Terminated, vars, Shapes
<1> QED
  BY <1>1, <1>2, <1>3, <1>4, <1>5, <1>6, <1>7, <1>8 DEF Next

\* A submission that gets, keeps or gives back a reserved place.
LEMMA PlacesSubmit ==
  ASSUME Shapes, Places, NEW s \in Submissions, Submit(s)
  PROVE  Places'
<1> USE JobsAssumption
<1> DEFINE Count == Cardinality(Reserved)
<1>0. Count \in Nat /\ Len(queue) \in Nat /\ IsFiniteSet(Reserved)
  BY FS_CardinalityType, LenProperties DEF Places, Shapes
<1>1. CASE Reserve(s)
  <2>1. Reserved' = Reserved \cup {s} /\ s \notin Reserved
    BY <1>1 DEF Reserve, Goes, Reserved, Shapes
  <2>2. IsFiniteSet(Reserved') /\ Cardinality(Reserved') = Count + 1
    BY <1>0, <2>1, FS_AddElement
  <2>3. dispatching' = dispatching /\ queue' = queue
    BY <1>1 DEF Reserve, process
  <2>4. Len(queue) + Count < MaxQueueDepth
    BY <1>1 DEF Reserve
  <2>5. Len(queue) + (Count + 1) <= MaxQueueDepth /\ Len(queue) + 0 <= MaxQueueDepth
    BY <1>0, <2>4
  <2> HIDE DEF Count
  <2>6. Len(queue') + (IF dispatching' THEN Cardinality(Reserved') ELSE 0) <= MaxQueueDepth
    BY <2>2, <2>3, <2>5
  <2> QED
    BY <2>2, <2>6 DEF Places
<1>2. CASE Send(s)
  <2>1. Reserved' = Reserved \ {s} /\ s \in Reserved
    BY <1>2 DEF Send, Goes, Reserved, Shapes
  <2>2. IsFiniteSet(Reserved') /\ Cardinality(Reserved') = Count - 1
    BY <1>0, <2>1, FS_RemoveElement
  <2>3. dispatching' = dispatching
    BY <1>2 DEF Send
  <2>4. CASE dispatching
    <3>1. queue' = Append(queue, JobOf[s])
      BY <1>2, <2>4 DEF Send
    <3>2. Len(queue') = Len(queue) + 1
      BY <3>1 DEF Shapes
    <3>3. Len(queue) + Count <= MaxQueueDepth
      BY <2>4 DEF Places
    <3> HIDE DEF Count
    <3>4. Len(queue') + Cardinality(Reserved') <= MaxQueueDepth
      BY <1>0, <2>2, <3>2, <3>3
    <3> QED
      BY <2>2, <2>3, <2>4, <3>4 DEF Places
  <2>5. CASE ~dispatching
    BY <1>2, <2>2, <2>3, <2>5 DEF Send, Places
  <2> QED
    BY <2>4, <2>5
<1>3. CASE Check(s) \/ Refuse(s) \/ Store(s) \/ StoreFails(s) \/ Leave(s)
  <2>1. Reserved' \subseteq Reserved
    BY <1>3 DEF Check, Refuse, Store, StoreFails, Leave, Goes, Reserved, Shapes
  <2>2. dispatching' = dispatching /\ queue' = queue
    BY <1>3 DEF Check, Refuse, Store, StoreFails, Leave, process
  <2>3. IsFiniteSet(Reserved') /\ Cardinality(Reserved') <= Count /\ Cardinality(Reserved') \in Nat
    BY <1>0, <2>1, FS_Subset, FS_CardinalityType
  <2> HIDE DEF Count
  <2>4. CASE dispatching
    <3>1. Len(queue) + Count <= MaxQueueDepth
      BY <2>4 DEF Places, Count
    <3>2. Len(queue) + Cardinality(Reserved') <= MaxQueueDepth
      BY <1>0, <2>3, <3>1
    <3> QED
      BY <2>2, <2>3, <2>4, <3>2 DEF Places
  <2>5. CASE ~dispatching
    BY <2>2, <2>3, <2>5 DEF Places
  <2> QED
    BY <2>4, <2>5
<1> QED
  BY <1>1, <1>2, <1>3 DEF Submit

LEMMA PlacesStep ==
  ASSUME Shapes, Places, [Next]_vars
  PROVE  Places'
<1> USE JobsAssumption
<1>0. Cardinality(Reserved) \in Nat /\ Len(queue) \in Nat
  BY FS_CardinalityType, LenProperties DEF Places, Shapes
<1>1. CASE \E s \in Submissions : Submit(s)
  BY <1>1, PlacesSubmit
<1>2. CASE Take
  <2>1. Reserved' = Reserved
    BY <1>2 DEF Take, Reserved
  <2>2. CASE shuttingDown
    <3>1. ~dispatching' /\ queue' = <<>>
      BY <1>2, <2>2 DEF Take
    <3>2. Len(queue') + 0 <= MaxQueueDepth
      BY <3>1
    <3> QED
      BY <2>1, <3>1, <3>2 DEF Places
  <2>3. CASE ~shuttingDown
    <3>1. dispatching /\ dispatching' /\ queue' = Tail(queue) /\ queue # <<>>
      BY <1>2, <2>3 DEF Take
    <3>2. Len(queue') = Len(queue) - 1
      BY <3>1, HeadTailProperties DEF Shapes
    <3>3. Len(queue) + Cardinality(Reserved) <= MaxQueueDepth
      BY <3>1 DEF Places
    <3>4. Len(queue') + Cardinality(Reserved) <= MaxQueueDepth
      BY <1>0, <3>2, <3>3
    <3> QED
      BY <2>1, <3>1, <3>4 DEF Places
  <2> QED
    BY <2>2, <2>3
<1>3. CASE Restart
  <2>1. Reserved' = {}
    BY <1>3 DEF Restart, Reserved, Open, Shapes
  <2>2. IsFiniteSet(Reserved') /\ Cardinality(Reserved') = 0
    BY <2>1, FS_EmptySet
  <2>3. Len(queue') = 0 /\ dispatching'
    BY <1>3 DEF Restart
  <2> QED
    BY <2>2, <2>3 DEF Places
<1>4. CASE UNCHANGED <<sub, queue, dispatching>>
  BY <1>4 DEF Places, Reserved
<1>5. CASE \E w \in Slots : RunJob(w)
  BY <1>4, <1>5, TaskSteps DEF TaskStep
<1>6. CASE (\E w \in Slots : Start(w)) \/ Shutdown \/ (\E j \in Jobs : Expire(j)) \/ Terminated \/ UNCHANGED vars
  BY <1>4, <1>6 DEF Start, Shutdown, Expire, Terminated, vars, process
<1> QED
  BY <1>1, <1>2, <1>3, <1>5, <1>6 DEF Next

\* TypeOK, its bound of the queue with the reserved places included, is an invariant
\* (worker.rs:55-117).
THEOREM TypeTheorem == Spec => []TypeOK
<1>1. Init => Shapes /\ Places
  <2> SUFFICES ASSUME Init PROVE Places
    BY ShapesStart
  <2>1. Reserved = {}
    BY DEF Init, Reserved
  <2> QED
    BY <2>1, FS_EmptySet, JobsAssumption DEF Init, Places
<1>2. Shapes /\ Places /\ [Next]_vars => (Shapes /\ Places)'
  BY ShapesStep, PlacesStep
<1>3. Shapes /\ Places => TypeOK
  BY DEF Shapes, Places, TypeOK
<1> QED
  BY <1>1, <1>2, <1>3, PTL DEF Spec

-----------------------------------------------------------------------------
(* Where a job is.                                                         *)

Queued(j) == \E i \in DOMAIN queue : queue[i] = j
Active(j) == \E w \in Slots : task[w].job = j

LEMMA WorkPlaces ==
  ASSUME NEW j \in Jobs
  PROVE  InWork(j) <=> Queued(j) \/ held = j \/ Active(j)
BY DEF InWork, InQueue, Tasks, Queued, Active

LEMMA WorkPlacesNext ==
  ASSUME NEW j \in Jobs
  PROVE  InWork(j)' <=> Queued(j)' \/ held' = j \/ Active(j)'
BY DEF InWork, InQueue, Tasks, Queued, Active

\* How the queue moves, position by position.
LEMMA Appended ==
  ASSUME Shapes, NEW j \in Jobs, queue' = Append(queue, j)
  PROVE  /\ DOMAIN queue' = 1..(Len(queue) + 1) /\ DOMAIN queue = 1..Len(queue) /\ Len(queue) \in Nat
         /\ queue'[Len(queue) + 1] = j
         /\ \A i \in DOMAIN queue : queue'[i] = queue[i]
BY AppendProperties, LenProperties DEF Shapes

LEMMA Taken ==
  ASSUME Shapes, queue # <<>>, queue' = Tail(queue)
  PROVE  /\ DOMAIN queue = 1..Len(queue) /\ Len(queue) \in Nat \ {0} /\ DOMAIN queue' = 1..(Len(queue) - 1)
         /\ Head(queue) = queue[1] /\ Head(queue) \in Jobs
         /\ \A i \in DOMAIN queue' : queue'[i] = queue[i + 1]
BY HeadTailProperties, LenProperties DEF Shapes

\* A job is nowhere twice.
Once(j) ==
    /\ \A i, k \in DOMAIN queue : queue[i] = j /\ queue[k] = j => i = k
    /\ held = j => ~Queued(j) /\ ~Active(j)
    /\ Active(j) => ~Queued(j)
    /\ \A v, w \in Slots : task[v].job = j /\ task[w].job = j => v = w

-----------------------------------------------------------------------------
(* The steps that move jobs, seen from one job.                            *)

LEMMA TakeMoves ==
  ASSUME Shapes, Take, NEW j \in Jobs
  PROVE  /\ InWork(j)' => InWork(j)
         /\ Once(j) => Once(j)'
<1> USE JobsAssumption
<1>1. CASE shuttingDown
  <2>1. queue' = <<>> /\ held' = held /\ task' = task
    BY <1>1 DEF Take
  <2>2. ~Queued(j)' /\ DOMAIN queue' = {}
    BY <2>1 DEF Queued
  <2>3. Active(j)' = Active(j)
    BY <2>1 DEF Active
  <2> QED
    <3>1. InWork(j)' => InWork(j)
      BY <2>1, <2>2, <2>3, WorkPlaces, WorkPlacesNext
    <3>2. Once(j) => Once(j)'
      BY <2>1, <2>2, <2>3 DEF Once
    <3> QED
      BY <3>1, <3>2
<1>2. CASE ~shuttingDown
  <2>1. held = None /\ queue # <<>> /\ held' = Head(queue) /\ queue' = Tail(queue) /\ task' = task
    BY <1>2 DEF Take
  <2>2. /\ DOMAIN queue = 1..Len(queue) /\ Len(queue) \in Nat \ {0} /\ DOMAIN queue' = 1..(Len(queue) - 1)
        /\ held' = queue[1]
        /\ \A i \in DOMAIN queue' : queue'[i] = queue[i + 1]
    BY <2>1, Taken
  <2>3. Active(j)' = Active(j) /\ held # j
    BY <2>1 DEF Active
  <2>4. Queued(j)' => Queued(j)
    BY <2>2 DEF Queued
  <2>5. held' = j => Queued(j)
    <3>1. 1 \in DOMAIN queue
      BY <2>2
    <3> QED
      BY <2>2, <3>1 DEF Queued
  <2>6. Once(j) => Once(j)'
    <3> SUFFICES ASSUME Once(j) PROVE Once(j)'
      OBVIOUS
    <3>1. \A i, k \in DOMAIN queue' : queue'[i] = j /\ queue'[k] = j => i = k
      <4> SUFFICES ASSUME NEW i \in DOMAIN queue', NEW k \in DOMAIN queue', queue'[i] = j, queue'[k] = j
                   PROVE  i = k
        OBVIOUS
      <4>1. i \in Nat /\ k \in Nat /\ i + 1 \in DOMAIN queue /\ k + 1 \in DOMAIN queue
        BY <2>2
      <4>2. queue[i + 1] = j /\ queue[k + 1] = j
        BY <2>2
      <4>3. i + 1 = k + 1
        BY <4>1, <4>2 DEF Once
      <4> QED
        BY <4>1, <4>3
    <3>2. held' = j => ~Queued(j)'
      <4> SUFFICES ASSUME NEW i \in DOMAIN queue', queue'[i] = j, queue[1] = j PROVE FALSE
        BY <2>2 DEF Queued
      <4>1. i \in Nat \ {0} /\ i + 1 \in DOMAIN queue /\ 1 \in DOMAIN queue /\ queue[i + 1] = j
        BY <2>2
      <4>2. i + 1 = 1
        BY <4>1 DEF Once
      <4> QED
        BY <4>1, <4>2
    <3>3. held' = j => ~Active(j)'
      BY <2>3, <2>5 DEF Once
    <3>4. Active(j)' => ~Queued(j)'
      BY <2>3, <2>4 DEF Once
    <3>5. \A v, w \in Slots : task'[v].job = j /\ task'[w].job = j => v = w
      BY <2>1 DEF Once
    <3> QED
      BY <3>1, <3>2, <3>3, <3>4, <3>5 DEF Once
  <2> QED
    BY <2>3, <2>4, <2>5, <2>6, WorkPlaces, WorkPlacesNext
<1> QED
  BY <1>1, <1>2

LEMMA StartMoves ==
  ASSUME Shapes, NEW w \in Slots, Start(w), NEW j \in Jobs
  PROVE  /\ InWork(j)' => InWork(j)
         /\ Once(j) => Once(j)'
<1> USE JobsAssumption
<1>1. /\ held \in Jobs /\ held' = None /\ queue' = queue /\ task[w] = Free
      /\ task' = [task EXCEPT ![w] = [job |-> held, phase |-> "starting"]]
  BY DEF Start, Shapes
<1>2. /\ task'[w].job = held /\ task[w].job = None
      /\ \A v \in Slots \ {w} : task'[v] = task[v]
  BY <1>1 DEF Shapes, Free
<1>3. Queued(j)' = Queued(j)
  BY <1>1 DEF Queued
<1>4. Active(j)' <=> Active(j) \/ held = j
  BY <1>1, <1>2 DEF Active
<1>5. Once(j) => Once(j)'
  BY <1>1, <1>2, <1>3, <1>4 DEF Once, Active
<1> QED
  BY <1>1, <1>3, <1>4, <1>5, WorkPlaces, WorkPlacesNext

LEMMA TaskMoves ==
  ASSUME Shapes, NEW w \in Slots, TaskStep(w), NEW j \in Jobs
  PROVE  /\ InWork(j)' => InWork(j)
         /\ Once(j) => Once(j)'
         /\ Once(j) /\ task[w].job = j /\ task'[w] = Free => ~InWork(j)'
<1> USE JobsAssumption
<1>1. /\ held' = held /\ queue' = queue
      /\ task'[w].job \in {None, task[w].job}
      /\ \A v \in Slots \ {w} : task'[v] = task[v]
  BY DEF TaskStep, Free
<1>2. Queued(j)' = Queued(j)
  BY <1>1 DEF Queued
<1>3. \A v \in Slots : task'[v].job = j => task[v].job = j
  BY <1>1
<1>4. Active(j)' => Active(j)
  BY <1>3 DEF Active
<1>5. Once(j) => Once(j)'
  BY <1>1, <1>2, <1>3, <1>4 DEF Once
<1>6. Once(j) /\ task[w].job = j /\ task'[w] = Free => ~InWork(j)'
  <2> SUFFICES ASSUME Once(j), task[w].job = j, task'[w] = Free PROVE ~InWork(j)'
    OBVIOUS
  <2>1. Active(j) /\ ~Queued(j) /\ held # j
    BY DEF Once, Active
  <2>2. \A v \in Slots : task'[v].job # j
    BY <1>3 DEF Once, Free
  <2> QED
    BY <1>1, <1>2, <2>1, <2>2, WorkPlacesNext DEF Active
<1> QED
  BY <1>1, <1>2, <1>4, <1>5, <1>6, WorkPlaces, WorkPlacesNext

\* Sending adds the submission's job; no other step of a submission moves a job.
LEMMA SubmitMoves ==
  ASSUME Shapes, NEW s \in Submissions, Submit(s), NEW j \in Jobs
  PROVE  /\ InWork(j)' => InWork(j) \/ (Send(s) /\ JobOf[s] = j)
         /\ Once(j) /\ ~(Send(s) /\ JobOf[s] = j /\ InWork(j)) => Once(j)'
<1> USE JobsAssumption
<1>1. CASE Send(s) /\ dispatching
  <2>1. queue' = Append(queue, JobOf[s]) /\ held' = held /\ task' = task
    BY <1>1 DEF Send
  <2>2. /\ DOMAIN queue' = 1..(Len(queue) + 1) /\ DOMAIN queue = 1..Len(queue) /\ Len(queue) \in Nat
        /\ queue'[Len(queue) + 1] = JobOf[s]
        /\ \A i \in DOMAIN queue : queue'[i] = queue[i]
    BY <2>1, Appended
  <2>3. Active(j)' = Active(j)
    BY <2>1 DEF Active
  <2>4. Queued(j)' <=> Queued(j) \/ JobOf[s] = j
    BY <2>2 DEF Queued
  <2>5. ASSUME Once(j), ~(JobOf[s] = j /\ InWork(j)) PROVE Once(j)'
    <3>1. \A i, k \in DOMAIN queue' : queue'[i] = j /\ queue'[k] = j => i = k
      BY <2>2, <2>5, WorkPlaces DEF Once, Queued
    <3> QED
      BY <2>1, <2>3, <2>4, <2>5, <3>1, WorkPlaces DEF Once
  <2> QED
    BY <1>1, <2>1, <2>3, <2>4, <2>5, WorkPlaces, WorkPlacesNext
<1>2. CASE ~(Send(s) /\ dispatching)
  <2>1. queue' = queue /\ held' = held /\ task' = task
    BY <1>2 DEF Submit, Check, Refuse, Reserve, Store, StoreFails, Send, Leave, process
  <2>2. Active(j)' = Active(j) /\ Queued(j)' = Queued(j) /\ Once(j)' = Once(j)
    BY <2>1 DEF Active, Queued, Once
  <2> QED
    BY <2>1, <2>2, WorkPlaces, WorkPlacesNext
<1> QED
  BY <1>1, <1>2

-----------------------------------------------------------------------------
(* Records, artifacts and work.                                            *)

RecordInv ==
    /\ Shapes
    /\ \A j \in Jobs : InWork(j) => record[j] # "none"
    /\ \A j \in Jobs : record[j] = "done" => artifact[j] = "complete"
    /\ \A s \in Submissions : sub[s] = "stored" => record[JobOf[s]] # "none"
    /\ \A w \in Slots : task[w].phase = "done" => artifact[task[w].job] = "complete"

LEMMA RecordsSubmit ==
  ASSUME RecordInv, NEW s \in Submissions, Submit(s)
  PROVE  RecordInv'
<1> USE JobsAssumption
<1>0. Shapes /\ Shapes' /\ JobOf[s] \in Jobs
  BY ShapesSubmit DEF RecordInv
<1>1. artifact' = artifact /\ task' = task
  BY DEF Submit, Check, Refuse, Reserve, Store, StoreFails, Send, Leave, process
<1>2. /\ record' = record \/ record' = [record EXCEPT ![JobOf[s]] = "queued"]
      /\ \A t \in Submissions \ {s} : sub'[t] = sub[t]
      /\ sub'[s] = "stored" => record'[JobOf[s]] = "queued"
      /\ Send(s) => record[JobOf[s]] # "none"
  <2>1. CASE Store(s)
    BY <1>0, <2>1 DEF Store, Written, Goes, Shapes, Send
  <2>2. CASE StoreFails(s)
    BY <1>0, <2>2 DEF StoreFails, MaybeWritten, Written, Goes, Shapes, Send
  <2>3. CASE Send(s)
    BY <1>0, <2>3 DEF Send, Goes, Shapes, RecordInv
  <2>4. CASE Check(s) \/ Refuse(s) \/ Reserve(s) \/ Leave(s)
    BY <1>0, <2>4 DEF Check, Refuse, Reserve, Leave, Goes, Shapes, Send
  <2> QED
    BY <2>1, <2>2, <2>3, <2>4 DEF Submit
<1>3. \A j \in Jobs : record'[j] \in {record[j], "queued"}
  BY <1>0, <1>2 DEF Shapes
<1>4. ASSUME NEW j \in Jobs, InWork(j)'
      PROVE  record'[j] # "none"
  <2>1. InWork(j) \/ (Send(s) /\ JobOf[s] = j)
    BY <1>0, <1>4, SubmitMoves
  <2> QED
    BY <1>2, <1>3, <2>1 DEF RecordInv
<1>5. \A t \in Submissions : sub'[t] = "stored" => record'[JobOf[t]] # "none"
  BY <1>0, <1>2, <1>3 DEF RecordInv
<1>6. \A j \in Jobs : record'[j] = "done" => artifact'[j] = "complete"
  BY <1>1, <1>3 DEF RecordInv
<1>7. \A w \in Slots : task'[w].phase = "done" => artifact'[task'[w].job] = "complete"
  BY <1>1 DEF RecordInv
<1> QED
  BY <1>0, <1>4, <1>5, <1>6, <1>7 DEF RecordInv

LEMMA RecordsTask ==
  ASSUME RecordInv, NEW w \in Slots, RunJob(w)
  PROVE  RecordInv'
<1> USE JobsAssumption
<1> DEFINE m == task[w].job
<1>0. Shapes /\ Shapes' /\ TaskStep(w)
  <2>1. Next
    BY DEF Next
  <2> QED
    BY <2>1, ShapesStep, TaskSteps DEF RecordInv
<1>1. m \in Jobs /\ sub' = sub
  BY <1>0 DEF TaskStep
<1>2. InWork(m)
  BY <1>1, WorkPlaces DEF Active
<1>3. /\ \A j \in Jobs \ {m} : record'[j] = record[j] /\ artifact'[j] = artifact[j]
      /\ record'[m] \in {record[m], "running", "done", "failed"}
      /\ artifact'[m] \in {artifact[m], "complete"}
  BY <1>0, <1>1 DEF TaskStep, Written, Shapes
<1>4. \A j \in Jobs : record'[j] # "none" \/ (record[j] = "none" /\ j # m)
  BY <1>2, <1>3 DEF RecordInv
<1>5. \A j \in Jobs : artifact[j] = "complete" => artifact'[j] = "complete"
  BY <1>3
<1>6. \A j \in Jobs : InWork(j)' => record'[j] # "none"
  BY <1>0, <1>4, TaskMoves DEF RecordInv
<1>7. \A j \in Jobs : record'[j] = "done" => artifact'[j] = "complete"
  <2>1. record'[m] = "done" => record[m] = "done" \/ task[w].phase = "done"
    BY <1>0 DEF TaskStep
  <2>2. record'[m] = "done" => artifact[m] = "complete"
    BY <1>1, <2>1 DEF RecordInv
  <2> QED
    BY <1>1, <1>3, <1>5, <2>2 DEF RecordInv
<1>8. \A s \in Submissions : sub'[s] = "stored" => record'[JobOf[s]] # "none"
  BY <1>1, <1>4 DEF RecordInv
<1>9. ASSUME NEW v \in Slots, task'[v].phase = "done"
      PROVE  artifact'[task'[v].job] = "complete"
  <2>1. CASE v = w
    BY <1>0, <1>9, <2>1 DEF TaskStep, Free
  <2>2. CASE v # w
    <3>1. task'[v] = task[v]
      BY <1>0, <2>2 DEF TaskStep
    <3>2. artifact[task[v].job] = "complete" /\ task[v].job \in Jobs
      BY <1>0, <1>9, <3>1 DEF RecordInv, Shapes, Free
    <3> QED
      BY <1>5, <3>1, <3>2
  <2> QED
    BY <2>1, <2>2
<1> QED
  BY <1>0, <1>6, <1>7, <1>8, <1>9 DEF RecordInv

LEMMA RecordsStep ==
  ASSUME RecordInv, [Next]_vars
  PROVE  RecordInv'
<1> USE JobsAssumption
<1>0. Shapes /\ Shapes'
  BY ShapesStep DEF RecordInv
<1>1. CASE \E s \in Submissions : Submit(s)
  BY <1>1, RecordsSubmit
<1>2. CASE Take
  <2>1. UNCHANGED <<record, artifact, sub, task>>
    BY <1>2 DEF Take
  <2>2. \A j \in Jobs : InWork(j)' => InWork(j)
    BY <1>0, <1>2, TakeMoves
  <2> QED
    BY <1>0, <2>1, <2>2 DEF RecordInv
<1>3. CASE \E w \in Slots : Start(w)
  <2>1. PICK w \in Slots : Start(w)
    BY <1>3
  <2>2. UNCHANGED <<record, artifact, sub>>
    BY <2>1 DEF Start
  <2>3. \A j \in Jobs : InWork(j)' => InWork(j)
    BY <1>0, <2>1, StartMoves
  <2>4. \A v \in Slots : task'[v].phase = "done" => task'[v] = task[v]
    BY <1>0, <2>1 DEF Start, Shapes
  <2> QED
    BY <1>0, <2>2, <2>3, <2>4 DEF RecordInv
<1>4. CASE \E w \in Slots : RunJob(w)
  BY <1>4, RecordsTask
<1>5. CASE Shutdown \/ Terminated \/ UNCHANGED vars
  <2>1. UNCHANGED <<record, artifact, sub, queue, held, task>>
    BY <1>5 DEF Shutdown, Terminated, process, vars
  <2>2. \A j \in Jobs : InWork(j)' = InWork(j)
    BY <2>1 DEF InWork, InQueue, Tasks
  <2> QED
    BY <1>0, <2>1, <2>2 DEF RecordInv
<1>6. CASE Restart
  <2>1. /\ UNCHANGED <<record, artifact>>
        /\ queue' = <<>> /\ held' = None /\ task' = [w \in Slots |-> Free]
        /\ sub' = [s \in Submissions |-> IF Open(s) THEN "refused" ELSE sub[s]]
    BY <1>6 DEF Restart
  <2>2. \A j \in Jobs : ~InWork(j)'
    BY <2>1, WorkPlacesNext DEF Queued, Active, Free
  <2>3. \A s \in Submissions : sub'[s] # "stored"
    BY <2>1 DEF Open
  <2>4. \A w \in Slots : task'[w].phase # "done"
    BY <2>1 DEF Free
  <2> QED
    BY <1>0, <2>1, <2>2, <2>3, <2>4 DEF RecordInv
<1>7. CASE \E j \in Jobs : Expire(j)
  <2>1. PICK k \in Jobs : Expire(k)
    BY <1>7
  <2>2. /\ UNCHANGED <<artifact, sub, queue, held, task>>
        /\ record' = [record EXCEPT ![k] = "none"]
        /\ ~InWork(k) /\ ~\E s \in Submissions : JobOf[s] = k /\ sub[s] = "stored"
    BY <2>1 DEF Expire, Written, process
  <2>3. \A j \in Jobs : InWork(j)' = InWork(j)
    BY <2>2 DEF InWork, InQueue, Tasks
  <2>4. record'[k] = "none" /\ \A j \in Jobs \ {k} : record'[j] = record[j]
    BY <1>0, <2>2 DEF Shapes
  <2> QED
    BY <1>0, <2>2, <2>3, <2>4 DEF RecordInv
<1> QED
  BY <1>1, <1>2, <1>3, <1>4, <1>5, <1>6, <1>7 DEF Next

\* Whatever runs, fails, expires or restarts: work has a record, and a record that says
\* done has the whole artifact (worker.rs:90-92, 196-201; submit.rs:129-131).
THEOREM RecordsTheorem == Spec => []RecordsAreTrue
<1>1. Init => RecordInv
  <2> SUFFICES ASSUME Init PROVE RecordInv
    OBVIOUS
  <2>1. \A j \in Jobs : ~InWork(j)
    BY JobsAssumption DEF Init, InWork, InQueue, Tasks, Free
  <2> QED
    BY <2>1, ShapesStart DEF Init, RecordInv, Free
<1>2. RecordInv /\ [Next]_vars => RecordInv'
  BY RecordsStep
<1>3. RecordInv => RecordsAreTrue
  BY DEF RecordInv, RecordsAreTrue
<1> QED
  BY <1>1, <1>2, <1>3, PTL DEF Spec

-----------------------------------------------------------------------------
(* Deduplication.                                                          *)

\* A job whose submissions never overlapped has one open submission or one place of work,
\* and its record says which.
Alone(j) ==
    /\ \A s, t \in Submissions : Open(s) /\ Open(t) /\ JobOf[s] = j /\ JobOf[t] = j => s = t
    /\ \A s \in Submissions :
          Open(s) /\ JobOf[s] = j =>
            /\ ~InWork(j)
            /\ sub[s] = "stored" => record[j] = "queued"
            /\ sub[s] # "stored" => record[j] \in {"none", "failed"}
    /\ InWork(j) => record[j] \in {"queued", "running"}
    /\ Once(j)

\* What a step may do to the record of a finished job.
Kept(j) == record[j] = "done" => record'[j] \in {"done", "none"}

LEMMA AloneSubmit ==
  ASSUME Shapes, NEW s \in Submissions, Submit(s), NEW j \in Jobs \ raced', Alone(j)
  PROVE  Alone(j)' /\ Kept(j)
<1> USE JobsAssumption
<1>0. JobOf[s] \in Jobs /\ \A t \in Submissions : JobOf[t] \in Jobs
  OBVIOUS
<1>1. CASE JobOf[s] # j
  <2>1. record'[j] = record[j] /\ \A t \in Submissions : JobOf[t] = j => sub'[t] = sub[t]
    BY <1>0, <1>1 DEF Submit, Check, Refuse, Reserve, Store, StoreFails, Send, Leave, Goes,
                      Written, MaybeWritten, Shapes
  <2>2. (InWork(j)' => InWork(j)) /\ Once(j)'
    BY <1>1, SubmitMoves DEF Alone
  <2>3. \A t \in Submissions : JobOf[t] = j => (Open(t)' <=> Open(t))
    BY <2>1 DEF Open
  <2> QED
    BY <2>1, <2>2, <2>3 DEF Alone, Kept
<1>2. CASE JobOf[s] = j /\ Check(s)
  <2>1. /\ record' = record /\ sub[s] = "new"
        /\ \A t \in Submissions \ {s} : sub'[t] = sub[t]
        /\ sub'[s] = (IF ShortCircuits(j) THEN "known" ELSE "checked")
    BY <1>2 DEF Check, Goes, Shapes
  <2>2. ~ShortCircuits(j) => \A t \in Submissions : JobOf[t] = j => ~Open(t)
    BY <1>2 DEF Check
  <2>3. ~ShortCircuits(j) => record[j] \in {"none", "failed"} /\ ~InWork(j)
    BY DEF ShortCircuits, Alone
  <2>4. (InWork(j)' => InWork(j)) /\ Once(j)'
    <3>1. ~Send(s)
      BY <2>1 DEF Send
    <3> QED
      BY <3>1, SubmitMoves DEF Alone
  <2>5. \A t \in Submissions \ {s} : Open(t)' <=> Open(t)
    BY <2>1 DEF Open
  <2>6. Open(s)' <=> ~ShortCircuits(j)
    BY <2>1 DEF Open
  <2>7. CASE ShortCircuits(j)
    BY <2>1, <2>4, <2>5, <2>6, <2>7 DEF Alone, Kept
  <2>8. CASE ~ShortCircuits(j)
    BY <1>2, <2>1, <2>2, <2>3, <2>4, <2>5, <2>6, <2>8 DEF Alone, Kept
  <2> QED
    BY <2>7, <2>8
<1>3. CASE JobOf[s] = j /\ ~Check(s) /\ ~Open(s)
  <2>1. Refuse(s)
    BY <1>3 DEF Submit, Reserve, Store, StoreFails, Send, Leave, Open
  <2>2. record' = record /\ ~Send(s) /\ (\A t \in Submissions \ {s} : sub'[t] = sub[t]) /\ sub'[s] = "refused"
    BY <1>3, <2>1 DEF Refuse, Send, Goes, Open, Shapes
  <2>3. \A t \in Submissions : Open(t)' <=> Open(t)
    BY <1>3, <2>2 DEF Open
  <2>4. (InWork(j)' => InWork(j)) /\ Once(j)'
    BY <2>2, SubmitMoves DEF Alone
  <2> QED
    BY <1>3, <2>2, <2>3, <2>4 DEF Alone, Kept
<1>4. CASE JobOf[s] = j /\ Open(s)
  <2>0. /\ ~InWork(j)
        /\ record[j] \in {"queued", "none", "failed"}
        /\ \A t \in Submissions \ {s} : JobOf[t] = j => ~Open(t)
        /\ sub[s] = "stored" => record[j] = "queued"
        /\ sub[s] # "stored" => record[j] \in {"none", "failed"}
    BY <1>4 DEF Alone
  <2>1. \A t \in Submissions \ {s} : sub'[t] = sub[t]
    BY DEF Submit, Check, Refuse, Reserve, Store, StoreFails, Send, Leave, Goes, Shapes
  <2>2. \A t \in Submissions \ {s} : JobOf[t] = j => ~Open(t)'
    BY <2>0, <2>1 DEF Open
  <2>3. Once(j)'
    BY <2>0, SubmitMoves DEF Alone
  <2>4. CASE Send(s)
    <3>1. sub[s] = "stored" /\ sub'[s] = "accepted" /\ record' = record
      BY <2>4 DEF Send, Goes, Shapes
    <3>2. ~Open(s)'
      BY <3>1 DEF Open
    <3> QED
      BY <1>4, <2>0, <2>2, <2>3, <3>1, <3>2 DEF Alone, Kept
  <2>5. CASE ~Send(s)
    <3>1. ~InWork(j)'
      BY <2>0, <2>5, SubmitMoves
    <3>2. \/ sub'[s] \in {"refused"}
          \/ sub'[s] = "reserved" /\ record' = record /\ sub[s] = "checked"
          \/ sub'[s] = "stored" /\ record'[j] = "queued"
      BY <1>4, <2>5 DEF Submit, Check, Refuse, Reserve, Store, StoreFails, Leave, Goes, Shapes, Open, Written
    <3>3. record'[j] \in {record[j], "queued"}
      BY <1>4 DEF Submit, Check, Refuse, Reserve, Store, StoreFails, Send, Leave, Written, MaybeWritten, Shapes
    <3>4. Open(s)' => sub'[s] \in {"reserved", "stored"}
      BY <3>2 DEF Open
    <3> QED
      BY <1>4, <2>0, <2>2, <2>3, <3>1, <3>2, <3>3, <3>4 DEF Alone, Kept
  <2> QED
    BY <2>4, <2>5
<1> QED
  BY <1>1, <1>2, <1>3, <1>4

LEMMA AloneTask ==
  ASSUME Shapes, NEW w \in Slots, RunJob(w), NEW j \in Jobs, Alone(j)
  PROVE  Alone(j)' /\ Kept(j)
<1> USE JobsAssumption
<1>0. TaskStep(w)
  BY TaskSteps
<1>1. sub' = sub /\ \A s \in Submissions : Open(s)' = Open(s)
  BY <1>0 DEF TaskStep, Open
<1>2. (InWork(j)' => InWork(j)) /\ Once(j)'
  BY <1>0, TaskMoves DEF Alone
<1>3. CASE task[w].job # j
  <2>1. record'[j] = record[j]
    BY <1>0, <1>3 DEF TaskStep, Written, Shapes
  <2> QED
    BY <1>1, <1>2, <2>1 DEF Alone, Kept
<1>4. CASE task[w].job = j
  <2>1. InWork(j)
    BY <1>4, WorkPlaces DEF Active
  <2>2. record[j] \in {"queued", "running"} /\ \A s \in Submissions : JobOf[s] = j => ~Open(s)
    BY <2>1 DEF Alone
  <2>3. InWork(j)' => record'[j] \in {"queued", "running"}
    <3>1. CASE task'[w] = Free
      BY <1>0, <1>4, <3>1, TaskMoves DEF Alone
    <3>2. CASE task'[w] # Free
      <4>1. ~Finish(w) /\ ~FinishFails(w) /\ ~MarkRunningFails(w)
        BY <3>2, EndsShape DEF Finish, FinishFails, MarkRunningFails, Phases
      <4>2. MarkRunning(w) \/ record' = record
        BY <4>1 DEF RunJob, Download, Stream, ChunksEnd, Commit, ProcessFails
      <4>3. MarkRunning(w) => record'[j] = "running"
        BY <1>4 DEF MarkRunning, Written, Shapes
      <4> QED
        BY <2>2, <4>2, <4>3
    <3> QED
      BY <3>1, <3>2
  <2> QED
    BY <1>1, <1>2, <2>2, <2>3 DEF Alone, Kept
<1> QED
  BY <1>3, <1>4

LEMMA RacedGrows ==
  ASSUME [Next]_vars PROVE raced \subseteq raced'
BY DEF Next, Submit, Check, Refuse, Reserve, Store, StoreFails, Send, Leave, Take, Start, RunJob,
       MarkRunning, MarkRunningFails, Download, Stream, ChunksEnd, Commit, ProcessFails, Finish,
       FinishFails, OnlyTask, Shutdown, Restart, Expire, Terminated, vars

LEMMA AloneStep ==
  ASSUME Shapes, [Next]_vars, NEW j \in Jobs \ raced', j \notin raced => Alone(j)
  PROVE  Alone(j)' /\ Kept(j)
<1> USE JobsAssumption
<1>0. j \notin raced
  BY RacedGrows
<1>1. Alone(j)
  BY <1>0
<1>2. CASE \E s \in Submissions : Submit(s)
  BY <1>1, <1>2, AloneSubmit
<1>3. CASE Take
  <2>1. UNCHANGED <<record, sub>>
    BY <1>3 DEF Take
  <2>2. (InWork(j)' => InWork(j)) /\ Once(j)'
    BY <1>1, <1>3, TakeMoves DEF Alone
  <2>3. \A s \in Submissions : Open(s)' = Open(s)
    BY <2>1 DEF Open
  <2> QED
    BY <1>1, <2>1, <2>2, <2>3 DEF Alone, Kept
<1>4. CASE \E w \in Slots : Start(w)
  <2>0. PICK w \in Slots : Start(w)
    BY <1>4
  <2>1. UNCHANGED <<record, sub>>
    BY <2>0 DEF Start
  <2>2. (InWork(j)' => InWork(j)) /\ Once(j)'
    BY <1>1, <2>0, StartMoves DEF Alone
  <2>3. \A s \in Submissions : Open(s)' = Open(s)
    BY <2>1 DEF Open
  <2> QED
    BY <1>1, <2>1, <2>2, <2>3 DEF Alone, Kept
<1>5. CASE \E w \in Slots : RunJob(w)
  BY <1>1, <1>5, AloneTask
<1>6. CASE Shutdown \/ Terminated \/ UNCHANGED vars
  <2>1. UNCHANGED <<record, sub, queue, held, task>>
    BY <1>6 DEF Shutdown, Terminated, process, vars
  <2>2. InWork(j)' = InWork(j) /\ Once(j)' = Once(j) /\ \A s \in Submissions : Open(s)' = Open(s)
    BY <2>1 DEF InWork, InQueue, Tasks, Once, Queued, Active, Open
  <2> QED
    BY <1>1, <2>1, <2>2 DEF Alone, Kept
<1>7. CASE Restart
  <2>1. /\ record' = record
        /\ queue' = <<>> /\ held' = None /\ task' = [w \in Slots |-> Free]
        /\ sub' = [s \in Submissions |-> IF Open(s) THEN "refused" ELSE sub[s]]
    BY <1>7 DEF Restart
  <2>2. ~Queued(j)' /\ ~Active(j)' /\ held' # j /\ DOMAIN queue' = {} /\ \A w \in Slots : task'[w].job # j
    BY <2>1 DEF Queued, Active, Free
  <2>3. ~InWork(j)' /\ Once(j)'
    BY <2>2, WorkPlacesNext DEF Once
  <2>4. \A s \in Submissions : ~Open(s)'
    BY <2>1 DEF Open
  <2> QED
    BY <2>1, <2>3, <2>4 DEF Alone, Kept
<1>8. CASE \E k \in Jobs : Expire(k)
  <2>0. PICK k \in Jobs : Expire(k)
    BY <1>8
  <2>1. /\ UNCHANGED <<sub, queue, held, task>>
        /\ record' = [record EXCEPT ![k] = "none"]
        /\ ~InWork(k) /\ ~\E s \in Submissions : JobOf[s] = k /\ sub[s] = "stored"
    BY <2>0 DEF Expire, Written, process
  <2>2. InWork(j)' = InWork(j) /\ Once(j)' = Once(j) /\ \A s \in Submissions : Open(s)' = Open(s)
    BY <2>1 DEF InWork, InQueue, Tasks, Once, Queued, Active, Open
  <2>3. CASE j # k
    <3>1. record'[j] = record[j]
      BY <2>1, <2>3 DEF Shapes
    <3> QED
      BY <1>1, <2>1, <2>2, <3>1 DEF Alone, Kept
  <2>4. CASE j = k
    <3>1. record'[j] = "none"
      BY <2>1, <2>4 DEF Shapes
    <3> QED
      BY <1>1, <2>1, <2>2, <2>4, <3>1 DEF Alone, Kept
  <2> QED
    BY <2>3, <2>4
<1> QED
  BY <1>2, <1>3, <1>4, <1>5, <1>6, <1>7, <1>8 DEF Next

\* A job that is nowhere twice runs at most once.
LEMMA OnceRuns ==
  ASSUME NEW j \in Jobs, Once(j)
  PROVE  Runs(j) <= 1
<1>1. CASE ~Queued(j) /\ ~Active(j)
  <2>1. InQueue(j) = {} /\ Tasks(j) = {}
    BY <1>1 DEF Queued, Active, InQueue, Tasks
  <2> QED
    BY <2>1, FS_EmptySet DEF Runs
<1>2. CASE Queued(j)
  <2>1. Tasks(j) = {} /\ held # j
    BY <1>2 DEF Once, Active, Tasks
  <2>4. Cardinality(Tasks(j)) = 0
    BY <2>1, FS_EmptySet
  <2>2. PICK i \in DOMAIN queue : queue[i] = j
    BY <1>2 DEF Queued
  <2>3. InQueue(j) = {i}
    BY <2>2 DEF InQueue, Once
  <2>5. Cardinality(InQueue(j)) = 1
    BY <2>3, FS_Singleton
  <2> QED
    BY <2>1, <2>4, <2>5 DEF Runs
<1>3. CASE Active(j)
  <2>1. InQueue(j) = {} /\ held # j
    BY <1>3 DEF Once, Queued, InQueue
  <2>4. Cardinality(InQueue(j)) = 0
    BY <2>1, FS_EmptySet
  <2>2. PICK w \in Slots : task[w].job = j
    BY <1>3 DEF Active
  <2>3. Tasks(j) = {w}
    BY <2>2 DEF Tasks, Once
  <2>5. Cardinality(Tasks(j)) = 1
    BY <2>3, FS_Singleton
  <2> QED
    BY <2>1, <2>4, <2>5 DEF Runs
<1> QED
  BY <1>1, <1>2, <1>3

DedupInv == Shapes /\ \A j \in Jobs \ raced : Alone(j)

\* Submissions of a job that do not overlap are deduplicated: one run, and the record of a
\* finished job only expires (submit.rs:93-103, status.rs:64-65).
THEOREM DeduplicatedTheorem == Spec => Deduplicated
<1>1. Init => DedupInv
  <2> SUFFICES ASSUME Init PROVE DedupInv
    OBVIOUS
  <2>1. \A j \in Jobs : ~Queued(j) /\ ~Active(j) /\ held # j
    BY JobsAssumption DEF Init, Queued, Active, Free
  <2>2. \A j \in Jobs : ~InWork(j)
    BY <2>1, WorkPlaces
  <2>3. \A j \in Jobs : Once(j)
    <3> TAKE j \in Jobs
    <3>1. \A w \in Slots : task[w].job # j
      BY <2>1 DEF Active
    <3>2. DOMAIN queue = {}
      BY DEF Init
    <3> QED
      BY <2>1, <3>1, <3>2 DEF Once
  <2>4. \A s \in Submissions : ~Open(s)
    BY DEF Init, Open
  <2> QED
    BY <2>2, <2>3, <2>4, ShapesStart DEF DedupInv, Alone
<1>2. DedupInv /\ [Next]_vars => DedupInv' /\ (\A j \in Jobs \ raced' : Kept(j))
  <2> SUFFICES ASSUME DedupInv, [Next]_vars PROVE DedupInv' /\ (\A j \in Jobs \ raced' : Kept(j))
    OBVIOUS
  <2>1. \A j \in Jobs \ raced' : Alone(j)' /\ Kept(j)
    BY AloneStep DEF DedupInv
  <2> QED
    BY <2>1, ShapesStep DEF DedupInv
<1>3. \A j \in Jobs : Once(j) => Runs(j) <= 1
  BY OnceRuns
<1>5. (\A j \in Jobs : Once(j) => Runs(j) <= 1)'
  BY <1>3, PTL
<1>4. DedupInv /\ [Next]_vars => [NeitherTwiceNorUndone]_vars
  <2> SUFFICES ASSUME DedupInv, [Next]_vars, NEW j \in Jobs \ raced'
               PROVE  Runs(j)' <= 1 /\ (record[j] = "done" => record'[j] \in {"done", "none"})
    BY DEF NeitherTwiceNorUndone
  <2>1. Once(j)' /\ Kept(j)
    BY <1>2 DEF DedupInv, Alone
  <2>2. Runs(j)' <= 1
    BY <1>5, <2>1
  <2> QED
    BY <2>1, <2>2 DEF Kept
<1> QED
  BY <1>1, <1>2, <1>4, PTL DEF Spec, Deduplicated
=============================================================================
