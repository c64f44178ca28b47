------------------------- MODULE IngestWorkerProofs -------------------------
(***************************************************************************)
(* Theorems about IngestWorker for every set of objects and inserters,     *)
(* every batch size and any number of restarts.                            *)
(***************************************************************************)
EXTENDS IngestWorker, TLAPS, SequenceTheorems, FiniteSetTheorems

\* A restarted process queues its inserters for the mutex in some order.
LEMMA StartOrdersAreSequences == StartOrders \subseteq Seq(Inserters)
<1>1. Cardinality(Inserters) \in Nat
  BY IngestAssumption, FS_CardinalityType
<1> QED
  BY <1>1 DEF StartOrders

\* ChanCap leaves room for an item.
LEMMA ChanCapIsPositive == ChanCap \in Nat \ {0}
BY IngestAssumption DEF ChanCap

\* Dropping the receive future removes the inserter from the queue of the mutex.
LEMMA LeaveQueueIsSequence ==
    ASSUME NEW q \in Seq(Inserters), NEW n \in DOMAIN q
    PROVE  SubSeq(q, 1, n - 1) \o SubSeq(q, n + 1, Len(q)) \in Seq(Inserters)
<1>1. n \in 1..Len(q)
  BY LenProperties
<1>2. SubSeq(q, 1, n - 1) \in Seq(Inserters)
  BY <1>1, SubSeqProperties
<1>3. SubSeq(q, n + 1, Len(q)) \in Seq(Inserters)
  BY <1>1, SubSeqProperties
<1> QED
  BY <1>2, <1>3, ConcatProperties

\* The producer's steps keep the types.
LEMMA ProducerType == TypeOK /\ Producer => TypeOK'
<1> SUFFICES ASSUME TypeOK, Producer PROVE TypeOK'
  OBVIOUS
<1> USE DEF TypeOK, durable, producerVars, inserterVars, TaskStates, InserterStates, Prefixes
<1>1. CASE ListIngestObjects
  BY <1>1 DEF ListIngestObjects, IngestObjects
<1>2. CASE ClaimNewKeys
  BY <1>2 DEF ClaimNewKeys, NewKeys
<1>3. CASE RoundDone
  BY <1>3 DEF RoundDone
<1>4. ASSUME NEW k \in Keys, StartTask(k) PROVE TypeOK'
  BY <1>4 DEF StartTask
<1>5. ASSUME NEW k \in Keys, FetchMissing(k) PROVE TypeOK'
  BY <1>5 DEF FetchMissing, ReleaseTask
<1>6. ASSUME NEW k \in Keys, FetchAndParse(k) PROVE TypeOK'
  BY <1>6 DEF FetchAndParse, Parses
<1>7. ASSUME NEW k \in Keys, RejectCopy(k) PROVE TypeOK'
  BY <1>7 DEF RejectCopy
<1>8. ASSUME NEW k \in Keys, RejectDelete(k) PROVE TypeOK'
  BY <1>8 DEF RejectDelete, ReleaseTask
<1>9. ASSUME NEW k \in Keys, Send(k) PROVE TypeOK'
  <2>1. chan' \in Seq(Keys) /\ Len(chan') = Len(chan) + 1
    BY <1>9, AppendProperties DEF Send
  <2> QED
    BY <1>9, <2>1, ChanCapIsPositive, LenProperties DEF Send
<1>10. ASSUME NEW k \in Keys, TaskFails(k) PROVE TypeOK'
  BY <1>10 DEF TaskFails, ReleaseTask
<1> QED
  BY <1>1, <1>2, <1>3, <1>4, <1>5, <1>6, <1>7, <1>8, <1>9, <1>10 DEF Producer

\* Taking the first item of the channel.
LEMMA TakeItem ==
    ASSUME TypeOK, chan # <<>>, chan' = Tail(chan)
    PROVE  Head(chan) \in Keys /\ chan' \in Seq(Keys) /\ Len(chan') <= ChanCap
BY HeadTailProperties, LenProperties, ChanCapIsPositive DEF TypeOK

\* So do the inserters' steps.
LEMMA InserterType ==
    ASSUME TypeOK, NEW i \in Inserters, Inserter(i)
    PROVE  TypeOK'
<1> USE DEF TypeOK, durable, producerVars, inserterVars, TaskStates, InserterStates, Prefixes
<1>0. Holds(i) => Tail(rxQueue) \in Seq(Inserters)
  BY HeadTailProperties DEF Holds
<1>a. \A q \in Seq(Inserters) : Append(q, i) \in Seq(Inserters)
  BY AppendProperties
<1>1. CASE Recv(i)
  BY <1>0, <1>1, <1>a, TakeItem DEF Recv
<1>2. CASE DrainItem(i)
  BY <1>2, TakeItem DEF DrainItem
<1>3. CASE DrainDone(i)
  BY <1>0, <1>3, <1>a DEF DrainDone
<1>4. CASE FlushTick(i)
  <2>1. rxQueue' \in Seq(Inserters)
    BY <1>4, LeaveQueueIsSequence DEF FlushTick
  <2> QED
    BY <1>4, <2>1 DEF FlushTick
<1>5. CASE WriteOk(i)
  BY <1>5, IngestAssumption DEF WriteOk, CommitBatch
<1>6. CASE WriteFails(i)
  BY <1>6, IngestAssumption DEF WriteFails, PartialWrite, RetriesLeft
<1>7. CASE WriteGivesUp(i)
  BY <1>7, <1>a, IngestAssumption DEF WriteGivesUp, PartialWrite, DropBatch
<1>8. CASE FlushDone(i)
  BY <1>8, <1>a DEF FlushDone
<1>9. ASSUME NEW k \in Keys, MoveCopy(i, k) PROVE TypeOK'
  BY <1>9 DEF MoveCopy
<1>10. ASSUME NEW k \in Keys, MoveDelete(i, k) PROVE TypeOK'
  BY <1>10 DEF MoveDelete, FinishMove
<1>11. ASSUME NEW k \in Keys, MoveFails(i, k) PROVE TypeOK'
  BY <1>11 DEF MoveFails, FinishMove
<1> QED
  BY <1>1, <1>2, <1>3, <1>4, <1>5, <1>6, <1>7, <1>8, <1>9, <1>10, <1>11 DEF Inserter

\* Every reachable state of the worker is well typed; in particular the channel
\* never exceeds its capacity and no flush exceeds its retries.
THEOREM TypeCorrect == Spec => []TypeOK
<1>1. Init => TypeOK
  <2> SUFFICES ASSUME Init PROVE TypeOK
    OBVIOUS
  <2>1. rxQueue \in Seq(Inserters)
    BY StartOrdersAreSequences DEF Init
  <2>2. chan \in Seq(Keys) /\ Len(chan) <= ChanCap
    BY ChanCapIsPositive DEF Init
  <2> QED
    BY <2>1, <2>2, IngestAssumption DEF Init, TypeOK, TaskStates, InserterStates, Prefixes
<1>2. TypeOK /\ [Next]_vars => TypeOK'
  <2> SUFFICES ASSUME TypeOK, [Next]_vars PROVE TypeOK'
    OBVIOUS
  <2>1. CASE Producer
    BY <2>1, ProducerType
  <2>2. ASSUME NEW i \in Inserters, Inserter(i) PROVE TypeOK'
    BY <2>2, InserterType
  <2>3. ASSUME NEW k \in Keys, Upload(k) PROVE TypeOK'
    BY <2>3 DEF Upload, TypeOK, producerVars, inserterVars, Prefixes
  <2>4. CASE Crash
    <3>1. rxQueue' \in Seq(Inserters)
      BY <2>4, StartOrdersAreSequences DEF Crash
    <3>2. chan' \in Seq(Keys) /\ Len(chan') <= ChanCap
      BY <2>4, ChanCapIsPositive DEF Crash
    <3> QED
      BY <2>4, <3>1, <3>2, IngestAssumption
         DEF Crash, TypeOK, durable, TaskStates, InserterStates
  <2>5. CASE UNCHANGED vars
    BY <2>5 DEF vars, TypeOK, durable, producerVars, inserterVars
  <2> QED
    BY <2>1, <2>2, <2>3, <2>4, <2>5 DEF Next
<1> QED
  BY <1>1, <1>2, PTL DEF Spec

-----------------------------------------------------------------------------
(* The inductive invariant: custody of every key, and what each holder      *)
(* knows of the object it holds.                                            *)

\* Only an inserter that is filing has objects to file, and their rows are in.
MovingIsStored ==
    \A i \in Inserters :
        /\ moving[i] \subseteq matchPlayer \cap history
        /\ ins[i] # "move" => moving[i] = {}

\* An unparseable object goes one way, a match the other.
KindsApart ==
    /\ \A k \in Keys :
          /\ task[k] = "rejecting" => k \in Unparseable
          /\ task[k] = "sending" => k \notin Unparseable
          /\ "failed" \in loc[k] => k \in Unparseable
    /\ Queued \cap Unparseable = {}
    /\ \A i \in Inserters : (batch[i] \cup moving[i]) \cap Unparseable = {}
    /\ matchPlayer \cap Unparseable = {}

\* InflightIsHeld and FetchedIsUnfiled, key by key.
HasInserter(k) == \E i \in Inserters : k \in batch[i] \/ k \in moving[i]

HeldPointwise ==
    \A k \in Keys : k \in inflight <=> task[k] # "none" \/ k \in Queued \/ HasInserter(k)

UnfiledPointwise ==
    \A k \in Keys :
        task[k] \in {"rejecting", "sending"} \/ k \in Queued \/ HasInserter(k)
            => "ingest" \in loc[k]

Custody == OneHolder /\ HeldPointwise /\ UnfiledPointwise

IInv == TypeOK /\ Custody /\ MovingIsStored /\ FiledOnlyWhenStored /\ KindsApart

\* Sending k down the channel adds k to its contents, which stay distinct.
LEMMA QueuedAfterSend ==
    ASSUME TypeOK, NEW k \in Keys, k \notin Queued, chan' = Append(chan, k),
           \A m, n \in DOMAIN chan : chan[m] = chan[n] => m = n
    PROVE  /\ Queued' = Queued \cup {k}
           /\ \A m, n \in DOMAIN chan' : chan'[m] = chan'[n] => m = n
<1>1. chan \in Seq(Keys) /\ DOMAIN chan = 1..Len(chan) /\ Len(chan) \in Nat
  BY LenProperties DEF TypeOK
<1>2. /\ DOMAIN chan' = 1..(Len(chan) + 1)
      /\ \A n \in 1..Len(chan) : chan'[n] = chan[n]
      /\ chan'[Len(chan) + 1] = k
  BY <1>1, AppendProperties, LenProperties
<1> QED
  BY <1>1, <1>2 DEF Queued

\* Receiving takes the first item, and nothing else, out of the channel.
LEMMA QueuedAfterTake ==
    ASSUME TypeOK, chan # <<>>, chan' = Tail(chan),
           \A m, n \in DOMAIN chan : chan[m] = chan[n] => m = n
    PROVE  /\ Head(chan) \in Queued
           /\ Queued' = Queued \ {Head(chan)}
           /\ \A m, n \in DOMAIN chan' : chan'[m] = chan'[n] => m = n
<1>1. chan \in Seq(Keys) /\ DOMAIN chan = 1..Len(chan) /\ Len(chan) \in Nat \ {0}
  BY LenProperties, EmptySeq DEF TypeOK
<1>2. /\ DOMAIN chan' = 1..(Len(chan) - 1)
      /\ \A n \in 1..(Len(chan) - 1) : chan'[n] = chan[n + 1]
      /\ Head(chan) = chan[1]
  BY <1>1, HeadTailProperties, LenProperties
<1>3. \A m \in 2..Len(chan) : m - 1 \in 1..(Len(chan) - 1) /\ chan'[m - 1] = chan[m]
  BY <1>1, <1>2
<1>4. Queued' \subseteq Queued \ {Head(chan)}
  BY <1>1, <1>2 DEF Queued
<1>5. Queued \ {Head(chan)} \subseteq Queued'
  <2> SUFFICES ASSUME NEW m \in DOMAIN chan, chan[m] # Head(chan)
               PROVE  chan[m] \in Queued'
    BY DEF Queued
  <2>1. m \in 2..Len(chan)
    BY <1>1, <1>2
  <2> QED
    BY <1>2, <1>3, <2>1 DEF Queued
<1> QED
  BY <1>1, <1>2, <1>4, <1>5 DEF Queued

\* The pointwise forms say what InflightIsHeld and FetchedIsUnfiled say.
LEMMA CustodyImplies == TypeOK /\ Custody => InflightIsHeld /\ FetchedIsUnfiled
<1> SUFFICES ASSUME TypeOK, Custody PROVE InflightIsHeld /\ FetchedIsUnfiled
  OBVIOUS
<1>1. Queued \subseteq Keys
  BY ElementOfSeq, LenProperties DEF TypeOK, Queued
<1>2. \A k : k \in UNION {batch[i] \cup moving[i] : i \in Inserters} <=> HasInserter(k)
  BY DEF HasInserter
<1>3. \A k : HasInserter(k) => k \in Keys
  BY DEF HasInserter, TypeOK
<1>4. InflightIsHeld
  <2>1. inflight \subseteq Keys /\ Held \subseteq Keys
    BY <1>1, <1>2, <1>3 DEF TypeOK, Held
  <2>2. ASSUME NEW k \in Keys PROVE k \in inflight <=> k \in Held
    BY <1>2 DEF Custody, HeldPointwise, Held
  <2> QED
    BY <2>1, <2>2 DEF InflightIsHeld
<1>5. FetchedIsUnfiled
  <2> SUFFICES ASSUME NEW k \in Fetched PROVE "ingest" \in loc[k]
    BY DEF FetchedIsUnfiled
  <2>1. k \in Keys
    BY <1>1, <1>2, <1>3 DEF Fetched
  <2> QED
    BY <1>2, <2>1 DEF Custody, UnfiledPointwise, Fetched
<1> QED
  BY <1>4, <1>5

\* A step that touches neither the holders nor the store keeps the custody.
LEMMA CustodyUnchanged ==
    ASSUME IInv, UNCHANGED <<durable, inflight, task, chan, ins, batch, moving>>
    PROVE  /\ Custody' /\ MovingIsStored' /\ FiledOnlyWhenStored' /\ KindsApart'
BY DEF IInv, Custody, OneHolder, HeldPointwise, UnfiledPointwise, HasInserter, Queued,
       MovingIsStored, FiledOnlyWhenStored, KindsApart, durable

\* What a step must re-establish besides the types.
Safe == Custody /\ MovingIsStored /\ FiledOnlyWhenStored /\ KindsApart

\* The producer's steps keep the invariant.
LEMMA ProducerSafe == IInv /\ Producer => Safe'
<1> SUFFICES ASSUME IInv, Producer PROVE Safe'
  OBVIOUS
<1> USE DEF IInv, Safe
<1>a. ASSUME UNCHANGED <<chan, inserterVars>>
      PROVE  Queued' = Queued /\ \A k : HasInserter(k)' <=> HasInserter(k)
  BY <1>a DEF Queued, HasInserter, inserterVars
<1>1. CASE ListIngestObjects \/ RoundDone
  <2>1. UNCHANGED <<durable, inflight, task, chan, ins, batch, moving>>
    BY <1>1 DEF ListIngestObjects, RoundDone, inserterVars
  <2> QED
    BY <2>1, CustodyUnchanged
<1>2. CASE ClaimNewKeys
  <2>1. UNCHANGED <<durable, chan, inserterVars>>
    BY <1>2 DEF ClaimNewKeys
  <2>2. \A k \in Keys : k \in NewKeys => k \notin inflight
    BY DEF NewKeys
  <2>3. OneHolder' /\ HeldPointwise'
    BY <1>2, <1>a, <2>1, <2>2
       DEF ClaimNewKeys, Custody, OneHolder, HeldPointwise, HasInserter, TypeOK, inserterVars
  <2>4. UnfiledPointwise'
    BY <1>2, <1>a, <2>1 DEF ClaimNewKeys, Custody, UnfiledPointwise, TypeOK, durable
  <2> QED
    BY <1>2, <1>a, <2>1, <2>3, <2>4
       DEF ClaimNewKeys, Custody, MovingIsStored, FiledOnlyWhenStored, KindsApart,
           durable, inserterVars, TypeOK
<1>3. ASSUME NEW k \in Keys, StartTask(k) PROVE Safe'
  BY <1>3, <1>a
     DEF StartTask, Custody, OneHolder, HeldPointwise, UnfiledPointwise, MovingIsStored,
         FiledOnlyWhenStored, KindsApart, durable, inserterVars, TypeOK
<1>4. ASSUME NEW k \in Keys, FetchAndParse(k) PROVE Safe'
  BY <1>4, <1>a
     DEF FetchAndParse, Parses, Custody, OneHolder, HeldPointwise, UnfiledPointwise, MovingIsStored,
         FiledOnlyWhenStored, KindsApart, durable, inserterVars, TypeOK
<1>5. ASSUME NEW k \in Keys, task[k] # "none", ReleaseTask(k), UNCHANGED durable PROVE Safe'
  BY <1>5, <1>a
     DEF ReleaseTask, Custody, OneHolder, HeldPointwise, UnfiledPointwise, HasInserter,
         MovingIsStored, FiledOnlyWhenStored, KindsApart, durable, inserterVars, TypeOK
<1>6. ASSUME NEW k \in Keys, FetchMissing(k) \/ TaskFails(k) PROVE Safe'
  BY <1>5, <1>6 DEF FetchMissing, TaskFails, Active
<1>7. ASSUME NEW k \in Keys, RejectCopy(k) PROVE Safe'
  BY <1>7, <1>a
     DEF RejectCopy, Custody, OneHolder, HeldPointwise, UnfiledPointwise, MovingIsStored,
         FiledOnlyWhenStored, KindsApart, producerVars, inserterVars, TypeOK
<1>8. ASSUME NEW k \in Keys, RejectDelete(k) PROVE Safe'
  BY <1>8, <1>a
     DEF RejectDelete, ReleaseTask, Custody, OneHolder, HeldPointwise, UnfiledPointwise,
         HasInserter, MovingIsStored, FiledOnlyWhenStored, KindsApart, inserterVars, TypeOK
<1>9. ASSUME NEW k \in Keys, Send(k) PROVE Safe'
  <2>1. k \notin Queued
    BY <1>9 DEF Send, Custody, OneHolder
  <2>2. /\ Queued' = Queued \cup {k}
        /\ \A m, n \in DOMAIN chan' : chan'[m] = chan'[n] => m = n
    BY <1>9, <2>1, QueuedAfterSend DEF Send, Custody, OneHolder
  <2>3. \A j : HasInserter(j)' <=> HasInserter(j)
    BY <1>9 DEF Send, HasInserter, inserterVars
  <2>4. OneHolder'
    BY <1>9, <2>1, <2>2 DEF Send, Custody, OneHolder, inserterVars, TypeOK
  <2>5. HeldPointwise' /\ UnfiledPointwise'
    BY <1>9, <2>2, <2>3
       DEF Send, Custody, HeldPointwise, UnfiledPointwise, durable, TypeOK
  <2> QED
    BY <1>9, <2>2, <2>4, <2>5
       DEF Send, Custody, MovingIsStored, FiledOnlyWhenStored, KindsApart, durable,
           inserterVars, TypeOK
<1> QED
  BY <1>1, <1>2, <1>3, <1>4, <1>6, <1>7, <1>8, <1>9 DEF Producer

\* Taking an item moves its key from the channel into the batch.
LEMMA TakeSafe ==
    ASSUME IInv, NEW i \in Inserters, ins[i] \in {"recv", "drain"}, chan # <<>>,
           chan' = Tail(chan),
           batch' = [batch EXCEPT ![i] = @ \cup {Head(chan)}],
           ins' \in [Inserters -> InserterStates],
           \A j \in Inserters : ins[j] = "move" <=> ins'[j] = "move",
           UNCHANGED <<durable, inflight, task, moving>>
    PROVE  Safe'
<1> USE DEF IInv, Safe
<1> DEFINE h == Head(chan)
<1>1. /\ h \in Queued
      /\ Queued' = Queued \ {h}
      /\ \A m, n \in DOMAIN chan' : chan'[m] = chan'[n] => m = n
  BY QueuedAfterTake DEF Custody, OneHolder
<1>2. h \in Keys
  BY TakeItem
<1>3. \A j \in Inserters : batch'[j] = IF j = i THEN batch[i] \cup {h} ELSE batch[j]
  BY DEF TypeOK
<1>4. \A k : HasInserter(k)' <=> HasInserter(k) \/ k = h
  BY <1>3 DEF HasInserter
<1>5. task[h] = "none"
  BY <1>1, <1>2 DEF Custody, OneHolder
<1>6. OneHolder'
  BY <1>1, <1>2, <1>3, <1>5 DEF Custody, OneHolder, TypeOK
<1>7. HeldPointwise' /\ UnfiledPointwise'
  BY <1>1, <1>2, <1>4 DEF Custody, HeldPointwise, UnfiledPointwise, durable, TypeOK
<1> HIDE DEF h
<1>8. KindsApart'
  BY <1>1, <1>3 DEF KindsApart, durable
<1> QED
  BY <1>6, <1>7, <1>8 DEF Custody, MovingIsStored, FiledOnlyWhenStored, durable, TypeOK

\* The inserters' steps keep the invariant.
LEMMA InserterSafe ==
    ASSUME IInv, NEW i \in Inserters, Inserter(i)
    PROVE  Safe'
<1> USE DEF IInv, Safe
<1>a. ASSUME UNCHANGED chan PROVE Queued' = Queued
  BY <1>a DEF Queued
<1>1. CASE Recv(i)
  BY <1>1, TakeSafe DEF Recv, TypeOK, InserterStates, producerVars
<1>2. CASE DrainItem(i)
  BY <1>2, TakeSafe DEF DrainItem, TypeOK, producerVars
<1>b. ASSUME UNCHANGED <<durable, inflight, task, chan, batch, moving>>,
             ins[i] # "move" \/ moving[i] = {},
             \A j \in Inserters \ {i} : ins'[j] = ins[j]
      PROVE  Safe'
  <2>1. Custody' /\ KindsApart'
    BY <1>a, <1>b
       DEF Custody, OneHolder, HeldPointwise, UnfiledPointwise, HasInserter, KindsApart, durable
  <2>2. moving[i] = {}
    BY <1>b DEF MovingIsStored
  <2>3. MovingIsStored' /\ FiledOnlyWhenStored'
    BY <1>b, <2>2 DEF MovingIsStored, FiledOnlyWhenStored, durable
  <2> QED
    BY <2>1, <2>3
<1>3. CASE DrainDone(i) \/ FlushTick(i)
  <2>1. UNCHANGED <<durable, inflight, task, chan, batch, moving>> /\ ins[i] # "move"
    BY <1>3 DEF DrainDone, FlushTick, producerVars
  <2>2. \A j \in Inserters \ {i} : ins'[j] = ins[j]
    BY <1>3 DEF DrainDone, FlushTick, TypeOK
  <2> QED
    BY <1>b, <2>1, <2>2
<1>4. CASE WriteOk(i)
  <2>1. moving[i] = {}
    BY <1>4 DEF WriteOk, MovingIsStored
  <2>2. \A j \in Inserters : batch'[j] \cup moving'[j] = batch[j] \cup moving[j]
    BY <1>4, <2>1 DEF WriteOk, TypeOK
  <2>3. \A k : HasInserter(k)' <=> HasInserter(k)
    BY <2>2 DEF HasInserter
  <2>4. OneHolder'
    BY <1>4, <1>a, <2>2 DEF WriteOk, Custody, OneHolder, producerVars, TypeOK
  <2>5. HeldPointwise' /\ UnfiledPointwise'
    BY <1>4, <1>a, <2>3
       DEF WriteOk, Custody, HeldPointwise, UnfiledPointwise, producerVars
  <2>6. MovingIsStored'
    BY <1>4 DEF WriteOk, CommitBatch, MovingIsStored, TypeOK
  <2> QED
    BY <1>4, <1>a, <2>2, <2>4, <2>5, <2>6
       DEF WriteOk, CommitBatch, Custody, FiledOnlyWhenStored, KindsApart, producerVars, TypeOK
<1>5. CASE WriteFails(i)
  <2>1. UNCHANGED <<loc, inflight, task, chan, ins, batch, moving>>
    BY <1>5 DEF WriteFails, producerVars
  <2>2. Custody'
    BY <2>1, <1>a
       DEF Custody, OneHolder, HeldPointwise, UnfiledPointwise, HasInserter
  <2> QED
    BY <1>5, <1>a, <2>1, <2>2
       DEF WriteFails, PartialWrite, MovingIsStored, FiledOnlyWhenStored, KindsApart, TypeOK
<1>6. CASE WriteGivesUp(i)
  <2>1. /\ UNCHANGED <<loc, task, chan, moving>>
        /\ inflight' = inflight \ batch[i]
        /\ batch' = [batch EXCEPT ![i] = {}]
        /\ ins' = [ins EXCEPT ![i] = "recv"]
        /\ ins[i] = "write"
    BY <1>6 DEF WriteGivesUp, DropBatch, producerVars
  <2>2. \A k \in Keys : HasInserter(k)' <=> HasInserter(k) /\ k \notin batch[i]
    BY <2>1 DEF HasInserter, Custody, OneHolder, TypeOK
  <2>3. \A k \in batch[i] : task[k] = "none" /\ k \notin Queued
    BY DEF Custody, OneHolder
  <2>4. OneHolder'
    BY <2>1, <1>a DEF Custody, OneHolder, TypeOK
  <2>5. HeldPointwise' /\ UnfiledPointwise'
    BY <2>1, <2>2, <2>3, <1>a DEF Custody, HeldPointwise, UnfiledPointwise
  <2> QED
    BY <1>6, <1>a, <2>1, <2>4, <2>5
       DEF WriteGivesUp, PartialWrite, Custody, MovingIsStored, FiledOnlyWhenStored,
           KindsApart, TypeOK
<1>7. CASE FlushDone(i)
  <2>1. UNCHANGED <<durable, inflight, task, chan, batch, moving>> /\ moving[i] = {}
    BY <1>7 DEF FlushDone, producerVars
  <2>2. \A j \in Inserters \ {i} : ins'[j] = ins[j]
    BY <1>7 DEF FlushDone, TypeOK
  <2> QED
    BY <1>b, <2>1, <2>2
<1>8. ASSUME NEW k \in Keys, MoveCopy(i, k) PROVE Safe'
  <2>1. k \notin Unparseable /\ k \in matchPlayer \cap history
    BY <1>8 DEF MoveCopy, KindsApart, MovingIsStored
  <2> QED
    BY <1>8, <1>a, <2>1
       DEF MoveCopy, Custody, OneHolder, HeldPointwise, UnfiledPointwise, HasInserter,
           MovingIsStored, FiledOnlyWhenStored, KindsApart, producerVars, inserterVars, TypeOK
<1>9. ASSUME NEW k \in Keys, FinishMove(i, k), loc' \in {loc, [loc EXCEPT ![k] = @ \ {"ingest"}]}
      PROVE  Safe'
  <2>1. /\ UNCHANGED <<matchPlayer, history, task, chan, ins, batch>>
        /\ ins[i] = "move"
        /\ moving' = [moving EXCEPT ![i] = @ \ {k}]
        /\ inflight' = inflight \ {k}
        /\ k \in moving[i]
    BY <1>9 DEF FinishMove, producerVars
  <2>2. \A j \in Keys : HasInserter(j)' <=> HasInserter(j) /\ j # k
    BY <2>1 DEF HasInserter, Custody, OneHolder, TypeOK
  <2>3. task[k] = "none" /\ k \notin Queued
    BY <2>1 DEF Custody, OneHolder
  <2>4. OneHolder'
    BY <2>1, <1>a DEF Custody, OneHolder, TypeOK
  <2>5. HeldPointwise' /\ UnfiledPointwise'
    BY <1>9, <2>1, <2>2, <2>3, <1>a DEF Custody, HeldPointwise, UnfiledPointwise, TypeOK
  <2>6. \A j \in Inserters : moving'[j] \subseteq moving[j]
    BY <2>1 DEF TypeOK
  <2>7. MovingIsStored'
    BY <2>1, <2>6 DEF MovingIsStored, TypeOK
  <2>8. \A j \in Keys : loc'[j] \subseteq loc[j]
    BY <1>9 DEF TypeOK
  <2>9. FiledOnlyWhenStored' /\ KindsApart'
    BY <1>a, <2>1, <2>6, <2>8 DEF FiledOnlyWhenStored, KindsApart
  <2> QED
    BY <2>4, <2>5, <2>7, <2>9 DEF Custody
<1>10. ASSUME NEW k \in Keys, MoveDelete(i, k) \/ MoveFails(i, k) PROVE Safe'
  BY <1>9, <1>10 DEF MoveDelete, MoveFails
<1> QED
  BY <1>1, <1>2, <1>3, <1>4, <1>5, <1>6, <1>7, <1>8, <1>10 DEF Inserter

\* The invariant holds at the start and in every step, crashes included.
LEMMA InvariantHolds == Spec => []IInv
<1>1. Init => IInv
  <2> SUFFICES ASSUME Init PROVE IInv
    OBVIOUS
  <2>1. TypeOK
    <3>1. rxQueue \in Seq(Inserters)
      BY StartOrdersAreSequences DEF Init
    <3>2. chan \in Seq(Keys) /\ Len(chan) <= ChanCap
      BY ChanCapIsPositive DEF Init
    <3> QED
      BY <3>1, <3>2, IngestAssumption DEF Init, TypeOK, TaskStates, InserterStates, Prefixes
  <2>2. Queued = {} /\ \A k : ~HasInserter(k)
    BY DEF Init, Queued, HasInserter
  <2> QED
    BY <2>1, <2>2
       DEF Init, IInv, Custody, OneHolder, HeldPointwise, UnfiledPointwise,
           MovingIsStored, FiledOnlyWhenStored, KindsApart
<1>2. IInv /\ [Next]_vars => Safe'
  <2> SUFFICES ASSUME IInv, [Next]_vars PROVE Safe'
    OBVIOUS
  <2>1. CASE Producer
    BY <2>1, ProducerSafe
  <2>2. ASSUME NEW i \in Inserters, Inserter(i) PROVE Safe'
    BY <2>2, InserterSafe
  <2>3. ASSUME NEW k \in Keys, Upload(k) PROVE Safe'
    <3>1. /\ UNCHANGED <<matchPlayer, history, inflight, task, chan, ins, batch, moving>>
          /\ \A j \in Keys : loc'[j] = IF j = k THEN {"ingest"} ELSE loc[j]
      BY <2>3 DEF Upload, producerVars, inserterVars, IInv, TypeOK
    <3>2. Queued' = Queued /\ \A j : HasInserter(j)' <=> HasInserter(j)
      BY <3>1 DEF Queued, HasInserter
    <3>3. Custody'
      BY <3>1, <3>2 DEF IInv, Custody, OneHolder, HeldPointwise, UnfiledPointwise
    <3>4. MovingIsStored' /\ FiledOnlyWhenStored' /\ KindsApart'
      BY <3>1, <3>2 DEF IInv, MovingIsStored, FiledOnlyWhenStored, KindsApart
    <3> QED
      BY <3>3, <3>4 DEF Safe
  <2>4. CASE Crash
    <3>1. Queued' = {} /\ \A k : ~HasInserter(k)'
      BY <2>4 DEF Crash, Queued, HasInserter
    <3> QED
      BY <2>4, <3>1
         DEF Crash, IInv, Safe, Custody, OneHolder, HeldPointwise, UnfiledPointwise,
             MovingIsStored, FiledOnlyWhenStored, KindsApart, durable
  <2>5. CASE UNCHANGED vars
    BY <2>5, CustodyUnchanged DEF vars, Safe, producerVars, inserterVars
  <2> QED
    BY <2>1, <2>2, <2>3, <2>4, <2>5 DEF Next
<1>3. IInv <=> TypeOK /\ Safe
  BY DEF IInv, Safe
<1> QED
  BY <1>1, <1>2, <1>3, TypeCorrect, PTL DEF Spec

\* An object is filed under processed/ only when both tables have its rows.
THEOREM StoredBeforeFiled == Spec => []FiledOnlyWhenStored
<1>1. IInv => FiledOnlyWhenStored
  BY DEF IInv
<1> QED
  BY <1>1, InvariantHolds, PTL

LEMMA CustodyFacts == IInv => OneHolder /\ InflightIsHeld /\ FetchedIsUnfiled
BY CustodyImplies DEF IInv, Custody

\* A key has one holder at a time: a place in the channel, a fetch task or a batch
\* (main.rs:131-166, 225-345).
THEOREM HolderTheorem == Spec => []OneHolder
BY CustodyFacts, InvariantHolds, PTL

\* The in-flight set, which keeps keys from being enqueued again, is exactly the set of the
\* keys that are held (main.rs:131-166).
THEOREM CustodyIsExact == Spec => []InflightIsHeld
BY CustodyFacts, InvariantHolds, PTL

\* Whatever is on its way to the tables is still in ingest/ (main.rs:299-345).
THEOREM FetchedTheorem == Spec => []FetchedIsUnfiled
BY CustodyFacts, InvariantHolds, PTL

\* What a step does to the location of an object.
Leaves == \A k \in Keys : loc[k] # {} =>
              /\ loc'[k] # {}
              /\ "ingest" \in loc[k] \ loc'[k] =>
                    IF k \in Unparseable THEN "failed" \in loc'[k] ELSE "processed" \in loc'[k]

LEMMA LeavesInStep == IInv /\ Next => Leaves
<1> SUFFICES ASSUME IInv, Next PROVE Leaves
  OBVIOUS
<1>1. CASE UNCHANGED loc
  BY <1>1 DEF Leaves
<1>2. ASSUME NEW k \in Keys, RejectCopy(k) PROVE Leaves
  BY <1>2 DEF RejectCopy, Leaves, IInv, TypeOK
<1>3. ASSUME NEW k \in Keys, RejectDelete(k) PROVE Leaves
  <2>1. k \in Unparseable
    BY <1>3 DEF RejectDelete, IInv, KindsApart
  <2> QED
    BY <1>3, <2>1 DEF RejectDelete, Leaves, IInv, TypeOK
<1>4. ASSUME NEW k \in Keys, Upload(k) PROVE Leaves
  BY <1>4 DEF Upload, Leaves, IInv, TypeOK
<1>5. ASSUME NEW i \in Inserters, NEW k \in Keys, MoveCopy(i, k) PROVE Leaves
  BY <1>5 DEF MoveCopy, Leaves, IInv, TypeOK
<1>6. ASSUME NEW i \in Inserters, NEW k \in Keys, MoveDelete(i, k) PROVE Leaves
  <2>1. k \notin Unparseable
    BY <1>6 DEF MoveDelete, FinishMove, IInv, KindsApart
  <2> QED
    BY <1>6, <2>1 DEF MoveDelete, Leaves, IInv, TypeOK
<1>7. Producer => UNCHANGED loc \/ \E k \in Keys : RejectCopy(k) \/ RejectDelete(k)
  BY DEF Producer, ListIngestObjects, ClaimNewKeys, RoundDone, StartTask, FetchMissing,
         FetchAndParse, Send, TaskFails, durable
<1>8. ASSUME NEW i \in Inserters, Inserter(i)
      PROVE  UNCHANGED loc \/ \E k \in Keys : MoveCopy(i, k) \/ MoveDelete(i, k)
  BY <1>8 DEF Inserter, Recv, DrainItem, DrainDone, FlushTick, WriteOk, WriteFails,
              WriteGivesUp, FlushDone, MoveFails, durable
<1>9. Crash => UNCHANGED loc
  BY DEF Crash, durable
<1> QED
  BY <1>1, <1>2, <1>3, <1>4, <1>5, <1>6, <1>7, <1>8, <1>9 DEF Next

\* An object leaves ingest/ only for processed/, or failed/ if it is unparseable,
\* and never disappears from the store.
THEOREM ObjectsAreNeverLost == Spec => LeavesOnlyWhenFiled
<1>1. IInv /\ [Next]_vars => [Leaves]_vars
  BY LeavesInStep
<1> QED
  BY <1>1, InvariantHolds, PTL DEF Spec, LeavesOnlyWhenFiled, Leaves

-----------------------------------------------------------------------------
(* IngestWorker implements IngestLedger.                                    *)

\* Rows in match_player come from an object that is still in the store.
WrittenIsPresent == \A k \in matchPlayer : loc[k] # {}

\* Where a step may add rows, and of which objects.
LEMMA TablesGrowByBatch ==
    ASSUME IInv, Next
    PROVE  \/ UNCHANGED <<matchPlayer, history>>
           \/ /\ UNCHANGED loc
              /\ matchPlayer \subseteq matchPlayer' /\ history \subseteq history'
              /\ \A k \in matchPlayer' : k \in matchPlayer \/ HasInserter(k)
<1>1. ASSUME NEW i \in Inserters, WriteOk(i) \/ WriteFails(i) \/ WriteGivesUp(i)
      PROVE  /\ UNCHANGED loc
             /\ matchPlayer \subseteq matchPlayer' /\ history \subseteq history'
             /\ \A k \in matchPlayer' : k \in matchPlayer \/ HasInserter(k)
  BY <1>1 DEF WriteOk, CommitBatch, WriteFails, WriteGivesUp, PartialWrite, HasInserter
<1>2. Producer => UNCHANGED <<matchPlayer, history>>
  BY DEF Producer, ListIngestObjects, ClaimNewKeys, RoundDone, StartTask, FetchMissing,
         FetchAndParse, RejectCopy, RejectDelete, Send, TaskFails, durable
<1>3. ASSUME NEW i \in Inserters, Inserter(i)
      PROVE  \/ UNCHANGED <<matchPlayer, history>>
             \/ WriteOk(i) \/ WriteFails(i) \/ WriteGivesUp(i)
  BY <1>3 DEF Inserter, Recv, DrainItem, DrainDone, FlushTick, MoveCopy, MoveDelete,
              MoveFails, FinishMove, FlushDone, durable
<1>4. Crash \/ (\E k \in Keys : Upload(k)) => UNCHANGED <<matchPlayer, history>>
  BY DEF Crash, Upload, durable
<1> QED
  BY <1>1, <1>2, <1>3, <1>4 DEF Next

LEMMA WrittenStaysPresent == Spec => []WrittenIsPresent
<1>1. Init => WrittenIsPresent
  BY DEF Init, WrittenIsPresent
<1>2. IInv /\ WrittenIsPresent /\ [Next]_vars => WrittenIsPresent'
  <2> SUFFICES ASSUME IInv, WrittenIsPresent, Next PROVE WrittenIsPresent'
    BY DEF WrittenIsPresent, vars, durable
  <2>1. \A k \in Keys : loc[k] # {} => loc'[k] # {}
    BY LeavesInStep DEF Leaves
  <2>2. CASE UNCHANGED <<matchPlayer, history>>
    BY <2>1, <2>2 DEF WrittenIsPresent, IInv, TypeOK
  <2>3. CASE /\ UNCHANGED loc
             /\ \A k \in matchPlayer' : k \in matchPlayer \/ HasInserter(k)
    <3>1. \A k : HasInserter(k) => k \in Keys /\ "ingest" \in loc[k]
      BY DEF HasInserter, IInv, TypeOK, Custody, UnfiledPointwise
    <3> QED
      BY <2>3, <3>1 DEF WrittenIsPresent
  <2> QED
    BY <2>2, <2>3, TablesGrowByBatch
<1> QED
  BY <1>1, <1>2, InvariantHolds, PTL DEF Spec

\* The ledger's phase of one object, by cases.
LEMMA PhaseOf ==
    ASSUME NEW k \in Keys
    PROVE  /\ "failed" \in loc[k] => LedgerPhase[k] = "rejected"
           /\ "failed" \notin loc[k] /\ "processed" \in loc[k] => LedgerPhase[k] = "archived"
           /\ loc[k] = {} => LedgerPhase[k] = "absent"
           /\ loc[k] # {} /\ "failed" \notin loc[k] /\ "processed" \notin loc[k] =>
                 LedgerPhase[k] = IF k \in matchPlayer \cap history THEN "stored" ELSE "waiting"
BY DEF LedgerPhase

LEMMA PhaseOfNext ==
    ASSUME NEW k \in Keys
    PROVE  /\ "failed" \in loc'[k] => LedgerPhase'[k] = "rejected"
           /\ "failed" \notin loc'[k] /\ "processed" \in loc'[k] => LedgerPhase'[k] = "archived"
           /\ loc'[k] = {} => LedgerPhase'[k] = "absent"
           /\ loc'[k] # {} /\ "failed" \notin loc'[k] /\ "processed" \notin loc'[k] =>
                 LedgerPhase'[k] = IF k \in matchPlayer' \cap history' THEN "stored" ELSE "waiting"
BY DEF LedgerPhase

\* Initially every object is absent or waiting.
LEMMA LedgerInit == Init => Ledger!Init
<1> SUFFICES ASSUME Init, NEW k \in Keys PROVE LedgerPhase[k] \in {"absent", "waiting"}
  BY DEF Ledger!Init, LedgerPhase
<1>1. loc[k] \in {{}, {"ingest"}} /\ matchPlayer = {}
  BY DEF Init
<1> QED
  BY <1>1, PhaseOf

\* A step that only grows the tables stores a set of waiting objects.
LEMMA TablesGrowStep ==
    ASSUME IInv, WrittenIsPresent, IInv', UNCHANGED loc,
           matchPlayer \subseteq matchPlayer', history \subseteq history'
    PROVE  \E S \in SUBSET Keys : Ledger!Store(S)
<1> DEFINE S == {k \in Keys : LedgerPhase[k] = "waiting" /\ k \in matchPlayer' \cap history'}
<1>1. \A k \in S : k \notin Unparseable
  BY DEF IInv, KindsApart
<1>2. ASSUME NEW k \in Keys
      PROVE  LedgerPhase'[k] = IF k \in S THEN "stored" ELSE LedgerPhase[k]
  BY PhaseOf, PhaseOfNext
<1>3. LedgerPhase' = [k \in Keys |-> IF k \in S THEN "stored" ELSE LedgerPhase[k]]
  BY <1>2 DEF LedgerPhase
<1> QED
  BY <1>1, <1>3 DEF Ledger!Store

\* A step that moves one object changes the phase of no other.
LEMMA OthersKeepPhase ==
    ASSUME TypeOK, NEW k \in Keys, NEW p, UNCHANGED <<matchPlayer, history>>,
           \A j \in Keys \ {k} : loc'[j] = loc[j],
           LedgerPhase'[k] = p
    PROVE  LedgerPhase' = [LedgerPhase EXCEPT ![k] = p]
<1>1. ASSUME NEW j \in Keys
      PROVE  LedgerPhase'[j] = IF j = k THEN p ELSE LedgerPhase[j]
  BY PhaseOf, PhaseOfNext, <1>1
<1> QED
  BY <1>1 DEF LedgerPhase

\* A step that leaves the tables alone changes the location of at most one
\* object: it moves that object along the ledger, or nothing.
LEMMA MoveStep ==
    ASSUME IInv, WrittenIsPresent, Next, UNCHANGED <<matchPlayer, history>>
    PROVE  Ledger!Next \/ UNCHANGED LedgerPhase
<1> USE DEF IInv
<1>1. CASE UNCHANGED loc
  BY <1>1 DEF LedgerPhase
<1>2. ASSUME NEW k \in Keys, Upload(k) PROVE Ledger!Upload(k)
  <2>1. loc[k] = {} /\ loc'[k] = {"ingest"} /\ \A j \in Keys \ {k} : loc'[j] = loc[j]
    BY <1>2 DEF Upload, TypeOK
  <2>2. k \notin matchPlayer'
    BY <1>2, <2>1 DEF Upload, WrittenIsPresent
  <2>3. LedgerPhase[k] = "absent" /\ LedgerPhase'[k] = "waiting"
    BY <2>1, <2>2, PhaseOf, PhaseOfNext
  <2> QED
    BY <2>1, <2>3, OthersKeepPhase DEF Ledger!Upload
<1>3. ASSUME NEW k \in Keys, RejectCopy(k) PROVE Ledger!Reject(k)
  <2>1. /\ loc'[k] = loc[k] \cup {"failed"} /\ "failed" \notin loc[k]
        /\ \A j \in Keys \ {k} : loc'[j] = loc[j]
    BY <1>3 DEF RejectCopy, TypeOK
  <2>2. k \in Unparseable /\ "ingest" \in loc[k] /\ k \notin matchPlayer
    BY <1>3 DEF RejectCopy, Custody, UnfiledPointwise, KindsApart
  <2>3. "processed" \notin loc[k]
    BY <2>2 DEF FiledOnlyWhenStored
  <2>4. LedgerPhase[k] = "waiting" /\ LedgerPhase'[k] = "rejected"
    BY <2>1, <2>2, <2>3, PhaseOf, PhaseOfNext
  <2> QED
    BY <2>1, <2>2, <2>4, OthersKeepPhase DEF Ledger!Reject
<1>4. ASSUME NEW k \in Keys, loc' = [loc EXCEPT ![k] = @ \ {"ingest"}],
             "failed" \in loc[k] \/ "processed" \in loc[k]
      PROVE  UNCHANGED LedgerPhase
  <2>1. ASSUME NEW j \in Keys PROVE LedgerPhase'[j] = LedgerPhase[j]
    <3>1. CASE j = k
      <4>1. loc'[k] = loc[k] \ {"ingest"}
        BY <1>4 DEF TypeOK
      <4> QED
        BY <1>4, <3>1, <4>1, PhaseOf, PhaseOfNext
    <3>2. CASE j # k
      BY <1>4, <3>2, PhaseOf, PhaseOfNext DEF TypeOK
    <3> QED
      BY <3>1, <3>2
  <2> QED
    BY <2>1 DEF LedgerPhase
<1>5. ASSUME NEW k \in Keys, RejectDelete(k) PROVE UNCHANGED LedgerPhase
  BY <1>4, <1>5 DEF RejectDelete
<1>6. ASSUME NEW i \in Inserters, NEW k \in Keys, MoveCopy(i, k) PROVE Ledger!Archive(k)
  <2>1. /\ loc'[k] = loc[k] \cup {"processed"}
        /\ "ingest" \in loc[k] /\ "processed" \notin loc[k]
        /\ \A j \in Keys \ {k} : loc'[j] = loc[j]
    BY <1>6 DEF MoveCopy, TypeOK
  <2>2. k \notin Unparseable /\ k \in matchPlayer \cap history
    BY <1>6 DEF MoveCopy, KindsApart, MovingIsStored
  <2>3. "failed" \notin loc[k]
    BY <2>2 DEF KindsApart
  <2>4. LedgerPhase[k] = "stored" /\ LedgerPhase'[k] = "archived"
    BY <2>1, <2>2, <2>3, PhaseOf, PhaseOfNext
  <2> QED
    BY <2>1, <2>4, OthersKeepPhase DEF Ledger!Archive
<1>7. ASSUME NEW i \in Inserters, NEW k \in Keys, MoveDelete(i, k) PROVE UNCHANGED LedgerPhase
  BY <1>4, <1>7 DEF MoveDelete
<1>8. Producer => UNCHANGED loc \/ \E k \in Keys : RejectCopy(k) \/ RejectDelete(k)
  BY DEF Producer, ListIngestObjects, ClaimNewKeys, RoundDone, StartTask, FetchMissing,
         FetchAndParse, Send, TaskFails, durable
<1>9. ASSUME NEW i \in Inserters, Inserter(i)
      PROVE  UNCHANGED loc \/ \E k \in Keys : MoveCopy(i, k) \/ MoveDelete(i, k)
  BY <1>9 DEF Inserter, Recv, DrainItem, DrainDone, FlushTick, WriteOk, WriteFails,
              WriteGivesUp, FlushDone, MoveFails, durable
<1>10. Crash => UNCHANGED loc
  BY DEF Crash, durable
<1> QED
  BY <1>1, <1>2, <1>3, <1>5, <1>6, <1>7, <1>8, <1>9, <1>10 DEF Next, Ledger!Next

\* The worker keeps the ledger's promise: rows first, then the archive, and only
\* what cannot be parsed is set aside.
THEOREM ImplementsLedger == Spec => LedgerSpec
<1>1. Init => Ledger!Init
  BY LedgerInit
<1>2. IInv /\ IInv' /\ WrittenIsPresent /\ [Next]_vars => [Ledger!Next]_LedgerPhase
  <2> SUFFICES ASSUME IInv, IInv', WrittenIsPresent, [Next]_vars
               PROVE  Ledger!Next \/ UNCHANGED LedgerPhase
    OBVIOUS
  <2>1. CASE UNCHANGED vars
    BY <2>1 DEF vars, durable, LedgerPhase
  <2>2. CASE Next /\ UNCHANGED <<matchPlayer, history>>
    BY <2>2, MoveStep
  <2>3. CASE /\ UNCHANGED loc
             /\ matchPlayer \subseteq matchPlayer' /\ history \subseteq history'
    BY <2>3, TablesGrowStep DEF Ledger!Next
  <2> QED
    BY <2>1, <2>2, <2>3, TablesGrowByBatch
<1> QED
  BY <1>1, <1>2, InvariantHolds, WrittenStaysPresent, PTL DEF Spec, LedgerSpec, Ledger!Spec
=============================================================================
