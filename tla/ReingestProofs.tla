--------------------------- MODULE ReingestProofs ---------------------------
(***************************************************************************)
(* What the one-shot mode reports is true and counts every match once, for   *)
(* any list of matches, any number of inserters and any batch size.          *)
(***************************************************************************)
EXTENDS Reingest, FiniteSetTheorems, SequenceTheorems, TLAPS

LEMMA Sizes ==
    /\ IsFiniteSet(Matches) /\ Inserters # {}
    /\ ChanCap \in Nat \ {0} /\ BatchSize \in Nat \ {0} /\ MaxFailures \in Nat
BY ReingestAssumption DEF ChanCap

Chan == {chan[n] : n \in DOMAIN chan}

Distinct == \A k, l \in DOMAIN chan : chan[k] = chan[l] => k = l

\* A match is in one place: the channel, a batch or the count of one inserter.
OnePlace ==
    \A i \in Inserters :
        /\ batch[i] \cap Chan = {} /\ reported[i] \cap Chan = {}
        /\ \A j \in Inserters : batch[i] \cap reported[j] = {}
        /\ \A j \in Inserters \ {i} :
              batch[i] \cap batch[j] = {} /\ reported[i] \cap reported[j] = {}

\* Only what was sent is in one, and all of it unless an inserter gave up.
Everywhere == Chan \cup UNION {batch[i] \cup reported[i] : i \in Inserters}
OnlySent == \A m \in Everywhere : task[m] = "sent"
NotLost ==
    (\A i \in Inserters : ins[i] # "error") =>
        \A m \in Matches : task[m] = "sent" => m \in Everywhere

\* What the state of an inserter says of its batch and of the channel.
Phases ==
    \A i \in Inserters :
        /\ ins[i] = "recv" => Cardinality(batch[i]) < BatchSize
        /\ ins[i] \in {"ok", "error"} => batch[i] = {}
        /\ ins[i] \in {"final", "ok"} => Closed

AllOver ==
    /\ main # "produce" => Finished = Matches
    /\ main = "done" => \A i \in Inserters : ins[i] \in {"ok", "error"}

Stored == \A i \in Inserters : reported[i] \subseteq matchPlayer \cap history

IInv ==
    /\ TypeOK /\ Distinct /\ OnePlace /\ OnlySent /\ NotLost
    /\ Phases /\ AllOver /\ Stored

-----------------------------------------------------------------------------
(* The channel.                                                            *)

LEMMA ChanType ==
    ASSUME TypeOK
    PROVE  /\ chan \in Seq(Matches) /\ Len(chan) \in Nat /\ DOMAIN chan = 1..Len(chan)
           /\ Chan \subseteq Matches
           /\ chan = <<>> => Chan = {}
<1>1. chan \in Seq(Matches) /\ Len(chan) \in Nat /\ DOMAIN chan = 1..Len(chan)
  BY LenProperties DEF TypeOK
<1>2. Chan \subseteq Matches
  BY <1>1, ElementOfSeq DEF Chan
<1>3. chan = <<>> => Chan = {}
  BY DEF Chan
<1> QED
  BY <1>1, <1>2, <1>3

LEMMA ChanAppend ==
    ASSUME TypeOK, Distinct, NEW m \in Matches, m \notin Chan, chan' = Append(chan, m)
    PROVE  chan' \in Seq(Matches) /\ Len(chan') = Len(chan) + 1 /\ Chan' = Chan \cup {m} /\ Distinct'
<1>1. /\ chan' \in Seq(Matches) /\ Len(chan') = Len(chan) + 1
      /\ \A k \in 1..Len(chan) : chan'[k] = chan[k]
      /\ chan'[Len(chan) + 1] = m
      /\ Len(chan) \in Nat /\ DOMAIN chan = 1..Len(chan)
  BY ChanType, AppendProperties
<1>2. DOMAIN chan' = 1..(Len(chan) + 1)
  BY <1>1, LenProperties
<1>3. Chan' = Chan \cup {m}
  <2>1. ASSUME NEW n \in DOMAIN chan' PROVE chan'[n] \in Chan \cup {m}
    <3>1. CASE n = Len(chan) + 1
      BY <1>1, <3>1
    <3>2. CASE n # Len(chan) + 1
      BY <1>1, <1>2, <3>2 DEF Chan
    <3> QED
      BY <3>1, <3>2
  <2>2. Len(chan) + 1 \in DOMAIN chan' /\ \A n \in DOMAIN chan : n \in DOMAIN chan'
    BY <1>1, <1>2
  <2> QED
    BY <1>1, <2>1, <2>2 DEF Chan
<1>4. Distinct'
  <2> SUFFICES ASSUME NEW k \in DOMAIN chan', NEW l \in DOMAIN chan', chan'[k] = chan'[l]
               PROVE  k = l
    BY DEF Distinct
  <2>1. \A n \in DOMAIN chan : chan[n] # m
    BY DEF Chan
  <2> QED
    BY <1>1, <1>2, <2>1 DEF Distinct
<1> QED
  BY <1>1, <1>3, <1>4

LEMMA ChanTail ==
    ASSUME TypeOK, Distinct, chan # <<>>, chan' = Tail(chan)
    PROVE  /\ chan' \in Seq(Matches) /\ Len(chan') <= ChanCap
           /\ Head(chan) \in Chan /\ Head(chan) \notin Chan' /\ Chan = Chan' \cup {Head(chan)}
           /\ Distinct'
<1>1. /\ chan \in Seq(Matches) /\ Len(chan) \in Nat /\ DOMAIN chan = 1..Len(chan)
      /\ Len(chan) # 0 /\ Len(chan) <= ChanCap /\ ChanCap \in Nat
      /\ Head(chan) = chan[1]
  BY ChanType, EmptySeq, Sizes DEF TypeOK
<1>2. /\ chan' \in Seq(Matches) /\ Len(chan') = Len(chan) - 1
      /\ \A i \in 1..Len(chan') : chan'[i] = chan[i + 1]
  BY <1>1, HeadTailProperties
<1>3. DOMAIN chan' = 1..(Len(chan) - 1)
  BY <1>2, LenProperties
<1>4. \A n \in DOMAIN chan' : n + 1 \in DOMAIN chan /\ n + 1 # 1 /\ chan'[n] = chan[n + 1]
  BY <1>1, <1>2, <1>3
<1>5. 1 \in DOMAIN chan
  BY <1>1
<1>6. \A n \in DOMAIN chan : n # 1 => n - 1 \in DOMAIN chan' /\ chan'[n - 1] = chan[n]
  BY <1>1, <1>2, <1>3
<1>7. Chan = Chan' \cup {Head(chan)}
  <2>1. Chan' \subseteq Chan
    BY <1>4 DEF Chan
  <2>2. Head(chan) \in Chan
    BY <1>1, <1>5 DEF Chan
  <2>3. ASSUME NEW n \in DOMAIN chan PROVE chan[n] \in Chan' \cup {Head(chan)}
    BY <1>1, <1>6 DEF Chan
  <2> QED
    BY <2>1, <2>2, <2>3 DEF Chan
<1>8. Head(chan) \notin Chan'
  BY <1>1, <1>4, <1>5 DEF Chan, Distinct
<1>9. Distinct'
  <2> SUFFICES ASSUME NEW k \in DOMAIN chan', NEW l \in DOMAIN chan', chan'[k] = chan'[l]
               PROVE  k = l
    BY DEF Distinct
  <2>1. k + 1 = l + 1
    BY <1>4 DEF Distinct
  <2> QED
    BY <1>1, <1>3, <2>1
<1> QED
  BY <1>1, <1>2, <1>5, <1>7, <1>8, <1>9

LEMMA BatchGrows ==
    ASSUME TypeOK, NEW i \in Inserters, NEW m \in Matches
    PROVE  /\ Cardinality(batch[i]) \in Nat /\ Cardinality(batch[i] \cup {m}) \in Nat
           /\ Cardinality(batch[i] \cup {m}) <= Cardinality(batch[i]) + 1
<1>1. IsFiniteSet(batch[i])
  BY Sizes, FS_Subset DEF TypeOK
<1>2. Cardinality(batch[i]) \in Nat
  BY <1>1, FS_CardinalityType
<1>3. CASE m \in batch[i]
  <2> DEFINE b == batch[i] \cup {m}
  <2>1. b = batch[i]
    BY <1>3
  <2> HIDE DEF b
  <2>2. Cardinality(b) = Cardinality(batch[i])
    BY <2>1
  <2>3. Cardinality(b) \in Nat /\ Cardinality(b) <= Cardinality(batch[i]) + 1
    BY <1>2, <2>2
  <2> QED
    BY <1>2, <2>3 DEF b
<1>4. CASE m \notin batch[i]
  <2>1. Cardinality(batch[i] \cup {m}) = Cardinality(batch[i]) + 1
    BY <1>1, <1>4, FS_AddElement
  <2> QED
    BY <1>2, <2>1
<1> QED
  BY <1>2, <1>3, <1>4

-----------------------------------------------------------------------------
(* The steps.                                                              *)

LEMMA InvInit == Init => IInv
<1> SUFFICES ASSUME Init PROVE IInv
  OBVIOUS
<1>1. chan = <<>> /\ chan \in Seq(Matches) /\ Len(chan) = 0 /\ DOMAIN chan = {} /\ Chan = {}
  BY EmptySeq DEF Init, Chan
<1>2. Cardinality({}) = 0
  BY FS_EmptySet
<1>3. TypeOK
  <2>1. chan \in Seq(Matches) /\ Len(chan) <= ChanCap
    BY <1>1, Sizes
  <2>2. batch \in [Inserters -> SUBSET Matches] /\ reported \in [Inserters -> SUBSET Matches]
        /\ \A i \in Inserters : Cardinality(batch[i]) <= BatchSize
    BY <1>2, Sizes DEF Init
  <2>3. task \in [Matches -> TaskStates] /\ ins \in [Inserters -> InserterStates]
    BY DEF Init, TaskStates, InserterStates
  <2>4. failures \in 0..MaxFailures
    BY Sizes DEF Init
  <2> QED
    BY <2>1, <2>2, <2>3, <2>4 DEF Init, TypeOK
<1>4. Everywhere = {}
  BY <1>1 DEF Init, Everywhere
<1>5. Distinct /\ OnePlace
  BY <1>1 DEF Init, Distinct, OnePlace
<1>6. OnlySent /\ NotLost
  BY <1>4 DEF Init, OnlySent, NotLost
<1>7. Phases
  BY <1>2, Sizes DEF Init, Phases
<1> QED
  BY <1>3, <1>5, <1>6, <1>7 DEF IInv, Init, AllOver, Stored

LEMMA ChanKept == UNCHANGED chan => Chan' = Chan /\ (Distinct => Distinct')
BY DEF Chan, Distinct

\* Where a match is once it is sent.
LEMMA ProducerInv ==
    ASSUME IInv, NEW m \in Matches, NEW state \in TaskStates, task[m] \in {"queued", "fetching", "sending"},
           SetTask(m, state),
           \/ state # "sent" /\ UNCHANGED chan
           \/ state = "sent" /\ chan' = Append(chan, m) /\ HasRoom
    PROVE  IInv'
<1>0. /\ TypeOK /\ Distinct /\ OnePlace /\ OnlySent /\ NotLost /\ Phases /\ AllOver /\ Stored
      /\ Len(chan) \in Nat /\ ChanCap \in Nat
  BY ChanType, Sizes DEF IInv
<1>1. /\ task' = [task EXCEPT ![m] = state]
      /\ UNCHANGED <<main, cancelled, ins, batch, reported, matchPlayer, history, failures>>
  BY DEF SetTask, tables
<1>2. m \notin Everywhere
  BY <1>0 DEF OnlySent
<1>3. /\ chan' \in Seq(Matches) /\ Len(chan') <= ChanCap /\ Distinct'
      /\ Chan' = IF state = "sent" THEN Chan \cup {m} ELSE Chan
  <2>1. CASE state # "sent"
    BY <1>0, <2>1, ChanKept DEF TypeOK
  <2>2. CASE state = "sent"
    <3>1. m \notin Chan
      BY <1>2 DEF Everywhere
    <3>2. chan' \in Seq(Matches) /\ Len(chan') = Len(chan) + 1 /\ Chan' = Chan \cup {m} /\ Distinct'
      BY <1>0, <2>2, <3>1, ChanAppend
    <3> QED
      BY <1>0, <2>2, <3>2 DEF HasRoom
  <2> QED
    BY <2>1, <2>2
<1>4. TypeOK'
  <2>1. task' \in [Matches -> TaskStates]
    BY <1>0, <1>1 DEF TypeOK
  <2> QED
    BY <1>0, <1>1, <1>3, <2>1 DEF TypeOK
<1>5. main = "produce" /\ main' = "produce"
  BY <1>0, <1>1 DEF AllOver, Finished, TypeOK
<1>6. Everywhere' = IF state = "sent" THEN Everywhere \cup {m} ELSE Everywhere
  BY <1>1, <1>3 DEF Everywhere
<1>7. OnePlace'
  <2>1. \A i \in Inserters : m \notin batch[i] /\ m \notin reported[i]
    BY <1>2 DEF Everywhere
  <2> QED
    BY <1>0, <1>1, <1>3, <2>1 DEF OnePlace
<1>8. OnlySent' /\ NotLost'
  <2>1. \A n \in Matches : n # m => task'[n] = task[n]
    BY <1>0, <1>1 DEF TypeOK
  <2>2. task'[m] = state
    BY <1>0, <1>1 DEF TypeOK
  <2>3. Everywhere \subseteq Matches
    BY <1>0, ChanType DEF Everywhere, TypeOK
  <2>4. OnlySent'
    BY <1>0, <1>2, <1>6, <2>1, <2>2, <2>3 DEF OnlySent
  <2> QED
    BY <1>0, <1>1, <1>6, <2>1, <2>2, <2>4 DEF NotLost
<1>9. Phases' /\ AllOver' /\ Stored'
  BY <1>0, <1>1, <1>5 DEF Phases, AllOver, Stored, Closed
<1> QED
  BY <1>3, <1>4, <1>7, <1>8, <1>9 DEF IInv

LEMMA RecvInv ==
    ASSUME IInv, NEW i \in Inserters, Recv(i)
    PROVE  IInv'
<1> DEFINE m == Head(chan)
<1>0. /\ TypeOK /\ Distinct /\ OnePlace /\ OnlySent /\ NotLost /\ Phases /\ AllOver /\ Stored
  BY DEF IInv
<1>1. /\ ins[i] = "recv" /\ chan # <<>> /\ chan' = Tail(chan)
      /\ batch' = [batch EXCEPT ![i] = @ \cup {m}]
      /\ ins' = [ins EXCEPT ![i] = IF Cardinality(batch'[i]) >= BatchSize THEN "flush" ELSE "recv"]
      /\ UNCHANGED <<main, task, cancelled, reported, matchPlayer, history, failures>>
  BY DEF Recv, tables
<1>2. /\ chan' \in Seq(Matches) /\ Len(chan') <= ChanCap /\ Distinct'
      /\ m \in Chan /\ m \notin Chan' /\ Chan = Chan' \cup {m} /\ m \in Matches
  BY <1>0, <1>1, ChanTail, ChanType
<1>3. /\ batch'[i] = batch[i] \cup {m}
      /\ \A j \in Inserters \ {i} : batch'[j] = batch[j] /\ ins'[j] = ins[j]
  BY <1>0, <1>1 DEF TypeOK
<1>4. /\ Cardinality(batch'[i]) \in Nat
      /\ Cardinality(batch'[i]) <= BatchSize
  <2>1. Cardinality(batch[i]) < BatchSize
    BY <1>0, <1>1 DEF Phases
  <2>2. /\ Cardinality(batch[i]) \in Nat /\ Cardinality(batch'[i]) \in Nat
        /\ Cardinality(batch'[i]) <= Cardinality(batch[i]) + 1
    BY <1>0, <1>2, <1>3, BatchGrows
  <2> QED
    BY <2>1, <2>2, Sizes
<1> HIDE DEF m
<1>5. TypeOK'
  <2>1. batch' \in [Inserters -> SUBSET Matches] /\ ins' \in [Inserters -> InserterStates]
    BY <1>0, <1>1, <1>2 DEF TypeOK, InserterStates
  <2>2. \A j \in Inserters : Cardinality(batch'[j]) <= BatchSize
    BY <1>0, <1>3, <1>4 DEF TypeOK
  <2> QED
    BY <1>0, <1>1, <1>2, <2>1, <2>2 DEF TypeOK
<1>6. Everywhere' = Everywhere
  <2>1. \A n \in Everywhere' : n \in Everywhere
    BY <1>1, <1>2, <1>3 DEF Everywhere
  <2>2. \A n \in Everywhere : n \in Everywhere'
    BY <1>1, <1>2, <1>3 DEF Everywhere
  <2> QED
    BY <2>1, <2>2
<1>7. OnePlace'
  <2>1. \A j \in Inserters : m \notin batch[j] /\ m \notin reported[j]
    BY <1>0, <1>2 DEF OnePlace
  <2>2. \A j \in Inserters : batch'[j] \cap Chan' = {} /\ reported[j] \cap Chan' = {}
    BY <1>0, <1>2, <1>3 DEF OnePlace
  <2>3. \A j, k \in Inserters : batch'[j] \cap reported[k] = {}
    BY <1>0, <1>3, <2>1 DEF OnePlace
  <2>4. \A j \in Inserters : \A k \in Inserters \ {j} : batch'[j] \cap batch'[k] = {}
    <3> SUFFICES ASSUME NEW j \in Inserters, NEW k \in Inserters \ {j}
                 PROVE  batch'[j] \cap batch'[k] = {}
      OBVIOUS
    <3>1. batch[j] \cap batch[k] = {}
      BY <1>0 DEF OnePlace
    <3> QED
      BY <1>3, <2>1, <3>1
  <2> QED
    BY <1>0, <1>1, <2>2, <2>3, <2>4 DEF OnePlace
<1>8. OnlySent' /\ NotLost'
  <2>1. (\A j \in Inserters : ins'[j] # "error") => (\A j \in Inserters : ins[j] # "error")
    BY <1>1, <1>3
  <2> QED
    BY <1>0, <1>1, <1>6, <2>1 DEF OnlySent, NotLost
<1>9. Phases'
  <2>1. ins'[i] = IF Cardinality(batch'[i]) >= BatchSize THEN "flush" ELSE "recv"
    BY <1>0, <1>1 DEF TypeOK
  <2>2. ins'[i] = "recv" => Cardinality(batch'[i]) < BatchSize
    BY <1>4, <2>1, Sizes
  <2>3. ins'[i] \in {"flush", "recv"}
    BY <2>1
  <2>4. ~Closed
    BY <1>1 DEF Closed
  <2> QED
    BY <1>0, <1>3, <2>2, <2>3, <2>4 DEF Phases
<1>10. AllOver' /\ Stored'
  <2>1. main # "done"
    BY <1>0, <1>1 DEF AllOver
  <2> QED
    BY <1>0, <1>1, <2>1 DEF AllOver, Stored, Finished
<1> QED
  BY <1>2, <1>5, <1>7, <1>8, <1>9, <1>10 DEF IInv

\* A flush, or the end of a loop: the inserter's batch is counted, given up or left.
LEMMA InserterInv ==
    ASSUME IInv, NEW i \in Inserters, NEW state \in InserterStates,
           ins[i] \in {"recv", "flush", "final"},
           ins' = [ins EXCEPT ![i] = state],
           \/ state = "final" /\ UNCHANGED <<batch, reported>>
           \/ /\ state \in {"recv", "ok"} /\ batch' = [batch EXCEPT ![i] = {}]
              /\ reported' = [reported EXCEPT ![i] = @ \cup batch[i]]
           \/ state = "error" /\ batch' = [batch EXCEPT ![i] = {}] /\ UNCHANGED reported,
           reported'[i] # reported[i] => batch[i] \subseteq matchPlayer' \cap history',
           state \in {"final", "ok"} => Closed,
           matchPlayer \subseteq matchPlayer', matchPlayer' \subseteq Matches,
           history \subseteq history', history' \subseteq Matches,
           cancelled' \in BOOLEAN, failures' \in 0..MaxFailures,
           UNCHANGED <<main, task, chan>>
    PROVE  IInv'
<1>0. /\ TypeOK /\ Distinct /\ OnePlace /\ OnlySent /\ NotLost /\ Phases /\ AllOver /\ Stored
      /\ Chan' = Chan /\ Distinct'
  BY ChanKept DEF IInv
<1>1. \A j \in Inserters \ {i} : ins'[j] = ins[j] /\ batch'[j] = batch[j] /\ reported'[j] = reported[j]
  BY <1>0 DEF TypeOK
<1>2. /\ ins'[i] = state
      /\ batch'[i] = IF state = "final" THEN batch[i] ELSE {}
      /\ reported'[i] = IF state \in {"recv", "ok"} THEN reported[i] \cup batch[i] ELSE reported[i]
  BY <1>0 DEF TypeOK
<1>3. TypeOK'
  <2>1. ins' \in [Inserters -> InserterStates]
    BY <1>0 DEF TypeOK
  <2>2. batch' \in [Inserters -> SUBSET Matches] /\ reported' \in [Inserters -> SUBSET Matches]
    BY <1>0 DEF TypeOK
  <2>3. \A j \in Inserters : Cardinality(batch'[j]) <= BatchSize
    BY <1>0, <1>1, <1>2, FS_EmptySet, Sizes DEF TypeOK
  <2> QED
    BY <1>0, <2>1, <2>2, <2>3 DEF TypeOK
<1>4. OnePlace'
  <2>1. \A j \in Inserters : batch'[j] \cap Chan = {} /\ reported'[j] \cap Chan = {}
    BY <1>0, <1>1, <1>2 DEF OnePlace
  <2>2. \A j, k \in Inserters : batch'[j] \cap reported'[k] = {}
    <3> SUFFICES ASSUME NEW j \in Inserters, NEW k \in Inserters
                 PROVE  batch'[j] \cap reported'[k] = {}
      OBVIOUS
    <3>1. batch[j] \cap reported[k] = {} /\ (j # i => batch[j] \cap batch[i] = {})
      BY <1>0 DEF OnePlace
    <3>2. /\ batch'[j] \subseteq batch[j]
          /\ reported'[k] \subseteq reported[k] \cup (IF k = i THEN batch[i] ELSE {})
          /\ j = i /\ k = i => batch'[j] = {} \/ reported'[k] = reported[k]
      BY <1>1, <1>2
    <3> QED
      BY <1>1, <1>2, <3>1, <3>2
  <2>3. \A j \in Inserters : \A k \in Inserters \ {j} :
          batch'[j] \cap batch'[k] = {} /\ reported'[j] \cap reported'[k] = {}
    <3> SUFFICES ASSUME NEW j \in Inserters, NEW k \in Inserters \ {j}
                 PROVE  batch'[j] \cap batch'[k] = {} /\ reported'[j] \cap reported'[k] = {}
      OBVIOUS
    <3>1. /\ batch[j] \cap batch[k] = {} /\ reported[j] \cap reported[k] = {}
          /\ batch[i] \cap reported[j] = {} /\ batch[i] \cap reported[k] = {}
      BY <1>0 DEF OnePlace
    <3> QED
      BY <1>1, <1>2, <3>1
  <2> QED
    BY <1>0, <2>1, <2>2, <2>3 DEF OnePlace
<1>5. OnlySent'
  <2>1. Everywhere' \subseteq Everywhere
    <3>1. \A j \in Inserters : batch'[j] \cup reported'[j] \subseteq batch[j] \cup reported[j]
      BY <1>1, <1>2
    <3> QED
      BY <1>0, <3>1 DEF Everywhere
  <2> QED
    BY <1>0, <2>1 DEF OnlySent
<1>6. NotLost'
  <2> SUFFICES ASSUME \A j \in Inserters : ins'[j] # "error", NEW m \in Matches, task[m] = "sent"
               PROVE  m \in Everywhere'
    BY DEF NotLost
  <2>1. \A j \in Inserters : ins[j] # "error"
    BY <1>1
  <2>2. m \in Everywhere
    BY <1>0, <2>1 DEF NotLost
  <2>3. \A j \in Inserters : batch[j] \cup reported[j] \subseteq batch'[j] \cup reported'[j]
    BY <1>1, <1>2
  <2> QED
    BY <1>0, <2>2, <2>3 DEF Everywhere
<1>7. Phases'
  <2>1. Closed' = Closed
    BY DEF Closed
  <2>2. state = "recv" => Cardinality(batch'[i]) < BatchSize
    BY <1>2, FS_EmptySet, Sizes
  <2> QED
    BY <1>0, <1>1, <1>2, <2>1, <2>2 DEF Phases
<1>8. AllOver' /\ Stored'
  <2>1. main # "done"
    BY <1>0 DEF AllOver
  <2>2. Stored'
    BY <1>0, <1>1, <1>2 DEF Stored
  <2> QED
    BY <1>0, <2>1, <2>2 DEF AllOver, Finished
<1> QED
  BY <1>0, <1>3, <1>4, <1>5, <1>6, <1>7, <1>8 DEF IInv

LEMMA InvStep == IInv /\ [Next]_vars => IInv'
<1> SUFFICES ASSUME IInv, [Next]_vars
             PROVE  IInv'
  OBVIOUS
<1>0. /\ TypeOK /\ Phases
      /\ matchPlayer \subseteq Matches /\ history \subseteq Matches
      /\ cancelled \in BOOLEAN /\ failures \in 0..MaxFailures /\ MaxFailures \in Nat
      /\ \A i \in Inserters : batch[i] \subseteq Matches
  BY Sizes DEF IInv, TypeOK
<1>1. ASSUME NEW m \in Matches, StartTask(m)
      PROVE  IInv'
  <2>1. /\ task[m] = "queued" /\ UNCHANGED chan
        /\ SetTask(m, IF cancelled THEN "skipped" ELSE "fetching")
    BY <1>1 DEF StartTask
  <2> QED
    BY <2>1, ProducerInv DEF TaskStates
<1>2. ASSUME NEW m \in Matches, FetchAndParseMatch(m)
      PROVE  IInv'
  <2>1. task[m] = "fetching" /\ UNCHANGED chan
    BY <1>2 DEF FetchAndParseMatch
  <2>2. PICK outcome \in {"sending", "failed"} : SetTask(m, outcome)
    BY <1>2 DEF FetchAndParseMatch
  <2> QED
    BY <2>1, <2>2, ProducerInv DEF TaskStates
<1>3. ASSUME NEW m \in Matches, Send(m)
      PROVE  IInv'
  <2>1. task[m] = "sending" /\ HasRoom /\ chan' = Append(chan, m) /\ SetTask(m, "sent")
    BY <1>3 DEF Send
  <2> QED
    BY <2>1, ProducerInv DEF TaskStates
<1>4. CASE DropSender
  <2>1. /\ main' = "join" /\ Finished = Matches
        /\ UNCHANGED <<task, chan, cancelled, ins, batch, reported, matchPlayer, history, failures>>
    BY <1>4 DEF DropSender, tables
  <2>2. TypeOK' /\ Phases' /\ AllOver'
    BY <1>0, <2>1 DEF TypeOK, Phases, AllOver, Finished, Closed
  <2>3. Distinct' /\ OnePlace' /\ OnlySent' /\ NotLost' /\ Stored'
    BY <2>1 DEF IInv, Distinct, OnePlace, OnlySent, NotLost, Stored, Everywhere, Chan
  <2> QED
    BY <2>2, <2>3 DEF IInv
<1>5. CASE Return
  <2>1. /\ main = "join" /\ main' = "done" /\ \A i \in Inserters : ins[i] \in {"ok", "error"}
        /\ UNCHANGED <<task, chan, cancelled, ins, batch, reported, matchPlayer, history, failures>>
    BY <1>5 DEF Return, tables
  <2>2. TypeOK' /\ Phases' /\ AllOver'
    BY <1>0, <2>1 DEF IInv, TypeOK, Phases, AllOver, Finished, Closed
  <2>3. Distinct' /\ OnePlace' /\ OnlySent' /\ NotLost' /\ Stored'
    BY <2>1 DEF IInv, Distinct, OnePlace, OnlySent, NotLost, Stored, Everywhere, Chan
  <2> QED
    BY <2>2, <2>3 DEF IInv
<1>6. ASSUME NEW i \in Inserters, Recv(i)
      PROVE  IInv'
  BY <1>6, RecvInv
<1>7. ASSUME NEW i \in Inserters, ChannelClosed(i)
      PROVE  IInv'
  <2>1. /\ ins[i] = "recv" /\ Closed /\ ins' = [ins EXCEPT ![i] = AfterLoop(i)]
        /\ UNCHANGED <<main, task, chan, cancelled, batch, reported, matchPlayer, history, failures>>
    BY <1>7 DEF ChannelClosed, tables
  <2>2. CASE batch[i] = {}
    <3>1. AfterLoop(i) = "ok" /\ "ok" \in InserterStates
      BY <2>2 DEF AfterLoop, InserterStates
    <3>2. /\ batch' = [batch EXCEPT ![i] = {}] /\ reported' = [reported EXCEPT ![i] = @ \cup batch[i]]
          /\ reported'[i] = reported[i]
      BY <1>0, <2>1, <2>2 DEF TypeOK
    <3> QED
      BY <1>0, <2>1, <3>1, <3>2, InserterInv
  <2>3. CASE batch[i] # {}
    <3>1. AfterLoop(i) = "final" /\ "final" \in InserterStates
      BY <2>3 DEF AfterLoop, InserterStates
    <3> QED
      BY <1>0, <2>1, <3>1, InserterInv
  <2> QED
    BY <2>2, <2>3
<1>8. ASSUME NEW i \in Inserters, FlushOk(i)
      PROVE  IInv'
  <2>1. /\ ins[i] \in {"flush", "final"}
        /\ matchPlayer' = matchPlayer \cup batch[i] /\ history' = history \cup batch[i]
        /\ reported' = [reported EXCEPT ![i] = @ \cup batch[i]]
        /\ batch' = [batch EXCEPT ![i] = {}]
        /\ UNCHANGED <<main, task, chan, cancelled, failures>>
    BY <1>8 DEF FlushOk, ClearBatch
  <2>2. PICK state \in {"recv", "ok"} :
          ins' = [ins EXCEPT ![i] = state] /\ (state = "ok" => ins[i] = "final")
    BY <1>0, <1>8 DEF FlushOk, TypeOK
  <2>3. state \in InserterStates /\ (state = "ok" => Closed)
    BY <1>0, <2>2 DEF InserterStates, Phases
  <2> QED
    BY <1>0, <2>1, <2>2, <2>3, InserterInv
<1>9. ASSUME NEW i \in Inserters, FlushFails(i)
      PROVE  IInv'
  <2>1. /\ ins[i] \in {"flush", "final"} /\ failures < MaxFailures /\ failures' = failures + 1
        /\ batch' = [batch EXCEPT ![i] = {}] /\ ins' = [ins EXCEPT ![i] = "error"]
        /\ UNCHANGED <<main, task, chan, reported>>
    BY <1>9 DEF FlushFails
  <2>2. /\ matchPlayer \subseteq matchPlayer' /\ matchPlayer' \subseteq Matches
        /\ history \subseteq history' /\ history' \subseteq Matches
    BY <1>0, <1>9 DEF FlushFails, tables
  <2>3. cancelled' \in BOOLEAN
    BY <1>9, Zenon DEF FlushFails
  <2>4. failures' \in 0..MaxFailures /\ "error" \in InserterStates
    BY <1>0, <2>1 DEF InserterStates
  <2> QED
    BY <2>1, <2>2, <2>3, <2>4, InserterInv
<1>10. CASE UNCHANGED vars
  BY <1>10 DEF vars, tables, IInv, TypeOK, Distinct, OnePlace, OnlySent, NotLost, Phases, AllOver,
       Stored, Chan, Everywhere, Finished, Closed
<1> QED
  BY <1>1, <1>2, <1>3, <1>4, <1>5, <1>6, <1>7, <1>8, <1>9, <1>10
  DEF Next, Producer, Inserter, Terminated

LEMMA InvHolds == Spec => []IInv
BY InvInit, InvStep, PTL DEF Spec

\* The channel and the batches keep their bounds (main.rs:523, 653-681).
THEOREM TypeTheorem == Spec => []TypeOK
<1>1. IInv => TypeOK
  BY DEF IInv
<1> QED
  BY InvHolds, <1>1, PTL

\* What the inserters report is in both tables, and when none of them failed it is every
\* match that was sent (main.rs:577-592, 678-714).
THEOREM ReportTheorem == Spec => []ReportIsTrue
<1>1. ASSUME IInv PROVE ReportIsTrue
  <2>0. TypeOK /\ OnePlace /\ NotLost /\ Phases /\ Stored
    BY <1>1 DEF IInv
  <2> SUFFICES ASSUME main = "done", \A i \in Inserters : ins[i] = "ok",
                      NEW m \in Matches, task[m] = "sent"
               PROVE  \E i \in Inserters : m \in reported[i]
    BY <2>0 DEF ReportIsTrue, Stored
  <2>1. \A i \in Inserters : batch[i] = {} /\ Closed
    BY <2>0 DEF Phases
  <2>2. Chan = {}
    BY <2>0, <2>1, ChanType, Sizes DEF Closed
  <2>3. m \in Everywhere
    BY <2>0 DEF NotLost
  <2> QED
    BY <2>1, <2>2, <2>3 DEF Everywhere
<1> QED
  BY InvHolds, <1>1, PTL

\* No match is counted twice, nor while it is on its way (main.rs:659-714).
THEOREM CountTheorem == Spec => []CountedOnce
<1>1. IInv => CountedOnce
  BY DEF IInv, OnePlace, CountedOnce, Chan
<1> QED
  BY InvHolds, <1>1, PTL
=============================================================================
