--------------------------- MODULE BatcherProofs ---------------------------
(***************************************************************************)
(* The two batchers in front of ClickHouse and the route that uses both.    *)
(* First the insert batcher, for every size of the buffer and of the calls: *)
(* the bounds of its buffer, and when it loses rows.  Then the match        *)
(* history route, for any requests, matches and answers of Steam: it uses   *)
(* the batcher as the batcher's specification says, and what it has         *)
(* answered is kept.  Last the query batcher, for any calls, keys, groups   *)
(* and sizes of the channel and the batches: it answers as a plain lookup.  *)
(***************************************************************************)
EXTENDS MatchHistory, QueryBatcher, SequenceTheorems, FiniteSetTheorems, TLAPS

LEMMA Sizes == MaxBuffer \in Nat \ {0} /\ MaxCall \in Nat \ {0} /\ MaxFailures \in Nat /\ MaxRestarts \in Nat
BY BufferAssumption

LEMMA AtMostType == ASSUME NEW m \in Nat, NEW n \in Nat
                    PROVE  AtMost(m, n) \in Nat /\ AtMost(m, n) <= m /\ AtMost(m, n) <= n
BY DEF AtMost

LEMMA AboveType == ASSUME NEW m \in Nat, NEW n \in Nat
                   PROVE  Above(m, n) \in Nat /\ (m <= n => Above(m, n) = 0) /\ (m > n => Above(m, n) = m - n)
BY DEF Above

\* A part of a sequence of rows has the rows of the sequence and the length of the interval.
LEMMA Part ==
    ASSUME NEW s \in Seq(Rows), NEW m \in 1..Len(s) + 1, NEW n \in 0..Len(s)
    PROVE  /\ SubSeq(s, m, n) \in Seq(Rows)
           /\ Len(SubSeq(s, m, n)) = IF m <= n THEN n - m + 1 ELSE 0
<1>1. Len(s) \in Nat
  BY LenProperties
<1>2. \A i \in m..n : s[i] \in Rows
  BY <1>1, ElementOfSeq
<1> QED
  BY <1>1, <1>2, SubSeqProperties

LEMMA Whole == ASSUME NEW s \in Seq(Rows) PROVE SubSeq(s, 1, Len(s)) = s
BY SubSeqFull

LEMMA ElementsType == ASSUME NEW s \in Seq(Rows) PROVE Elements(s) \subseteq Rows
BY ElementOfSeq, LenProperties DEF Elements

LEMMA ElementsOfConcat ==
    ASSUME NEW s \in Seq(Rows), NEW t \in Seq(Rows)
    PROVE  Elements(s \o t) = Elements(s) \cup Elements(t)
<1>1. /\ s \o t \in Seq(Rows) /\ Len(s \o t) = Len(s) + Len(t)
      /\ \A i \in 1..Len(s) + Len(t) : (s \o t)[i] = IF i <= Len(s) THEN s[i] ELSE t[i - Len(s)]
      /\ Len(s) \in Nat /\ Len(t) \in Nat
  BY ConcatProperties, LenProperties
<1>2. /\ DOMAIN s = 1..Len(s) /\ DOMAIN t = 1..Len(t)
      /\ DOMAIN (s \o t) = 1..Len(s) + Len(t)
  BY <1>1, LenProperties
<1>3. ASSUME NEW i \in DOMAIN (s \o t) PROVE (s \o t)[i] \in Elements(s) \cup Elements(t)
  <2>1. CASE i <= Len(s)
    BY <1>1, <1>2, <2>1 DEF Elements
  <2>2. CASE i > Len(s)
    <3>1. i - Len(s) \in 1..Len(t)
      BY <1>1, <1>2, <2>2
    <3> QED
      BY <1>1, <1>2, <2>2, <3>1 DEF Elements
  <2> QED
    BY <1>1, <1>2, <2>1, <2>2
<1>4. ASSUME NEW i \in DOMAIN s PROVE s[i] \in Elements(s \o t)
  <2>1. i \in 1..Len(s) + Len(t) /\ i <= Len(s)
    BY <1>1, <1>2
  <2> QED
    BY <1>1, <1>2, <2>1 DEF Elements
<1>5. ASSUME NEW i \in DOMAIN t PROVE t[i] \in Elements(s \o t)
  <2>1. i + Len(s) \in 1..Len(s) + Len(t) /\ ~(i + Len(s) <= Len(s)) /\ (i + Len(s)) - Len(s) = i
    BY <1>1, <1>2
  <2> QED
    BY <1>1, <1>2, <2>1 DEF Elements
<1>6. Elements(s \o t) \subseteq Elements(s) \cup Elements(t)
  BY <1>3 DEF Elements
<1>7. Elements(s) \subseteq Elements(s \o t) /\ Elements(t) \subseteq Elements(s \o t)
  BY <1>4, <1>5 DEF Elements
<1> QED
  BY <1>6, <1>7

-----------------------------------------------------------------------------

\* What a call makes of the buffer: bounded, and nothing is dropped while there is room.
LEMMA RoomIsMade ==
    ASSUME BatcherTypeOK, NEW rows \in Seq(Rows), Len(rows) <= MaxCall
    PROVE  /\ MadeRoom(rows) \in Seq(Rows)
           /\ Len(MadeRoom(rows)) <= (IF MaxCall <= MaxBuffer THEN MaxBuffer ELSE MaxCall)
           /\ Len(buffer) + Len(rows) <= MaxBuffer =>
                MadeRoom(rows) = buffer \o rows /\ Len(MadeRoom(rows)) = Len(buffer) + Len(rows)
<1> DEFINE d == AtMost(Above(Len(buffer) + Len(rows), MaxBuffer), Len(buffer))
           kept == SubSeq(buffer, d + 1, Len(buffer))
<1>1. /\ buffer \in Seq(Rows) /\ Len(buffer) \in Nat /\ Len(rows) \in Nat
      /\ Len(buffer) + Len(rows) \in Nat
  BY LenProperties DEF BatcherTypeOK
<1>2. /\ d \in 0..Len(buffer)
      /\ Len(buffer) + Len(rows) <= MaxBuffer => d = 0
      /\ d = Len(buffer) \/ Len(buffer) + Len(rows) - d <= MaxBuffer
  <2>1. CASE Len(buffer) + Len(rows) <= MaxBuffer
    BY <1>1, <2>1, Sizes DEF AtMost, Above
  <2>2. CASE Len(buffer) + Len(rows) > MaxBuffer
    <3> DEFINE n == Len(buffer) + Len(rows) - MaxBuffer
    <3>1. n \in Nat /\ n > 0 /\ n = Above(Len(buffer) + Len(rows), MaxBuffer)
      BY <1>1, <2>2, Sizes DEF Above
    <3>2. d = (IF n <= Len(buffer) THEN n ELSE Len(buffer))
      BY <3>1 DEF AtMost
    <3> QED
      BY <1>1, <2>2, <3>1, <3>2, Sizes
  <2> QED
    BY <1>1, <2>1, <2>2, Sizes
<1> HIDE DEF d
<1>3. kept \in Seq(Rows) /\ Len(kept) = Len(buffer) - d
  BY <1>1, <1>2, Part
<1>4. MadeRoom(rows) = kept \o rows
  BY DEF MadeRoom, d
<1>5. Len(buffer) + Len(rows) <= MaxBuffer => kept = buffer
  BY <1>1, <1>2, Whole
<1> HIDE DEF kept
<1>6. MadeRoom(rows) \in Seq(Rows) /\ Len(MadeRoom(rows)) = Len(kept) + Len(rows)
  BY <1>3, <1>4, ConcatProperties
<1>7. Len(buffer) + Len(rows) <= MaxBuffer =>
        MadeRoom(rows) = buffer \o rows /\ Len(MadeRoom(rows)) = Len(buffer) + Len(rows)
  BY <1>4, <1>5, <1>6
<1>8. Len(MadeRoom(rows)) <= (IF MaxCall <= MaxBuffer THEN MaxBuffer ELSE MaxCall)
  BY <1>1, <1>2, <1>3, <1>6, Sizes
<1> QED
  BY <1>6, <1>7, <1>8

\* What is put back after a failure fits, and is everything while there is room for it.
LEMMA BackIsPut ==
    ASSUME BatcherTypeOK
    PROVE  /\ PutBack \in Seq(Rows)
           /\ Len(PutBack) <= (IF MaxCall <= MaxBuffer THEN MaxBuffer ELSE MaxCall)
           /\ Len(buffer) + Len(flushing) <= MaxBuffer =>
                PutBack = buffer \o flushing /\ Len(PutBack) = Len(buffer) + Len(flushing)
<1> DEFINE a == AtMost(Above(MaxBuffer, Len(buffer)), Len(flushing))
           back == SubSeq(flushing, 1, a)
<1>1. /\ buffer \in Seq(Rows) /\ Len(buffer) \in Nat
      /\ flushing \in Seq(Rows) /\ Len(flushing) \in Nat
      /\ Len(buffer) <= (IF MaxCall <= MaxBuffer THEN MaxBuffer ELSE MaxCall)
  BY LenProperties DEF BatcherTypeOK
<1>2. /\ a \in 0..Len(flushing)
      /\ a = 0 \/ Len(buffer) + a <= MaxBuffer
      /\ Len(buffer) + Len(flushing) <= MaxBuffer => a = Len(flushing)
  BY <1>1, Sizes DEF AtMost, Above
<1> HIDE DEF a
<1>3. back \in Seq(Rows) /\ Len(back) = a
  BY <1>1, <1>2, Part
<1>4. PutBack = buffer \o back
  BY DEF PutBack, a
<1>5. Len(buffer) + Len(flushing) <= MaxBuffer => back = flushing
  BY <1>1, <1>2, Whole
<1> HIDE DEF back
<1>6. PutBack \in Seq(Rows) /\ Len(PutBack) = Len(buffer) + Len(back)
  BY <1>1, <1>3, <1>4, ConcatProperties
<1> QED
  BY <1>1, <1>2, <1>3, <1>4, <1>5, <1>6, Sizes

-----------------------------------------------------------------------------

\* While more rows were never waiting than the buffer holds, those that wait still fit.
Roomy == ~pressed => Len(buffer) + Len(flushing) <= MaxBuffer

IInv == BatcherTypeOK /\ Roomy /\ LostOnlyUnderPressure

LEMMA InvInit == BatcherInit => IInv
<1> SUFFICES ASSUME BatcherInit PROVE IInv
  OBVIOUS
<1>1. <<>> \in Seq(Rows) /\ Len(<<>>) = 0
  BY EmptySeq
<1>2. BatcherTypeOK
  <2>1. /\ buffer = <<>> /\ flushing = <<>> /\ stored = {} /\ accepted = {}
        /\ pressed = FALSE /\ failures = 0 /\ restarts = 0
    BY DEF BatcherInit
  <2>2. buffer \in Seq(Rows) /\ flushing \in Seq(Rows) /\ Len(buffer) = 0
    BY <1>1, <2>1, Zenon
  <2>3. Len(buffer) <= (IF MaxCall <= MaxBuffer THEN MaxBuffer ELSE MaxCall)
    BY <2>2, Sizes
  <2>4. failures \in 0..MaxFailures /\ restarts \in 0..MaxRestarts
    BY <2>1, Sizes
  <2>5. pressed \in BOOLEAN
    BY <2>1, Zenon
  <2> QED
    BY <2>1, <2>2, <2>3, <2>4, <2>5 DEF BatcherTypeOK
<1>3. Roomy
  BY <1>1, Sizes DEF BatcherInit, Roomy
<1>4. LostOnlyUnderPressure
  BY DEF BatcherInit, LostOnlyUnderPressure
<1> QED
  BY <1>2, <1>3, <1>4 DEF IInv

LEMMA InvStep == IInv /\ [BatcherNext]_batcherVars => IInv'
<1> SUFFICES ASSUME IInv, [BatcherNext]_batcherVars
             PROVE  IInv'
  OBVIOUS
<1>0. /\ buffer \in Seq(Rows) /\ Len(buffer) \in Nat
      /\ flushing \in Seq(Rows) /\ Len(flushing) \in Nat
      /\ stored \subseteq Rows /\ accepted \subseteq Rows /\ pressed \in BOOLEAN
      /\ failures \in 0..MaxFailures /\ restarts \in 0..MaxRestarts
      /\ Elements(<<>>) = {} /\ Len(<<>>) = 0 /\ <<>> \in Seq(Rows)
  BY LenProperties, EmptySeq DEF IInv, BatcherTypeOK, Elements
<1>1. ASSUME NEW rows \in Insertions, Insert(rows)
      PROVE  IInv'
  <2>1. rows \in Seq(Rows) /\ Len(rows) <= MaxCall /\ Len(rows) \in Nat
    BY LenProperties DEF Insertions
  <2>2. /\ MadeRoom(rows) \in Seq(Rows)
        /\ Len(MadeRoom(rows)) <= (IF MaxCall <= MaxBuffer THEN MaxBuffer ELSE MaxCall)
        /\ Len(buffer) + Len(rows) <= MaxBuffer =>
             MadeRoom(rows) = buffer \o rows /\ Len(MadeRoom(rows)) = Len(buffer) + Len(rows)
    BY <2>1, RoomIsMade DEF IInv
  <2>3. BatcherTypeOK'
    BY <1>0, <1>1, <2>1, <2>2, ElementsType DEF Insert, BatcherTypeOK
  <2>4. ~pressed' => ~pressed /\ Len(buffer) + Len(flushing) + Len(rows) <= MaxBuffer
    <3>1. ~pressed' => ~pressed /\ ~(Len(buffer) + Len(flushing) + Len(rows) > MaxBuffer)
      BY <1>1, Zenon DEF Insert
    <3> QED
      BY <1>0, <2>1, <3>1, Sizes
  <2>5. Roomy'
    BY <1>0, <1>1, <2>1, <2>2, <2>4, Sizes DEF Insert, Roomy
  <2>6. LostOnlyUnderPressure'
    <3> SUFFICES ASSUME ~pressed', restarts' = 0
                 PROVE  accepted' \subseteq Kept'
      BY DEF LostOnlyUnderPressure
    <3>1. buffer' = buffer \o rows
      BY <1>0, <1>1, <2>1, <2>2, <2>4, Sizes DEF Insert
    <3>2. Elements(buffer') = Elements(buffer) \cup Elements(rows)
      BY <1>0, <2>1, <3>1, ElementsOfConcat
    <3>3. accepted \subseteq Kept
      BY <1>1, <2>4 DEF IInv, LostOnlyUnderPressure, Insert
    <3> QED
      BY <1>1, <3>2, <3>3 DEF Insert, Kept
  <2> QED
    BY <2>3, <2>5, <2>6 DEF IInv
<1>2. CASE Flush
  <2>1. BatcherTypeOK'
    BY <1>0, <1>2, Sizes DEF Flush, BatcherTypeOK
  <2>2. Roomy'
    BY <1>0, <1>2 DEF Flush, Roomy, IInv
  <2>3. Kept' = Kept
    BY <1>0, <1>2 DEF Flush, Kept
  <2> QED
    BY <1>2, <2>1, <2>2, <2>3 DEF Flush, IInv, LostOnlyUnderPressure
<1>3. CASE FlushSucceeds
  <2>1. BatcherTypeOK'
    BY <1>0, <1>3, ElementsType DEF FlushSucceeds, BatcherTypeOK, IInv
  <2>2. Roomy'
    BY <1>0, <1>3, Sizes DEF FlushSucceeds, Roomy, IInv
  <2>3. Kept' = Kept
    BY <1>0, <1>3 DEF FlushSucceeds, Kept
  <2> QED
    BY <1>3, <2>1, <2>2, <2>3 DEF FlushSucceeds, IInv, LostOnlyUnderPressure
<1>4. CASE FlushFails
  <2>1. /\ PutBack \in Seq(Rows)
        /\ Len(PutBack) <= (IF MaxCall <= MaxBuffer THEN MaxBuffer ELSE MaxCall)
        /\ Len(buffer) + Len(flushing) <= MaxBuffer =>
             PutBack = buffer \o flushing /\ Len(PutBack) = Len(buffer) + Len(flushing)
    BY BackIsPut DEF IInv
  <2>2. stored' \subseteq Rows /\ stored \subseteq stored'
    BY <1>0, <1>4, ElementsType DEF FlushFails
  <2>3. BatcherTypeOK'
    BY <1>0, <1>4, <2>1, <2>2, Sizes DEF FlushFails, BatcherTypeOK
  <2>4. Roomy'
    <3>1. buffer' = PutBack /\ flushing' = <<>> /\ pressed' = pressed
      BY <1>4 DEF FlushFails
    <3>2. ~pressed => Len(PutBack) + 0 <= MaxBuffer
      BY <1>0, <2>1, Sizes DEF IInv, Roomy
    <3> QED
      BY <1>0, <3>1, <3>2 DEF Roomy
  <2>5. LostOnlyUnderPressure'
    <3> SUFFICES ASSUME ~pressed, restarts = 0
                 PROVE  accepted \subseteq Kept'
      BY <1>4 DEF LostOnlyUnderPressure, FlushFails
    <3>1. buffer' = buffer \o flushing
      BY <1>4, <2>1 DEF FlushFails, IInv, Roomy
    <3>2. Elements(buffer') = Elements(buffer) \cup Elements(flushing)
      BY <1>0, <3>1, ElementsOfConcat
    <3> QED
      BY <2>2, <3>2 DEF IInv, LostOnlyUnderPressure, Kept
  <2> QED
    BY <2>3, <2>4, <2>5 DEF IInv
<1>5. CASE Restart
  <2>1. BatcherTypeOK'
    BY <1>0, <1>5, Sizes DEF Restart, BatcherTypeOK
  <2>2. Roomy' /\ restarts' # 0
    BY <1>0, <1>5, Sizes DEF Restart, Roomy
  <2> QED
    BY <2>1, <2>2 DEF IInv, LostOnlyUnderPressure
<1>6. ASSUME NEW row \in Rows, OthersInsert(row)
      PROVE  IInv'
  BY <1>6 DEF OthersInsert, IInv, BatcherTypeOK, Roomy, LostOnlyUnderPressure, Kept
<1>7. CASE UNCHANGED batcherVars
  BY <1>7 DEF batcherVars, IInv, BatcherTypeOK, Roomy, LostOnlyUnderPressure, Kept
<1> QED
  BY <1>1, <1>2, <1>3, <1>4, <1>5, <1>6, <1>7 DEF BatcherNext

\* The buffer outgrows its maximum by no more than one call that is larger than it, and what
\* failed never makes it outgrow it (clickhouse_insert_batcher.rs:41-57, 104-112).
THEOREM BufferTheorem == BatcherSpec => []BatcherTypeOK
<1>1. IInv => BatcherTypeOK
  BY DEF IInv
<1> QED
  BY InvInit, InvStep, <1>1, PTL DEF BatcherSpec

\* No failed or interrupted insertion loses rows: they are lost when more are waiting than
\* the buffer holds, or in a restart (clickhouse_insert_batcher.rs:91-116).
THEOREM LossTheorem == BatcherSpec => []LostOnlyUnderPressure
<1>1. IInv => LostOnlyUnderPressure
  BY DEF IInv
<1> QED
  BY InvInit, InvStep, <1>1, PTL DEF BatcherSpec

-----------------------------------------------------------------------------
(* The route.                                                              *)

RouteTypeOK ==
    /\ stage \in [Requests -> Stages]
    /\ force \in [Requests -> BOOLEAN]
    /\ ch \in [Requests -> SUBSET Rows] /\ answer \in [Requests -> SUBSET Rows]
    /\ steam \in [Requests -> {<<>>} \cup Histories]
    /\ chCache \in {None} \cup SUBSET Rows
    /\ chLock \in Requests \cup {None}
    /\ steamCache \in [BOOLEAN -> {None} \cup Histories]
    /\ steamLock \in [BOOLEAN -> Requests \cup {None}]

LEMMA MergedType == ASSUME NEW rows \in SUBSET Rows PROVE Merged(rows) \in SUBSET Rows
<1>1. Rows = [match : Matches, ranked : BOOLEAN]
  BY HistoryAssumption
<1>2. ASSUME NEW m \in {row.match : row \in rows}
      PROVE  [match |-> m, ranked |-> \E row \in rows : row.match = m /\ row.ranked] \in Rows
  <2>1. m \in Matches
    BY <1>1
  <2>2. (\E row \in rows : row.match = m /\ row.ranked) \in BOOLEAN
    OBVIOUS
  <2> DEFINE any == \E row \in rows : row.match = m /\ row.ranked
  <2>3. [match |-> m, ranked |-> any] \in [match : Matches, ranked : BOOLEAN]
    <3> HIDE DEF any
    <3>1. any \in BOOLEAN
      BY <2>2 DEF any
    <3> QED
      BY <2>1, <3>1
  <2> QED
    BY <1>1, <2>3
<1> QED
  BY <1>2 DEF Merged

LEMMA SteamType ==
    ASSUME RouteTypeOK, NEW r \in Requests
    PROVE  /\ steam[r] \in Seq(Rows) /\ Len(steam[r]) \in Nat /\ Len(steam[r]) <= MaxCall
           /\ DOMAIN steam[r] = 1..Len(steam[r])
<1>1. CASE steam[r] = <<>>
  BY <1>1, EmptySeq, Sizes
<1>2. CASE steam[r] \in Histories
  BY <1>2, HistoryAssumption, LenProperties
<1> QED
  BY <1>1, <1>2 DEF RouteTypeOK

\* The rows picked in order are those at the positions, each once.
LEMMA PickedRows ==
    ASSUME NEW s \in Seq(Rows), NEW positions \in SUBSET (DOMAIN s), NEW at \in InOrder(positions),
           positions # {}
    PROVE  LET rows == [k \in DOMAIN at |-> s[at[k]]]
           IN  /\ rows \in Seq(Rows) /\ Len(rows) <= Len(s) /\ rows # <<>>
               /\ Elements(rows) = {s[i] : i \in positions}
<1> DEFINE n == Cardinality(positions)
           rows == [k \in DOMAIN at |-> s[at[k]]]
<1>1. Len(s) \in Nat /\ DOMAIN s = 1..Len(s) /\ \A i \in DOMAIN s : s[i] \in Rows
  BY LenProperties, ElementOfSeq
<1>2. IsFiniteSet(1..Len(s)) /\ Cardinality(1..Len(s)) = Len(s)
  <2>1. /\ IsFiniteSet(1..Len(s))
        /\ Cardinality(1..Len(s)) = IF 1 > Len(s) THEN 0 ELSE Len(s) - 1 + 1
    BY <1>1, FS_Interval
  <2> QED
    BY <1>1, <2>1
<1>3. IsFiniteSet(positions) /\ n \in Nat /\ n <= Len(s) /\ n # 0
  BY <1>1, <1>2, FS_Subset, FS_CardinalityType, FS_EmptySet
<1>4. at \in [1..n -> positions] /\ \A j, k \in 1..n : j < k => at[j] < at[k]
  BY DEF InOrder
<1>5. IsFiniteSet(1..n) /\ Cardinality(1..n) = n
  BY <1>3, FS_Interval
<1> HIDE DEF n
<1>6. at \in Injection(1..n, positions)
  <2> SUFFICES ASSUME NEW j \in 1..n, NEW k \in 1..n, at[j] = at[k] PROVE j = k
    BY <1>4 DEF Injection, IsInjective
  <2>1. at[j] \in Nat /\ at[k] \in Nat
    BY <1>1, <1>4
  <2> QED
    BY <1>3, <1>4, <2>1
<1>7. at \in Surjection(1..n, positions)
  BY <1>3, <1>5, <1>6, FS_Injection DEF n
<1>8. \A i \in positions : \E k \in 1..n : at[k] = i
  BY <1>7 DEF Surjection
<1>9. rows = [k \in 1..n |-> s[at[k]]] /\ \A k \in 1..n : s[at[k]] \in Rows
  BY <1>1, <1>4
<1>10. rows \in Seq(Rows) /\ Len(rows) = n /\ DOMAIN rows = 1..n
  BY <1>3, <1>9, IsASeq, LenProperties
<1>11. rows # <<>>
  BY <1>3, <1>10, EmptySeq
<1>12. Elements(rows) = {s[i] : i \in positions}
  BY <1>4, <1>8, <1>9, <1>10 DEF Elements
<1> QED
  BY <1>3, <1>10, <1>11, <1>12

\* What Steam gave and the table seems to lack.
Lacking(r) == {i \in DOMAIN steam[r] : Missing(steam[r][i], ch[r])}

\* A merge leaves in the batcher what seems to be lacking, as a call may.
LEMMA StoresWhatLacks ==
    ASSUME RouteTypeOK, NEW r \in Requests, MergeAndStore(r)
    PROVE  \/ Lacking(r) = {} /\ UNCHANGED batcherVars
           \/ \E rows \in Insertions : /\ Insert(rows)
                                  /\ Elements(rows) = {steam[r][i] : i \in Lacking(r)}
<1>1. steam[r] \in Seq(Rows) /\ Len(steam[r]) \in Nat /\ Len(steam[r]) <= MaxCall
  BY SteamType
<1>2. CASE Lacking(r) = {}
  BY <1>2 DEF MergeAndStore, Lacking
<1>3. CASE Lacking(r) # {}
  <2>1. PICK at \in InOrder(Lacking(r)) : Insert([k \in DOMAIN at |-> steam[r][at[k]]])
    BY <1>3 DEF MergeAndStore, Lacking
  <2> DEFINE rows == [k \in DOMAIN at |-> steam[r][at[k]]]
  <2>2. Lacking(r) \in SUBSET (DOMAIN steam[r])
    BY DEF Lacking
  <2>3. /\ rows \in Seq(Rows) /\ Len(rows) <= Len(steam[r])
        /\ Elements(rows) = {steam[r][i] : i \in Lacking(r)}
    BY <1>1, <1>3, <2>2, PickedRows
  <2>4. Insert(rows)
    BY <2>1
  <2> HIDE DEF rows
  <2>5. rows \in Insertions
    BY <1>1, <2>3, Sizes, LenProperties DEF Insertions
  <2> QED
    BY <2>3, <2>4, <2>5
<1> QED
  BY <1>2, <1>3

\* The route uses the batcher as the batcher's specification says.
LEMMA BatcherStep ==
    ASSUME RouteTypeOK, [Next]_vars PROVE [BatcherNext]_batcherVars
<1>1. ASSUME NEW r \in Requests, MergeAndStore(r) PROVE [BatcherNext]_batcherVars
  BY <1>1, StoresWhatLacks DEF BatcherNext
<1>2. ASSUME NEW r \in Requests,
             \/ Begin(r) \/ Fail(r) \/ AnswerFromTable(r) \/ Admit(r)
             \/ LoadCached(r) \/ LoadReads(r) \/ LoadEnds(r)
             \/ SteamCached(r) \/ SteamAsked(r) \/ SteamAnswers(r) \/ SteamFails(r)
      PROVE  UNCHANGED batcherVars
  BY <1>2 DEF Begin, Fail, AnswerFromTable, Admit, LoadCached, LoadReads, LoadEnds, SteamCached,
              SteamAsked, SteamAnswers, SteamFails, OnlyTable, OnlySteam
<1>3. ChExpires \/ (\E f \in BOOLEAN : SteamExpires(f)) => UNCHANGED batcherVars
  BY DEF ChExpires, SteamExpires, OnlyTable, OnlySteam
<1>4. Background => BatcherNext
  BY HistoryAssumption DEF Background, BatcherNext
<1>5. RestartAll => BatcherNext
  BY DEF RestartAll, BatcherNext
<1>6. UNCHANGED vars => UNCHANGED batcherVars
  BY DEF vars, batcherVars
<1> QED
  BY <1>1, <1>2, <1>3, <1>4, <1>5, <1>6 DEF Next

LEMMA RouteTypeStep ==
    ASSUME RouteTypeOK, stored \subseteq Rows, [Next]_vars PROVE RouteTypeOK'
<1>0. /\ \A r \in Requests : ch[r] \in SUBSET Rows
      /\ \A s \in {"load", "loading", "limit", "steam", "fetching", "merge", "answered", "failed"} : s \in Stages
      /\ {} \in SUBSET Rows
  BY DEF RouteTypeOK, Stages
<1>1. ASSUME NEW r \in Requests, NEW end \in {"answered", "failed"}, NEW rows \in SUBSET Rows,
             Ends(r, end, rows)
      PROVE  RouteTypeOK'
  BY <1>0, <1>1 DEF RouteTypeOK, Ends, Goes
<1>2. ASSUME NEW r \in Requests, MergeAndStore(r) PROVE RouteTypeOK'
  <2>1. Merged(ch[r] \cup Elements(steam[r])) \in SUBSET Rows
    BY <1>0, SteamType, ElementsType, MergedType
  <2> QED
    BY <1>1, <1>2, <2>1 DEF MergeAndStore
<1>3. ASSUME NEW r \in Requests, Fail(r) \/ AnswerFromTable(r) PROVE RouteTypeOK'
  BY <1>0, <1>1, <1>3 DEF Fail, AnswerFromTable
<1>4. ASSUME NEW r \in Requests, Begin(r) \/ Admit(r) \/ LoadCached(r) \/ LoadReads(r) \/ LoadEnds(r)
      PROVE  RouteTypeOK'
  <2>1. Merged(stored) \in SUBSET Rows
    BY MergedType
  <2>2. CASE Begin(r) \/ Admit(r)
    BY <1>0, <2>2 DEF Begin, Admit, RouteTypeOK, Goes, OnlyTable
  <2>3. CASE LoadCached(r)
    BY <1>0, <2>3 DEF LoadCached, RouteTypeOK, Goes, OnlyTable
  <2>4. CASE LoadReads(r)
    BY <1>0, <2>1, <2>4 DEF LoadReads, RouteTypeOK, Goes, OnlyTable
  <2>5. CASE LoadEnds(r)
    BY <1>0, <2>5 DEF LoadEnds, RouteTypeOK, Goes, OnlyTable
  <2> QED
    BY <1>4, <2>2, <2>3, <2>4, <2>5
<1>5. ASSUME NEW r \in Requests, SteamCached(r) \/ SteamAsked(r) \/ SteamAnswers(r) \/ SteamFails(r)
      PROVE  RouteTypeOK'
  <2>0. force[r] \in BOOLEAN
    BY DEF RouteTypeOK
  <2>1. CASE SteamCached(r)
    BY <1>0, <2>0, <2>1 DEF SteamCached, RouteTypeOK, Goes, OnlySteam
  <2>2. CASE SteamAsked(r)
    BY <1>0, <2>0, <2>2 DEF SteamAsked, RouteTypeOK, Goes, OnlySteam
  <2>3. CASE SteamAnswers(r)
    BY <1>0, <2>0, <2>3 DEF SteamAnswers, RouteTypeOK, Goes, OnlySteam
  <2>4. CASE SteamFails(r)
    BY <1>0, <2>0, <2>4 DEF SteamFails, RouteTypeOK, Goes, OnlySteam
  <2> QED
    BY <1>5, <2>1, <2>2, <2>3, <2>4
<1>6. CASE ChExpires
  BY <1>6 DEF ChExpires, RouteTypeOK, OnlyTable
<1>7. ASSUME NEW f \in BOOLEAN, SteamExpires(f) PROVE RouteTypeOK'
  BY <1>7 DEF SteamExpires, RouteTypeOK, OnlySteam
<1>8. CASE Background \/ UNCHANGED vars
  BY <1>8 DEF Background, vars, routeVars, RouteTypeOK
<1>9. CASE RestartAll
  BY <1>0, <1>9 DEF RestartAll, RouteTypeOK
<1> QED
  BY <1>2, <1>3, <1>4, <1>5, <1>6, <1>7, <1>8, <1>9 DEF Next

-----------------------------------------------------------------------------
(* What was shown is kept.                                                 *)

\* Each of the rows is kept, or one of its match that says as much.
Covered(rows, kept) ==
    \A row \in rows : \E other \in kept : other.match = row.match /\ (row.ranked => other.ranked)

\* What the requests and the cache hold of the table is kept too: the decision what to
\* insert may be taken from outdated rows, but from no others.
ShownIsKept ==
    ~pressed /\ restarts = 0 =>
        /\ \A r \in Requests : Covered(ch[r], Kept) /\ Covered(answer[r], Kept)
        /\ chCache # None => Covered(chCache, Kept)

RouteInv == IInv /\ RouteTypeOK /\ ShownIsKept

LEMMA MergedCovered ==
    ASSUME NEW rows, NEW kept, Covered(rows, kept) PROVE Covered(Merged(rows), kept)
<1> SUFFICES ASSUME NEW row \in Merged(rows)
             PROVE  \E other \in kept : other.match = row.match /\ (row.ranked => other.ranked)
  BY DEF Covered
<1>1. PICK m \in {e.match : e \in rows} :
        row = [match |-> m, ranked |-> \E e \in rows : e.match = m /\ e.ranked]
  BY DEF Merged
<1>2. row.match = m /\ (row.ranked => \E e \in rows : e.match = m /\ e.ranked)
  BY <1>1
<1>3. PICK e \in rows : e.match = m /\ (row.ranked => e.ranked)
  BY <1>1, <1>2
<1> QED
  BY <1>2, <1>3 DEF Covered

\* While there is room, and without a restart, what is kept stays.
LEMMA KeptStays ==
    ASSUME IInv, [BatcherNext]_batcherVars, ~pressed', restarts' = 0
    PROVE  Kept \subseteq Kept' /\ ~pressed /\ restarts = 0
<1>0. /\ buffer \in Seq(Rows) /\ flushing \in Seq(Rows) /\ Elements(<<>>) = {}
      /\ Len(buffer) \in Nat /\ Len(flushing) \in Nat /\ restarts \in Nat
  BY LenProperties DEF IInv, BatcherTypeOK, Elements
<1>1. ASSUME NEW rows \in Insertions, Insert(rows)
      PROVE  Kept \subseteq Kept' /\ ~pressed /\ restarts = 0
  <2>1. rows \in Seq(Rows) /\ Len(rows) <= MaxCall /\ Len(rows) \in Nat
    BY LenProperties DEF Insertions
  <2>2. ~pressed /\ Len(buffer) + Len(rows) <= MaxBuffer
    <3>1. ~pressed /\ ~(Len(buffer) + Len(flushing) + Len(rows) > MaxBuffer)
      BY <1>1, Zenon DEF Insert
    <3> QED
      BY <1>0, <2>1, <3>1, Sizes
  <2>3. buffer' = buffer \o rows
    BY <1>1, <2>1, <2>2, RoomIsMade DEF IInv, Insert
  <2>4. Elements(buffer') = Elements(buffer) \cup Elements(rows)
    BY <1>0, <2>1, <2>3, ElementsOfConcat
  <2> QED
    BY <1>1, <2>2, <2>4 DEF Insert, Kept
<1>2. CASE Flush \/ FlushSucceeds
  BY <1>0, <1>2 DEF Flush, FlushSucceeds, Kept
<1>3. CASE FlushFails
  <2>1. ~pressed /\ restarts = 0 /\ stored \subseteq stored'
    BY <1>3 DEF FlushFails
  <2>2. buffer' = buffer \o flushing
    BY <1>3, <2>1, BackIsPut DEF FlushFails, IInv, Roomy
  <2>3. Elements(buffer') = Elements(buffer) \cup Elements(flushing)
    BY <1>0, <2>2, ElementsOfConcat
  <2> QED
    BY <2>1, <2>3 DEF Kept
<1>4. CASE Restart
  BY <1>0, <1>4 DEF Restart
<1>5. ASSUME NEW row \in Rows, OthersInsert(row)
      PROVE  Kept \subseteq Kept' /\ ~pressed /\ restarts = 0
  BY <1>5 DEF OthersInsert, Kept
<1>6. CASE UNCHANGED batcherVars
  BY <1>6 DEF batcherVars, Kept
<1> QED
  BY <1>1, <1>2, <1>3, <1>4, <1>5, <1>6 DEF BatcherNext

LEMMA CoveredStays ==
    ASSUME NEW rows, NEW kept, Covered(rows, kept), NEW more, kept \subseteq more
    PROVE  Covered(rows, more)
BY DEF Covered

LEMMA MergedOfTable == Covered(Merged(stored), Kept)
<1>1. Covered(stored, Kept)
  BY DEF Covered, Kept
<1> QED
  BY <1>1, MergedCovered

\* What a merge answers: of Steam's rows, those that seemed to be lacking are on their way.
LEMMA AnswerIsKept ==
    ASSUME RouteInv, NEW r \in Requests, MergeAndStore(r), ~pressed', restarts' = 0,
           Kept \subseteq Kept', Covered(ch[r], Kept)
    PROVE  Covered(Merged(ch[r] \cup Elements(steam[r])), Kept')
<1>1. Covered(ch[r], Kept')
  BY CoveredStays
<1>2. {steam[r][i] : i \in Lacking(r)} \subseteq Kept'
  <2>1. CASE Lacking(r) = {}
    BY <2>1
  <2>2. ASSUME NEW rows \in Insertions, Insert(rows), Elements(rows) = {steam[r][i] : i \in Lacking(r)}
        PROVE  Elements(rows) \subseteq Kept'
    <3>1. accepted' = accepted \cup Elements(rows)
      BY <2>2 DEF Insert
    <3>2. IInv'
      BY <2>2, InvStep DEF RouteInv, BatcherNext
    <3>3. accepted' \subseteq Kept'
      BY <3>2 DEF IInv, LostOnlyUnderPressure
    <3> QED
      BY <3>1, <3>3
  <2> QED
    BY <2>1, <2>2, StoresWhatLacks DEF RouteInv
<1>3. ASSUME NEW i \in DOMAIN steam[r]
      PROVE  \E other \in Kept' : other.match = steam[r][i].match /\ (steam[r][i].ranked => other.ranked)
  <2>1. CASE i \in Lacking(r)
    BY <1>2, <2>1
  <2>2. CASE i \notin Lacking(r)
    <3>1. PICK row \in ch[r] : row.match = steam[r][i].match /\ (steam[r][i].ranked => row.ranked)
      BY <2>2 DEF Lacking, Missing
    <3> QED
      BY <1>1, <3>1 DEF Covered
  <2> QED
    BY <2>1, <2>2
<1>4. Covered(ch[r] \cup Elements(steam[r]), Kept')
  BY <1>1, <1>3 DEF Covered, Elements
<1> QED
  BY <1>4, MergedCovered

LEMMA RouteInit == Init => RouteInv
<1> SUFFICES ASSUME Init PROVE RouteInv
  OBVIOUS
<1>1. IInv
  BY InvInit DEF Init
<1>2. RouteTypeOK
  BY DEF Init, RouteTypeOK, Stages
<1>3. ShownIsKept
  <2>1. \A r \in Requests : ch[r] = {} /\ answer[r] = {}
    BY DEF Init
  <2>2. chCache = None
    BY DEF Init
  <2> QED
    BY <2>1, <2>2 DEF ShownIsKept, Covered
<1> QED
  BY <1>1, <1>2, <1>3 DEF RouteInv

LEMMA RouteStep == RouteInv /\ [Next]_vars => RouteInv'
<1> SUFFICES ASSUME RouteInv, [Next]_vars PROVE RouteInv'
  OBVIOUS
<1>1. [BatcherNext]_batcherVars /\ IInv'
  BY BatcherStep, InvStep DEF RouteInv
<1>2. RouteTypeOK'
  BY RouteTypeStep DEF RouteInv, IInv, BatcherTypeOK
<1>3. ShownIsKept'
  <2> SUFFICES ASSUME ~pressed', restarts' = 0
               PROVE  /\ \A r \in Requests : Covered(ch'[r], Kept') /\ Covered(answer'[r], Kept')
                      /\ chCache' # None => Covered(chCache', Kept')
    BY DEF ShownIsKept
  <2>1. Kept \subseteq Kept' /\ ~pressed /\ restarts = 0
    BY <1>1, KeptStays DEF RouteInv
  <2>2. /\ \A r \in Requests : Covered(ch[r], Kept) /\ Covered(answer[r], Kept)
        /\ chCache # None => Covered(chCache, Kept)
    BY <2>1 DEF RouteInv, ShownIsKept
  <2>3. /\ \A r \in Requests : Covered(ch[r], Kept') /\ Covered(answer[r], Kept')
        /\ chCache # None => Covered(chCache, Kept')
        /\ Covered({}, Kept')
    <3>1. \A rows : Covered(rows, Kept) => Covered(rows, Kept')
      BY <2>1, CoveredStays
    <3> QED
      BY <2>2, <3>1 DEF Covered
  <2>4. /\ ch \in [Requests -> SUBSET Rows] /\ answer \in [Requests -> SUBSET Rows]
    BY DEF RouteInv, RouteTypeOK
  <2>5. ASSUME NEW r \in Requests, NEW end, NEW rows, Ends(r, end, rows), Covered(rows, Kept')
        PROVE  /\ \A q \in Requests : Covered(ch'[q], Kept') /\ Covered(answer'[q], Kept')
               /\ chCache' # None => Covered(chCache', Kept')
    BY <2>3, <2>4, <2>5 DEF Ends
  <2>6. ASSUME NEW r \in Requests, MergeAndStore(r)
        PROVE  /\ \A q \in Requests : Covered(ch'[q], Kept') /\ Covered(answer'[q], Kept')
               /\ chCache' # None => Covered(chCache', Kept')
    <3>1. Covered(Merged(ch[r] \cup Elements(steam[r])), Kept')
      BY <2>1, <2>2, <2>6, AnswerIsKept
    <3> QED
      BY <2>5, <2>6, <3>1 DEF MergeAndStore
  <2>7. ASSUME NEW r \in Requests, Fail(r) \/ AnswerFromTable(r)
        PROVE  /\ \A q \in Requests : Covered(ch'[q], Kept') /\ Covered(answer'[q], Kept')
               /\ chCache' # None => Covered(chCache', Kept')
    BY <2>3, <2>5, <2>7 DEF Fail, AnswerFromTable
  <2>8. ASSUME NEW r \in Requests, LoadCached(r) \/ LoadReads(r) \/ LoadEnds(r)
        PROVE  /\ \A q \in Requests : Covered(ch'[q], Kept') /\ Covered(answer'[q], Kept')
               /\ chCache' # None => Covered(chCache', Kept')
    <3>1. Covered(Merged(stored), Kept')
      BY <2>1, MergedOfTable, CoveredStays
    <3>2. CASE LoadCached(r)
      BY <2>3, <2>4, <3>2 DEF LoadCached, OnlyTable
    <3>3. CASE LoadReads(r)
      BY <2>3, <2>4, <3>1, <3>3 DEF LoadReads, OnlyTable
    <3>4. CASE LoadEnds(r)
      BY <2>3, <3>4 DEF LoadEnds, OnlyTable
    <3> QED
      BY <2>8, <3>2, <3>3, <3>4
  <2>9. ASSUME NEW r \in Requests,
               \/ Begin(r) \/ Admit(r)
               \/ SteamCached(r) \/ SteamAsked(r) \/ SteamAnswers(r) \/ SteamFails(r)
        PROVE  UNCHANGED <<ch, answer, chCache>>
    BY <2>9 DEF Begin, Admit, SteamCached, SteamAsked, SteamAnswers, SteamFails, OnlyTable, OnlySteam
  <2>10. (\E f \in BOOLEAN : SteamExpires(f)) \/ Background \/ UNCHANGED vars
           => UNCHANGED <<ch, answer, chCache>>
    BY DEF SteamExpires, Background, OnlySteam, routeVars, vars
  <2>11. ChExpires => UNCHANGED <<ch, answer>> /\ chCache' = None
    BY DEF ChExpires, OnlyTable
  <2>12. ~RestartAll
    BY <2>1 DEF RestartAll, Restart
  <2> QED
    BY <2>3, <2>6, <2>7, <2>8, <2>9, <2>10, <2>11, <2>12 DEF Next
<1> QED
  BY <1>1, <1>2, <1>3 DEF RouteInv

\* Types of the route and of the batcher under it, its bound included.
THEOREM TypeTheorem == Spec => []TypeOK
<1>1. RouteInv => TypeOK
  BY DEF RouteInv, RouteTypeOK, IInv, TypeOK
<1> QED
  BY RouteInit, RouteStep, <1>1, PTL DEF Spec

\* The route is a client as the batcher expects: calls of rows, no longer than MaxCall.
THEOREM UsesBatcher == Spec => BatcherSpec
<1>1. Init => BatcherInit
  BY DEF Init
<1>2. RouteInv /\ [Next]_vars => [BatcherNext]_batcherVars
  BY BatcherStep DEF RouteInv
<1> QED
  BY RouteInit, RouteStep, <1>1, <1>2, PTL DEF Spec, BatcherSpec

\* Whatever a response showed stays, ranked data included: what the request decided from
\* rows of a cache up to ten minutes old is enough, because a row that the cache has is kept
\* as well (match_history.rs:82-93, 216-261).
THEOREM AnswersTheorem == Spec => []AnswersAreKept
<1>1. RouteInv => AnswersAreKept
  BY DEF RouteInv, ShownIsKept, Covered, AnswersAreKept
<1> QED
  BY RouteInit, RouteStep, <1>1, PTL DEF Spec

-----------------------------------------------------------------------------
(***************************************************************************)
(* The query batcher, for any calls, keys, groups and sizes of channel and  *)
(* batch.                                                                   *)
(***************************************************************************)

\* The positions that are on their way from a caller to an answer.
Moving == PositionsOf(chan) \cup PositionsOf(pending) \cup UNION {b.items : b \in batches}

\* A position is in one place: once in the channel, in the batch, or with one task.
OnePlace ==
    /\ \A i, j \in DOMAIN chan : chan[i] = chan[j] => i = j
    /\ PositionsOf(chan) \cap PositionsOf(pending) = {}
    /\ \A b \in batches : b.items \cap (PositionsOf(chan) \cup PositionsOf(pending)) = {}
    /\ \A b, d \in batches : b.items \cap d.items # {} => b = d

\* Its caller has asked and sent it, and nothing was delivered for it yet.
MovingWaits ==
    \A p \in Moving :
        p[2] <= sent[p[1]] /\ phase[p[1]] # "idle" /\ got[p[1]][p[2]] = Waiting

\* Nothing was delivered for what is not sent.
UnsentWaits ==
    \A c \in Calls : \A i \in DOMAIN KeysOf[c] : i > sent[c] => got[c][i] = Waiting

EngineInv == EngineTypeOK /\ OnePlace /\ MovingWaits /\ UnsentWaits

\* The parts of a position.
LEMMA PositionHas ==
    ASSUME NEW p \in Positions
    PROVE  /\ p[1] \in Calls /\ p[2] \in DOMAIN KeysOf[p[1]] /\ p = <<p[1], p[2]>>
           /\ KeyOf(p) \in Keys
<1>1. PICK c \in Calls : p \in {c} \X DOMAIN KeysOf[c]
  BY DEF Positions
<1>2. p[1] = c /\ p[2] \in DOMAIN KeysOf[c] /\ p = <<p[1], p[2]>>
  BY <1>1
<1>3. KeysOf[c] \in Seq(Keys)
  BY LookupAssumption
<1>4. KeysOf[c][p[2]] \in Keys
  BY <1>2, <1>3, ElementOfSeq, LenProperties
<1> QED
  BY <1>2, <1>4 DEF KeyOf

LEMMA PositionIs ==
    ASSUME NEW c \in Calls, NEW i \in DOMAIN KeysOf[c]
    PROVE  <<c, i>> \in Positions
BY DEF Positions

LEMMA KeySequence ==
    ASSUME NEW c \in Calls
    PROVE  KeysOf[c] \in Seq(Keys) /\ Len(KeysOf[c]) \in Nat /\ DOMAIN KeysOf[c] = 1..Len(KeysOf[c])
BY LookupAssumption, LenProperties

\* Positions of a sequence to which one is added, or whose first is taken.
LEMMA PositionsOfAppend ==
    ASSUME NEW s \in Seq(Positions), NEW p \in Positions
    PROVE  PositionsOf(Append(s, p)) = PositionsOf(s) \cup {p}
<1>1. /\ Len(s) \in Nat /\ DOMAIN s = 1..Len(s)
      /\ DOMAIN Append(s, p) = 1..Len(s) + 1
      /\ \A i \in 1..Len(s) : Append(s, p)[i] = s[i]
      /\ Append(s, p)[Len(s) + 1] = p
  BY LenProperties, AppendProperties
<1>2. \A i \in 1..Len(s) + 1 : i \in 1..Len(s) \/ i = Len(s) + 1
  BY <1>1
<1>3. \A i \in 1..Len(s) : i \in 1..Len(s) + 1
  BY <1>1
<1>4. Len(s) + 1 \in 1..Len(s) + 1
  BY <1>1
<1>5. PositionsOf(Append(s, p)) \subseteq PositionsOf(s) \cup {p}
  BY <1>1, <1>2 DEF PositionsOf
<1>6. p \in PositionsOf(Append(s, p))
  BY <1>1, <1>4 DEF PositionsOf
<1>7. PositionsOf(s) \subseteq PositionsOf(Append(s, p))
  <2>1. ASSUME NEW i \in DOMAIN s PROVE s[i] \in PositionsOf(Append(s, p))
    BY <1>1, <1>3 DEF PositionsOf
  <2> QED
    BY <2>1 DEF PositionsOf
<1> QED
  BY <1>5, <1>6, <1>7

LEMMA PositionsOfTail ==
    ASSUME NEW s \in Seq(Positions), s # <<>>
    PROVE  /\ Head(s) \in Positions /\ Head(s) = s[1] /\ 1 \in DOMAIN s
           /\ Tail(s) \in Seq(Positions) /\ Len(Tail(s)) = Len(s) - 1 /\ Len(s) \in Nat
           /\ \A i \in DOMAIN Tail(s) : i + 1 \in DOMAIN s /\ Tail(s)[i] = s[i + 1] /\ i \in Nat /\ i > 0
           /\ PositionsOf(s) = PositionsOf(Tail(s)) \cup {Head(s)}
<1>1. /\ Len(s) \in Nat /\ Len(s) > 0 /\ DOMAIN s = 1..Len(s)
      /\ Head(s) = s[1] /\ Head(s) \in Positions
      /\ Tail(s) \in Seq(Positions) /\ Len(Tail(s)) = Len(s) - 1
      /\ \A i \in 1..Len(s) - 1 : Tail(s)[i] = s[i + 1]
      /\ DOMAIN Tail(s) = 1..Len(s) - 1
  BY LenProperties, HeadTailProperties, EmptySeq
<1>2. 1 \in DOMAIN s
  BY <1>1
<1>3. \A i \in DOMAIN Tail(s) : i + 1 \in DOMAIN s /\ Tail(s)[i] = s[i + 1] /\ i \in Nat /\ i > 0
  BY <1>1
<1>4. ASSUME NEW i \in DOMAIN s PROVE s[i] \in PositionsOf(Tail(s)) \cup {Head(s)}
  <2>1. CASE i = 1
    BY <1>1, <2>1
  <2>2. CASE i # 1
    <3>1. i - 1 \in DOMAIN Tail(s) /\ (i - 1) + 1 = i
      BY <1>1, <2>2
    <3>2. Tail(s)[i - 1] = s[i]
      BY <1>3, <3>1
    <3> QED
      BY <3>1, <3>2 DEF PositionsOf
  <2> QED
    BY <2>1, <2>2
<1>5. PositionsOf(Tail(s)) \cup {Head(s)} \subseteq PositionsOf(s)
  BY <1>1, <1>2, <1>3 DEF PositionsOf
<1>6. PositionsOf(s) \subseteq PositionsOf(Tail(s)) \cup {Head(s)}
  BY <1>4 DEF PositionsOf
<1>7. PositionsOf(s) = PositionsOf(Tail(s)) \cup {Head(s)}
  BY <1>5, <1>6
<1> QED
  BY <1>1, <1>2, <1>3, <1>7

LEMMA Capacities == ChanCap \in Nat \ {0} /\ MaxBatch \in Nat \ {0} /\ MaxErrors \in Nat /\ MaxVersion \in Nat
BY EngineAssumption, LookupAssumption

\* A task without rows, with an error and with rows are told apart.
LEMMA ToldApart ==
    /\ Failed # Waiting /\ Failed # Unread
    /\ \A c \in Calls : Waiting \notin Found(GroupOf[c])
    /\ \A c \in Calls : \A K \in SUBSET Keys :
        Failed \notin [K -> Found(GroupOf[c])] /\ Unread \notin [K -> Found(GroupOf[c])]
BY UnreadAssumption

\* The invariant holds of an idle batcher,
LEMMA EngineInvInit == EngineInit => EngineInv
<1> SUFFICES ASSUME EngineInit PROVE EngineInv
  OBVIOUS
<1>1. /\ version = [k \in Keys |-> 0] /\ phase = [c \in Calls |-> "idle"]
      /\ got = [c \in Calls |-> [i \in DOMAIN KeysOf[c] |-> Waiting]]
      /\ sent = [c \in Calls |-> 0] /\ chan = <<>> /\ pending = <<>> /\ batches = {} /\ errors = 0
  BY DEF EngineInit, LookupInit
<1>2. PositionsOf(chan) = {} /\ PositionsOf(pending) = {} /\ DOMAIN chan = {}
  BY <1>1 DEF PositionsOf
<1>3. /\ chan \in Seq(Positions) /\ Len(chan) = 0
      /\ pending \in Seq(Positions) /\ Len(pending) = 0
  BY <1>1
<1>4. ASSUME NEW c \in Calls PROVE sent[c] <= Len(KeysOf[c])
  <2>1. sent[c] = 0 /\ Len(KeysOf[c]) \in Nat
    BY <1>1, KeySequence
  <2> QED
    BY <2>1
<1>5. EngineTypeOK
  <2>1. /\ version \in [Keys -> 0..MaxVersion] /\ sent \in [Calls -> Nat] /\ errors \in 0..MaxErrors
        /\ phase \in [Calls -> {"idle", "asking", "answered", "failed", "cancelled"}]
    BY <1>1, Capacities
  <2>2. DOMAIN got = Calls
    BY <1>1
  <2>3. ASSUME NEW c \in Calls
        PROVE  got[c] \in [DOMAIN KeysOf[c] -> Found(GroupOf[c]) \cup {Failed, Waiting}]
    BY <1>1
  <2>4. Len(chan) <= ChanCap /\ Len(pending) <= MaxBatch
    BY <1>3, Capacities
  <2> QED
    BY <1>1, <1>3, <1>4, <2>1, <2>2, <2>3, <2>4 DEF EngineTypeOK
<1>6. OnePlace
  BY <1>1, <1>2 DEF OnePlace
<1>7. MovingWaits
  BY <1>1, <1>2 DEF MovingWaits, Moving
<1>8. UnsentWaits
  BY <1>1 DEF UnsentWaits
<1> QED
  BY <1>5, <1>6, <1>7, <1>8 DEF EngineInv

\* Steps of the callers and of others leave what is on its way where it is.
LEMMA NothingMoves ==
    ASSUME EngineInv, EngineTypeOK',
           UNCHANGED <<got, sent, chan, pending, batches>>,
           \A c \in Calls : phase[c] # "idle" => phase'[c] # "idle"
    PROVE  EngineInv'
<1>1. Moving' = Moving
  BY DEF Moving, PositionsOf
<1>2. OnePlace'
  BY DEF EngineInv, OnePlace, PositionsOf
<1>3. Moving \subseteq Positions
  BY DEF EngineInv, EngineTypeOK, Moving, PositionsOf
<1>4. MovingWaits'
  <2>1. ASSUME NEW p \in Moving
        PROVE  p[2] <= sent'[p[1]] /\ phase'[p[1]] # "idle" /\ got'[p[1]][p[2]] = Waiting
    BY <1>3, <2>1, PositionHas DEF EngineInv, MovingWaits
  <2> QED
    BY <1>1, <2>1 DEF MovingWaits
<1>5. UnsentWaits'
  BY DEF EngineInv, UnsentWaits
<1> QED
  BY <1>2, <1>4, <1>5 DEF EngineInv

\* What is on its way are positions of calls.
LEMMA MovingType == EngineTypeOK => /\ PositionsOf(chan) \subseteq Positions
                                    /\ PositionsOf(pending) \subseteq Positions
                                    /\ Moving \subseteq Positions
<1> SUFFICES ASSUME EngineTypeOK PROVE /\ PositionsOf(chan) \subseteq Positions
                                       /\ PositionsOf(pending) \subseteq Positions
                                       /\ Moving \subseteq Positions
  OBVIOUS
<1>1. ASSUME NEW s \in Seq(Positions) PROVE PositionsOf(s) \subseteq Positions
  BY ElementOfSeq, LenProperties DEF PositionsOf
<1>2. PositionsOf(chan) \subseteq Positions /\ PositionsOf(pending) \subseteq Positions
  BY <1>1 DEF EngineTypeOK
<1> QED
  BY <1>2 DEF EngineTypeOK, Moving

\* One lemma per step, or kind of step.
LEMMA CallerSteps ==
    ASSUME EngineInv, NEW c \in Calls, Load(c) \/ Conclude(c) \/ Abandon(c)
    PROVE  EngineInv'
<1>1. /\ UNCHANGED <<version, got, sent, chan, pending, batches, errors>>
      /\ \E end \in {"asking", "answered", "failed", "cancelled"} : phase' = [phase EXCEPT ![c] = end]
  BY DEF Load, Conclude, Abandon, Ask, Return, ReturnError, Cancel, Settle
<1>2. \A d \in Calls : phase[d] # "idle" => phase'[d] # "idle"
  BY <1>1 DEF EngineInv, EngineTypeOK
<1>3. phase' \in [Calls -> {"idle", "asking", "answered", "failed", "cancelled"}]
  BY <1>1 DEF EngineInv, EngineTypeOK
<1>4. EngineTypeOK'
  BY <1>1, <1>3 DEF EngineInv, EngineTypeOK, Results
<1> QED
  BY <1>1, <1>2, <1>4, NothingMoves

LEMMA WriteStep == ASSUME EngineInv, NEW k \in Keys, OthersWrite(k) PROVE EngineInv'
<1>1. /\ UNCHANGED <<phase, got, sent, chan, pending, batches, errors>>
      /\ version[k] < MaxVersion /\ version' = [version EXCEPT ![k] = @ + 1]
  BY DEF OthersWrite, Write
<1>2. version' \in [Keys -> 0..MaxVersion]
  BY <1>1, Capacities DEF EngineInv, EngineTypeOK
<1>3. EngineTypeOK'
  BY <1>1, <1>2 DEF EngineInv, EngineTypeOK, Results
<1> QED
  BY <1>1, <1>3, NothingMoves

LEMMA EnqueueStep == ASSUME EngineInv, NEW c \in Calls, Enqueue(c) PROVE EngineInv'
<1> DEFINE n == <<c, sent[c] + 1>>
<1>1. /\ phase[c] = "asking" /\ sent[c] < Len(KeysOf[c]) /\ Len(chan) < ChanCap
      /\ sent' = [sent EXCEPT ![c] = @ + 1] /\ chan' = Append(chan, n)
      /\ UNCHANGED <<version, phase, got, pending, batches, errors>>
  BY DEF Enqueue
<1>2. /\ sent \in [Calls -> Nat] /\ chan \in Seq(Positions) /\ Len(chan) \in Nat
      /\ DOMAIN chan = 1..Len(chan)
  BY LenProperties DEF EngineInv, EngineTypeOK
<1>3. n \in Positions /\ n[1] = c /\ n[2] = sent[c] + 1 /\ sent[c] + 1 \in DOMAIN KeysOf[c]
  BY <1>1, <1>2, KeySequence, PositionIs
<1>4. n \notin Moving
  BY <1>2, <1>3 DEF EngineInv, MovingWaits
<1> HIDE DEF n
<1>5. /\ PositionsOf(chan') = PositionsOf(chan) \cup {n}
      /\ chan' \in Seq(Positions) /\ Len(chan') = Len(chan) + 1 /\ DOMAIN chan' = 1..Len(chan) + 1
      /\ \A i \in 1..Len(chan) : chan'[i] = chan[i]
      /\ chan'[Len(chan) + 1] = n
  BY <1>1, <1>2, <1>3, PositionsOfAppend, AppendProperties, LenProperties
<1>6. Moving' = Moving \cup {n}
  <2>1. Moving' = PositionsOf(chan') \cup PositionsOf(pending) \cup UNION {b.items : b \in batches}
    BY <1>1 DEF Moving, PositionsOf
  <2> QED
    BY <1>5, <2>1 DEF Moving
<1>7. \A d \in Calls : sent'[d] <= Len(KeysOf[d]) /\ sent[d] <= sent'[d] /\ sent'[d] \in Nat
  BY <1>1, <1>2, KeySequence DEF EngineInv, EngineTypeOK
<1>8. EngineTypeOK'
  BY <1>1, <1>2, <1>5, <1>7, Capacities DEF EngineInv, EngineTypeOK, Results
<1>9. OnePlace'
  <2>1. ASSUME NEW i \in DOMAIN chan', NEW j \in DOMAIN chan', chan'[i] = chan'[j] PROVE i = j
    <3>1. \A k \in 1..Len(chan) : chan[k] # n
      BY <1>2, <1>4 DEF Moving, PositionsOf
    <3>2. i \in 1..Len(chan) \/ i = Len(chan) + 1
      BY <1>2, <1>5
    <3>3. j \in 1..Len(chan) \/ j = Len(chan) + 1
      BY <1>2, <1>5
    <3> QED
      BY <1>2, <1>5, <2>1, <3>1, <3>2, <3>3 DEF EngineInv, OnePlace
  <2>2. n \notin PositionsOf(pending) /\ \A b \in batches : n \notin b.items
    BY <1>4 DEF Moving
  <2>3. PositionsOf(chan') \cap PositionsOf(pending) = {}
    BY <1>5, <2>2 DEF EngineInv, OnePlace
  <2>4. \A b \in batches : b.items \cap (PositionsOf(chan') \cup PositionsOf(pending)) = {}
    BY <1>5, <2>2 DEF EngineInv, OnePlace
  <2>5. \A b, d \in batches : b.items \cap d.items # {} => b = d
    BY DEF EngineInv, OnePlace
  <2> QED
    BY <1>1, <2>1, <2>3, <2>4, <2>5 DEF OnePlace, PositionsOf
<1>10. MovingWaits'
  <2>1. n[2] <= sent'[n[1]] /\ phase'[n[1]] # "idle" /\ got'[n[1]][n[2]] = Waiting
    <3>1. sent'[c] = sent[c] + 1 /\ phase'[c] # "idle"
      BY <1>1, <1>2
    <3>2. got[c][sent[c] + 1] = Waiting
      BY <1>2, <1>3 DEF EngineInv, UnsentWaits
    <3> QED
      BY <1>1, <1>2, <1>3, <3>1, <3>2
  <2>2. ASSUME NEW p \in Moving
        PROVE  p[2] <= sent'[p[1]] /\ phase'[p[1]] # "idle" /\ got'[p[1]][p[2]] = Waiting
    <3>1. p[1] \in Calls /\ p[2] \in DOMAIN KeysOf[p[1]]
      BY MovingType, PositionHas DEF EngineInv
    <3>2. p[2] \in Nat /\ sent[p[1]] \in Nat
      BY <1>2, <3>1, KeySequence
    <3>3. p[2] <= sent[p[1]] /\ phase[p[1]] # "idle" /\ got[p[1]][p[2]] = Waiting
      BY DEF EngineInv, MovingWaits
    <3>4. sent[p[1]] <= sent'[p[1]] /\ sent'[p[1]] \in Nat
      BY <1>7, <3>1
    <3> QED
      BY <1>1, <3>2, <3>3, <3>4
  <2> QED
    BY <1>6, <2>1, <2>2 DEF MovingWaits
<1>11. UnsentWaits'
  <2>1. ASSUME NEW d \in Calls, NEW i \in DOMAIN KeysOf[d], i > sent'[d] PROVE got'[d][i] = Waiting
    <3>1. i \in Nat /\ sent[d] <= sent'[d] /\ sent'[d] \in Nat /\ sent[d] \in Nat
      BY <1>2, <1>7, KeySequence
    <3> QED
      BY <1>1, <2>1, <3>1 DEF EngineInv, UnsentWaits
  <2> QED
    BY <2>1 DEF UnsentWaits
<1> QED
  BY <1>8, <1>9, <1>10, <1>11 DEF EngineInv

LEMMA CollectStep == ASSUME EngineInv, Collect PROVE EngineInv'
<1> DEFINE h == Head(chan)
<1>1. /\ chan # <<>> /\ Len(pending) < MaxBatch
      /\ pending' = Append(pending, h) /\ chan' = Tail(chan)
      /\ UNCHANGED <<version, phase, got, sent, batches, errors>>
  BY DEF Collect
<1>2. chan \in Seq(Positions) /\ pending \in Seq(Positions)
  BY DEF EngineInv, EngineTypeOK
<1>3. /\ h \in Positions /\ h = chan[1] /\ 1 \in DOMAIN chan
      /\ chan' \in Seq(Positions) /\ Len(chan') = Len(chan) - 1 /\ Len(chan) \in Nat
      /\ \A i \in DOMAIN chan' : i + 1 \in DOMAIN chan /\ chan'[i] = chan[i + 1] /\ i \in Nat /\ i > 0
      /\ PositionsOf(chan) = PositionsOf(chan') \cup {h}
  BY <1>1, <1>2, PositionsOfTail
<1> HIDE DEF h
<1>4. /\ PositionsOf(pending') = PositionsOf(pending) \cup {h}
      /\ pending' \in Seq(Positions) /\ Len(pending') = Len(pending) + 1 /\ Len(pending) \in Nat
  BY <1>1, <1>2, <1>3, PositionsOfAppend, AppendProperties, LenProperties
<1>5. Moving' = Moving
  <2>1. Moving' = PositionsOf(chan') \cup PositionsOf(pending') \cup UNION {b.items : b \in batches}
    BY <1>1 DEF Moving, PositionsOf
  <2> QED
    BY <1>3, <1>4, <2>1 DEF Moving
<1>6. EngineTypeOK'
  <2>1. Len(chan') <= ChanCap /\ Len(pending') <= MaxBatch
    BY <1>1, <1>3, <1>4, Capacities DEF EngineInv, EngineTypeOK
  <2> QED
    BY <1>1, <1>3, <1>4, <2>1 DEF EngineInv, EngineTypeOK, Results
<1>7. OnePlace'
  <2>1. ASSUME NEW i \in DOMAIN chan', NEW j \in DOMAIN chan', chan'[i] = chan'[j] PROVE i = j
    <3>1. i + 1 = j + 1
      BY <1>3, <2>1 DEF EngineInv, OnePlace
    <3> QED
      BY <1>3, <3>1
  <2>2. h \notin PositionsOf(chan')
    <3>1. ASSUME NEW i \in DOMAIN chan', chan'[i] = h PROVE FALSE
      <4>1. i + 1 = 1
        BY <1>3, <3>1 DEF EngineInv, OnePlace
      <4> QED
        BY <1>3, <4>1
    <3> QED
      BY <3>1 DEF PositionsOf
  <2>3. PositionsOf(chan') \cap PositionsOf(pending') = {}
    BY <1>3, <1>4, <2>2 DEF EngineInv, OnePlace
  <2>4. \A b \in batches : b.items \cap (PositionsOf(chan') \cup PositionsOf(pending')) = {}
    BY <1>3, <1>4 DEF EngineInv, OnePlace
  <2>5. \A b, d \in batches : b.items \cap d.items # {} => b = d
    BY DEF EngineInv, OnePlace
  <2> QED
    BY <1>1, <2>1, <2>3, <2>4, <2>5 DEF OnePlace, PositionsOf
<1>8. MovingWaits'
  BY <1>1, <1>5 DEF EngineInv, MovingWaits
<1>9. UnsentWaits'
  BY <1>1 DEF EngineInv, UnsentWaits
<1> QED
  BY <1>6, <1>7, <1>8, <1>9 DEF EngineInv

\* The tasks of a batch share it out by group.
LEMMA SharedOut ==
    ASSUME NEW items \in SUBSET Positions
    PROVE  /\ \A b \in ByGroup(items) :
                /\ b \in [group : {GroupOf[c] : c \in Calls}, items : (SUBSET items) \ {{}}, rows : {Unread}]
                /\ \A p \in b.items : GroupOf[p[1]] = b.group
           /\ \A b, d \in ByGroup(items) : b.items \cap d.items # {} => b = d
           /\ UNION {b.items : b \in ByGroup(items)} = items
<1> DEFINE share(g) == [group |-> g, items |-> {p \in items : GroupOf[p[1]] = g}, rows |-> Unread]
<1>1. ByGroup(items) = {share(g) : g \in Groups(items)}
  BY DEF ByGroup
<1>2. \A g \in Groups(items) :
        /\ share(g) \in [group : {GroupOf[c] : c \in Calls}, items : (SUBSET items) \ {{}}, rows : {Unread}]
        /\ share(g).group = g
        /\ \A p \in share(g).items : GroupOf[p[1]] = share(g).group
  BY PositionHas DEF Groups
<1>3. \A p \in items : GroupOf[p[1]] \in Groups(items) /\ p \in share(GroupOf[p[1]]).items
  BY DEF Groups
<1> HIDE DEF share
<1>4. ASSUME NEW b \in ByGroup(items), NEW d \in ByGroup(items), b.items \cap d.items # {} PROVE b = d
  <2>1. PICK g \in Groups(items) : b = share(g)
    BY <1>1
  <2>2. PICK h \in Groups(items) : d = share(h)
    BY <1>1
  <2>3. PICK p \in b.items : p \in d.items
    BY <1>4
  <2>4. g = h
    BY <1>2, <2>1, <2>2, <2>3
  <2> QED
    BY <2>1, <2>2, <2>4
<1>5. UNION {b.items : b \in ByGroup(items)} = items
  <2>1. items \subseteq UNION {b.items : b \in ByGroup(items)}
    BY <1>1, <1>3
  <2>2. UNION {b.items : b \in ByGroup(items)} \subseteq items
    BY <1>1, <1>2
  <2> QED
    BY <2>1, <2>2
<1> QED
  BY <1>1, <1>2, <1>4, <1>5

LEMMA CloseStep == ASSUME EngineInv, Close PROVE EngineInv'
<1> DEFINE items == PositionsOf(pending)
           tasks == ByGroup(items)
<1>1. /\ batches' = batches \cup tasks /\ pending' = <<>>
      /\ UNCHANGED <<version, phase, got, sent, chan, errors>>
  BY DEF Close
<1>2. items \in SUBSET Positions
  BY MovingType DEF EngineInv
<1> HIDE DEF items
<1>3. /\ \A b \in tasks :
            /\ b \in [group : {GroupOf[c] : c \in Calls}, items : (SUBSET items) \ {{}}, rows : {Unread}]
            /\ \A p \in b.items : GroupOf[p[1]] = b.group
      /\ \A b, d \in tasks : b.items \cap d.items # {} => b = d
      /\ UNION {b.items : b \in tasks} = items
  BY <1>2, SharedOut
<1> HIDE DEF tasks
<1>4. /\ PositionsOf(pending') = {} /\ pending' \in Seq(Positions) /\ Len(pending') = 0
  BY <1>1 DEF PositionsOf
<1>5. Moving' = Moving
  <2>1. Moving' = PositionsOf(chan) \cup PositionsOf(pending') \cup UNION {b.items : b \in batches'}
    BY <1>1 DEF Moving, PositionsOf
  <2> DEFINE held(B) == UNION {b.items : b \in B}
  <2>2. held(batches \cup tasks) = held(batches) \cup held(tasks)
    OBVIOUS
  <2>3. /\ Moving' = PositionsOf(chan) \cup PositionsOf(pending') \cup held(batches')
        /\ Moving = PositionsOf(chan) \cup items \cup held(batches)
        /\ held(tasks) = items
    BY <1>3, <2>1 DEF Moving, items
  <2> QED
    BY <1>1, <1>4, <2>2, <2>3
<1>6. EngineTypeOK'
  <2>1. ASSUME NEW b \in batches'
        PROVE  /\ b \in [group : {GroupOf[c] : c \in Calls}, items : (SUBSET Positions) \ {{}},
                         rows : Results(b) \cup {Unread}]
               /\ \A p \in b.items : GroupOf[p[1]] = b.group
    BY <1>1, <1>2, <1>3 DEF EngineInv, EngineTypeOK
  <2>2. Len(pending') <= MaxBatch
    BY <1>4, Capacities
  <2> QED
    BY <1>1, <1>4, <2>1, <2>2 DEF EngineInv, EngineTypeOK, Results
<1>7. OnePlace'
  <2>1. PositionsOf(chan) \cap PositionsOf(pending') = {}
    BY <1>4
  <2>2. \A b \in batches' : b.items \cap (PositionsOf(chan) \cup PositionsOf(pending')) = {}
    BY <1>1, <1>3, <1>4 DEF EngineInv, OnePlace, items
  <2>3. ASSUME NEW b \in batches', NEW d \in batches', b.items \cap d.items # {} PROVE b = d
    <3>1. \A old \in batches, new \in tasks : old.items \cap new.items = {}
      BY <1>3 DEF EngineInv, OnePlace, items
    <3> QED
      BY <1>1, <1>3, <2>3, <3>1 DEF EngineInv, OnePlace
  <2> QED
    BY <1>1, <2>1, <2>2, <2>3 DEF EngineInv, OnePlace, PositionsOf
<1>8. MovingWaits'
  BY <1>1, <1>5 DEF EngineInv, MovingWaits
<1>9. UnsentWaits'
  BY <1>1 DEF EngineInv, UnsentWaits
<1> QED
  BY <1>6, <1>7, <1>8, <1>9 DEF EngineInv

LEMMA TaskType ==
    ASSUME EngineInv, NEW b \in batches
    PROVE  /\ b \in [group : {GroupOf[c] : c \in Calls}, items : (SUBSET Positions) \ {{}},
                     rows : Results(b) \cup {Unread}]
           /\ \A p \in b.items : GroupOf[p[1]] = b.group
           /\ b.items \subseteq Moving
           /\ \A d \in batches : d # b => d.items \cap b.items = {}
BY DEF EngineInv, EngineTypeOK, OnePlace, Moving

\* A task goes on with the items it had, or some of them.
LEMMA TaskGoesOn ==
    ASSUME EngineInv, NEW b \in batches, NEW next \in SUBSET [group : {b.group}, items : SUBSET b.items, rows : Results(b) \cup {Unread}],
           \A d, e \in next : d = e,
           \A d \in next : d.items # {},
           batches' = (batches \ {b}) \cup next,
           \A d \in next : \A p \in d.items : got'[p[1]][p[2]] = got[p[1]][p[2]],
           \A p \in Positions \ b.items : got'[p[1]][p[2]] = got[p[1]][p[2]],
           DOMAIN got' = Calls,
           \A c \in Calls : got'[c] \in [DOMAIN KeysOf[c] -> Found(GroupOf[c]) \cup {Failed, Waiting}],
           errors' \in 0..MaxErrors,
           UNCHANGED <<version, phase, sent, chan, pending>>
    PROVE  EngineInv'
<1>1. /\ b \in [group : {GroupOf[c] : c \in Calls}, items : (SUBSET Positions) \ {{}},
                rows : Results(b) \cup {Unread}]
      /\ \A p \in b.items : GroupOf[p[1]] = b.group
      /\ b.items \subseteq Moving
      /\ \A d \in batches : d # b => d.items \cap b.items = {}
  BY TaskType
<1>2. \A d \in next : d.items \subseteq b.items /\ d.group = b.group
  OBVIOUS
<1>3. ASSUME NEW d \in next
      PROVE  d \in [group : {GroupOf[c] : c \in Calls}, items : (SUBSET Positions) \ {{}},
                    rows : Results(d) \cup {Unread}]
  <2>1. Results(b) \subseteq Results(d)
    BY <1>2 DEF Results
  <2> QED
    BY <1>1, <1>2, <2>1
<1>4. EngineTypeOK'
  <2>1. ASSUME NEW d \in batches'
        PROVE  /\ d \in [group : {GroupOf[c] : c \in Calls}, items : (SUBSET Positions) \ {{}},
                         rows : Results(d) \cup {Unread}]
               /\ \A p \in d.items : GroupOf[p[1]] = d.group
    <3>1. CASE d \in batches
      BY <3>1, TaskType
    <3>2. CASE d \in next
      BY <1>1, <1>2, <1>3, <3>2
    <3> QED
      BY <3>1, <3>2
  <2> QED
    BY <2>1 DEF EngineInv, EngineTypeOK, Results
<1>5. OnePlace'
  <2>1. \A d \in batches' : \E e \in batches : d.items \subseteq e.items /\ (d # e => e = b /\ d \in next)
    BY <1>2
  <2>2. \A d \in batches' : d.items \cap (PositionsOf(chan) \cup PositionsOf(pending)) = {}
    BY <2>1 DEF EngineInv, OnePlace
  <2>3. ASSUME NEW d \in batches', NEW e \in batches', d.items \cap e.items # {} PROVE d = e
    <3>1. CASE d \in next /\ e \in next
      BY <3>1
    <3>2. CASE d \in next /\ e \notin next
      BY <1>1, <1>2, <2>3, <3>2
    <3>3. CASE d \notin next /\ e \in next
      BY <1>1, <1>2, <2>3, <3>3
    <3>4. CASE d \notin next /\ e \notin next
      BY <2>3, <3>4 DEF EngineInv, OnePlace
    <3> QED
      BY <3>1, <3>2, <3>3, <3>4
  <2> QED
    BY <2>2, <2>3 DEF EngineInv, OnePlace, PositionsOf
<1>6. Moving \subseteq Positions
  BY MovingType DEF EngineInv
<1>7. ASSUME NEW p \in Moving' PROVE p \in Moving /\ got'[p[1]][p[2]] = got[p[1]][p[2]]
  <2>1. p \in PositionsOf(chan) \cup PositionsOf(pending) \/ \E d \in batches' : p \in d.items
    BY DEF Moving, PositionsOf
  <2>2. CASE p \in PositionsOf(chan) \cup PositionsOf(pending)
    <3>1. p \in Moving /\ p \notin b.items
      BY <2>2 DEF Moving, EngineInv, OnePlace
    <3> QED
      BY <1>6, <3>1
  <2>3. ASSUME NEW d \in batches, d # b, p \in d.items PROVE p \in Moving /\ p \notin b.items
    BY <1>1, <2>3 DEF Moving
  <2>4. ASSUME NEW d \in next, p \in d.items PROVE p \in Moving /\ got'[p[1]][p[2]] = got[p[1]][p[2]]
    BY <1>1, <1>2, <2>4
  <2> QED
    BY <1>6, <2>1, <2>2, <2>3, <2>4
<1>8. MovingWaits'
  <2>1. ASSUME NEW p \in Moving'
        PROVE  p[2] <= sent'[p[1]] /\ phase'[p[1]] # "idle" /\ got'[p[1]][p[2]] = Waiting
    BY <1>7 DEF EngineInv, MovingWaits
  <2> QED
    BY <2>1 DEF MovingWaits
<1>9. UnsentWaits'
  <2>1. ASSUME NEW c \in Calls, NEW i \in DOMAIN KeysOf[c], i > sent[c] PROVE got'[c][i] = Waiting
    <3>1. i \in Nat /\ sent[c] \in Nat
      BY KeySequence DEF EngineInv, EngineTypeOK
    <3>2. <<c, i>> \notin Moving
      BY <2>1, <3>1 DEF EngineInv, MovingWaits
    <3>3. <<c, i>> \in Positions \ b.items
      BY <1>1, <3>2, PositionIs
    <3>4. got'[c][i] = got[c][i]
      BY <3>3
    <3> QED
      BY <2>1, <3>4 DEF EngineInv, UnsentWaits
  <2> QED
    BY <2>1 DEF UnsentWaits
<1> QED
  BY <1>4, <1>5, <1>8, <1>9 DEF EngineInv

\* What a query leaves in its task.
LEMMA QueryIs ==
    ASSUME EngineInv, NEW b \in batches, Query(b)
    PROVE  \E rows :
            /\ rows = [k \in {KeyOf(p) : p \in b.items} |-> RowsOf(b.group, k, version[k])]
            /\ rows \in Results(b) /\ rows \notin {Unread, Failed}
            /\ batches' = (batches \ {b}) \cup {[group |-> b.group, items |-> b.items, rows |-> rows]}
<1> DEFINE K == {KeyOf(p) : p \in b.items}
           rows == [k \in K |-> RowsOf(b.group, k, version[k])]
<1>1. /\ b \in [group : {GroupOf[c] : c \in Calls}, items : (SUBSET Positions) \ {{}},
                rows : Results(b) \cup {Unread}]
  BY TaskType
<1>2. K \in SUBSET Keys
  BY <1>1, PositionHas
<1>3. version \in [Keys -> 0..MaxVersion]
  BY DEF EngineInv, EngineTypeOK
<1>4. rows \in [K -> Found(b.group)]
  BY <1>2, <1>3 DEF Found
<1>5. PICK c \in Calls : b.group = GroupOf[c]
  BY <1>1
<1>6. rows \notin {Unread, Failed}
  BY <1>2, <1>4, <1>5, ToldApart
<1>7. rows \in Results(b)
  BY <1>2, <1>4 DEF Results
<1>8. batches' = (batches \ {b}) \cup {[b EXCEPT !.rows = rows]}
  BY DEF Query
<1> HIDE DEF rows
<1>9. [b EXCEPT !.rows = rows] = [group |-> b.group, items |-> b.items, rows |-> rows]
  BY <1>1
<1> QED
  BY <1>6, <1>7, <1>8, <1>9 DEF rows

LEMMA FailureIs ==
    ASSUME EngineInv, NEW b \in batches, QueryFails(b)
    PROVE  /\ Failed \in Results(b)
           /\ batches' = (batches \ {b}) \cup {[group |-> b.group, items |-> b.items, rows |-> Failed]}
           /\ errors' \in 0..MaxErrors
<1>1. [b EXCEPT !.rows = Failed] = [group |-> b.group, items |-> b.items, rows |-> Failed]
  BY TaskType
<1>2. errors' \in 0..MaxErrors
  BY Capacities DEF QueryFails, EngineInv, EngineTypeOK
<1> QED
  BY <1>1, <1>2 DEF QueryFails, Results

LEMMA ReadSteps == ASSUME EngineInv, NEW b \in batches, Query(b) \/ QueryFails(b) PROVE EngineInv'
<1>1. PICK rows :
        /\ rows \in Results(b)
        /\ batches' = (batches \ {b}) \cup {[group |-> b.group, items |-> b.items, rows |-> rows]}
  BY QueryIs, FailureIs
<1>2. UNCHANGED <<version, phase, got, sent, chan, pending>> /\ errors' \in 0..MaxErrors
  BY FailureIs DEF Query, QueryFails, EngineInv, EngineTypeOK
<1>3. b.items # {}
  BY TaskType
<1> DEFINE next == {[group |-> b.group, items |-> b.items, rows |-> rows]}
<1>4. /\ next \in SUBSET [group : {b.group}, items : SUBSET b.items, rows : Results(b) \cup {Unread}]
      /\ \A d, e \in next : d = e
      /\ \A d \in next : d.items # {}
      /\ batches' = (batches \ {b}) \cup next
  BY <1>1, <1>3
<1> HIDE DEF next
<1> QED
  BY <1>2, <1>4, TaskGoesOn DEF EngineInv, EngineTypeOK

\* An answer is the rows of the position's key, or an error.
LEMMA AnswerType ==
    ASSUME EngineInv, NEW b \in batches, b.rows # Unread, NEW p \in b.items
    PROVE  Answer(b, p) \in Found(GroupOf[p[1]]) \cup {Failed}
<1>1. b.rows \in Results(b) /\ GroupOf[p[1]] = b.group /\ p \in Positions
  BY TaskType
<1>2. CASE b.rows = Failed
  BY <1>2 DEF Answer
<1>3. CASE b.rows # Failed
  <2>1. PICK K \in SUBSET Keys : (\A q \in b.items : KeyOf(q) \in K) /\ b.rows \in [K -> Found(b.group)]
    BY <1>1, <1>3 DEF Results
  <2> QED
    BY <1>1, <1>3, <2>1 DEF Answer
<1> QED
  BY <1>2, <1>3

\* What a delivery does.
LEMMA DeliverIs ==
    ASSUME EngineInv, NEW b \in batches, Deliver(b)
    PROVE  /\ b.rows # Unread
           /\ \E p \in b.items :
                /\ p \in Positions
                /\ got'[p[1]][p[2]] = Answer(b, p)
                /\ \A q \in Positions : q # p => got'[q[1]][q[2]] = got[q[1]][q[2]]
                /\ DOMAIN got' = Calls
                /\ \A c \in Calls : got'[c] \in [DOMAIN KeysOf[c] -> Found(GroupOf[c]) \cup {Failed, Waiting}]
                /\ batches' = (batches \ {b}) \cup
                     (IF b.items = {p} THEN {}
                      ELSE {[group |-> b.group, items |-> b.items \ {p}, rows |-> b.rows]})
<1>1. PICK p \in b.items :
        /\ got' = [got EXCEPT ![p[1]][p[2]] = Answer(b, p)]
        /\ batches' = (batches \ {b}) \cup
             (IF b.items = {p} THEN {} ELSE {[b EXCEPT !.items = @ \ {p}]})
  BY DEF Deliver
<1>2. b.rows # Unread
  BY DEF Deliver
<1>3. [b EXCEPT !.items = @ \ {p}] = [group |-> b.group, items |-> b.items \ {p}, rows |-> b.rows]
  <2>1. b \in [group : {GroupOf[c] : c \in Calls}, items : (SUBSET Positions) \ {{}},
               rows : Results(b) \cup {Unread}]
    BY TaskType
  <2>2. b = [group |-> b.group, items |-> b.items, rows |-> b.rows]
    BY <2>1
  <2> QED
    BY <2>2
<1>4. p \in Positions
  BY TaskType
<1>5. p[1] \in Calls /\ p[2] \in DOMAIN KeysOf[p[1]] /\ p = <<p[1], p[2]>>
  BY <1>4, PositionHas
<1>6. /\ DOMAIN got = Calls
      /\ \A c \in Calls : got[c] \in [DOMAIN KeysOf[c] -> Found(GroupOf[c]) \cup {Failed, Waiting}]
  BY DEF EngineInv, EngineTypeOK
<1>7. Answer(b, p) \in Found(GroupOf[p[1]]) \cup {Failed}
  BY <1>2, AnswerType
<1> DEFINE a == Answer(b, p)
<1> HIDE DEF a
<1>8. /\ DOMAIN got' = Calls
      /\ \A c \in Calls : got'[c] = IF c = p[1] THEN [got[c] EXCEPT ![p[2]] = a] ELSE got[c]
  BY <1>1, <1>5, <1>6 DEF a
<1>9. ASSUME NEW c \in Calls
      PROVE  got'[c] \in [DOMAIN KeysOf[c] -> Found(GroupOf[c]) \cup {Failed, Waiting}]
  <2>1. a \in Found(GroupOf[p[1]]) \cup {Failed}
    BY <1>7 DEF a
  <2> QED
    BY <1>6, <1>8, <2>1
<1>10. got'[p[1]][p[2]] = a
  BY <1>5, <1>6, <1>8
<1>11. ASSUME NEW q \in Positions, q # p PROVE got'[q[1]][q[2]] = got[q[1]][q[2]]
  <2>1. q[1] \in Calls /\ q[2] \in DOMAIN KeysOf[q[1]] /\ q = <<q[1], q[2]>>
    BY PositionHas
  <2>2. q[1] # p[1] \/ q[2] # p[2]
    BY <1>5, <1>11, <2>1
  <2> QED
    BY <1>6, <1>8, <2>1, <2>2
<1> QED
  BY <1>1, <1>2, <1>3, <1>4, <1>8, <1>9, <1>10, <1>11 DEF a

LEMMA DeliverStep == ASSUME EngineInv, NEW b \in batches, Deliver(b) PROVE EngineInv'
<1>1. PICK p \in b.items :
        /\ \A q \in Positions : q # p => got'[q[1]][q[2]] = got[q[1]][q[2]]
        /\ DOMAIN got' = Calls
        /\ \A c \in Calls : got'[c] \in [DOMAIN KeysOf[c] -> Found(GroupOf[c]) \cup {Failed, Waiting}]
        /\ batches' = (batches \ {b}) \cup
             (IF b.items = {p} THEN {}
              ELSE {[group |-> b.group, items |-> b.items \ {p}, rows |-> b.rows]})
  BY DeliverIs
<1>2. UNCHANGED <<version, phase, sent, chan, pending>> /\ errors' \in 0..MaxErrors
  BY DEF Deliver, EngineInv, EngineTypeOK
<1>3. b.items \subseteq Positions /\ b.rows \in Results(b) \cup {Unread}
  BY TaskType
<1> DEFINE next == IF b.items = {p} THEN {}
                   ELSE {[group |-> b.group, items |-> b.items \ {p}, rows |-> b.rows]}
<1>4. /\ next \in SUBSET [group : {b.group}, items : SUBSET b.items, rows : Results(b) \cup {Unread}]
      /\ \A d, e \in next : d = e
      /\ \A d \in next : d.items # {}
      /\ batches' = (batches \ {b}) \cup next
      /\ \A d \in next : p \notin d.items /\ d.items \subseteq b.items
  <2>1. CASE b.items = {p}
    BY <1>1, <2>1
  <2>2. CASE b.items # {p}
    <3> DEFINE left == [group |-> b.group, items |-> b.items \ {p}, rows |-> b.rows]
    <3>1. next = {left}
      BY <2>2
    <3>2. left.items = b.items \ {p} /\ b.items \ {p} # {}
      BY <2>2
    <3>3. left \in [group : {b.group}, items : SUBSET b.items, rows : Results(b) \cup {Unread}]
      BY <1>3
    <3> HIDE DEF left
    <3> QED
      BY <1>1, <2>2, <3>1, <3>2, <3>3 DEF left
  <2> QED
    BY <2>1, <2>2
<1> HIDE DEF next
<1>5. \A d \in next : \A q \in d.items : got'[q[1]][q[2]] = got[q[1]][q[2]]
  BY <1>1, <1>3, <1>4
<1>6. \A q \in Positions \ b.items : got'[q[1]][q[2]] = got[q[1]][q[2]]
  BY <1>1
<1> QED
  BY <1>1, <1>2, <1>4, <1>5, <1>6, TaskGoesOn

\* and every step of callers, loop and tasks keeps it.
LEMMA EngineInvStep == EngineInv /\ [EngineNext]_engineVars => EngineInv'
<1> SUFFICES ASSUME EngineInv, [EngineNext]_engineVars PROVE EngineInv'
  OBVIOUS
<1>1. ASSUME NEW k \in Keys, OthersWrite(k) PROVE EngineInv'
  BY <1>1, WriteStep
<1>2. ASSUME NEW c \in Calls, Load(c) \/ Enqueue(c) \/ Conclude(c) \/ Abandon(c) PROVE EngineInv'
  BY <1>2, CallerSteps, EnqueueStep
<1>3. CASE Collect
  BY <1>3, CollectStep
<1>4. CASE Close
  BY <1>4, CloseStep
<1>5. ASSUME NEW b \in batches, Query(b) \/ QueryFails(b) \/ Deliver(b) PROVE EngineInv'
  BY <1>5, ReadSteps, DeliverStep
<1>6. CASE UNCHANGED engineVars
  <2>1. EngineTypeOK'
    BY <1>6 DEF EngineInv, EngineTypeOK, engineVars, Results
  <2> QED
    BY <1>6, <2>1, NothingMoves DEF engineVars
<1> QED
  BY <1>1, <1>2, <1>3, <1>4, <1>5, <1>6 DEF EngineNext, Terminated

\* Stages, answers and tasks have their types, the channel and the batch their bounds, and a
\* task only positions of its own group (clickhouse_batcher.rs:152, 220-244).
THEOREM EngineTypeTheorem == EngineSpec => []EngineTypeOK
<1>1. EngineInv => EngineTypeOK
  BY DEF EngineInv
<1> QED
  BY <1>1, EngineInvInit, EngineInvStep, PTL DEF EngineSpec

-----------------------------------------------------------------------------
(* No answer is lost: what was sent is on its way or has its answer.       *)

NoAnswerIsLost ==
    \A c \in Calls : \A i \in 1..sent[c] : <<c, i>> \in Moving \/ got[c][i] # Waiting

\* What is on its way stays so, wherever the channel, the batch and the tasks have it.
LEMMA StaysMoving ==
    ASSUME EngineInv, Collect \/ Close \/ (\E c \in Calls : Enqueue(c))
    PROVE  Moving \subseteq Moving'
<1>1. Moving' = PositionsOf(chan') \cup PositionsOf(pending') \cup UNION {b.items : b \in batches'}
  BY DEF Moving, PositionsOf
<1>2. chan \in Seq(Positions) /\ pending \in Seq(Positions)
  BY DEF EngineInv, EngineTypeOK
<1>3. CASE Collect
  <2>1. /\ chan # <<>> /\ chan' = Tail(chan) /\ pending' = Append(pending, Head(chan)) /\ batches' = batches
    BY <1>3 DEF Collect
  <2>2. PositionsOf(chan) = PositionsOf(chan') \cup {Head(chan)} /\ Head(chan) \in Positions
    BY <1>2, <2>1, PositionsOfTail
  <2>3. PositionsOf(pending') = PositionsOf(pending) \cup {Head(chan)}
    BY <1>2, <2>1, <2>2, PositionsOfAppend
  <2> QED
    BY <1>1, <2>1, <2>2, <2>3 DEF Moving
<1>4. CASE Close
  <2> DEFINE tasks == ByGroup(PositionsOf(pending))
  <2>1. batches' = batches \cup tasks /\ chan' = chan
    BY <1>4 DEF Close
  <2>2. UNION {b.items : b \in tasks} = PositionsOf(pending)
    BY MovingType, SharedOut DEF EngineInv
  <2> HIDE DEF tasks
  <2>3. ASSUME NEW p \in Moving PROVE p \in Moving'
    <3>1. CASE p \in PositionsOf(pending)
      <4>1. PICK b \in tasks : p \in b.items
        BY <2>2, <3>1
      <4> QED
        BY <1>1, <2>1, <4>1
    <3>2. CASE p \in PositionsOf(chan)
      BY <1>1, <2>1, <3>2
    <3>3. CASE \E b \in batches : p \in b.items
      BY <1>1, <2>1, <3>3
    <3> QED
      BY <3>1, <3>2, <3>3 DEF Moving
  <2> QED
    BY <2>3
<1>5. ASSUME NEW c \in Calls, Enqueue(c) PROVE Moving \subseteq Moving'
  <2> DEFINE n == <<c, sent[c] + 1>>
  <2>1. chan' = Append(chan, n) /\ pending' = pending /\ batches' = batches /\ sent[c] < Len(KeysOf[c])
    BY <1>5 DEF Enqueue
  <2>2. sent[c] \in Nat
    BY DEF EngineInv, EngineTypeOK
  <2>3. n \in Positions
    BY <2>1, <2>2, KeySequence, PositionIs
  <2> HIDE DEF n
  <2>4. PositionsOf(chan') = PositionsOf(chan) \cup {n}
    BY <1>2, <2>1, <2>3, PositionsOfAppend
  <2> QED
    BY <1>1, <2>1, <2>4 DEF Moving
<1> QED
  BY <1>3, <1>4, <1>5

\* A task that goes on, or is followed by another, loses only what it has delivered.
LEMMA TaskKeeps ==
    ASSUME EngineInv, NEW b \in batches, NEW delivered, NEW next,
           batches' = (batches \ {b}) \cup next,
           \A p \in b.items : p \in delivered \/ \E d \in next : p \in d.items,
           UNCHANGED <<chan, pending>>
    PROVE  \A p \in Moving : p \in Moving' \/ p \in delivered
<1>1. Moving' = PositionsOf(chan) \cup PositionsOf(pending) \cup UNION {d.items : d \in batches'}
  BY DEF Moving, PositionsOf
<1>2. ASSUME NEW p \in Moving PROVE p \in Moving' \/ p \in delivered
  <2>1. CASE p \in PositionsOf(chan) \cup PositionsOf(pending)
    BY <1>1, <2>1
  <2>2. CASE p \in b.items
    BY <1>1, <2>2
  <2>3. ASSUME NEW d \in batches, p \in d.items, d # b PROVE p \in Moving'
    BY <1>1, <2>3
  <2> QED
    BY <2>1, <2>2, <2>3 DEF Moving
<1> QED
  BY <1>2

LEMMA NoLossInit == EngineInit => NoAnswerIsLost
BY DEF EngineInit, NoAnswerIsLost

LEMMA NoLossStep == EngineInv /\ NoAnswerIsLost /\ [EngineNext]_engineVars => NoAnswerIsLost'
<1> SUFFICES ASSUME EngineInv, NoAnswerIsLost, [EngineNext]_engineVars,
                    NEW c \in Calls, NEW i \in 1..sent'[c]
             PROVE  <<c, i>> \in Moving' \/ got'[c][i] # Waiting
  BY DEF NoAnswerIsLost
<1>1. sent[c] \in Nat /\ sent[c] <= Len(KeysOf[c]) /\ DOMAIN KeysOf[c] = 1..Len(KeysOf[c]) /\ Len(KeysOf[c]) \in Nat
  BY KeySequence DEF EngineInv, EngineTypeOK
<1>2. ASSUME sent' = sent
      PROVE  /\ <<c, i>> \in Moving \/ got[c][i] # Waiting
             /\ i \in DOMAIN KeysOf[c] /\ <<c, i>> \in Positions
  <2>1. i \in 1..sent[c] /\ i \in DOMAIN KeysOf[c]
    BY <1>1, <1>2
  <2> QED
    BY <2>1, PositionIs DEF NoAnswerIsLost
<1>3. ASSUME UNCHANGED <<got, sent, chan, pending, batches>>
      PROVE  <<c, i>> \in Moving' \/ got'[c][i] # Waiting
  <2>1. Moving' = Moving
    BY <1>3 DEF Moving, PositionsOf
  <2> QED
    BY <1>2, <1>3, <2>1
<1>4. CASE Collect \/ Close
  <2>1. got' = got /\ sent' = sent /\ Moving \subseteq Moving'
    BY <1>4, StaysMoving DEF Collect, Close
  <2> QED
    BY <1>2, <2>1
<1>5. ASSUME NEW d \in Calls, Enqueue(d) PROVE <<c, i>> \in Moving' \/ got'[c][i] # Waiting
  <2>1. /\ got' = got /\ chan' = Append(chan, <<d, sent[d] + 1>>) /\ sent' = [sent EXCEPT ![d] = @ + 1]
        /\ Moving \subseteq Moving' /\ sent[d] < Len(KeysOf[d])
    BY <1>5, StaysMoving DEF Enqueue
  <2>2. sent \in [Calls -> Nat] /\ chan \in Seq(Positions)
    BY DEF EngineInv, EngineTypeOK
  <2>3. CASE i \in 1..sent[c]
    BY <2>1, <2>3 DEF NoAnswerIsLost
  <2>4. CASE i \notin 1..sent[c]
    <3>1. d = c /\ i = sent[c] + 1
      BY <1>1, <2>1, <2>2, <2>4
    <3>2. <<c, i>> \in Positions
      BY <1>1, <2>1, <3>1, PositionIs
    <3>3. PositionsOf(chan') = PositionsOf(chan) \cup {<<c, i>>}
      BY <2>1, <2>2, <3>1, <3>2, PositionsOfAppend
    <3> QED
      BY <3>3 DEF Moving, PositionsOf
  <2> QED
    BY <2>3, <2>4
<1>6. ASSUME NEW b \in batches, Query(b) \/ QueryFails(b) PROVE <<c, i>> \in Moving' \/ got'[c][i] # Waiting
  <2>1. got' = got /\ UNCHANGED <<sent, chan, pending>>
    BY <1>6 DEF Query, QueryFails
  <2>2. PICK rows : batches' = (batches \ {b}) \cup {[group |-> b.group, items |-> b.items, rows |-> rows]}
    BY <1>6, QueryIs, FailureIs
  <2> DEFINE next == {[group |-> b.group, items |-> b.items, rows |-> rows]}
  <2>3. batches' = (batches \ {b}) \cup next /\ \A p \in b.items : \E d \in next : p \in d.items
    BY <2>2
  <2> HIDE DEF next
  <2>4. \A p \in Moving : p \in Moving' \/ p \in {}
    BY <2>1, <2>3, TaskKeeps
  <2> QED
    BY <1>2, <2>1, <2>4
<1>7. ASSUME NEW b \in batches, Deliver(b) PROVE <<c, i>> \in Moving' \/ got'[c][i] # Waiting
  <2>1. b.rows # Unread
    BY <1>7, DeliverIs
  <2>2. PICK p \in b.items :
          /\ p \in Positions
          /\ got'[p[1]][p[2]] = Answer(b, p)
          /\ \A q \in Positions : q # p => got'[q[1]][q[2]] = got[q[1]][q[2]]
          /\ batches' = (batches \ {b}) \cup
               (IF b.items = {p} THEN {}
                ELSE {[group |-> b.group, items |-> b.items \ {p}, rows |-> b.rows]})
    BY <1>7, DeliverIs
  <2>3. UNCHANGED <<sent, chan, pending>>
    BY <1>7 DEF Deliver
  <2> DEFINE next == IF b.items = {p} THEN {}
                     ELSE {[group |-> b.group, items |-> b.items \ {p}, rows |-> b.rows]}
  <2>4. batches' = (batches \ {b}) \cup next /\ \A q \in b.items : q \in {p} \/ \E d \in next : q \in d.items
    <3>1. CASE b.items = {p}
      BY <2>2, <3>1
    <3>2. CASE b.items # {p}
      BY <2>2, <3>2
    <3> QED
      BY <3>1, <3>2
  <2> HIDE DEF next
  <2>5. \A q \in Moving : q \in Moving' \/ q \in {p}
    BY <2>3, <2>4, TaskKeeps
  <2>6. p[1] \in Calls /\ got'[p[1]][p[2]] # Waiting
    BY <2>1, <2>2, AnswerType, PositionHas, ToldApart
  <2>7. CASE <<c, i>> = p
    BY <2>6, <2>7
  <2>8. CASE <<c, i>> # p
    <3>1. got'[<<c, i>>[1]][<<c, i>>[2]] = got[<<c, i>>[1]][<<c, i>>[2]]
      BY <1>2, <2>2, <2>3, <2>8
    <3> QED
      BY <1>2, <2>3, <2>5, <2>8, <3>1
  <2> QED
    BY <2>7, <2>8
<1>8. ASSUME NEW k \in Keys, OthersWrite(k) PROVE UNCHANGED <<got, sent, chan, pending, batches>>
  BY <1>8 DEF OthersWrite, Write
<1>9. ASSUME NEW d \in Calls, Load(d) \/ Conclude(d) \/ Abandon(d)
      PROVE  UNCHANGED <<got, sent, chan, pending, batches>>
  BY <1>9 DEF Load, Conclude, Abandon, Ask, Return, ReturnError, Cancel
<1>10. CASE UNCHANGED engineVars
  BY <1>3, <1>10 DEF engineVars
<1> QED
  BY <1>3, <1>4, <1>5, <1>6, <1>7, <1>8, <1>9, <1>10 DEF EngineNext, Terminated

\* Each key a call has put into the channel is answered or still on its way: however calls
\* are abandoned and queries fail, nobody waits for a key nobody has
\* (clickhouse_batcher.rs:182-245, 280-308).
THEOREM NoLossTheorem == EngineSpec => []NoAnswerIsLost
BY EngineInvInit, EngineInvStep, NoLossInit, NoLossStep, PTL DEF EngineSpec

-----------------------------------------------------------------------------
(* The batcher is a lookup. A position is answered when its task has read   *)
(* the table; what happens before and after is a stutter.                   *)

\* What was gained for a position, of given tasks and deliveries.
ReadIn(B, c, i) == {b \in B : <<c, i>> \in b.items /\ b.rows # Unread}
GainedAt(B, g, c, i) ==
    IF ReadIn(B, c, i) = {} THEN g[c][i] ELSE Answer(CHOOSE b \in ReadIn(B, c, i) : TRUE, <<c, i>>)

LEMMA GainedIs ==
    /\ Gained = [c \in Calls |-> [i \in DOMAIN KeysOf[c] |-> GainedAt(batches, got, c, i)]]
    /\ Gained' = [c \in Calls |-> [i \in DOMAIN KeysOf[c] |-> GainedAt(batches', got', c, i)]]
BY DEF Gained, GainedAt, Read, ReadIn, Answer

LEMMA GainedHere ==
    ASSUME NEW B, NEW g, NEW c, NEW i, NEW b \in B, <<c, i>> \in b.items, b.rows # Unread,
           \A d \in B : <<c, i>> \in d.items => d = b
    PROVE  GainedAt(B, g, c, i) = Answer(b, <<c, i>>)
<1>1. ReadIn(B, c, i) = {b}
  BY DEF ReadIn
<1> QED
  BY <1>1 DEF GainedAt

LEMMA GainedElsewhere ==
    ASSUME NEW B, NEW g, NEW c, NEW i, \A b \in B : <<c, i>> \in b.items => b.rows = Unread
    PROVE  GainedAt(B, g, c, i) = g[c][i]
BY DEF ReadIn, GainedAt

\* Tasks of which none has the position make no difference to it.
LEMMA GainedSame ==
    ASSUME NEW B, NEW D, NEW g, NEW h, NEW c, NEW i,
           \A b \in (B \ D) \cup (D \ B) : <<c, i>> \in b.items => b.rows = Unread,
           g[c][i] = h[c][i]
    PROVE  GainedAt(B, g, c, i) = GainedAt(D, h, c, i)
<1>1. ReadIn(B, c, i) = ReadIn(D, c, i)
  BY DEF ReadIn
<1> QED
  BY <1>1 DEF GainedAt

\* What waits for its task to read has no answer; what has one is with no task.
LEMMA GainedWaits ==
    ASSUME EngineInv, NEW c \in Calls, NEW i \in DOMAIN KeysOf[c]
    PROVE  /\ \A b \in batches : <<c, i>> \in b.items /\ b.rows = Unread =>
                 Gained[c][i] = Waiting /\ phase[c] # "idle"
           /\ got[c][i] # Waiting => Gained[c][i] = got[c][i]
<1>1. Gained[c][i] = GainedAt(batches, got, c, i)
  BY GainedIs
<1>2. ASSUME NEW b \in batches, <<c, i>> \in b.items
      PROVE  got[c][i] = Waiting /\ phase[c] # "idle" /\ \A d \in batches : <<c, i>> \in d.items => d = b
  <2>1. <<c, i>> \in Moving
    BY <1>2 DEF Moving
  <2>2. got[c][i] = Waiting /\ phase[c] # "idle"
    BY <2>1 DEF EngineInv, MovingWaits
  <2>3. \A d \in batches : <<c, i>> \in d.items => d = b
    BY <1>2 DEF EngineInv, OnePlace
  <2> QED
    BY <2>2, <2>3
<1>3. ASSUME NEW b \in batches, <<c, i>> \in b.items, b.rows = Unread
      PROVE  Gained[c][i] = Waiting /\ phase[c] # "idle"
  BY <1>1, <1>2, <1>3, GainedElsewhere
<1>4. ASSUME got[c][i] # Waiting PROVE Gained[c][i] = got[c][i]
  BY <1>1, <1>2, <1>4, GainedElsewhere
<1> QED
  BY <1>3, <1>4

\* Steps that neither read nor deliver gain nothing.
LEMMA NothingGained == UNCHANGED <<batches, got>> => Gained' = Gained
BY GainedIs

LEMMA CloseGains == Close => Gained' = Gained
<1> SUFFICES ASSUME Close PROVE Gained' = Gained
  OBVIOUS
<1>1. batches' = batches \cup ByGroup(PositionsOf(pending)) /\ got' = got
  BY DEF Close
<1>2. \A b \in ByGroup(PositionsOf(pending)) : b.rows = Unread
  BY DEF ByGroup
<1>3. ASSUME NEW c \in Calls, NEW i \in DOMAIN KeysOf[c]
      PROVE  GainedAt(batches', got', c, i) = GainedAt(batches, got, c, i)
  <2>1. \A b \in (batches' \ batches) \cup (batches \ batches') : <<c, i>> \in b.items => b.rows = Unread
    BY <1>1, <1>2
  <2>2. got'[c][i] = got[c][i]
    BY <1>1
  <2> QED
    BY <2>1, <2>2, GainedSame
<1> QED
  BY <1>3, GainedIs

\* A task that reads gains an answer for all it has, and nothing else.
LEMMA ReadGains ==
    ASSUME EngineInv, NEW b \in batches, b.rows = Unread, NEW rows, rows # Unread, got' = got,
           batches' = (batches \ {b}) \cup {[group |-> b.group, items |-> b.items, rows |-> rows]}
    PROVE  Gained' = [c \in Calls |-> [i \in DOMAIN KeysOf[c] |->
                        IF <<c, i>> \in b.items
                        THEN IF rows = Failed THEN Failed ELSE rows[KeysOf[c][i]]
                        ELSE Gained[c][i]]]
<1> DEFINE next == [group |-> b.group, items |-> b.items, rows |-> rows]
<1>1. next.items = b.items /\ next.rows = rows /\ batches' = (batches \ {b}) \cup {next}
  OBVIOUS
<1> HIDE DEF next
<1>2. \A d \in batches : d # b => d.items \cap b.items = {}
  BY TaskType
<1>3. ASSUME NEW c \in Calls, NEW i \in DOMAIN KeysOf[c], <<c, i>> \in b.items
      PROVE  GainedAt(batches', got', c, i) = IF rows = Failed THEN Failed ELSE rows[KeysOf[c][i]]
  <2>1. \A d \in batches' : <<c, i>> \in d.items => d = next
    BY <1>1, <1>2, <1>3
  <2>2. GainedAt(batches', got', c, i) = Answer(next, <<c, i>>)
    BY <1>1, <1>3, <2>1, GainedHere
  <2> QED
    BY <1>1, <2>2 DEF Answer, KeyOf
<1>4. ASSUME NEW c \in Calls, NEW i \in DOMAIN KeysOf[c], <<c, i>> \notin b.items
      PROVE  GainedAt(batches', got', c, i) = GainedAt(batches, got, c, i)
  BY <1>1, <1>4, GainedSame
<1> QED
  BY <1>3, <1>4, GainedIs

\* What a task delivers is what was gained when it read.
LEMMA DeliverGains == ASSUME EngineInv, NEW b \in batches, Deliver(b) PROVE Gained' = Gained
<1>1. b.rows # Unread
  BY DeliverIs
<1>2. PICK p \in b.items :
        /\ p \in Positions
        /\ got'[p[1]][p[2]] = Answer(b, p)
        /\ \A q \in Positions : q # p => got'[q[1]][q[2]] = got[q[1]][q[2]]
        /\ batches' = (batches \ {b}) \cup
             (IF b.items = {p} THEN {}
              ELSE {[group |-> b.group, items |-> b.items \ {p}, rows |-> b.rows]})
  BY DeliverIs
<1> DEFINE left == [group |-> b.group, items |-> b.items \ {p}, rows |-> b.rows]
<1>3. left.items = b.items \ {p} /\ left.rows = b.rows
  OBVIOUS
<1>4. batches' = (batches \ {b}) \cup (IF b.items = {p} THEN {} ELSE {left})
  BY <1>2
<1> HIDE DEF left
<1>5. \A d \in batches : d # b => d.items \cap b.items = {}
  BY TaskType
<1>6. ASSUME NEW c \in Calls, NEW i \in DOMAIN KeysOf[c]
      PROVE  GainedAt(batches', got', c, i) = GainedAt(batches, got, c, i)
  <2>1. <<c, i>> \in Positions
    BY PositionIs
  <2>2. CASE <<c, i>> = p
    <3>1. \A d \in batches' : <<c, i>> \notin d.items
      BY <1>2, <1>3, <1>4, <1>5, <2>2
    <3>2. GainedAt(batches', got', c, i) = got'[c][i]
      BY <3>1, GainedElsewhere
    <3>3. got'[c][i] = Answer(b, <<c, i>>)
      BY <1>2, <2>2
    <3>4. GainedAt(batches, got, c, i) = Answer(b, <<c, i>>)
      <4>1. \A d \in batches : <<c, i>> \in d.items => d = b
        BY <1>5, <2>2
      <4> QED
        BY <1>1, <2>2, <4>1, GainedHere
    <3> QED
      BY <3>2, <3>3, <3>4
  <2>3. CASE <<c, i>> # p /\ <<c, i>> \in b.items
    <3>1. left \in batches' /\ <<c, i>> \in left.items
      BY <1>3, <1>4, <2>3
    <3>2. \A d \in batches' : <<c, i>> \in d.items => d = left
      BY <1>4, <1>5, <2>3
    <3>3. GainedAt(batches', got', c, i) = Answer(left, <<c, i>>)
      BY <1>1, <1>3, <3>1, <3>2, GainedHere
    <3>4. GainedAt(batches, got, c, i) = Answer(b, <<c, i>>)
      <4>1. \A d \in batches : <<c, i>> \in d.items => d = b
        BY <1>5, <2>3
      <4> QED
        BY <1>1, <2>3, <4>1, GainedHere
    <3> QED
      BY <1>3, <3>3, <3>4 DEF Answer
  <2>4. CASE <<c, i>> \notin b.items
    <3>1. got'[c][i] = got[c][i]
      <4>1. <<c, i>> # p
        BY <2>4
      <4>2. got'[<<c, i>>[1]][<<c, i>>[2]] = got[<<c, i>>[1]][<<c, i>>[2]]
        BY <1>2, <2>1, <4>1
      <4> QED
        BY <4>2
    <3>2. \A d \in (batches' \ batches) \cup (batches \ batches') : <<c, i>> \notin d.items
      BY <1>3, <1>4, <2>4
    <3> QED
      BY <3>1, <3>2, GainedSame
  <2> QED
    BY <2>2, <2>3, <2>4
<1> QED
  BY <1>6, GainedIs

\* What a task has are open positions.
LEMMA TaskIsOpen ==
    ASSUME EngineInv, NEW b \in batches, b.rows = Unread
    PROVE  b.items \in SUBSET Lookup!Open
<1>1. ASSUME NEW p \in b.items
      PROVE  p \in Positions /\ phase[p[1]] # "idle" /\ Gained[p[1]][p[2]] = Waiting
  <2>1. p \in Positions
    BY TaskType
  <2>2. p[1] \in Calls /\ p[2] \in DOMAIN KeysOf[p[1]] /\ <<p[1], p[2]>> = p
    BY <2>1, PositionHas
  <2> QED
    BY <2>1, <2>2, GainedWaits
<1> QED
  BY <1>1 DEF Lookup!Open, Positions, Lookup!Positions

LEMMA QueryServes ==
    ASSUME EngineInv, NEW b \in batches, Query(b)
    PROVE  Lookup!Serve(b.items)
<1>1. PICK rows :
        /\ rows = [k \in {KeyOf(p) : p \in b.items} |-> RowsOf(b.group, k, version[k])]
        /\ rows \notin {Unread, Failed}
        /\ batches' = (batches \ {b}) \cup {[group |-> b.group, items |-> b.items, rows |-> rows]}
  BY QueryIs
<1>2. b.rows = Unread /\ UNCHANGED <<version, phase, got>>
  BY DEF Query
<1>3. Gained' = [c \in Calls |-> [i \in DOMAIN KeysOf[c] |->
                   IF <<c, i>> \in b.items
                   THEN IF rows = Failed THEN Failed ELSE rows[KeysOf[c][i]]
                   ELSE Gained[c][i]]]
  <2>1. rows # Unread /\ got' = got
    BY <1>1, <1>2
  <2>2. batches' = (batches \ {b}) \cup {[group |-> b.group, items |-> b.items, rows |-> rows]}
    BY <1>1
  <2> QED
    BY <1>2, <2>1, <2>2, ReadGains
<1>4. ASSUME NEW c \in Calls, NEW i \in DOMAIN KeysOf[c], <<c, i>> \in b.items
      PROVE  rows[KeysOf[c][i]] = Lookup!Current(c, i)
  <2>1. GroupOf[c] = b.group
    <3>1. GroupOf[<<c, i>>[1]] = b.group
      BY <1>4, TaskType
    <3> QED
      BY <3>1
  <2>2. KeyOf(<<c, i>>) = KeysOf[c][i] /\ KeyOf(<<c, i>>) \in {KeyOf(p) : p \in b.items}
    BY <1>4 DEF KeyOf
  <2>3. rows[KeysOf[c][i]] = RowsOf(b.group, KeysOf[c][i], version[KeysOf[c][i]])
    BY <1>1, <2>2
  <2> QED
    BY <2>1, <2>3 DEF Lookup!Current, Lookup!RowsOf, RowsOf
<1>5. Gained' = [c \in Calls |-> [i \in DOMAIN KeysOf[c] |->
                   IF <<c, i>> \in b.items THEN Lookup!Current(c, i) ELSE Gained[c][i]]]
  BY <1>1, <1>3, <1>4
<1> QED
  BY <1>2, <1>5 DEF Lookup!Serve

LEMMA FailureDenies ==
    ASSUME EngineInv, NEW b \in batches, QueryFails(b)
    PROVE  Lookup!Deny(b.items)
<1>1. b.rows = Unread /\ UNCHANGED <<version, phase, got>>
  BY DEF QueryFails
<1>2. batches' = (batches \ {b}) \cup {[group |-> b.group, items |-> b.items, rows |-> Failed]}
  BY FailureIs
<1>3. Gained' = [c \in Calls |-> [i \in DOMAIN KeysOf[c] |->
                   IF <<c, i>> \in b.items
                   THEN IF Failed = Failed THEN Failed ELSE Failed[KeysOf[c][i]]
                   ELSE Gained[c][i]]]
  BY <1>1, <1>2, ToldApart, ReadGains
<1> QED
  BY <1>1, <1>3 DEF Lookup!Deny

\* A call that ends on what was delivered ends on what was gained.
LEMMA ConcludeEnds ==
    ASSUME EngineInv, NEW c \in Calls, Conclude(c)
    PROVE  Lookup!Return(c) \/ Lookup!ReturnError(c)
<1>1. /\ DOMAIN got[c] = DOMAIN KeysOf[c] /\ DOMAIN Gained[c] = DOMAIN KeysOf[c]
      /\ DOMAIN KeysOf[c] = 1..Len(KeysOf[c]) /\ Len(KeysOf[c]) \in Nat
  BY GainedIs, KeySequence DEF EngineInv, EngineTypeOK
<1>2. \A i \in DOMAIN got[c] : got[c][i] # Waiting => Gained[c][i] = got[c][i]
  BY <1>1, GainedWaits
<1>3. Gained' = Gained
  BY NothingGained DEF Conclude, Return, ReturnError
<1>4. CASE Return(c)
  BY <1>1, <1>2, <1>3, <1>4 DEF Return, Settle, Lookup!Return, Lookup!Settle
<1>5. CASE ReturnError(c)
  <2>1. PICK i \in DOMAIN got[c] : got[c][i] = Failed /\ \A j \in 1..i - 1 : got[c][j] # Waiting
    BY <1>5 DEF ReturnError
  <2>2. Gained[c][i] = Failed
    BY <1>2, <2>1, ToldApart
  <2>3. ASSUME NEW j \in 1..i - 1 PROVE Gained[c][j] # Waiting
    <3>1. j \in DOMAIN got[c]
      BY <1>1
    <3> QED
      BY <1>2, <2>1, <3>1
  <2> QED
    BY <1>1, <1>3, <1>5, <2>1, <2>2, <2>3 DEF ReturnError, Settle, Lookup!ReturnError, Lookup!Settle
<1> QED
  BY <1>4, <1>5 DEF Conclude

LEMMA LookupStarts == EngineInit => Lookup!LookupInit
<1> SUFFICES ASSUME EngineInit PROVE Lookup!LookupInit
  OBVIOUS
<1>1. /\ version = [k \in Keys |-> 0] /\ phase = [c \in Calls |-> "idle"]
      /\ got = [c \in Calls |-> [i \in DOMAIN KeysOf[c] |-> Waiting]] /\ batches = {}
  BY DEF EngineInit, LookupInit
<1>2. ASSUME NEW c \in Calls, NEW i \in DOMAIN KeysOf[c]
      PROVE  GainedAt(batches, got, c, i) = Waiting
  <2>1. got[c][i] = Waiting /\ \A b \in batches : <<c, i>> \in b.items => b.rows = Unread
    BY <1>1
  <2> QED
    BY <2>1, GainedElsewhere
<1> QED
  BY <1>1, <1>2, GainedIs DEF Lookup!LookupInit

\* Every step is one of the lookup, or changes nothing of it.
LEMMA LookupSteps == EngineInv /\ [EngineNext]_engineVars => [Lookup!LookupNext]_(Lookup!lookupVars)
<1> SUFFICES ASSUME EngineInv, [EngineNext]_engineVars
             PROVE  Lookup!LookupNext \/ UNCHANGED <<version, phase, Gained>>
  BY DEF Lookup!lookupVars
<1>1. ASSUME NEW k \in Keys, OthersWrite(k) PROVE Lookup!LookupNext
  <2>1. Lookup!Write(k)
    BY <1>1, NothingGained DEF OthersWrite, Write, Lookup!Write
  <2> QED
    BY <2>1 DEF Lookup!LookupNext
<1>2. ASSUME NEW c \in Calls, Load(c) PROVE Lookup!LookupNext
  <2>1. Lookup!Ask(c)
    BY <1>2, NothingGained DEF Load, Ask, Lookup!Ask
  <2> QED
    BY <2>1 DEF Lookup!LookupNext
<1>3. ASSUME NEW c \in Calls, Abandon(c) PROVE Lookup!LookupNext
  <2>1. Lookup!Cancel(c)
    BY <1>3, NothingGained DEF Abandon, Cancel, Settle, Lookup!Cancel, Lookup!Settle
  <2> QED
    BY <2>1 DEF Lookup!LookupNext
<1>4. ASSUME NEW c \in Calls, Conclude(c) PROVE Lookup!LookupNext
  BY <1>4, ConcludeEnds DEF Lookup!LookupNext
<1>5. ASSUME NEW c \in Calls, Enqueue(c) PROVE UNCHANGED <<version, phase, Gained>>
  BY <1>5, NothingGained DEF Enqueue
<1>6. CASE Collect
  BY <1>6, NothingGained DEF Collect
<1>7. CASE Close
  BY <1>7, CloseGains DEF Close
<1>8. ASSUME NEW b \in batches, Query(b) PROVE Lookup!LookupNext
  <2>1. b.rows = Unread
    BY <1>8 DEF Query
  <2> QED
    BY <1>8, <2>1, TaskIsOpen, QueryServes DEF Lookup!LookupNext
<1>9. ASSUME NEW b \in batches, QueryFails(b) PROVE Lookup!LookupNext
  <2>1. b.rows = Unread
    BY <1>9 DEF QueryFails
  <2> QED
    BY <1>9, <2>1, TaskIsOpen, FailureDenies DEF Lookup!LookupNext
<1>10. ASSUME NEW b \in batches, Deliver(b) PROVE UNCHANGED <<version, phase, Gained>>
  BY <1>10, DeliverGains DEF Deliver
<1>11. CASE UNCHANGED engineVars
  BY <1>11, NothingGained DEF engineVars
<1> QED
  BY <1>1, <1>2, <1>3, <1>4, <1>5, <1>6, <1>7, <1>8, <1>9, <1>10, <1>11 DEF EngineNext, Terminated

\* Every caller is answered as if each of its keys had been looked up on its own, in its own
\* group, at a moment of the call (clickhouse_batcher.rs:182-308, 331-365, 413-429).
THEOREM LookupTheorem == EngineSpec => ImplementsLookup
<1>1. EngineInv /\ [EngineNext]_engineVars => [Lookup!LookupNext]_(Lookup!lookupVars)
  BY LookupSteps
<1>2. EngineInit => Lookup!LookupInit
  BY LookupStarts
<1> QED
  BY <1>1, <1>2, EngineInvInit, EngineInvStep, PTL
     DEF EngineSpec, ImplementsLookup, Lookup!LookupSpec
=============================================================================
