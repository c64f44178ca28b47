---------------------------- MODULE InsertBatcher ----------------------------
(***************************************************************************)
(* ClickhouseInsertBatcher (clickhouse_insert_batcher.rs): callers leave    *)
(* rows in a bounded buffer, one task takes the whole buffer every few      *)
(* seconds and inserts it, and puts back what fits when that fails.  The    *)
(* buffer is memory: a restart loses it.                                    *)
(***************************************************************************)
EXTENDS Integers, Sequences

CONSTANTS
    Rows,
    MaxBuffer,      \* max_buffer_size
    MaxCall,        \* the most rows one call brings
    MaxFailures,    \* bound: failed insertions
    MaxRestarts     \* bound

ASSUME BufferAssumption ==
    /\ MaxBuffer \in Nat \ {0} /\ MaxCall \in Nat \ {0}
    /\ MaxFailures \in Nat /\ MaxRestarts \in Nat

VARIABLES
    buffer,         \* oldest first
    flushing,       \* what the task took and is inserting; empty when it sleeps
    stored,         \* the rows in the table
    accepted,       \* history: every row a call brought
    pressed,        \* history: more rows were waiting than the buffer holds
    failures,
    restarts

batcherVars == <<buffer, flushing, stored, accepted, pressed, failures, restarts>>

BatcherInit ==
    /\ buffer = <<>> /\ flushing = <<>>
    /\ stored = {} /\ accepted = {}
    /\ pressed = FALSE
    /\ failures = 0 /\ restarts = 0

Elements(s) == {s[i] : i \in DOMAIN s}

AtMost(n, max) == IF n <= max THEN n ELSE max
Above(n, max) == IF n <= max THEN 0 ELSE n - max

\* Mutant: a full buffer takes in nothing.
DropNewest(rows) ==
    IF Len(buffer) + Len(rows) > MaxBuffer THEN buffer ELSE buffer \o rows

\* The oldest rows make room, as many as are needed and there are.
MadeRoom(rows) ==
    SubSeq(buffer, AtMost(Above(Len(buffer) + Len(rows), MaxBuffer), Len(buffer)) + 1, Len(buffer))
        \o rows

Insert(rows) ==
    /\ rows # <<>>
    /\ buffer' = MadeRoom(rows)
    /\ accepted' = accepted \cup Elements(rows)
    /\ pressed' = (pressed \/ Len(buffer) + Len(flushing) + Len(rows) > MaxBuffer)
    /\ UNCHANGED <<flushing, stored, failures, restarts>>

\* The tick of the task.
Flush ==
    /\ flushing = <<>> /\ buffer # <<>>
    /\ flushing' = buffer
    /\ buffer' = <<>>
    /\ UNCHANGED <<stored, accepted, pressed, failures, restarts>>

FlushSucceeds ==
    /\ flushing # <<>>
    /\ stored' = stored \cup Elements(flushing)
    /\ flushing' = <<>>
    /\ UNCHANGED <<buffer, accepted, pressed, failures, restarts>>

\* Mutant: what is put back is not limited.
PutAllBack == buffer \o flushing

\* Mutant: what could not be inserted is dropped.
PutNothingBack == buffer

\* What arrived meanwhile stays in front.
PutBack == buffer \o SubSeq(flushing, 1, AtMost(Above(MaxBuffer, Len(buffer)), Len(flushing)))

\* The rows may be in the table although the insertion reports an error.
FlushFails ==
    /\ flushing # <<>>
    /\ failures < MaxFailures
    /\ failures' = failures + 1
    /\ buffer' = PutBack
    /\ flushing' = <<>>
    /\ stored' \in {stored, stored \cup Elements(flushing)}
    /\ UNCHANGED <<accepted, pressed, restarts>>

\* signal_shutdown has no caller: nothing is flushed when the process ends.
Restart ==
    /\ restarts < MaxRestarts
    /\ restarts' = restarts + 1
    /\ buffer' = <<>> /\ flushing' = <<>>
    /\ UNCHANGED <<stored, accepted, pressed, failures>>

\* Other programs insert into the same table.
OthersInsert(row) ==
    /\ stored' = stored \cup {row}
    /\ UNCHANGED <<buffer, flushing, accepted, pressed, failures, restarts>>

Insertions == {rows \in Seq(Rows) : Len(rows) <= MaxCall}

BatcherNext ==
    \/ \E rows \in Insertions : Insert(rows)
    \/ Flush \/ FlushSucceeds \/ FlushFails \/ Restart
    \/ \E row \in Rows : OthersInsert(row)

BatcherSpec == BatcherInit /\ [][BatcherNext]_batcherVars

-----------------------------------------------------------------------------
(* Properties.                                                             *)

\* The buffer outgrows its maximum by no more than one call that is larger than it, and
\* what failed never makes it outgrow it (clickhouse_insert_batcher.rs:41-57, 104-111).
BatcherTypeOK ==
    /\ buffer \in Seq(Rows) /\ Len(buffer) <= (IF MaxCall <= MaxBuffer THEN MaxBuffer ELSE MaxCall)
    /\ flushing \in Seq(Rows)
    /\ stored \subseteq Rows /\ accepted \subseteq Rows
    /\ pressed \in BOOLEAN
    /\ failures \in 0..MaxFailures /\ restarts \in 0..MaxRestarts

Kept == Elements(buffer) \cup Elements(flushing) \cup stored

\* Rows are only lost when more are waiting than the buffer holds, those under insertion
\* included, or in a restart: not by a failed or interrupted insertion.
LostOnlyUnderPressure == ~pressed /\ restarts = 0 => accepted \subseteq Kept
==============================================================================
