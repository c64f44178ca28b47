---------------------------- MODULE QueryBatcher ----------------------------
(***************************************************************************)
(* BatchEngine (clickhouse_batcher.rs): callers put their keys into one     *)
(* channel, a loop collects them into a batch, and every group of a batch   *)
(* becomes a task of its own that queries each key once and sends the rows  *)
(* to everyone who asked for the key.  Tasks of several batches run at the  *)
(* same time and a caller may be gone before its rows arrive.               *)
(***************************************************************************)
EXTENDS KeyLookup, FiniteSets

CONSTANTS
    ChanCap,        \* capacity of the channel
    MaxBatch,       \* max_batch_size
    MaxErrors,    \* bound: failed queries
    Unread          \* no rows yet

ASSUME EngineAssumption ==
    /\ ChanCap \in Nat \ {0} /\ MaxBatch \in Nat \ {0} /\ MaxErrors \in Nat
    /\ \A c \in Calls : Len(KeysOf[c]) > 0

VARIABLES
    sent,           \* sent[c]: how many of its keys c has put into the channel
    chan,           \* the channel: positions, oldest first
    pending,        \* the batch that is being collected
    batches,        \* the running tasks: [group, items, rows]
    errors

engineVars == <<version, phase, got, sent, chan, pending, batches, errors>>

KeyOf(p) == KeysOf[p[1]][p[2]]

PositionsOf(s) == {s[i] : i \in DOMAIN s}

\* What a key may have in a group.
Found(g) == {RowsOf(g, k, v) : k \in Keys, v \in 0..MaxVersion}

\* What the query of a task may return: rows for each of its keys, or an error.
Results(b) ==
    {Failed} \cup
    UNION {[K -> Found(b.group)] : K \in {K \in SUBSET Keys : \A p \in b.items : KeyOf(p) \in K}}

\* An error, no answer and no rows are told apart, and from rows.
ASSUME UnreadAssumption ==
    /\ Failed # Waiting /\ Failed # Unread
    /\ \A c \in Calls : Waiting \notin Found(GroupOf[c])
    /\ \A c \in Calls : \A K \in SUBSET Keys :
        Failed \notin [K -> Found(GroupOf[c])] /\ Unread \notin [K -> Found(GroupOf[c])]

EngineInit ==
    /\ LookupInit
    /\ sent = [c \in Calls |-> 0]
    /\ chan = <<>>
    /\ pending = <<>>
    /\ batches = {}
    /\ errors = 0

-----------------------------------------------------------------------------
(* The callers.                                                            *)

Load(c) == Ask(c) /\ UNCHANGED <<sent, chan, pending, batches, errors>>

\* enqueue waits for a place in the channel, one key after the other.
Enqueue(c) ==
    /\ phase[c] = "asking"
    /\ sent[c] < Len(KeysOf[c])
    /\ Len(chan) < ChanCap
    /\ sent' = [sent EXCEPT ![c] = @ + 1]
    /\ chan' = Append(chan, <<c, sent[c] + 1>>)
    /\ UNCHANGED <<version, phase, got, pending, batches, errors>>

\* Only when all its keys are in does a call wait for answers.
Conclude(c) ==
    /\ sent[c] = Len(KeysOf[c])
    /\ Return(c) \/ ReturnError(c)
    /\ UNCHANGED <<sent, chan, pending, batches, errors>>

\* The caller's future is dropped; what it has sent stays where it is.
Abandon(c) == Cancel(c) /\ UNCHANGED <<sent, chan, pending, batches, errors>>

-----------------------------------------------------------------------------
(* batch_loop.                                                             *)

\* Mutant: the size of a batch is not looked at.
CollectMore ==
    /\ chan # <<>>
    /\ pending' = Append(pending, Head(chan))
    /\ chan' = Tail(chan)
    /\ UNCHANGED <<version, phase, got, sent, batches, errors>>

\* recv, while fewer than MaxBatch are pending.
Collect ==
    /\ chan # <<>>
    /\ Len(pending) < MaxBatch
    /\ pending' = Append(pending, Head(chan))
    /\ chan' = Tail(chan)
    /\ UNCHANGED <<version, phase, got, sent, batches, errors>>

Groups(items) == {GroupOf[p[1]] : p \in items}

\* Mutant: one query for the whole batch, in the group of one of its members.
OneTask(items) ==
    {[group |-> CHOOSE g \in Groups(items) : TRUE, items |-> items, rows |-> Unread]}

\* One task for every group of the batch.
ByGroup(items) ==
    {[group |-> g, items |-> {p \in items : GroupOf[p[1]] = g}, rows |-> Unread] :
        g \in Groups(items)}

\* Mutant: only a full batch is closed.
CloseWhenFull ==
    /\ Len(pending) = MaxBatch
    /\ batches' = batches \cup ByGroup(PositionsOf(pending))
    /\ pending' = <<>>
    /\ UNCHANGED <<version, phase, got, sent, chan, errors>>

\* The window is over, or the batch is full.
Close ==
    /\ pending # <<>>
    /\ batches' = batches \cup ByGroup(PositionsOf(pending))
    /\ pending' = <<>>
    /\ UNCHANGED <<version, phase, got, sent, chan, errors>>

-----------------------------------------------------------------------------
(* execute_batch.                                                          *)

\* One query, for the distinct keys, at one moment.
Query(b) ==
    /\ b.rows = Unread
    /\ batches' = (batches \ {b}) \cup
         {[b EXCEPT !.rows = [k \in {KeyOf(p) : p \in b.items} |->
                                RowsOf(b.group, k, version[k])]]}
    /\ UNCHANGED <<version, phase, got, sent, chan, pending, errors>>

QueryFails(b) ==
    /\ b.rows = Unread
    /\ errors < MaxErrors
    /\ errors' = errors + 1
    /\ batches' = (batches \ {b}) \cup {[b EXCEPT !.rows = Failed]}
    /\ UNCHANGED <<version, phase, got, sent, chan, pending>>

Answer(b, p) == IF b.rows = Failed THEN Failed ELSE b.rows[KeyOf(p)]

\* One of the senders gets its rows; nobody may be listening.
Deliver(b) ==
    /\ b.rows # Unread
    /\ \E p \in b.items :
        /\ got' = [got EXCEPT ![p[1]][p[2]] = Answer(b, p)]
        /\ batches' = (batches \ {b}) \cup
             (IF b.items = {p} THEN {} ELSE {[b EXCEPT !.items = @ \ {p}]})
    /\ UNCHANGED <<version, phase, sent, chan, pending, errors>>

-----------------------------------------------------------------------------

OthersWrite(k) == Write(k) /\ UNCHANGED <<sent, chan, pending, batches, errors>>

\* No call is open and every task has ended.
Terminated ==
    /\ \A c \in Calls : phase[c] \notin {"idle", "asking"}
    /\ chan = <<>> /\ pending = <<>> /\ batches = {}
    /\ UNCHANGED engineVars

EngineNext ==
    \/ \E k \in Keys : OthersWrite(k)
    \/ \E c \in Calls : Load(c) \/ Enqueue(c) \/ Conclude(c) \/ Abandon(c)
    \/ Collect
    \/ Close
    \/ \E b \in batches : Query(b) \/ QueryFails(b) \/ Deliver(b)
    \/ Terminated

\* The runtime runs every ready task, the timer fires, and ClickHouse answers or fails.
EngineFairness ==
    /\ \A c \in Calls : WF_engineVars(Enqueue(c)) /\ WF_engineVars(Conclude(c))
    /\ WF_engineVars(Collect) /\ WF_engineVars(Close)
    /\ WF_engineVars(\E b \in batches : Query(b) \/ QueryFails(b) \/ Deliver(b))

EngineSpec == EngineInit /\ [][EngineNext]_engineVars /\ EngineFairness

-----------------------------------------------------------------------------
(* Properties.                                                             *)

\* Phases, answers and the places of a position have their types; neither the channel nor
\* a batch outgrows its capacity, and a task has positions of one group and its rows every
\* key it needs (clickhouse_batcher.rs:152, 220-244, 292-298).
EngineTypeOK ==
    /\ version \in [Keys -> 0..MaxVersion]
    /\ phase \in [Calls -> {"idle", "asking", "answered", "failed", "cancelled"}]
    /\ sent \in [Calls -> Nat] /\ \A c \in Calls : sent[c] <= Len(KeysOf[c])
    /\ DOMAIN got = Calls
    /\ \A c \in Calls : got[c] \in [DOMAIN KeysOf[c] -> Found(GroupOf[c]) \cup {Failed, Waiting}]
    /\ chan \in Seq(Positions) /\ Len(chan) <= ChanCap
    /\ pending \in Seq(Positions) /\ Len(pending) <= MaxBatch
    /\ \A b \in batches :
        /\ b \in [group : {GroupOf[c] : c \in Calls}, items : (SUBSET Positions) \ {{}},
                  rows : Results(b) \cup {Unread}]
        /\ \A p \in b.items : GroupOf[p[1]] = b.group
    /\ errors \in 0..MaxErrors

\* What was read for a position and not delivered yet.
Read(c, i) == {b \in batches : <<c, i>> \in b.items /\ b.rows # Unread}

\* A position has its answer from the moment its task has read the table.
Gained == [c \in Calls |-> [i \in DOMAIN KeysOf[c] |->
             IF Read(c, i) = {} THEN got[c][i]
             ELSE Answer(CHOOSE b \in Read(c, i) : TRUE, <<c, i>>)]]

Lookup == INSTANCE KeyLookup WITH got <- Gained

\* Whatever is batched, deduplicated, split by group, delivered late or to nobody: every
\* caller gets the rows of its own keys in its own group, as the table held them at some
\* moment of the call, each position once, and load_many leaves out just what failed
\* (clickhouse_batcher.rs:249-308, 331-365, 413-429).
ImplementsLookup == Lookup!LookupSpec

\* A call that is not cancelled ends, however small the channel and the batches are
\* (clickhouse_batcher.rs:165-197, 213-246).
EveryCallEnds ==
    \A c \in Calls : phase[c] = "asking" ~> phase[c] # "asking"
=============================================================================
