------------------------------ MODULE KeyLookup ------------------------------
(***************************************************************************)
(* What the callers of a ClickhouseBatcher are promised, without batches:   *)
(* every position of a call is answered once, with what the table holds     *)
(* under its own key in its own group at some moment of the call, or with   *)
(* an error; and a call ends as its kind says.                              *)
(***************************************************************************)
EXTENDS Integers, Sequences

CONSTANTS
    Calls,          \* the calls of load and load_many
    Keys,
    KeysOf,         \* KeysOf[c]: the sequence of keys c asks for
    GroupOf,        \* GroupOf[c]: the group its query belongs to
    Tolerant,       \* the calls that leave failed keys out: load_many
    MaxVersion,     \* bound: writes to a key
    Waiting, Failed \* instead of an answer

ASSUME LookupAssumption ==
    /\ KeysOf \in [Calls -> Seq(Keys)]
    /\ DOMAIN GroupOf = Calls
    /\ Tolerant \subseteq Calls
    /\ MaxVersion \in Nat

VARIABLES
    version,        \* version[k]: the state of the table under k
    phase,          \* phase[c]
    got             \* got[c][i]: what was sent to the i-th position of c, read or not

lookupVars == <<version, phase, got>>

Positions == UNION {{c} \X DOMAIN KeysOf[c] : c \in Calls}

\* The rows of a key in a group at a moment; none, for version 0.
RowsOf(g, k, v) == [group |-> g, key |-> k, version |-> v]

LookupInit ==
    /\ version = [k \in Keys |-> 0]
    /\ phase = [c \in Calls |-> "idle"]
    /\ got = [c \in Calls |-> [i \in DOMAIN KeysOf[c] |-> Waiting]]

\* Other programs insert rows.
Write(k) ==
    /\ version[k] < MaxVersion
    /\ version' = [version EXCEPT ![k] = @ + 1]
    /\ UNCHANGED <<phase, got>>

Ask(c) ==
    /\ phase[c] = "idle"
    /\ phase' = [phase EXCEPT ![c] = "asking"]
    /\ UNCHANGED <<version, got>>

Current(c, i) == RowsOf(GroupOf[c], KeysOf[c][i], version[KeysOf[c][i]])

Open == {p \in Positions : phase[p[1]] # "idle" /\ got[p[1]][p[2]] = Waiting}

\* One look at the table answers any of the open positions.
Serve(S) ==
    /\ got' = [c \in Calls |-> [i \in DOMAIN KeysOf[c] |->
                IF <<c, i>> \in S THEN Current(c, i) ELSE got[c][i]]]
    /\ UNCHANGED <<version, phase>>

Deny(S) ==
    /\ got' = [c \in Calls |-> [i \in DOMAIN KeysOf[c] |->
                IF <<c, i>> \in S THEN Failed ELSE got[c][i]]]
    /\ UNCHANGED <<version, phase>>

\* The answers are awaited in order.
Settle(c, end) ==
    /\ phase[c] = "asking"
    /\ phase' = [phase EXCEPT ![c] = end]

Return(c) ==
    /\ \A i \in DOMAIN got[c] : got[c][i] # Waiting
    /\ \/ c \in Tolerant
       \/ \A i \in DOMAIN got[c] : got[c][i] # Failed
    /\ Settle(c, "answered")
    /\ UNCHANGED <<version, got>>

ReturnError(c) ==
    /\ c \notin Tolerant
    /\ \E i \in DOMAIN got[c] :
        /\ got[c][i] = Failed
        /\ \A j \in 1..i - 1 : got[c][j] # Waiting
    /\ Settle(c, "failed")
    /\ UNCHANGED <<version, got>>

Cancel(c) == Settle(c, "cancelled") /\ UNCHANGED <<version, got>>

LookupNext ==
    \/ \E k \in Keys : Write(k)
    \/ \E c \in Calls : Ask(c) \/ Return(c) \/ ReturnError(c) \/ Cancel(c)
    \/ \E S \in SUBSET Open : Serve(S) \/ Deny(S)

LookupSpec == LookupInit /\ [][LookupNext]_lookupVars
==============================================================================
