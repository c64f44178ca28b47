---------------------------- MODULE IngestLedger ----------------------------
(***************************************************************************)
(* What the live ingest pipeline promises about every match object that    *)
(* is dropped into ingest/metadata/: its rows reach both ClickHouse tables *)
(* before it is archived in processed/, and it is set aside in failed/     *)
(* only when it cannot be parsed.  IngestWorker is shown to implement it.  *)
(***************************************************************************)
CONSTANTS Keys,          \* the objects of ingest/metadata/
          Unparseable    \* those whose payload is not a usable match

VARIABLE phase           \* phase[k]: how far object k has got

Phases == {"absent", "waiting", "stored", "archived", "rejected"}

TypeOK == phase \in [Keys -> Phases]

Init == phase \in [Keys -> {"absent", "waiting"}]

\* An object appears in ingest/.
Upload(k) ==
    /\ phase[k] = "absent"
    /\ phase' = [phase EXCEPT ![k] = "waiting"]

\* The rows of a batch of objects become complete in both tables at once.
Store(S) ==
    /\ \A k \in S : phase[k] = "waiting" /\ k \notin Unparseable
    /\ phase' = [k \in Keys |-> IF k \in S THEN "stored" ELSE phase[k]]

\* A stored object is filed under processed/.
Archive(k) ==
    /\ phase[k] = "stored"
    /\ phase' = [phase EXCEPT ![k] = "archived"]

\* An unparseable object is set aside.
Reject(k) ==
    /\ phase[k] = "waiting"
    /\ k \in Unparseable
    /\ phase' = [phase EXCEPT ![k] = "rejected"]

Next ==
    \/ \E k \in Keys : Upload(k) \/ Archive(k) \/ Reject(k)
    \/ \E S \in SUBSET Keys : Store(S)

Spec == Init /\ [][Next]_phase
=============================================================================
