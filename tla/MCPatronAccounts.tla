-------------------------- MODULE MCPatronAccounts --------------------------
(***************************************************************************)
(* The memberships TLC chooses from: two pledges, for two accounts and for *)
(* one, and a pledge whose payment was declined.                           *)
(***************************************************************************)
EXTENDS PatronAccounts

ForTwo == [pledge |-> 300, active |-> TRUE]
ForOne == [pledge |-> 150, active |-> TRUE]
Declined == [pledge |-> 150, active |-> FALSE]

UpOrDown == {ForTwo, ForOne, Declined}

\* A member who pays for two accounts, or whose payment was declined, and at most one
\* disturbance: the member pays for one account from then on, or something fails.
OneDisturbance ==
    /\ changes + faults <= 1
    /\ patreon = ForOne <=> changes = 1
=============================================================================
