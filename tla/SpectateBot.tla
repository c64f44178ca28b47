----------------------------- MODULE SpectateBot -----------------------------
(***************************************************************************)
(* run-spectate-bot of the hltv-scraper: it asks the game coordinator, one   *)
(* match after another, to broadcast live matches, or matches whose ids lie  *)
(* in the gaps between live ones, and keeps the broadcasts in a table in     *)
(* Redis.  The scraper reads the table and removes what has ended.           *)
(***************************************************************************)
EXTENDS Integers, FiniteSets

CONSTANTS
    Matches,        \* match ids
    MaxSpectating,  \* MAX_SPECTATING_MATCHES; unset, it is any number no table reaches
    MaxTries        \* how many gaps one round tries

ASSUME BotAssumption ==
    /\ Matches \subseteq Nat /\ IsFiniteSet(Matches)
    /\ MaxSpectating \in Nat
    /\ MaxTries \in Nat \ {0}

VARIABLES
    spectated,      \* the table of broadcasts
    todo            \* what is left of the bot's round

botVars == <<spectated, todo>>

BotInit ==
    /\ spectated = {}
    /\ todo = {}

\* Ids between two live matches, the newest id excluded.
Gaps(active) == {x \in Matches \ active : \E low, high \in active : low <= x /\ x < high}

\* Mutant: the round does not wait for the table to shrink.
NeverFull == TRUE

HasRoom == Cardinality(spectated) <= MaxSpectating

\* A live match that nobody watches.  What could not be spectated lately is passed over; it
\* is remembered in Redis and in memory, where it is forgotten any time, so any may be.
PickActive ==
    /\ todo = {} /\ HasRoom
    /\ \E m \in Matches \ spectated : todo' = {m}
    /\ UNCHANGED spectated

\* When there is none, a few gaps between the live matches of a certain age; which gaps
\* come first is left open.
PickGaps ==
    /\ todo = {} /\ HasRoom
    /\ \E aged \in SUBSET Matches : todo' \in SUBSET (Gaps(aged) \ spectated)
    /\ Cardinality(todo') <= MaxTries
    /\ UNCHANGED spectated

\* spectate_match asks the table once more; the coordinator grants the match, or it does
\* not: refused, limited, unreachable.
Spectate(m) ==
    /\ m \in todo
    /\ todo' = todo \ {m}
    /\ spectated' \in {spectated, spectated \cup {m}}

\* The entry ends, by its TTL or by match-ended.
Leaves(m) ==
    /\ m \in spectated
    /\ spectated' = spectated \ {m}
    /\ UNCHANGED todo

BotRestart ==
    /\ todo # {}
    /\ todo' = {}
    /\ UNCHANGED spectated

BotNext ==
    \/ PickActive \/ PickGaps \/ BotRestart
    \/ \E m \in Matches : Spectate(m) \/ Leaves(m)

BotSpec == BotInit /\ [][BotNext]_botVars

-----------------------------------------------------------------------------
(* Properties.                                                             *)

BotTypeOK ==
    /\ spectated \subseteq Matches
    /\ todo \subseteq Matches

\* The table is compared with the limit once a round, and in the round all gaps are tried:
\* it outgrows the limit by no more than one round (run_spectate_bot.rs:413-419, 502).
TableIsBounded == Cardinality(spectated) + Cardinality(todo) <= MaxSpectating + MaxTries
=============================================================================
