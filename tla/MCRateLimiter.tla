--------------------------- MODULE MCRateLimiter ---------------------------
(***************************************************************************)
(* A route with a limit for addresses, one for API keys and one for all.   *)
(* Two requests come from an address, the third with a key that has limits *)
(* of its own or one that is disabled.                                     *)
(***************************************************************************)
EXTENDS RateLimiter, TLC

CONSTANTS r1, r2, r3, ip, custom, disabled

Ask == {(r1 :> ip) @@ (r2 :> ip) @@ (r3 :> k) : k \in {custom, disabled}}

Limit(type, limit, period) == [type |-> type, limit |-> limit, period |-> period]
OfTheRoute == <<Limit("ip", 1, 1), Limit("key", 1, 2), Limit("global", 1, 3)>>
OfTheKeys == [k \in Keyed |-> IF k = custom THEN <<Limit("key", 2, 3)>> ELSE <<>>]

Symmetry == Permutations({r1, r2})
=============================================================================
