--------------------------- MODULE MCQueryBatcher ---------------------------
\* Two loads and a load_many of two keys, one of them shared, in two groups; one place
\* in the channel and batches of two.
EXTENDS QueryBatcher, TLC

CONSTANTS c1, c2, c3, k1, k2, g1, g2

MCKeysOf == c1 :> <<k1>> @@ c2 :> <<k1>> @@ c3 :> <<k2, k1>>
MCGroupOf == c1 :> g1 @@ c2 :> g2 @@ c3 :> g1
MCTolerant == {c3}
=============================================================================
