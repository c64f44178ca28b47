--------------------------- MODULE MCMatchHistory ---------------------------
\* Two matches; Steam answers with the first page with both, or with
\* the other, with and without ranked data.
EXTENDS MatchHistory

CONSTANTS m1, m2

Row(m, ranked) == [match |-> m, ranked |-> ranked]
MCRows == [match : {m1, m2}, ranked : BOOLEAN]
MCForeign == {Row(m1, FALSE)}
MCHistories ==
    {<<Row(m1, FALSE)>>, <<Row(m1, TRUE), Row(m2, FALSE)>>, <<Row(m2, TRUE)>>}
=============================================================================
