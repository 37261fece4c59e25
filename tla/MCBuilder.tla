------------------------------ MODULE MCBuilder ------------------------------
(***************************************************************************)
(* Builder for TLC: two names and a string that is none, filters of up to  *)
(* three comparisons in either shape, and strings at the edges of a span.  *)
(***************************************************************************)
EXTENDS Builder

CONSTANTS v, w

MCValues == {v, w}

MCTables == {-1, 1}

MCFields == {-1, 1, 2}

Compare(n, o, x) == <<"compare", n, o, x>>
Join(word, l, r) == <<word, l, r>>

One == Compare(1, 0, v)
Two == Compare(2, 2, w)
Three == Compare(1, 5, v)

MCFilters ==
  {One, Compare(-1, 0, v), Compare(1, 6, w),
   Join("AND", One, Two), Join("OR", One, Join("AND", Two, Three)),
   Join("AND", Join("OR", One, Two), Three), Join("OR", Two, Compare(-1, 0, v))}

MCSpans ==
  {<<>>, <<"0">>, <<"m">>, <<"0", "m">>, <<"0", "m", "s">>, <<"0", "0", "s", "0", "m">>,
   <<"0", "m", "s", "s">>, <<"0", "m", "x">>}
=============================================================================
