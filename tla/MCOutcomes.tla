------------------------------ MODULE MCOutcomes ------------------------------
(***************************************************************************)
(* Outcomes and Scripts for TLC: every kind of outcome, alone and next to  *)
(* another, and records with and without each field, on either transport;  *)
(* and, over HTTP, values of every type at their edges.                    *)
(***************************************************************************)
EXTENDS Scripts

NoRows == <<>>
OneRow == << [identity |-> <<1>>, value |-> <<"Array", << <<"Null">> >> >>] >>
NamesOf == {{<<1, <<1>>>>}, {}}

Record(path, rows, notes, only, exact, suggest) ==
  <<"Records", [path |-> path, names |-> {}, rows |-> rows, notes |-> notes,
                only |-> only, exact |-> exact, suggest |-> suggest]>>

AllRecords ==
  {Record(IF rows = NoRows THEN 9 ELSE 0, rows, notes, TRUE, exact, suggest) :
     rows \in {NoRows, OneRow}, notes \in {<<>>, << <<<<1>>, <<2>>>> >>},
     exact \in {<<"exact">>, <<"inexact", <<1>> >>},
     suggest \in {<<"not consulted">>, <<"complete">>, <<"corrections", << <<<<1>>, <<>>>> >> >>}}

Others ==
  {<<"Done">>, <<"Keys", <<>> >>, <<"Keys", <<<<1>>, <<>>>> >>, <<"Removed", 3>>,
   <<"Unknown", 9, <<>> >>, <<"Unknown", 7, <<1, 1>> >>}
    \cup {<<"Value", names, v>> : names \in NamesOf, v \in {<<"None">>, <<"Text", <<1>> >>}}

MCAnswers ==
  {<<>>} \cup {<<o>> : o \in AllRecords \cup Others} \cup {<<o, p>> : o \in Others, p \in {<<"Removed", 3>>, <<"Unknown", 9, <<>> >>}}
    \cup {<<r, o>> : r \in {Record(9, OneRow, <<>>, TRUE, <<"exact">>, <<"complete">>)}, o \in {<<"Done">>, <<"Keys", <<<<1>>, <<>>>> >>}}

\* One table has a name, and one, of id 30, has none.
MCTableNames == <<1, 2>> :> 7

MCPlans ==
  {<<>>, [columns |-> <<"number", 0>>, at_most |-> <<"number", 3>>],
   [source |-> Word("catalog"), index |-> Word("by name"), cells |-> <<"number", 0>>]}

\* Texts that other kinds would read as their own.
Likely ==
  {<<>>, <<7>>, <<Mark.minus, 7>>, <<1, Mark.dot, 2>>, <<1, Mark.h>>, <<0, Mark.hex, 1>>,
   <<1, 2, Mark.colon, 7>>, <<Mark.open, Mark.table, 7, Mark.close>>, <<7, Mark.colon, Mark.close>>}

Edges == {-Half, 1 - Half, -1, 0, 7, Half - 1}

MCIds ==
  {<<"IntegerID", n>> : n \in Edges} \cup {<<"TextID", s>> : s \in Likely}
    \cup {<<"BytesID", b>> : b \in {<<>>, <<0>>, <<1, Top>>}} \cup {<<"UUIDID", 7>>, <<"UUIDID", Top>>}

P == [lon |-> 0, lat |-> 7]
Q == [lon |-> CanonicalNaN, lat |-> 1]
R == [lon |-> NegInfinity, lat |-> Infinity]
Ring == <<P, Q, R>>

Shapes ==
  {<<"Point", P>>, <<"Point", [lon |-> NegZero, lat |-> Width - 3]>>, <<"Line", <<R>> >>, <<"Line", <<>> >>, <<"MultiPoint", Ring>>,
   <<"Polygon", [exterior |-> <<>>, interiors |-> <<>>]>>,
   <<"Polygon", [exterior |-> Ring, interiors |-> <<<<P>>, <<>>>>]>>,
   <<"MultiLine", <<Ring, <<>>>> >>,
   <<"MultiPolygon", <<[exterior |-> <<P>>, interiors |-> <<>>]>> >>,
   <<"Collection", << <<"Point", Q>>, <<"Collection", <<>> >> >> >>}

Atoms ==
  {<<"None">>, <<"Null">>, <<"Bool", TRUE>>, <<"Bool", FALSE>>}
    \cup {<<"Integer", n>> : n \in Edges}
    \cup {<<"Float", f>> : f \in {0, 7, NegZero, Infinity, NegInfinity, CanonicalNaN, Width - 3}}
    \cup {<<"Decimal", n, s>> : n \in Edges, s \in 0 .. 3}
    \cup {<<t, s>> : t \in {"Text", "Regex"}, s \in Likely}
    \cup {<<"Bytes", b>> : b \in {<<>>, <<0>>, <<7, Top>>}}
    \cup {<<"Duration", s, n>> : s \in Signed, n \in 0 .. NanosCeiling - 1}
    \cup {<<"Datetime", s, n>> : s \in Signed, n \in {0, NanosCeiling - 1}}
    \cup {<<t, n>> : t \in {"UUID", "Table"}, n \in {7, 30}}
    \cup {<<"Record", n, id>> : n \in {7, 30}, id \in MCIds}
    \cup {<<"Geometry", g>> : g \in Shapes}

\* Of the datetimes one is the last that JSON spells, and one the first it does not.
Some ==
  {<<"Null">>, <<"Float", NegZero>>, <<"Text", <<7>> >>, <<"Duration", -1, 6>>,
   <<"Datetime", YearsAfter - 1, 0>>, <<"Datetime", YearsAfter, 0>>,
   <<"Record", 30, <<"TextID", <<7>> >> >>}

RowsOf == {<<Record(0, << [identity |-> <<1>>, value |-> v] >>, <<>>, FALSE, <<"exact">>, <<"complete">>)>> : v \in Some}

EndsOf(v) == {<<"Unbounded">>, <<"Included", v>>, <<"Excluded", v>>}

Composites ==
  {<<t, <<>> >> : t \in {"Array", "Set"}}
    \cup {<<t, <<v, w>> >> : t \in {"Array", "Set"}, v, w \in Some}
    \cup {<<"Object", {<<<<1>>, v>>, <<<<>>, w>>}>> : v, w \in Some \cup {<<"None">>}}
    \cup UNION {{<<"Range", s, e>> : s, e \in EndsOf(v)} : v \in Some}
    \cup {<<"Object", {<<<<1>>, <<"Set", <<v, <<"Array", <<v>> >> >> >> >>}>> : v \in Some}

MCScriptAnswers ==
  MCAnswers \cup RowsOf \cup {<<<<"Value", {}, v>> >> : v \in Atoms \cup Composites}
===============================================================================
