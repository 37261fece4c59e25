------------------------------- MODULE MCCodec -------------------------------
(***************************************************************************)
(* Codec for TLC: every type at its edges, and each composite one around   *)
(* the others.                                                             *)
(***************************************************************************)
EXTENDS Codec, TLC

Edges == {-Half, -1, 0, Half - 1}
Strings == {<<>>, <<0>>, <<1>>, <<0, 1>>, <<2, 0>>}
ByteStrings == Strings \cup {<<Top>>, <<0, Top>>}

MCIds ==
  {<<"IntegerID", n>> : n \in Edges} \cup {<<"TextID", b>> : b \in Strings}
    \cup {<<"BytesID", b>> : b \in ByteStrings} \cup {<<"UUIDID", 0>>, <<"UUIDID", Top>>}

P == [lon |-> 0, lat |-> Top]
Q == [lon |-> 1, lat |-> 0]
Ring == <<P, Q>>

Shapes ==
  {<<"Point", P>>, <<"Line", <<>> >>, <<"Line", Ring>>, <<"MultiPoint", <<Q>> >>,
   <<"Polygon", [exterior |-> Ring, interiors |-> <<>>]>>,
   <<"Polygon", [exterior |-> Ring, interiors |-> <<<<Q>>, <<>>>>]>>,
   <<"MultiLine", <<Ring, <<>>>> >>,
   <<"MultiPolygon", <<[exterior |-> <<P>>, interiors |-> <<<<Q>>>>]>> >>,
   <<"Collection", <<>> >>,
   <<"Collection", << <<"Point", Q>>, <<"Collection", << <<"Line", <<P>> >> >> >> >> >>}

Atoms ==
  {<<"None">>, <<"Null">>, <<"Bool", TRUE>>, <<"Bool", FALSE>>,
   <<"UUID", Top>>, <<"Table", 1>>, <<"Float", 0>>, <<"Float", Half>>}
    \cup {<<"Integer", n>> : n \in Edges}
    \cup {<<"Decimal", n, s>> : n \in Edges, s \in {0, Top}}
    \cup {<<t, b>> : t \in {"Text", "Regex"}, b \in Strings}
    \cup {<<"Bytes", b>> : b \in ByteStrings}
    \cup {<<t, s, n>> : t \in {"Duration", "Datetime"}, s \in Edges,
                        n \in {0, NanosCeiling - 1, NanosCeiling}}
    \cup {<<"Record", 1, id>> : id \in MCIds}
    \cup {<<"Geometry", g>> : g \in Shapes}

Some == {<<"None">>, <<"Integer", -1>>, <<"Text", <<0>> >>, <<"Duration", 0, NanosCeiling>>}

Ends == {<<"Unbounded">>, <<"Included", <<"Null">> >>, <<"Excluded", <<"Integer", 0>> >>,
         <<"Excluded", <<"Range", <<"Unbounded">>, <<"Included", <<"Null">> >> >> >>}

FieldsOf(f) == {<<n, f[n]>> : n \in DOMAIN f}

MCSamples ==
  Atoms
    \cup {<<t, <<>> >> : t \in {"Array", "Set"}}
    \cup {<<t, <<v, w>> >> : t \in {"Array", "Set"}, v, w \in Some}
    \cup {<<"Object", FieldsOf(f)>> :
            f \in UNION {[n -> Some] : n \in {{}, {<<0>>}, {<<>>, <<1>>, <<0, 1>>}}}}
    \cup {<<"Range", s, e>> : s, e \in Ends}
    \cup {<<"Array", << <<"Object", {<<<<1>>, <<"Set", <<v>> >> >>}>>, v>> >> : v \in Some}
=============================================================================
