--------------------------------- MODULE Json ---------------------------------
(***************************************************************************)
(* A value on the HTTP surface (jsonvalue.go: Interpret, jsonscalar.go,    *)
(* jsonrecord.go, geojson.go): JSON has six types and the store seventeen, *)
(* so the reader is given the value's kind (kind.go).                      *)
(*                                                                         *)
(* JSON is a tuple of its type and what it holds; an object is a function. *)
(* A string is a sequence of cells, or a word of a fixed vocabulary.  A    *)
(* cell below Half is a digit, of base Half; the marks are the other       *)
(* characters that some spelling gives a meaning.  The node, which spells  *)
(* the values, is external.                                                *)
(***************************************************************************)
EXTENDS Values

CONSTANTS
  Hour, Minute,   \* seconds in an hour and in a minute
  Milli, Micro,   \* nanoseconds in a millisecond and in a microsecond
  YearsBefore, YearsAfter   \* seconds of the years 0000 to 9999 before the epoch and after it

ASSUME JsonAssumption ==
  /\ Half >= 16
  /\ {Hour, Minute, Milli, Micro} \subseteq Nat \ {0}
  /\ Hour % Minute = 0
  /\ NanosCeiling % Milli = 0 /\ Milli % Micro = 0
  /\ {YearsBefore, YearsAfter} \subseteq Nat

Mark ==
  [minus |-> Half, colon |-> Half + 1, dot |-> Half + 2, hex |-> Half + 3,
   open |-> Half + 4, close |-> Half + 5, table |-> Half + 6, record |-> Half + 7,
   h |-> Half + 8, m |-> Half + 9, s |-> Half + 10, u |-> Half + 11, n |-> Half + 12,
   inf |-> Half + 13, nan |-> Half + 14]

\* The floats JSON has no number for, a NaN being the canonical one.
Infinity == Half - 2
CanonicalNaN == Half - 1
NegInfinity == Width - 2

\* Minus zero is the sign alone.
NegZero == Half

Ok(v) == Got(v, <<>>)

AllOf(rs) ==
  IF \A i \in DOMAIN rs : rs[i].ok THEN Ok([i \in DOMAIN rs |-> rs[i].value]) ELSE Failed

\* Where the mark stands first, 0 if nowhere (strings.Cut).
FirstOf(c, s) == IF \E i \in DOMAIN s : s[i] = c THEN SelectInSeq(s, LAMBDA x : x = c) ELSE 0

Upto(i, s) == SubSeq(s, 1, i - 1)
Beyond(i, s) == SubSeq(s, i + 1, Len(s))

-----------------------------------------------------------------------------
(***************************************************************************)
(* Numbers and scalars.                                                    *)
(***************************************************************************)
AreDigits(s) == s # <<>> /\ \A i \in DOMAIN s : s[i] < Half

Numeral(s) == FoldLeft(LAMBDA n, d : n * Half + d, 0, s)

\* big.Int.SetString: any number of digits, behind a sign.
SetString(s) ==
  IF s # <<>> /\ Head(s) = Mark.minus
    THEN IF AreDigits(Tail(s)) THEN Ok(-Numeral(Tail(s))) ELSE Failed
    ELSE IF AreDigits(s) THEN Ok(Numeral(s)) ELSE Failed

\* strconv.ParseInt: what does not fit an i64 is an error.
Fits64(n) == IF n \in Signed THEN Ok(n) ELSE Failed

ParseInt(s) == Then(SetString(s), LAMBDA n, rest : Fits64(n))

jsonNumber(j) == IF j[1] = "number" THEN Ok(j[2]) ELSE Failed

\* A number that fits an i64.
jsonInt64(j) ==
  Then(jsonNumber(j), LAMBDA n, rest : Fits64(n))

jsonText(j) == IF j[1] = "string" THEN Ok(j[2]) ELSE Failed

\* A number, or a quoted non-finite.
jsonFloat(j) ==
  CASE j[1] = "number"                              -> Ok(j[2])
    [] j = <<"string", <<Mark.inf>>>>               -> Ok(Infinity)
    [] j = <<"string", <<Mark.minus, Mark.inf>>>>   -> Ok(NegInfinity)
    [] j = <<"string", <<Mark.nan>>>>               -> Ok(CanonicalNaN)
    [] OTHER                                        -> Failed

jsonDecimal(s) ==
  LET dot      == FirstOf(Mark.dot, s)
      body     == IF dot = 0 THEN s ELSE Upto(dot, s)
      fraction == IF dot = 0 THEN <<>> ELSE Beyond(dot, s)
  IN  IF body \o fraction = <<>> \/ (dot # 0 /\ fraction = <<>>)
        THEN Failed
        ELSE As(SetString(body \o fraction), LAMBDA m : <<"Decimal", m, Len(fraction)>>)

\* hex.DecodeString: two digits are a byte.
DecodeHex(s) ==
  IF Len(s) % 2 = 1 \/ \E i \in DOMAIN s : s[i] >= Half THEN Failed
  ELSE Ok([i \in 1 .. Len(s) \div 2 |-> (s[2 * i - 1] * Half + s[2 * i]) % Width])

\* A uuid is one byte here.
jsonUUIDBytes(s) ==
  Then(DecodeHex(SelectSeq(s, LAMBDA c : c # Mark.minus)),
       LAMBDA raw, rest : IF Len(raw) = 1 THEN Ok(raw[1]) ELSE Failed)

-----------------------------------------------------------------------------
(***************************************************************************)
(* Durations: counts and units, largest first.                             *)
(***************************************************************************)
Unit(suffix, seconds, nanos) == [suffix |-> suffix, seconds |-> seconds, nanos |-> nanos]

\* The two-character units before the ones they start with.
durationUnits ==
  LET L == Mark
  IN  <<Unit(<<L.h>>, Hour, 0), Unit(<<L.m, L.s>>, 0, Milli), Unit(<<L.m>>, Minute, 0),
        Unit(<<L.s>>, 1, 0), Unit(<<L.u, L.s>>, 0, Micro), Unit(<<L.n, L.s>>, 0, 1)>>

\* An i64 wraps.
Wrapped(n) == ((n + Half) % Width) - Half

\* The units of a span added up, on from the seconds and nanoseconds so far.
RECURSIVE Added64(_, _, _)
Added64(body, seconds, nanos) ==
  LET width  == SelectInSeq(Append(body, Mark.minus), LAMBDA c : c >= Half) - 1
      rest   == SubSeq(body, width + 1, Len(body))
      fits   == {i \in DOMAIN durationUnits : IsPrefix(durationUnits[i].suffix, rest)}
      unit   == durationUnits[CHOOSE i \in fits : \A k \in fits : i <= k]
      left   == SubSeq(rest, Len(unit.suffix) + 1, Len(rest))
  IN  IF body = <<>> THEN Ok(<<seconds, nanos>>)
      ELSE IF width = 0 \/ ~ParseInt(SubSeq(body, 1, width)).ok \/ fits = {} THEN Failed
      ELSE LET count == ParseInt(SubSeq(body, 1, width)).value
           IN  IF unit.seconds = 0
                 THEN Added64(left, seconds, Wrapped(nanos + count * unit.nanos))
               ELSE IF count > (Half - 1) \div unit.seconds THEN Failed
               ELSE Added64(left, Wrapped(seconds + count * unit.seconds), nanos)

\* Fault: a remainder below zero is made positive and borrows no second.
FlooredUnborrowed(negative, seconds, nanos) ==
  LET sum == seconds + nanos \div NanosCeiling
  IN  <<"Duration", Wrapped(IF negative THEN -sum ELSE sum),
        (IF negative THEN -nanos ELSE nanos) % NanosCeiling>>

\* A negative span is a smaller second and a positive remainder.
Floored(negative, seconds, nanos) ==
  LET n == IF negative THEN -nanos ELSE nanos
  IN  <<"Duration", Wrapped((IF negative THEN -seconds ELSE seconds) + n \div NanosCeiling),
        n % NanosCeiling>>

jsonDuration(s) ==
  LET negative == s # <<>> /\ Head(s) = Mark.minus
      body     == IF negative THEN Tail(s) ELSE s
  IN  IF body = <<>> THEN Failed
      ELSE As(Added64(body, 0, 0), LAMBDA span : Floored(negative, span[1], span[2]))

\* The seconds that four digits of a year reach.
Years == (-YearsBefore) .. (YearsAfter - 1)

\* time.Parse reads the calendar, and refuses a year of more digits than four.
jsonDatetime(s) ==
  IF Len(s) = 3 /\ s[2] = Mark.dot /\ s[1] - Half \in Years
    THEN Ok(<<"Datetime", s[1] - Half, s[3]>>)
    ELSE Failed

-----------------------------------------------------------------------------
(***************************************************************************)
(* References to tables and records.  names is the answer's names block: a *)
(* table's name to its id.                                                 *)
(***************************************************************************)
jsonParseTableID(s) ==
  IF AreDigits(s) /\ Numeral(s) \in Cells THEN Ok(Numeral(s)) ELSE Failed

\* What stands between the brackets of an unresolved reference.
IsBracketed(mark, s) == Len(s) >= 3 /\ s[1] = Mark.open /\ s[2] = mark /\ Last(s) = Mark.close

Inner(s) == SubSeq(s, 3, Len(s) - 1)

jsonTableID(s, names) ==
  IF IsBracketed(Mark.table, s) THEN jsonParseTableID(Inner(s))
  ELSE IF s \in DOMAIN names THEN Ok(names[s]) ELSE Failed

\* The identity syntax: a uuid without hyphens, bytes behind 0x.
jsonRecordID(s, of) ==
  CASE of = "IntegerID" -> As(ParseInt(s), LAMBDA n : <<of, n>>)
    [] of = "TextID"    -> Ok(<<of, s>>)
    [] of = "UUIDID"    -> As(jsonUUIDBytes(s), LAMBDA u : <<of, u>>)
    [] of = "BytesID"   ->
         IF ~IsPrefix(<<0, Mark.hex>>, s) THEN Failed
         ELSE As(DecodeHex(SubSeq(s, 3, Len(s))), LAMBDA b : <<of, b>>)

\* No name holds a colon, and an identity may: the first one separates.
jsonRecord(s, of, names) ==
  LET unresolved == IsBracketed(Mark.record, s)
      inner == IF unresolved THEN Inner(s) ELSE s
      at    == FirstOf(Mark.colon, inner)
  IN  IF at = 0 THEN Failed
      ELSE Then(IF unresolved THEN jsonParseTableID(Upto(at, inner))
                              ELSE jsonTableID(Upto(at, inner), names),
                LAMBDA table, rest :
                  As(jsonRecordID(Beyond(at, inner), of), LAMBDA id : <<"Record", table, id>>))

-----------------------------------------------------------------------------
(***************************************************************************)
(* GeoJSON.                                                                *)
(***************************************************************************)
\* Each item of an array, read.
Items(Read(_), j) ==
  IF j[1] # "array" THEN Failed ELSE AllOf([i \in DOMAIN j[2] |-> Read(j[2][i])])

\* A non-finite coordinate is written null.
jsonCoordinate(j) == IF j = <<"null">> THEN Ok(CanonicalNaN) ELSE jsonNumber(j)

jsonPosition(j) ==
  IF j[1] # "array" \/ Len(j[2]) < 2 THEN Failed
  ELSE Then(jsonCoordinate(j[2][1]), LAMBDA lon, rest :
         As(jsonCoordinate(j[2][2]), LAMBDA lat : [lon |-> lon, lat |-> lat]))

jsonPositions(j) == Items(jsonPosition, j)

jsonRings(j) == Items(jsonPositions, j)

\* The exterior is the first of the rings.
jsonPolygon(j) ==
  As(jsonRings(j), LAMBDA rings :
    IF rings = <<>> THEN [exterior |-> <<>>, interiors |-> <<>>]
    ELSE [exterior |-> Head(rings), interiors |-> Tail(rings)])

RECURSIVE jsonGeometry(_)
jsonGeometry(j) ==
  IF j[1] # "object" \/ "type" \notin DOMAIN j[2] THEN Failed
  ELSE LET kind  == j[2]["type"][2]
           Is(v) == <<kind, v>>
       IN  IF kind = "Collection"
             THEN IF "geometries" \notin DOMAIN j[2] THEN Failed
                  ELSE As(Items(jsonGeometry, j[2]["geometries"]), Is)
           ELSE IF "coordinates" \notin DOMAIN j[2] THEN Failed
           ELSE LET at == j[2]["coordinates"]
                IN  CASE kind = "Point"                  -> As(jsonPosition(at), Is)
                      [] kind \in {"Line", "MultiPoint"} -> As(jsonPositions(at), Is)
                      [] kind = "Polygon"                -> As(jsonPolygon(at), Is)
                      [] kind = "MultiLine"              -> As(jsonRings(at), Is)
                      [] kind = "MultiPolygon"           -> As(Items(jsonPolygon, at), Is)
                      [] OTHER                           -> Failed

-----------------------------------------------------------------------------
(***************************************************************************)
(* Interpret.  A kind is a tuple: <<"Array", "each", kinds>> declares each *)
(* element's, <<"Array", "of", kind>> one for all.                         *)
(***************************************************************************)
Absent == <<"absent">>

Member(object, key) == IF key \in DOMAIN object THEN object[key] ELSE Absent

RECURSIVE Interpret(_, _, _)

jsonItems(j, kind, names) ==
  IF j[1] # "array" \/ (kind[2] = "each" /\ Len(j[2]) > Len(kind[3])) THEN Failed
  ELSE AllOf([i \in DOMAIN j[2] |->
         Interpret(j[2][i], IF kind[2] = "each" THEN kind[3][i] ELSE kind[3], names)])

\* An unbounded end carries no value: that tells it from one that holds null.
jsonBound(j, of, names) ==
  IF j[1] # "object" \/ "bound" \notin DOMAIN j[2] THEN Failed
  ELSE LET which == j[2]["bound"][2]
       IN  IF which = "Unbounded" THEN Ok(<<which>>)
           ELSE IF "value" \notin DOMAIN j[2] \/ which \notin {"Included", "Excluded"} THEN Failed
           ELSE As(Interpret(j[2]["value"], of, names), LAMBDA v : <<which, v>>)

\* Every declared field is read, one the answer left out as none.
jsonObject(j, fields, names) ==
  IF j[1] # "object" THEN Failed
  ELSE As(AllOf([n \in DOMAIN fields |-> Interpret(Member(j[2], n), fields[n], names)]),
          LAMBDA o : <<"Object", {<<n, o[n]>> : n \in DOMAIN o}>>)

jsonRange(j, of, names) ==
  IF j[1] # "object" THEN Failed
  ELSE Then(jsonBound(Member(j[2], "start"), of, names), LAMBDA start, rest :
         As(jsonBound(Member(j[2], "end"), of, names), LAMBDA end : <<"Range", start, end>>))

Interpret(j, kind, names) ==
  LET t           == kind[1]
      Is(v)       == <<t, v>>
      Text(Read(_)) == Then(jsonText(j), LAMBDA s, rest : Read(s))
  IN  CASE j = Absent      -> Ok(<<"None">>)
        [] j # Absent /\ t = "Null" -> IF j = <<"null">> THEN Ok(<<"Null">>) ELSE Failed
        [] j # Absent /\ t = "Bool" -> IF j[1] = "bool" THEN Ok(Is(j[2])) ELSE Failed
        [] OTHER ->
   CASE t = "Integer"           -> As(jsonInt64(j), Is)
     [] t = "Float"             -> As(jsonFloat(j), Is)
     [] t = "Decimal"           -> Text(jsonDecimal)
     [] t \in {"Text", "Regex"} -> As(jsonText(j), Is)
     [] t = "Bytes"             -> As(Text(DecodeHex), Is)
     [] t = "Duration"          -> Text(jsonDuration)
     [] t = "Datetime"          -> Text(jsonDatetime)
     [] t = "UUID"              -> As(Text(jsonUUIDBytes), Is)
     [] t = "Table"  -> As(Text(LAMBDA s : jsonTableID(s, names)), Is)
     [] t = "Record" -> Text(LAMBDA s : jsonRecord(s, kind[2], names))
     [] t = "Geometry"          -> As(jsonGeometry(j), Is)
     [] t \in {"Array", "Set"}  -> As(jsonItems(j, kind, names), Is)
     [] t = "Object"            -> jsonObject(j, kind[2], names)
     [] t = "Range"             -> jsonRange(j, kind[2], names)

-----------------------------------------------------------------------------
(***************************************************************************)
(* How a node spells a value (external).                                   *)
(***************************************************************************)
Digits(n) == IF n < Half THEN <<n>> ELSE <<n \div Half, n % Half>>

Number(n) == IF n < 0 THEN <<Mark.minus>> \o Digits(-n) ELSE Digits(n)

Hex(b) == FlattenSeq([i \in DOMAIN b |-> <<b[i] \div Half, b[i] % Half>>])

\* Zeros in front, as many as a scale needs.
DecimalText(m, scale) ==
  LET digits == Digits(IF m < 0 THEN -m ELSE m)
      padded == [i \in 1 .. scale + 1 - Len(digits) |-> 0] \o digits
      whole  == Len(padded) - scale
  IN  (IF m < 0 THEN <<Mark.minus>> ELSE <<>>) \o SubSeq(padded, 1, whole)
        \o (IF scale = 0 THEN <<>>
              ELSE <<Mark.dot>> \o SubSeq(padded, whole + 1, Len(padded)))

\* Units largest first, zeros left out, a minus and the magnitude below zero.
DurationText(seconds, nanos) ==
  LET below == seconds < 0
      s == CASE ~below -> seconds
             [] below /\ nanos = 0 -> -seconds
             [] OTHER -> -seconds - 1
      n == IF below /\ nanos # 0 THEN NanosCeiling - nanos ELSE nanos
      Part(count, suffix) == IF count = 0 THEN <<>> ELSE Digits(count) \o suffix
      parts == Part(s \div Hour, <<Mark.h>>) \o Part((s % Hour) \div Minute, <<Mark.m>>)
                 \o Part(s % Minute, <<Mark.s>>) \o Part(n \div Milli, <<Mark.m, Mark.s>>)
                 \o Part((n % Milli) \div Micro, <<Mark.u, Mark.s>>)
                 \o Part(n % Micro, <<Mark.n, Mark.s>>)
  IN  (IF below THEN <<Mark.minus>> ELSE <<>>)
        \o (IF parts = <<>> THEN <<0, Mark.s>> ELSE parts)

\* Minus zero is normalised before it is written.
FiniteJson(f) == <<"number", IF f = NegZero THEN 0 ELSE f>>

FloatJson(f) ==
  CASE f = Infinity    -> <<"string", <<Mark.inf>>>>
    [] f = NegInfinity -> <<"string", <<Mark.minus, Mark.inf>>>>
    [] f = CanonicalNaN -> <<"string", <<Mark.nan>>>>
    [] OTHER           -> FiniteJson(f)

IsNamed(id, names) == \E n \in DOMAIN names : names[n] = id

NameOf(id, names) == CHOOSE n \in DOMAIN names : names[n] = id

TableText(id, names) ==
  IF IsNamed(id, names) THEN NameOf(id, names)
  ELSE <<Mark.open, Mark.table>> \o Digits(id) \o <<Mark.close>>

IdText(id) ==
  CASE id[1] = "IntegerID" -> Number(id[2])
    [] id[1] = "TextID"    -> id[2]
    [] id[1] = "UUIDID"    -> Hex(<<id[2]>>)
    [] id[1] = "BytesID"   -> <<0, Mark.hex>> \o Hex(id[2])

RecordText(v, names) ==
  IF IsNamed(v[2], names) THEN NameOf(v[2], names) \o <<Mark.colon>> \o IdText(v[3])
  ELSE <<Mark.open, Mark.record>> \o Digits(v[2]) \o <<Mark.colon>> \o IdText(v[3])
         \o <<Mark.close>>

ArrayOf(Write(_), items) == <<"array", [i \in DOMAIN items |-> Write(items[i])]>>

\* A coordinate that is not finite is null.
PositionJson(p) ==
  LET C(f) == IF f \in {Infinity, NegInfinity, CanonicalNaN} THEN <<"null">> ELSE FiniteJson(f)
  IN  <<"array", <<C(p.lon), C(p.lat)>>>>

LineJson(ps) == ArrayOf(PositionJson, ps)

PolygonJson(p) ==
  ArrayOf(LineJson, IF p.exterior = <<>> /\ p.interiors = <<>> THEN <<>>
                    ELSE <<p.exterior>> \o p.interiors)

RECURSIVE ShapeJson(_)
ShapeJson(g) ==
  LET At(c) == <<"object", [type |-> <<"string", g[1]>>, coordinates |-> c]>>
  IN  CASE g[1] = "Point"                  -> At(PositionJson(g[2]))
        [] g[1] \in {"Line", "MultiPoint"} -> At(LineJson(g[2]))
        [] g[1] = "Polygon"                -> At(PolygonJson(g[2]))
        [] g[1] = "MultiLine"              -> At(ArrayOf(LineJson, g[2]))
        [] g[1] = "MultiPolygon"           -> At(ArrayOf(PolygonJson, g[2]))
        [] g[1] = "Collection" ->
             <<"object", [type |-> <<"string", g[1]>>,
                          geometries |-> ArrayOf(LAMBDA h : ShapeJson(h), g[2])]>>

\* The value of an object's field.
FieldOf(fields, n) == (CHOOSE f \in fields : f[1] = n)[2]

RECURSIVE JsonOf(_, _)

BoundJson(b, names) ==
  <<"object", IF b[1] = "Unbounded" THEN [bound |-> <<"string", b[1]>>]
              ELSE [bound |-> <<"string", b[1]>>, value |-> JsonOf(b[2], names)]>>

\* A field that is none is left out.
JsonOf(v, names) ==
  LET t == v[1]
      Said(s) == <<"string", s>>
  IN  CASE t = "None"              -> Absent
        [] t = "Null"              -> <<"null">>
        [] t = "Bool"              -> <<"bool", v[2]>>
        [] t = "Integer"           -> <<"number", v[2]>>
        [] t = "Float"             -> FloatJson(v[2])
        [] t = "Decimal"           -> Said(DecimalText(v[2], v[3]))
        [] t \in {"Text", "Regex"} -> Said(v[2])
        [] t = "Bytes"             -> Said(Hex(v[2]))
        [] t = "Duration"          -> Said(DurationText(v[2], v[3]))
        [] t = "Datetime"          -> Said(<<v[2] + Half, Mark.dot, v[3]>>)
        [] t = "UUID" -> Said(<<v[2] \div Half, Mark.minus, v[2] % Half>>)
        [] t = "Table"             -> Said(TableText(v[2], names))
        [] t = "Record"            -> Said(RecordText(v, names))
        [] t = "Geometry"          -> ShapeJson(v[2])
        [] t \in {"Array", "Set"}  -> ArrayOf(LAMBDA w : JsonOf(w, names), v[2])
        [] t = "Object" ->
             <<"object", [n \in {f[1] : f \in {g \in v[2] : g[2] # <<"None">>}} |->
                            JsonOf(FieldOf(v[2], n), names)]>>
        [] t = "Range" ->
             <<"object", [start |-> BoundJson(v[2], names), end |-> BoundJson(v[3], names)]>>

\* The kind a caller brings from the catalog.
RECURSIVE KindOf(_)
KindOf(v) ==
  LET t == v[1]
  IN  CASE t = "None"   -> <<"Null">>
        [] t = "Record" -> <<t, v[3][1]>>
        [] t \in {"Array", "Set"} -> <<t, "each", [i \in DOMAIN v[2] |-> KindOf(v[2][i])]>>
        [] t = "Object" -> <<t, [n \in {f[1] : f \in v[2]} |-> KindOf(FieldOf(v[2], n))]>>
        [] t = "Range"  ->
             <<t, CASE v[2][1] # "Unbounded" -> KindOf(v[2][2])
                    [] v[2][1] = "Unbounded" /\ v[3][1] # "Unbounded" -> KindOf(v[3][2])
                    [] OTHER -> <<"Null">> >>
        [] OTHER -> <<t>>
=============================================================================
