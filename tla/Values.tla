-------------------------------- MODULE Values --------------------------------
(***************************************************************************)
(* The store's values on the wire (value.go, tags.go, encode.go: Encode,   *)
(* decode.go: Decode).  A value is a tuple of its type and what it holds.  *)
(***************************************************************************)
EXTENDS Wire, FiniteSets

CONSTANTS
  NanosCeiling,   \* nanoseconds in a second
  Nesting         \* how deep a value may nest, where the code has no bound but the stack

\* A cell holds every tag.
ASSUME ValuesAssumption == NanosCeiling \in Nat /\ Nesting \in Nat /\ Half > 8

\* The value tags.
Tag ==
  [None |-> 1, Null |-> 2, Bool |-> 3, Number |-> 4, Text |-> 5, Bytes |-> 6,
   Duration |-> 7, Datetime |-> 8, UUID |-> 9, Table |-> 10, Record |-> 11,
   Array |-> 12, Object |-> 13, Range |-> 14, Set |-> 15, Geometry |-> 16, Regex |-> 17]

NumberTag == [Integer |-> 1, Float |-> 2, Decimal |-> 3]

BoundTag == [Unbounded |-> 1, Included |-> 2, Excluded |-> 3]

IdTag == [IntegerID |-> 1, TextID |-> 2, UUIDID |-> 3, BytesID |-> 4]

ShapeTag ==
  [Point |-> 1, Line |-> 2, Polygon |-> 3, MultiPoint |-> 4, MultiLine |-> 5,
   MultiPolygon |-> 6, Collection |-> 7]

-----------------------------------------------------------------------------
(***************************************************************************)
(* What a caller may hold.  An object is a set of fields, each a name and  *)
(* its value, and no two of one name.                                      *)
(***************************************************************************)
Texts == {b \in Wires : Utf8(b)}

Ids ==
  ({"IntegerID"} \X Signed) \cup ({"TextID", "BytesID"} \X Wires) \cup ({"UUIDID"} \X Cells)

Positions == [lon : Cells, lat : Cells]
Lines     == Seq(Positions)
Polygons  == [exterior : Lines, interiors : Seq(Lines)]

\* Shapes that nest no deeper than d.
Shape[d \in 0 .. Nesting] ==
  IF d = 0 THEN {}
  ELSE ({"Point"} \X Positions) \cup ({"Line", "MultiPoint"} \X Lines)
         \cup ({"Polygon"} \X Polygons) \cup ({"MultiLine"} \X Seq(Lines))
         \cup ({"MultiPolygon"} \X Seq(Polygons)) \cup ({"Collection"} \X Seq(Shape[d - 1]))

Scalars ==
  {<<"None">>, <<"Null">>} \cup ({"Bool"} \X BOOLEAN) \cup ({"Integer"} \X Signed)
    \cup ({"Float", "UUID", "Table"} \X Cells) \cup ({"Decimal"} \X Signed \X Cells)
    \cup ({"Text", "Regex"} \X Texts) \cup ({"Bytes"} \X Wires)
    \cup ({"Duration", "Datetime"} \X Signed \X Cells) \cup ({"Record"} \X Cells \X Ids)
    \cup ({"Geometry"} \X Shape[Nesting])

Bounds(inner) == {<<"Unbounded">>} \cup ({"Included", "Excluded"} \X inner)

Objects(inner) ==
  {o \in SUBSET (Texts \X inner) :
     IsFiniteSet(o) /\ \A f, g \in o : f[1] = g[1] => f = g}

\* Values that nest no deeper than d.
Value[d \in 0 .. Nesting] ==
  IF d = 0 THEN {}
  ELSE LET inner == Value[d - 1]
       IN  Scalars \cup ({"Array", "Set"} \X Seq(inner)) \cup ({"Object"} \X Objects(inner))
             \cup ({"Range"} \X Bounds(inner) \X Bounds(inner))

-----------------------------------------------------------------------------
(***************************************************************************)
(* Encode.  An error anywhere is an error of the whole.                    *)
(***************************************************************************)
Refuse == -1

Each(Write(_), items) ==
  <<Len(items)>> \o FlattenSeq([i \in 1 .. Len(items) |-> Write(items[i])])

\* Nanoseconds outside the second are an error rather than a wrap.
writeSecondsAndNanos(v) ==
  IF v[3] >= NanosCeiling THEN <<Refuse>> ELSE <<i64Inverted(v[2]), v[3]>>

writeRecordID(id) ==
  <<IdTag[id[1]]>> \o
  CASE id[1] = "IntegerID"          -> <<i64Inverted(id[2])>>
    [] id[1] \in {"TextID", "BytesID"} -> varbytes(id[2])
    [] id[1] = "UUIDID"             -> <<id[2]>>

\* Longitude first.
writePosition(p) == <<p.lon, p.lat>>

writePositions(ps) == Each(writePosition, ps)

writePolygon(p) == writePositions(p.exterior) \o Each(writePositions, p.interiors)

\* A shape, where inner gives the wires of the shapes inside it.
writeShape(inner, s) ==
  <<ShapeTag[s[1]]>> \o
  CASE s[1] = "Point"                   -> writePosition(s[2])
    [] s[1] \in {"Line", "MultiPoint"}  -> writePositions(s[2])
    [] s[1] = "Polygon"                 -> writePolygon(s[2])
    [] s[1] = "MultiLine"               -> Each(writePositions, s[2])
    [] s[1] = "MultiPolygon"            -> Each(writePolygon, s[2])
    [] s[1] = "Collection"              -> Each(LAMBDA g : inner[g], s[2])

writeShapes[d \in 0 .. Nesting] == [s \in Shape[d] |-> writeShape(writeShapes[d - 1], s)]

\* Is the name a before the name b.
Before(a, b) ==
  \/ IsStrictPrefix(a, b)
  \/ \E i \in 1 .. Len(a) \cap 1 .. Len(b) :
       /\ SubSeq(a, 1, i - 1) = SubSeq(b, 1, i - 1)
       /\ a[i] < b[i]

\* An object's fields, sorted by name: the place of one is after those before it.
Sorted(fields) ==
  [i \in 1 .. Cardinality(fields) |->
     CHOOSE f \in fields : Cardinality({g \in fields : Before(g[1], f[1])}) = i - 1]

\* Fault: the end of a range is written without its tag.
writeBoundBare(inner, b) == IF b[1] = "Unbounded" THEN <<>> ELSE inner[b[2]]

writeBound(inner, b) ==
  <<BoundTag[b[1]]>> \o (IF b[1] = "Unbounded" THEN <<>> ELSE inner[b[2]])

writeNumber(v) ==
  <<Tag.Number, NumberTag[v[1]]>> \o
  CASE v[1] = "Integer" -> <<i64Inverted(v[2])>>
    [] v[1] = "Float"   -> <<v[2]>>
    [] v[1] = "Decimal" -> <<i128(v[2]), v[3]>>

\* A value, where inner gives the wires of the values inside it.
writeValue(inner, v) ==
  IF v[1] \in DOMAIN NumberTag THEN writeNumber(v)
  ELSE <<Tag[v[1]]>> \o
    CASE v[1] \in {"None", "Null"}           -> <<>>
      [] v[1] = "Bool"                       -> <<IF v[2] THEN 1 ELSE 0>>
      [] v[1] \in {"Text", "Bytes", "Regex"} -> lenbytes(v[2])
      [] v[1] \in {"Duration", "Datetime"}   -> writeSecondsAndNanos(v)
      [] v[1] \in {"UUID", "Table"}          -> <<v[2]>>
      [] v[1] = "Record"                     -> <<v[2]>> \o writeRecordID(v[3])
      [] v[1] \in {"Array", "Set"}           -> Each(LAMBDA i : inner[i], v[2])
      [] v[1] = "Object" ->
           Each(LAMBDA f : lenbytes(f[1]) \o inner[f[2]], Sorted(v[2]))
      [] v[1] = "Range"                      -> writeBound(inner, v[2]) \o writeBound(inner, v[3])
      [] v[1] = "Geometry"                   -> writeShapes[Nesting][v[2]]

writeValues[d \in 0 .. Nesting] == [v \in Value[d] |-> writeValue(writeValues[d - 1], v)]

\* Fault: an error of the writer is not looked at.
EncodeAnyway(v) == Got(writeValues[Nesting][v], <<>>)

Encode(v) ==
  LET w == writeValues[Nesting][v]
  IN  IF \E i \in 1 .. Len(w) : w[i] \notin Cells THEN Failed ELSE Got(w, <<>>)

-----------------------------------------------------------------------------
(***************************************************************************)
(* Decode.  An unknown tag is an error, as nothing says how far to skip.   *)
(***************************************************************************)
\* What a tag stands for.
Named(tags, n, Read(_)) ==
  IF \E t \in DOMAIN tags : tags[t] = n
    THEN Read(CHOOSE t \in DOMAIN tags : tags[t] = n)
    ELSE Failed

readNumber(s) ==
  Then(readCell(s), LAMBDA k, rest : Named(NumberTag, k, LAMBDA t :
    CASE t = "Integer" -> As(readSigned(rest), LAMBDA n : <<t, n>>)
      [] t = "Float"   -> As(readCell(rest), LAMBDA f : <<t, f>>)
      [] t = "Decimal" ->
           Then(readMantissa(rest), LAMBDA m, left :
             As(readCell(left), LAMBDA scale : <<t, m, scale>>))))

\* Fault: the nanoseconds are taken as they come.
readSecondsUnchecked(t, s) ==
  Then(readSigned(s), LAMBDA sec, rest : As(readCell(rest), LAMBDA nanos : <<t, sec, nanos>>))

readSecondsAndNanos(t, s) ==
  Then(readSigned(s), LAMBDA seconds, rest :
    Then(readCell(rest), LAMBDA nanos, left :
      IF nanos >= NanosCeiling THEN Failed ELSE Got(<<t, seconds, nanos>>, left)))

readRecordID(s) ==
  Then(readCell(s), LAMBDA k, rest : Named(IdTag, k, LAMBDA t :
    CASE t = "IntegerID"             -> As(readSigned(rest), LAMBDA n : <<t, n>>)
      [] t \in {"TextID", "BytesID"} -> As(readVarbytes(rest), LAMBDA b : <<t, b>>)
      [] t = "UUIDID"                -> As(readCell(rest), LAMBDA u : <<t, u>>)))

readPosition(s) ==
  Then(readCell(s), LAMBDA lon, rest :
    As(readCell(rest), LAMBDA lat : [lon |-> lon, lat |-> lat]))

readPositions(s) == Counted(readPosition, s)

readPolygon(s) ==
  Then(readPositions(s), LAMBDA exterior, rest :
    As(Counted(readPositions, rest), LAMBDA interiors :
      [exterior |-> exterior, interiors |-> interiors]))

\* A shape, where inner reads the shapes inside it.
readShape(inner, s) ==
  Then(readCell(s), LAMBDA k, rest : Named(ShapeTag, k, LAMBDA t :
    LET Is(v) == <<t, v>>
    IN  CASE t = "Point"                  -> As(readPosition(rest), Is)
          [] t \in {"Line", "MultiPoint"} -> As(readPositions(rest), Is)
          [] t = "Polygon"                -> As(readPolygon(rest), Is)
          [] t = "MultiLine"              -> As(Counted(readPositions, rest), Is)
          [] t = "MultiPolygon"           -> As(Counted(readPolygon, rest), Is)
          [] t = "Collection" -> As(Counted(LAMBDA r : inner[r], rest), Is)))

readShapes[d \in 0 .. Nesting] ==
  [s \in Wires |-> IF d = 0 THEN Failed ELSE readShape(readShapes[d - 1], s)]

readBound(inner, s) ==
  Then(readCell(s), LAMBDA k, rest : Named(BoundTag, k, LAMBDA t :
    IF t = "Unbounded" THEN Got(<<t>>, rest)
                       ELSE As(inner[rest], LAMBDA v : <<t, v>>)))

readField(inner, s) ==
  Then(readText(s), LAMBDA name, rest : As(inner[rest], LAMBDA v : <<name, v>>))

\* The last of two fields of one name is kept.
Fields(pairs) ==
  {pairs[i] : i \in {j \in 1 .. Len(pairs) :
                       \A k \in j + 1 .. Len(pairs) : pairs[k][1] # pairs[j][1]}}

\* A value, where inner reads the values inside it.
readValue(inner, s) ==
  Then(readCell(s), LAMBDA k, rest : Named(Tag, k, LAMBDA t :
    LET Is(v) == <<t, v>>
    IN  CASE t \in {"None", "Null"}         -> Got(<<t>>, rest)
          [] t = "Bool"                     -> As(readCell(rest), LAMBDA b : <<t, b # 0>>)
          [] t = "Number"                   -> readNumber(rest)
          [] t \in {"Text", "Regex"}        -> As(readText(rest), Is)
          [] t = "Bytes"                    -> As(readLenbytes(rest), Is)
          [] t \in {"Duration", "Datetime"} -> readSecondsAndNanos(t, rest)
          [] t \in {"UUID", "Table"}        -> As(readCell(rest), Is)
          [] t = "Record" ->
               Then(readCell(rest), LAMBDA table, left :
                 As(readRecordID(left), LAMBDA id : <<t, table, id>>))
          [] t \in {"Array", "Set"} -> As(Counted(LAMBDA r : inner[r], rest), Is)
          [] t = "Object" -> As(Counted(LAMBDA r : readField(inner, r), rest), LAMBDA ps : <<t, Fields(ps)>>)
          [] t = "Range" ->
               Then(readBound(inner, rest), LAMBDA start, left :
                 As(readBound(inner, left), LAMBDA end : <<t, start, end>>))
          [] t = "Geometry" -> As(readShapes[Nesting][rest], Is)))

readValues[d \in 0 .. Nesting] ==
  [s \in Wires |-> IF d = 0 THEN Failed ELSE readValue(readValues[d - 1], s)]

\* Fault: what is left after a value is nobody's business.
DecodePrefix(w) == readValues[Nesting][w]

\* Bytes after a complete value mean that reader and writer disagree.
Decode(w) ==
  Then(readValues[Nesting][w], LAMBDA v, rest : IF rest = <<>> THEN Got(v, rest) ELSE Failed)
=============================================================================
