--------------------------------- MODULE Wire ---------------------------------
(***************************************************************************)
(* The primitives of the value encoding (bytes.go: writer and reader).     *)
(*                                                                         *)
(* A wire is a sequence of cells.  A field of a fixed width, from a tag to *)
(* a uuid, takes one cell: the reader wants all of its bytes before it     *)
(* takes any, so it fails alike wherever in the field the bytes end.  A    *)
(* cell holds 0 .. 2*Half - 1; the highest stands for 0xff, the byte of an *)
(* escape and one that no UTF-8 text has.                                  *)
(*                                                                         *)
(* A reader takes what is left of the wire and answers what it read and    *)
(* what is then left, or Failed.                                           *)
(***************************************************************************)
EXTENDS Integers, Sequences, SequencesExt

CONSTANT Half   \* half of the numbers a cell can hold

\* The mark of an escape is not the mark of the end.
ASSUME WireAssumption == Half \in Nat /\ Half > 1

Width == 2 * Half
Cells == 0 .. Width - 1
Top == Width - 1

Wires == Seq(Cells)

\* What a signed field and a decimal's mantissa range over.
Signed == (-Half) .. (Half - 1)

-----------------------------------------------------------------------------
(***************************************************************************)
(* The writer.  A number in a signed field is written with its top bit     *)
(* inverted, a mantissa in plain two's complement.                         *)
(***************************************************************************)
\* Fault: a signed field is written like a mantissa.
i64Plain(n) == IF n < 0 THEN n + Width ELSE n

i64Inverted(n) == n + Half

\* FillBytes writes the magnitude, and panics if it does not fit.
i128(n) ==
  LET v == IF n < 0 THEN n + Width ELSE n
  IN  IF v < 0 THEN -v ELSE v

lenbytes(b) == <<Len(b)>> \o b

\* Fault: the end is marked and nothing is escaped.
Unescaped(b) == b

\* A zero is written as 0x00 0xff ...
Escaped(b) == FlattenSeq([i \in 1 .. Len(b) |-> IF b[i] = 0 THEN <<0, Top>> ELSE <<b[i]>>])

\* ... and 0x00 0x01 is the end.
varbytes(b) == Escaped(b) \o <<0, 1>>

-----------------------------------------------------------------------------
(***************************************************************************)
(* The reader.                                                             *)
(***************************************************************************)
Failed == [ok |-> FALSE, rest |-> <<>>]

Got(v, rest) == [ok |-> TRUE, value |-> v, rest |-> rest]

\* Go on with what was read, or fail.
Then(r, K(_, _)) == IF r.ok THEN K(r.value, r.rest) ELSE Failed

\* Make f of what was read.
As(r, F(_)) == IF r.ok THEN Got(F(r.value), r.rest) ELSE Failed

readCell(s) == IF s = <<>> THEN Failed ELSE Got(Head(s), Tail(s))

readSigned(s) == As(readCell(s), LAMBDA n : n - Half)

readMantissa(s) == As(readCell(s), LAMBDA n : IF n >= Half THEN n - Width ELSE n)

readFixed(n, s) ==
  IF Len(s) < n THEN Failed ELSE Got(SubSeq(s, 1, n), SubSeq(s, n + 1, Len(s)))

\* Fault: a length that is too long is cut to what there is.
readLenbytesCut(s) ==
  Then(readCell(s),
       LAMBDA n, rest : readFixed(IF n > Len(rest) THEN Len(rest) ELSE n, rest))

readLenbytes(s) == Then(readCell(s), LAMBDA n, rest : readFixed(n, rest))

Utf8(b) == \A i \in 1 .. Len(b) : b[i] # Top

readText(s) ==
  Then(readLenbytes(s), LAMBDA b, rest : IF Utf8(b) THEN Got(b, rest) ELSE Failed)

\* The bytes before the first 0x00 0x01, each 0x00 0xff in them one zero: what is
\* read of the last n cells, for each n.
readVarbytes(s) ==
  LET last[n \in 0 .. Len(s)] ==
        LET i == Len(s) - n + 1
        IN  IF n = 0 THEN Failed
            ELSE IF s[i] # 0 THEN As(last[n - 1], LAMBDA b : <<s[i]>> \o b)
            ELSE IF n = 1 THEN Failed
            ELSE IF s[i + 1] = Top THEN As(last[n - 2], LAMBDA b : <<0>> \o b)
            ELSE IF s[i + 1] = 1 THEN Got(<<>>, SubSeq(s, i + 2, Len(s)))
            ELSE Failed
  IN  last[Len(s)]

\* Fields read one after another by item, n times.
Repeated(item, n, s) ==
  LET upto[i \in 0 .. n] ==
        IF i = 0 THEN Got(<<>>, s)
        ELSE Then(upto[i - 1],
                  LAMBDA vs, rest : As(item[rest], LAMBDA v : Append(vs, v)))
  IN  upto[n]

\* A count, then as many items.
Counted(Item(_), s) ==
  Then(readCell(s), LAMBDA n, rest : Repeated([r \in Wires |-> Item(r)], n, rest))
=============================================================================
