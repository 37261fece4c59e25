------------------------------- MODULE Outcomes -------------------------------
(***************************************************************************)
(* The answer to a script (outcome.go: readAnswer, readOutcome,            *)
(* readRecords): one outcome for each statement, in order, from a node of  *)
(* an older or a newer build.                                              *)
(*                                                                         *)
(* Records have grown fields at the end over time, and an outcome's length *)
(* lets a client that knows fewer stop early.  The node is external: it    *)
(* writes the fields its build knows, and those a later one added.         *)
(***************************************************************************)
EXTENDS Values, Transit

CONSTANT Answers   \* what the node may have to say

VARIABLES
  answer,   \* what the node said
  build     \* how many of the fields added to records its build writes

answerVars == <<answer, build, wire, state, got>>

\* notes, only, exactness, suggestions, and one this client does not know.
Builds == 0 .. 5

\* The path's byte is the place in this list.
AccessPaths ==
  <<"record", "index", "scan", "ordered", "approximate", "graph", "join",
    "materialised", "span">>

OutcomeTag == [Done |-> 0, Records |-> 1, Value |-> 2, Keys |-> 3, Removed |-> 4]

-----------------------------------------------------------------------------
(***************************************************************************)
(* The reader.                                                             *)
(***************************************************************************)
readName(s) ==
  Then(readCell(s), LAMBDA id, rest : As(readText(rest), LAMBDA name : <<id, name>>))

readNames(s) == As(Counted(readName, s), Fields)

\* The bytes of a value are wrapped in a length.
readPayload(s) ==
  Then(readLenbytes(s), LAMBDA b, rest : Then(Decode(b), LAMBDA v, none : Got(v, rest)))

readRow(s) ==
  Then(readText(s), LAMBDA identity, rest :
    As(readPayload(rest), LAMBDA v : [identity |-> identity, value |-> v]))

readPair(s) == Then(readText(s), LAMBDA a, rest : As(readText(rest), LAMBDA b : <<a, b>>))

\* A state this build does not know reads as silence rather than as a claim.
readSuggestion(s) ==
  Then(readCell(s), LAMBDA n, rest :
    CASE n = 1 -> Got(<<"complete">>, rest)
      [] n = 2 -> As(Counted(readPair, rest), LAMBDA c : <<"corrections", c>>)
      [] OTHER -> Got(<<"not consulted">>, rest))

\* A reason is kept only for an answer that is not exact.
readExactness(s) ==
  Then(readCell(s), LAMBDA n, rest :
    As(readText(rest), LAMBDA reason : IF n = 0 THEN <<"exact">> ELSE <<"inexact", reason>>))

readOnly(s) == As(readCell(s), LAMBDA n : n # 0)

readNotes(s) == Counted(readPair, s)

\* A field added later is read unless the bytes have ended, and whoever finds
\* them ended reads no further.
Added(r, Read(_), Put(_, _)) ==
  IF ~r.ok \/ r.rest = <<>> THEN r
  ELSE As(Read(r.rest), LAMBDA v : Put(r.value, v))

\* Fault: what the node did not say is taken for the best it could have said.
WithoutTailClaiming(path, names, rows) ==
  [path |-> path, names |-> names, rows |-> rows, notes |-> <<>>, only |-> FALSE,
   exact |-> <<"exact">>, suggest |-> <<"not consulted">>]

\* What is read of records whose node says no more than path, names and rows.
WithoutTail(path, names, rows) ==
  [path |-> path, names |-> names, rows |-> rows, notes |-> <<>>, only |-> FALSE,
   exact |-> <<"unstated">>, suggest |-> <<"not consulted">>]

readTail(r) ==
  LET notes   == Added(r, readNotes, LAMBDA o, v : [o EXCEPT !.notes = v])
      only    == Added(notes, readOnly, LAMBDA o, v : [o EXCEPT !.only = v])
      exact   == Added(only, readExactness, LAMBDA o, v : [o EXCEPT !.exact = v])
  IN  Added(exact, readSuggestion, LAMBDA o, v : [o EXCEPT !.suggest = v])

pathOf(n) == IF n < Len(AccessPaths) THEN AccessPaths[n + 1] ELSE "scan"

readRecords(s) ==
  Then(readCell(s), LAMBDA path, s1 :
    Then(readNames(s1), LAMBDA names, s2 :
      Then(Counted(readRow, s2), LAMBDA rows, s3 :
        readTail(Got(WithoutTail(pathOf(path), names, rows), s3)))))

\* What is left in the slice after the fields this build knows is not looked at.
readOutcome(slice) ==
  Then(readCell(slice), LAMBDA tag, s :
    CASE tag = OutcomeTag.Done    -> Got(<<"Done">>, s)
      [] tag = OutcomeTag.Records -> As(readRecords(s), LAMBDA r : <<"Records", r>>)
      [] tag = OutcomeTag.Value   ->
           Then(readNames(s), LAMBDA names, rest :
             As(readPayload(rest), LAMBDA v : <<"Value", names, v>>))
      [] tag = OutcomeTag.Keys    -> As(Counted(readText, s), LAMBDA keys : <<"Keys", keys>>)
      [] tag = OutcomeTag.Removed -> As(readCell(s), LAMBDA n : <<"Removed", n>>)
      [] OTHER                    -> Got(<<"Unknown", tag, s>>, <<>>))

\* Fault: the next outcome is read where this one was left.
readInPlace(s) == Then(readCell(s), LAMBDA n, rest : readOutcome(rest))

\* An outcome's length says where the next begins, whatever was read of it.
readSliced(s) ==
  Then(readLenbytes(s), LAMBDA slice, rest :
    Then(readOutcome(slice), LAMBDA o, left : Got(o, rest)))

\* Fault: an outcome of no known kind is passed over.
readKnown(body) ==
  As(Counted(readSliced, body), LAMBDA os : SelectSeq(os, LAMBDA o : o[1] # "Unknown"))

\* What follows the last outcome is not looked at.
readAnswer(body) == Counted(readSliced, body)

-----------------------------------------------------------------------------
(***************************************************************************)
(* The node (external): the fields in the order they were added.           *)
(***************************************************************************)
Text(b) == lenbytes(b)

Payload(v) == lenbytes(writeValues[Nesting][v])

\* In any order.
writeNames(names) == Each(LAMBDA n : <<n[1]>> \o Text(n[2]), SetToSeq(names))

writePairs(pairs) == Each(LAMBDA p : Text(p[1]) \o Text(p[2]), pairs)

writeSuggestion(g) ==
  CASE g[1] = "not consulted" -> <<0>>
    [] g[1] = "complete"      -> <<1>>
    [] g[1] = "corrections"   -> <<2>> \o writePairs(g[2])

writeExactness(e) == IF e[1] = "exact" THEN <<0, 0>> ELSE <<1>> \o Text(e[2])

writeTail(r, b) ==
  LET From(first, w) == IF b >= first THEN w ELSE <<>>
  IN  From(1, writePairs(r.notes)) \o From(2, <<IF r.only THEN 1 ELSE 0>>)
        \o From(3, writeExactness(r.exact)) \o From(4, writeSuggestion(r.suggest))
        \o From(5, <<7>>)

writeRows(rows) == Each(LAMBDA r : Text(r.identity) \o Payload(r.value), rows)

writeOutcome(o, b) ==
  IF o[1] = "Unknown" THEN <<o[2]>> \o o[3]
  ELSE <<OutcomeTag[o[1]]>> \o
    CASE o[1] = "Done"    -> <<>>
      [] o[1] = "Records" ->
           <<o[2].path>> \o writeNames(o[2].names) \o writeRows(o[2].rows)
             \o writeTail(o[2], b)
      [] o[1] = "Value"   -> writeNames(o[2]) \o Payload(o[3])
      [] o[1] = "Keys"    -> Each(Text, o[2])
      [] o[1] = "Removed" -> <<o[2]>>

\* The other kinds may grow by a field too.
Grown(o, b) ==
  IF b = 5 /\ o[1] \notin {"Records", "Unknown"} THEN writeOutcome(o, b) \o <<7>>
                                                 ELSE writeOutcome(o, b)

writeAnswer(a, b) == Each(LAMBDA o : lenbytes(Grown(o, b)), a)

-----------------------------------------------------------------------------
(***************************************************************************)
(* What a node may have to say: sequences of outcomes that it can write.   *)
(***************************************************************************)
Names == {n \in SUBSET (Cells \X Texts) : IsFiniteSet(n) /\ \A m, o \in n : m[1] = o[1] => m = o}

Pairs == Seq(Texts \X Texts)

Records ==
  [path : Cells, names : Names, rows : Seq([identity : Texts, value : Value[Nesting]]),
   notes : Pairs, only : BOOLEAN, exact : {<<"exact">>} \cup ({"inexact"} \X Texts),
   suggest : {<<"not consulted">>, <<"complete">>} \cup ({"corrections"} \X Pairs)]

SomeOutcome ==
  {<<"Done">>} \cup ({"Records"} \X Records) \cup ({"Value"} \X Names \X Value[Nesting])
    \cup ({"Keys"} \X Seq(Texts)) \cup ({"Removed"} \X Cells)
    \cup ({"Unknown"} \X {c \in Cells : c > 4} \X Wires)

ASSUME AnswersAssumption ==
  \A a \in Answers :
    a \in Seq(SomeOutcome) /\ \A b \in Builds : writeAnswer(a, b) \in Wires

-----------------------------------------------------------------------------
AnswerInit ==
  /\ answer \in Answers
  /\ build \in Builds
  /\ wire = <<>>
  /\ state = "asked"
  /\ got = Failed

Send ==
  /\ state = "asked"
  /\ wire' = writeAnswer(answer, build)
  /\ state' = "written"
  /\ UNCHANGED <<answer, build, got>>

AnswerCut == CutShort /\ UNCHANGED <<answer, build>>

AnswerAltered == CellAltered /\ UNCHANGED <<answer, build>>

ReadAnswer ==
  /\ state \in {"written", "cut", "altered"}
  /\ got' = readAnswer(wire)
  /\ state' = "read"
  /\ UNCHANGED <<answer, build, wire>>

AnswerNext == Send \/ AnswerCut \/ AnswerAltered \/ ReadAnswer

AnswerSpec == AnswerInit /\ [][AnswerNext]_answerVars

-----------------------------------------------------------------------------
\* What a client that knows four added fields is to make of an outcome: the
\* fields its node wrote, and of the others that nothing was said.
Said(r, b) ==
  [r EXCEPT !.path = pathOf(r.path),
            !.notes = IF b >= 1 THEN r.notes ELSE <<>>,
            !.only = b >= 2 /\ r.only,
            !.exact = IF b >= 3 THEN r.exact ELSE <<"unstated">>,
            !.suggest = IF b >= 4 THEN r.suggest ELSE <<"not consulted">>]

Meant(o, b) == IF o[1] = "Records" THEN <<"Records", Said(o[2], b)>> ELSE o

(***************************************************************************)
(* A node of any build is understood: each outcome in its place, whatever  *)
(* fields or kinds this client does not know stand before it, and of a     *)
(* field the node did not write nothing is claimed, exactness least of all.*)
(***************************************************************************)
AnyBuildIsUnderstood ==
  state = "read" /\ wire = writeAnswer(answer, build) =>
    got.ok /\ got.value = [i \in 1 .. Len(answer) |-> Meant(answer[i], build)]

\* An answer cut short is refused whole, wherever it is cut.
CutAnswerIsRefused ==
  state = "read" /\ Len(wire) < Len(writeAnswer(answer, build)) => ~got.ok

\* The cells of outcome j in an answer, without its length.
BodyOf(j) ==
  LET Piece(i) == lenbytes(Grown(answer[i], build))
      before   == 1 + Len(FlattenSeq([i \in 1 .. j - 1 |-> Piece(i)]))
  IN  before + 2 .. before + Len(Piece(j))

(***************************************************************************)
(* Outcomes stand apart: whatever the bytes of one hold, an answer that is *)
(* read has one outcome for each statement and the others as they were     *)
(* meant.                                                                  *)
(***************************************************************************)
OutcomesStandApart ==
  state = "read" /\ got.ok /\ Len(wire) = Len(writeAnswer(answer, build)) =>
    \A j \in 1 .. Len(answer) :
      {i \in 1 .. Len(wire) : wire[i] # writeAnswer(answer, build)[i]} \subseteq BodyOf(j) =>
        /\ Len(got.value) = Len(answer)
        /\ \A k \in (1 .. Len(answer)) \ {j} : got.value[k] = Meant(answer[k], build)
=============================================================================
