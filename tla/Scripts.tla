-------------------------------- MODULE Scripts --------------------------------
(***************************************************************************)
(* The answer to a script on either transport: as Outcomes reads it off    *)
(* the wire, or as ReadOutcome reads it off POST /script (script.go,       *)
(* scriptplan.go).  On HTTP a field that a build does not know, or has     *)
(* nothing to say in, is a key that is absent, and the caller brings the   *)
(* kind of each outcome's values.                                          *)
(***************************************************************************)
EXTENDS Outcomes, Json

CONSTANTS
  ScriptAnswers,   \* answers that are asked for over HTTP
  Plans,           \* what else a node's plan may hold: optional keys
  TableNames       \* the names of the tables that are there

VARIABLES
  transport,   \* which one the script went by
  plan         \* the optional keys of the node's plans

scriptVars == <<answerVars, transport, plan>>

planWords == {"access", "source", "table", "index", "shape"}
planCounts == {"columns", "cells", "at_most"}

-----------------------------------------------------------------------------
(***************************************************************************)
(* The reader.                                                             *)
(***************************************************************************)
\* A Go map answers nil, which is JSON's null, for a key that is not there.
At(object, key) == IF key \in DOMAIN object THEN object[key] ELSE <<"null">>

IsObject(j) == j[1] = "object"

\* Two texts of each object of an array.
PairsOf(j, a, b) ==
  Items(LAMBDA each :
          IF ~IsObject(each) THEN Failed
          ELSE Then(jsonText(At(each[2], a)), LAMBDA s, none :
                 As(jsonText(At(each[2], b)), LAMBDA t : <<s, t>>)),
        j)

scriptNotes(j) == IF j = <<"null">> THEN Ok(<<>>) ELSE PairsOf(j, "kind", "message")

\* Absent, empty and not empty are three claims.
scriptSuggestion(j) ==
  IF j = <<"null">> THEN Ok(<<"not consulted">>)
  ELSE IF ~IsObject(j) THEN Failed
  ELSE As(PairsOf(At(j[2], "corrections"), "typed", "instead"),
          LAMBDA c : IF c = <<>> THEN <<"complete">> ELSE <<"corrections", c>>)

\* A node without the key made no claim.
planExact(p) ==
  IF "exact" \notin DOMAIN p THEN Ok(<<"unstated">>)
  ELSE IF p["exact"][1] # "bool" THEN Failed
  ELSE IF p["exact"][2] THEN Ok(<<"exact">>)
  ELSE As(jsonText(At(p, "inexact")), LAMBDA reason : <<"inexact", reason>>)

\* A count is kept apart from its absence, as zero is a count.
scriptPlan(j) ==
  IF ~IsObject(j) \/ Member(j[2], "access") \in {Absent, <<"string", "">>} THEN Failed
  ELSE Then(AllOf([k \in DOMAIN j[2] \cap (planWords \cup planCounts) |->
                     IF k \in planWords THEN jsonText(j[2][k]) ELSE jsonInt64(j[2][k])]),
            LAMBDA says, none :
              As(planExact(j[2]), LAMBDA exact : [says |-> says, exact |-> exact]))

scriptRow(j, reading) ==
  IF ~IsObject(j) THEN Failed
  ELSE Then(jsonText(At(j[2], "id")), LAMBDA id, none :
         As(Interpret(At(j[2], "value"), reading.kind, reading.names),
            LAMBDA v : [identity |-> id, value |-> v]))

scriptRecords(object, reading) ==
  Then(jsonText(At(object, "path")), LAMBDA path, n1 :
    Then(scriptPlan(At(object, "plan")), LAMBDA itsPlan, n2 :
      Then(Items(LAMBDA each : scriptRow(each, reading), At(object, "records")), LAMBDA rows, n3 :
        Then(scriptNotes(At(object, "notes")), LAMBDA notes, n4 :
          As(scriptSuggestion(At(object, "suggestion")), LAMBDA suggest :
            <<"Records",
              [path |-> path, plan |-> itsPlan, rows |-> rows, notes |-> notes,
               only |-> At(object, "only") = <<"bool", TRUE>>, suggest |-> suggest]>>)))))

\* A kind this build does not know is surfaced.
ReadOutcome(j, reading) ==
  IF ~IsObject(j) THEN Failed
  ELSE Then(jsonText(At(j[2], "kind")), LAMBDA kind, none :
    CASE kind = "done"  -> Ok(<<"Done">>)
      [] kind = "value" ->
           As(Interpret(Member(j[2], "value"), reading.kind, reading.names),
              LAMBDA v : <<"Value", v>>)
      [] kind = "removed" ->
           Then(jsonInt64(At(j[2], "count")), LAMBDA n, n1 :
             IF n >= 0 THEN Ok(<<"Removed", n>>) ELSE Failed)
      [] kind = "keys" -> As(Items(jsonText, At(j[2], "keys")), LAMBDA k : <<"Keys", k>>)
      [] kind = "records" -> scriptRecords(j[2], reading)
      [] OTHER -> Ok(<<"Unknown", kind>>))

\* ScriptResults gives the outcomes, and the caller reads each.
ReadScript(results, readings) ==
  AllOf([i \in DOMAIN results |-> ReadOutcome(results[i], readings[i])])

-----------------------------------------------------------------------------
(***************************************************************************)
(* The node (external), of any build, and the kinds the caller brings.     *)
(***************************************************************************)
Word(w) == <<"string", w>>

PathWord(n) == IF n < Len(AccessPaths) THEN AccessPaths[n + 1] ELSE "a later path"

\* An object with a key more, if it has something to say.
With(object, key, says, j) == IF says THEN object @@ (key :> j) ELSE object

PairsJson(pairs, a, b) ==
  ArrayOf(LAMBDA p : <<"object", (a :> Word(p[1])) @@ (b :> Word(p[2]))>>, pairs)

PlanJson(r, b) ==
  LET inexact == r.exact[1] = "inexact"
  IN  <<"object", With(With([access |-> Word(PathWord(r.path))] @@ plan,
                            "exact", b >= 3, <<"bool", ~inexact>>),
                       "inexact", b >= 3 /\ inexact,
                       IF inexact THEN Word(r.exact[2]) ELSE <<"null">>)>>

RowJson(row) ==
  <<"object", [id |-> Word(row.identity), value |-> JsonOf(row.value, TableNames)]>>

RecordsJson(r, b) ==
  LET said  == [kind |-> Word("records"), path |-> Word(PathWord(r.path)),
                plan |-> PlanJson(r, b), records |-> ArrayOf(RowJson, r.rows)]
      notes == With(said, "notes", b >= 1 /\ r.notes # <<>>,
                    PairsJson(r.notes, "kind", "message"))
      only  == With(notes, "only", b >= 2 /\ r.only, <<"bool", TRUE>>)
  IN  With(only, "suggestion", b >= 4 /\ r.suggest[1] # "not consulted",
           <<"object", [corrections |->
             PairsJson(IF r.suggest[1] = "corrections" THEN r.suggest[2] ELSE <<>>,
                       "typed", "instead")]>>)

OutcomeJson(o, b) ==
  LET said == CASE o[1] = "Done"    -> [kind |-> Word("done")]
                [] o[1] = "Records" -> RecordsJson(o[2], b)
                [] o[1] = "Value"   ->
                     With([kind |-> Word("value")], "value", o[3] # <<"None">>,
                          JsonOf(o[3], TableNames))
                [] o[1] = "Keys" ->
                     [kind |-> Word("keys"), keys |-> ArrayOf(Word, o[2])]
                [] o[1] = "Removed" -> [kind |-> Word("removed"), count |-> <<"number", o[2]>>]
                [] o[1] = "Unknown" -> [kind |-> Word("a later kind")]
  IN  <<"object", With(said, "later", b = 5, <<"null">>)>>

\* The reading a caller brings for an outcome.
ReadingOf(o) ==
  [names |-> TableNames,
   kind  |-> CASE o[1] = "Value" -> KindOf(o[3])
               [] o[1] = "Records" /\ o[2].rows # <<>> -> KindOf(o[2].rows[1].value)
               [] OTHER -> <<"Null">>]

-----------------------------------------------------------------------------
ScriptInit ==
  /\ build \in Builds
  /\ wire = <<>>
  /\ state = "asked"
  /\ got = Failed
  /\ \/ transport = "wire" /\ answer \in Answers /\ plan = <<>>
     \/ transport = "http" /\ answer \in ScriptAnswers /\ plan \in Plans

\* The answer to POST /script arrives, and each outcome is read.
Hear ==
  /\ transport = "http"
  /\ state = "asked"
  /\ got' = ReadScript([i \in DOMAIN answer |-> OutcomeJson(answer[i], build)],
                       [i \in DOMAIN answer |-> ReadingOf(answer[i])])
  /\ state' = "heard"
  /\ UNCHANGED <<answer, build, wire, transport, plan>>

ScriptNext ==
  \/ transport = "wire" /\ AnswerNext /\ UNCHANGED <<transport, plan>>
  \/ Hear

ScriptSpec == ScriptInit /\ [][ScriptNext]_scriptVars

-----------------------------------------------------------------------------
(***************************************************************************)
(* What JSON keeps of a value: no sign of a zero, no coordinate that is    *)
(* not finite, and no datetime beyond the years of four digits.            *)
(***************************************************************************)
KeptFloat(f) == IF f = NegZero THEN 0 ELSE f

KeptCoordinate(f) ==
  IF f \in {Infinity, NegInfinity} THEN CanonicalNaN ELSE KeptFloat(f)

KeepEach(Keep(_), s) == [i \in DOMAIN s |-> Keep(s[i])]

KeptPosition(p) == KeepEach(KeptCoordinate, p)
KeptLine(ps)    == KeepEach(KeptPosition, ps)
KeptLines(rs)   == KeepEach(KeptLine, rs)
KeptPolygon(p)  == [exterior |-> KeptLine(p.exterior), interiors |-> KeptLines(p.interiors)]

RECURSIVE KeptShape(_)
KeptShape(g) ==
  <<g[1], CASE g[1] = "Point"                  -> KeptPosition(g[2])
            [] g[1] \in {"Line", "MultiPoint"} -> KeptLine(g[2])
            [] g[1] = "Polygon"                -> KeptPolygon(g[2])
            [] g[1] = "MultiLine"              -> KeptLines(g[2])
            [] g[1] = "MultiPolygon"           -> KeepEach(KeptPolygon, g[2])
            [] g[1] = "Collection"             -> KeepEach(LAMBDA h : KeptShape(h), g[2])>>

RECURSIVE Kept(_)
Kept(v) ==
  LET End(e) == IF e[1] = "Unbounded" THEN e ELSE <<e[1], Kept(e[2])>>
  IN  CASE v[1] = "Float"            -> <<v[1], KeptFloat(v[2])>>
        [] v[1] = "Geometry"         -> <<v[1], KeptShape(v[2])>>
        [] v[1] \in {"Array", "Set"} -> <<v[1], KeepEach(LAMBDA w : Kept(w), v[2])>>
        [] v[1] = "Object"           -> <<v[1], {<<f[1], Kept(f[2])>> : f \in v[2]}>>
        [] v[1] = "Range"            -> <<v[1], End(v[2]), End(v[3])>>
        [] OTHER                     -> v

\* No datetime in the value is beyond the years that RFC 3339 spells.
RECURSIVE IsDatable(_)
IsDatable(v) ==
  CASE v[1] = "Datetime"         -> v[2] \in Years
    [] v[1] \in {"Array", "Set"} -> \A i \in DOMAIN v[2] : IsDatable(v[2][i])
    [] v[1] = "Object"           -> \A f \in v[2] : IsDatable(f[2])
    [] v[1] = "Range"            ->
         \A i \in {2, 3} : v[i][1] # "Unbounded" => IsDatable(v[i][2])
    [] OTHER                     -> TRUE

\* The values an outcome carries.
Carried(o) ==
  CASE o[1] = "Value"   -> {o[3]}
    [] o[1] = "Records" -> {o[2].rows[i].value : i \in DOMAIN o[2].rows}
    [] OTHER            -> {}

\* What the other transport tells of an outcome as a client understands it there.
OnHttp(o, b) ==
  LET r == Meant(o, b)[2]
  IN  CASE o[1] = "Records" ->
             <<"Records",
               [path |-> PathWord(o[2].path),
                plan |-> [says |-> [access |-> PathWord(o[2].path)]
                                     @@ [k \in DOMAIN plan |-> plan[k][2]],
                          exact |-> r.exact],
                rows |-> KeepEach(LAMBDA w : [w EXCEPT !.value = Kept(@)], r.rows),
                notes |-> r.notes, only |-> r.only,
                suggest |-> r.suggest]>>
        [] o[1] = "Value"   -> <<"Value", Kept(o[3])>>
        [] o[1] = "Unknown" -> <<"Unknown", "a later kind">>
        [] OTHER            -> o

(***************************************************************************)
(* A script means the same over HTTP as on the wire, the words of its      *)
(* access paths and of kinds unknown put for their numbers: with the kinds *)
(* supplied a value comes back as the store holds it, with names no names  *)
(* block resolves too, and of what a node's build did not say nothing is   *)
(* claimed (ReadOutcome, Interpret).  Three things JSON does not keep: a   *)
(* datetime beyond the year 9999 is refused, never misread; a coordinate   *)
(* that is not finite is a NaN; and a zero has no sign.                    *)
(***************************************************************************)
TransportsAgree ==
  state = "heard" =>
    /\ got.ok <=> \A i \in DOMAIN answer : \A v \in Carried(answer[i]) : IsDatable(v)
    /\ got.ok => got.value = [i \in DOMAIN answer |-> OnHttp(answer[i], build)]
=============================================================================
