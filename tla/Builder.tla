------------------------------- MODULE Builder -------------------------------
(***************************************************************************)
(* The query builder (query.go, statement.go, select.go, write.go,         *)
(* filter.go): calls that gather a statement, and Render, which makes text *)
(* of it and the parameters that travel beside it.                         *)
(*                                                                         *)
(* A refusal is kept where it happens and comes out at Render.  The text   *)
(* is a sequence of tokens: the words of the grammar, names, numbers,      *)
(* spans, and references to parameters; a window of lines is one token.    *)
(***************************************************************************)
EXTENDS Integers, Sequences, SequencesExt, FiniteSets

CONSTANTS
  Values,      \* what a caller compares with, stores, and names a record by
  Tables,      \* the strings given for a table
  Fields,      \* the strings given for a field: names if positive, in their order
  Filters,     \* the filters given to Where
  Nesting,     \* how deep a filter may nest, where the code has no bound but the stack
  Spans,       \* the strings given to Staleness
  Directions,  \* the directions given to OrderBy
  MaxCalls     \* bound on the calls that gather one statement

\* A comparison has an operator and a direction a number, of any value in Go.
Comparison == {"compare"} \X Int \X Int \X Values

Filter[d \in 0 .. Nesting] ==
  IF d = 0 THEN Comparison
  ELSE Comparison \cup ({"AND", "OR"} \X Filter[d - 1] \X Filter[d - 1])

ASSUME BuilderAssumption ==
  /\ Tables \subseteq Int /\ Fields \subseteq Int /\ Directions \subseteq Int
  /\ Nesting \in Nat /\ Filters \subseteq Filter[Nesting]
  /\ Spans \subseteq Seq(STRING)
  /\ MaxCalls \in Nat

VARIABLES
  s,       \* the statement as gathered
  calls,   \* the calls so far
  out      \* what Render last answered

vars == <<s, calls, out>>

Absent == <<>>

-----------------------------------------------------------------------------
(***************************************************************************)
(* The checks.  Each answers a refusal, or none.                           *)
(***************************************************************************)
Fine == <<>>

\* A string that is a name is a positive number, one that is not is negative.
IsName(n) == n > 0

checkName(what, n) == IF IsName(n) THEN Fine ELSE <<"not-a-name", what, n>>

\* The longest first, so that "ms" is read before "m".
spanUnits ==
  <<<<"m", "s">>, <<"n", "s">>, <<"u", "s">>, <<"s">>, <<"m">>, <<"h">>, <<"d">>, <<"w">>>>

\* How many digits stand behind place i.
Digits(t, i) ==
  CHOOSE n \in 0 .. Len(t) - i :
    (\A j \in i + 1 .. i + n : t[j] = "0") /\ (i + n < Len(t) => t[i + n + 1] # "0")

\* Does a unit stand behind place i.
StandsAt(t, i, u) == i + Len(u) <= Len(t) /\ SubSeq(t, i + 1, i + Len(u)) = u

Stuck == -1

\* Where one round of digits and a unit leads to from place i.
Round(t, i) ==
  LET d       == i + Digits(t, i)
      matched == {k \in DOMAIN spanUnits : StandsAt(t, d, spanUnits[k])}
      first   == CHOOSE k \in matched : \A l \in matched : k <= l
  IN  IF d = i \/ matched = {} THEN Stuck ELSE d + Len(spanUnits[first])

SpanEnd(t) ==
  LET rounds[n \in 0 .. Len(t)] ==
        IF n = 0 THEN 0
        ELSE IF rounds[n - 1] \in {Stuck, Len(t)} THEN rounds[n - 1]
        ELSE Round(t, rounds[n - 1])
  IN  rounds[Len(t)]

checkSpan(t) == IF t # <<>> /\ SpanEnd(t) = Len(t) THEN Fine ELSE <<"not-a-span", t>>

checkAnswerer(w) == IF w \in {"ANY", "LEADER"} THEN Fine ELSE <<"not-an-answerer", w>>

-----------------------------------------------------------------------------
(***************************************************************************)
(* Writing.  What has been written is the refusal met, the tokens, and the *)
(* values bound so far: value i has the reference i - 1.                   *)
(***************************************************************************)
Nothing == [err |-> Fine, text |-> <<>>, bound |-> <<>>]

Refused(why) == [Nothing EXCEPT !.err = why]

\* Fault: a value that was bound before keeps its reference.
bindOnce(r, v) ==
  IF v \in ToSet(r.bound)
    THEN [r EXCEPT !.text = Append(@, <<"$", CHOOSE i \in 0 .. Len(r.bound) - 1 : r.bound[i + 1] = v>>)]
    ELSE [r EXCEPT !.text = Append(@, <<"$", Len(r.bound)>>), !.bound = Append(@, v)]

bind(r, v) == [r EXCEPT !.text = Append(@, <<"$", Len(r.bound)>>), !.bound = Append(@, v)]

\* A piece of a statement is a token, a value to be bound, or a refusal.
write(r, piece) ==
  IF r.err # Fine THEN r
  ELSE CASE piece[1] = "refused" -> Refused(piece[2])
         [] piece[1] = "value"   -> bind(r, piece[2])
         [] OTHER                -> [r EXCEPT !.text = Append(@, piece)]

Written(pieces) ==
  LET written[i \in 0 .. Len(pieces)] ==
        IF i = 0 THEN Nothing ELSE write(written[i - 1], pieces[i])
  IN  written[Len(pieces)]

-----------------------------------------------------------------------------
(***************************************************************************)
(* The pieces of a statement, in the order they are written.               *)
(***************************************************************************)
Word(w) == << <<"word", w>> >>

Name(n) == << <<"name", n>> >>

Bound(v) == << <<"value", v>> >>

\* A word, or a refusal.
WordOr(words, n, what) ==
  IF n \in 0 .. Len(words) - 1 THEN Word(words[n + 1]) ELSE << <<"refused", <<what, n>>>> >>

Symbols == <<"=", "!=", "<", "<=", ">", ">=">>

DirectionWords == <<"ASC", "DESC">>

comparisonPieces(f) ==
  (IF IsName(f[2]) THEN Name(f[2]) ELSE << <<"refused", checkName("field", f[2])>> >>)
    \o WordOr(Symbols, f[3], "operator") \o Bound(f[4])

\* AND and OR in parentheses, always.
filterPieces[d \in 0 .. Nesting] ==
  [f \in Filter[d] |->
     IF f[1] = "compare" THEN comparisonPieces(f)
     ELSE Word("(") \o filterPieces[d - 1][f[2]] \o Word(f[1])
            \o filterPieces[d - 1][f[3]] \o Word(")")]

\* Items with a comma between.
Listed(items) ==
  FlattenSeq([i \in 1 .. Len(items) |-> IF i = 1 THEN items[i] ELSE Word("comma") \o items[i]])

\* The numbers of a set, ascending.
Ascending(set) ==
  CHOOSE q \in [1 .. Cardinality(set) -> set] :
    {q[i] : i \in DOMAIN q} = set /\ \A i, j \in DOMAIN q : i < j => q[i] < q[j]

sortedNames(set) == Ascending(DOMAIN set)

\* The fields of CREATE and UPDATE, and the parameter of each.
fieldPieces(set, sign) ==
  LET names == sortedNames(set)
  IN  Listed([i \in 1 .. Len(names) |-> Name(names[i]) \o Word(sign) \o Bound(set[names[i]])])

objectPieces(set) == Word("lbrace") \o fieldPieces(set, ":") \o Word("rbrace")

itemPieces(items) == IF items = <<>> THEN Word("*") ELSE Listed([i \in 1 .. Len(items) |-> <<items[i]>>])

wherePieces(filter) == IF filter = Absent THEN <<>> ELSE Word("WHERE") \o filterPieces[Nesting][filter[1]]

orderPieces(order) ==
  IF order = <<>> THEN <<>>
  ELSE Word("ORDER") \o Listed([i \in 1 .. Len(order) |->
         Name(order[i][1]) \o WordOr(DirectionWords, order[i][2], "direction")])

\* A clause that was not given leaves nothing.
clausePieces(w, given) == IF given = Absent THEN <<>> ELSE Word(w) \o given

selectPieces(q) ==
  Word("SELECT") \o itemPieces(q.items) \o Word("FROM") \o Name(q.table)
    \o wherePieces(q.filter) \o orderPieces(q.order)
    \o clausePieces("START", q.start) \o clausePieces("LIMIT", q.limit)
    \o clausePieces("STALENESS", q.staleness) \o clausePieces("ANSWERED", q.answeredBy)
    \o Word("semicolon")

\* The identity binds first, before any field.
headPieces(verb, q) ==
  Word(verb) \o Name(q.table) \o (IF q.id = Absent THEN <<>> ELSE Word(":") \o Bound(q.id[1]))

writePieces(q) ==
  CASE q.kind = "DELETE" -> headPieces("DELETE", q) \o Word("semicolon")
    [] q.kind = "UPDATE" /\ DOMAIN q.set # {} ->
         headPieces("UPDATE", q) \o Word("SET") \o fieldPieces(q.set, "=") \o Word("semicolon")
    [] q.kind \in {"CREATE", "CREATE_IN"} /\ DOMAIN q.set # {} ->
         headPieces("CREATE", q) \o Word("=") \o objectPieces(q.set) \o Word("semicolon")
    [] OTHER -> << <<"refused", <<"incomplete">>>> >>

pieces(q) == IF q.kind = "SELECT" THEN selectPieces(q) ELSE writePieces(q)

-----------------------------------------------------------------------------
(***************************************************************************)
(* The calls.                                                              *)
(***************************************************************************)
Unbuilt ==
  [kind |-> "none", table |-> 0, id |-> Absent, err |-> Fine, items |-> <<>>,
   filter |-> Absent, order |-> <<>>, start |-> Absent, limit |-> Absent,
   staleness |-> Absent, answeredBy |-> Absent, set |-> <<>>]

Init == s = Unbuilt /\ calls = <<>> /\ out = Nothing

\* The first refusal is the one that is kept.
fail(old, why) == IF old = Fine THEN why ELSE old

Called(call) == calls' = Append(calls, call) /\ out' = Nothing

New(kind, table, id) ==
  /\ s.kind = "none"
  /\ s' = [Unbuilt EXCEPT !.kind = kind, !.table = table, !.id = id,
                          !.err = fail(Fine, checkName("table", table))]
  /\ Called(<<kind, table, id>>)

Select(t) == New("SELECT", t, Absent)

CreateInTable(t) == New("CREATE_IN", t, Absent)

CreateRecord(t, id) == New("CREATE", t, <<id>>)

UpdateRecord(t, id) == New("UPDATE", t, <<id>>)

DeleteRecord(t, id) == New("DELETE", t, <<id>>)

\* A call that changes a statement of one of these kinds.
Change(kinds, call, statement) ==
  /\ s.kind \in kinds
  /\ Len(calls) < MaxCalls
  /\ s' = statement
  /\ Called(call)

Field(n) ==
  Change({"SELECT"}, <<"Field", n>>,
         [s EXCEPT !.err = fail(@, checkName("field", n)), !.items = Append(@, <<"name", n>>)])

Lines(n, start, count) ==
  Change({"SELECT"}, <<"Lines", n, start, count>>,
         [s EXCEPT !.err = fail(@, checkName("field", n)),
                   !.items = Append(@, <<"lines", n, start, count>>)])

\* A second filter replaces the first.
Where(f) == Change({"SELECT"}, <<"Where", f>>, [s EXCEPT !.filter = <<f>>])

OrderBy(n, d) ==
  Change({"SELECT"}, <<"OrderBy", n, d>>,
         [s EXCEPT !.err = fail(@, checkName("field", n)), !.order = Append(@, <<n, d>>)])

Start(n) == Change({"SELECT"}, <<"Start", n>>, [s EXCEPT !.start = << <<"number", n>> >>])

Limit(n) == Change({"SELECT"}, <<"Limit", n>>, [s EXCEPT !.limit = << <<"number", n>> >>])

Staleness(t) ==
  Change({"SELECT"}, <<"Staleness", t>>,
         IF checkSpan(t) = Fine THEN [s EXCEPT !.staleness = << <<"span", t>> >>]
                                ELSE [s EXCEPT !.err = fail(@, checkSpan(t))])

AnsweredBy(w) ==
  Change({"SELECT"}, <<"AnsweredBy", w>>,
         IF checkAnswerer(w) = Fine THEN [s EXCEPT !.answeredBy = << <<"answerer", w>> >>]
                                    ELSE [s EXCEPT !.err = fail(@, checkAnswerer(w))])

put(n, v) ==
  IF IsName(n)
    THEN [s EXCEPT !.set = [m \in DOMAIN @ \cup {n} |-> IF m = n THEN v ELSE @[m]]]
    ELSE [s EXCEPT !.err = fail(@, checkName("field", n))]

Set(n, v) == Change({"CREATE", "CREATE_IN", "UPDATE"}, <<"Set", n, v>>, put(n, v))

\* Rendering leaves the statement as it is: it can be added to and rendered again.
Render ==
  /\ s.kind # "none"
  /\ out' = IF s.err # Fine THEN Refused(s.err) ELSE Written(pieces(s))
  /\ UNCHANGED <<s, calls>>

Next ==
  \/ \E t \in Tables : Select(t) \/ CreateInTable(t)
       \/ \E id \in Values : CreateRecord(t, id) \/ UpdateRecord(t, id) \/ DeleteRecord(t, id)
  \/ \E n \in Fields : Field(n) \/ Lines(n, 0, 2) \/ \E d \in Directions : OrderBy(n, d)
       \/ \E v \in Values : Set(n, v)
  \/ \E f \in Filters : Where(f)
  \/ \E n \in {0, 1} : Start(n) \/ Limit(n)
  \/ \E t \in Spans : Staleness(t)
  \/ \E w \in {"ANY", "LEADER", "MASTER"} : AnsweredBy(w)
  \/ Render

Spec == Init /\ [][Next]_vars

-----------------------------------------------------------------------------
(***************************************************************************)
(* What was asked for: the calls, without the statement they gathered.     *)
(***************************************************************************)
\* What a call adds to the projection, and to the order.
ItemOf(c) ==
  CASE c[1] = "Field" -> << <<"name", c[2]>> >>
    [] c[1] = "Lines" -> << <<"lines", c[2], c[3], c[4]>> >>
    [] OTHER          -> <<>>

SortOf(c) == IF c[1] = "OrderBy" THEN << <<c[2], c[3]>> >> ELSE <<>>

\* What the last call of a method gave, or nothing.
LastOf(method) ==
  LET places == {i \in 1 .. Len(calls) : calls[i][1] = method}
  IN  IF places = {} THEN Absent
      ELSE <<calls[CHOOSE i \in places : \A j \in places : j <= i][2]>>

Tagged(tag, x) == IF x = Absent THEN Absent ELSE << <<tag, x[1]>> >>

\* The calls of Set that no later one of the same name replaced.
Sets ==
  {i \in 1 .. Len(calls) :
     /\ calls[i][1] = "Set"
     /\ \A j \in i + 1 .. Len(calls) : calls[j][1] = "Set" => calls[j][2] # calls[i][2]}

Meant ==
  [kind |-> calls[1][1], table |-> <<"name", calls[1][2]>>, id |-> Tagged("value", calls[1][3]),
   items |-> FlattenSeq([i \in 1 .. Len(calls) |-> ItemOf(calls[i])]),
   filter |-> LastOf("Where"),
   order |-> FlattenSeq([i \in 1 .. Len(calls) |-> SortOf(calls[i])]),
   start |-> Tagged("number", LastOf("Start")), limit |-> Tagged("number", LastOf("Limit")),
   staleness |-> Tagged("span", LastOf("Staleness")),
   answeredBy |-> Tagged("answerer", LastOf("AnsweredBy")),
   set |-> {<< <<"name", calls[i][2]>>, <<"value", calls[i][3]>> >> : i \in Sets}]

\* Digits and a unit, one after another, in any way they can be cut.
Production(t) ==
  \E n \in 1 .. Len(t) : \E cut \in [0 .. n -> 0 .. Len(t)] :
    /\ cut[0] = 0 /\ cut[n] = Len(t)
    /\ \A i \in 1 .. n : \E d \in cut[i - 1] + 1 .. cut[i] - 1 :
         /\ \A j \in cut[i - 1] + 1 .. d : t[j] = "0"
         /\ \E k \in DOMAIN spanUnits : SubSeq(t, d + 1, cut[i]) = spanUnits[k]

\* What a call is to be refused for.
RefusalOf(c) ==
  CASE c[1] \in {"SELECT", "CREATE", "CREATE_IN", "UPDATE", "DELETE"} ->
         IF c[2] > 0 THEN Fine ELSE <<"not-a-name", "table", c[2]>>
    [] c[1] \in {"Field", "Lines", "OrderBy", "Set"} ->
         IF c[2] > 0 THEN Fine ELSE <<"not-a-name", "field", c[2]>>
    [] c[1] = "Staleness"  -> IF Production(c[2]) THEN Fine ELSE <<"not-a-span", c[2]>>
    [] c[1] = "AnsweredBy" -> IF c[2] \in {"ANY", "LEADER"} THEN Fine ELSE <<"not-an-answerer", c[2]>>
    [] OTHER -> Fine

Refusals == {i \in 1 .. Len(calls) : RefusalOf(calls[i]) # Fine}

FirstRefusal == RefusalOf(calls[CHOOSE i \in Refusals : \A j \in Refusals : i <= j])

\* Does every comparison of a filter have a field and an operator.
Sound[d \in 0 .. Nesting] ==
  [f \in Filter[d] |->
     IF f[1] = "compare" THEN f[2] > 0 /\ f[3] \in 0 .. 5
     ELSE Sound[d - 1][f[2]] /\ Sound[d - 1][f[3]]]

\* Is there nothing in the statement that is refused when it is rendered.
Whole ==
  /\ Meant.kind \in {"CREATE", "CREATE_IN", "UPDATE"} => Meant.set # {}
  /\ Meant.filter # Absent => Sound[Nesting][Meant.filter[1]]
  /\ \A i \in 1 .. Len(Meant.order) : Meant.order[i][2] \in {0, 1}

-----------------------------------------------------------------------------
(***************************************************************************)
(* What a node reads in the text (external): from left to right, each      *)
(* clause in its one place, AND and OR as the parentheses say.             *)
(***************************************************************************)
\* The tokens, with what their references refer to.
Referred(text, bound) ==
  [i \in 1 .. Len(text) |->
     IF text[i][1] = "$" /\ text[i][2] \in 0 .. Len(bound) - 1
       THEN <<"value", bound[text[i][2] + 1]>> ELSE text[i]]

At(ts, i) == IF i \in 1 .. Len(ts) THEN ts[i] ELSE <<"end", "">>

IsWord(ts, i, w) == At(ts, i) = <<"word", w>>

\* The place of a word in a list, from zero.
PlaceOf(words, w) ==
  IF \A i \in 1 .. Len(words) : words[i] # w THEN -1
  ELSE CHOOSE i \in 0 .. Len(words) - 1 : words[i + 1] = w

\* How many items of k tokens stand at place i, with commas between.
Count(ts, i, k) ==
  CHOOSE n \in 1 .. Len(ts) + 1 :
    /\ ~IsWord(ts, i + n * (k + 1) - 1, "comma")
    /\ \A m \in 1 .. n - 1 : IsWord(ts, i + m * (k + 1) - 1, "comma")

\* A comparison at place i, and the place behind it.
readComparison(ts, i) ==
  [given |-> <<"compare", At(ts, i)[2], PlaceOf(Symbols, At(ts, i + 1)[2]), At(ts, i + 2)[2]>>,
   next |-> i + 3]

\* The same for a parenthesis, given what is read at every place inside it.
readJunction(ts, i, inner) ==
  LET l == inner[i + 1]
      r == inner[l.next + 1]
  IN  [given |-> <<At(ts, l.next)[2], l.given, r.given>>, next |-> r.next + 1]

readFilter(ts) ==
  LET read[d \in 0 .. Nesting] ==
        [i \in Nat |-> IF d # 0 /\ IsWord(ts, i, "(") THEN readJunction(ts, i, read[d - 1])
                       ELSE readComparison(ts, i)]
  IN  read[Nesting]

\* A clause that may be there: what it gives, and the place behind it.
Missing(i) == [given |-> Absent, next |-> i]

readClause(ts, i, w) ==
  IF IsWord(ts, i, w) THEN [given |-> <<At(ts, i + 1)>>, next |-> i + 2] ELSE Missing(i)

readWhere(ts, i) ==
  IF IsWord(ts, i, "WHERE")
    THEN LET f == readFilter(ts)[i + 1] IN [given |-> <<f.given>>, next |-> f.next]
    ELSE Missing(i)

readOrder(ts, i) ==
  LET n == Count(ts, i + 1, 2)
  IN  IF IsWord(ts, i, "ORDER")
        THEN [given |-> [m \in 1 .. n |-> <<At(ts, i + 3 * m - 2)[2],
                                            PlaceOf(DirectionWords, At(ts, i + 3 * m - 1)[2])>>],
              next |-> i + 3 * n]
        ELSE Missing(i)

\* The projection at place 2.
readItems(ts) ==
  LET n == Count(ts, 2, 1)
  IN  IF IsWord(ts, 2, "*") THEN [given |-> <<>>, next |-> 3]
      ELSE [given |-> [m \in 1 .. n |-> At(ts, 2 * m)], next |-> 2 * n + 1]

\* The fields at place i, each a name, a sign and a value.
readFields(ts, i, sign) ==
  LET n == Count(ts, i, 3)
  IN  [given |-> [m \in 1 .. n |->
                    IF IsWord(ts, i + 4 * m - 3, sign)
                      THEN <<At(ts, i + 4 * m - 4), At(ts, i + 4 * m - 2)>> ELSE <<>>],
       next |-> i + 4 * n - 1]

Unreadable == [kind |-> "unreadable", set |-> <<>>]

\* Is a semicolon at place i, and nothing behind it.
Ends(ts, i) == i = Len(ts) /\ IsWord(ts, i, "semicolon")

Reading(kind, table, id) ==
  [kind |-> kind, table |-> table, id |-> id, items |-> <<>>, filter |-> Absent, order |-> <<>>,
   start |-> Absent, limit |-> Absent, staleness |-> Absent, answeredBy |-> Absent, set |-> <<>>]

readSelect(ts) ==
  LET items      == readItems(ts)
      where      == readWhere(ts, items.next + 2)
      order      == readOrder(ts, where.next)
      start      == readClause(ts, order.next, "START")
      limit      == readClause(ts, start.next, "LIMIT")
      staleness  == readClause(ts, limit.next, "STALENESS")
      answeredBy == readClause(ts, staleness.next, "ANSWERED")
  IN  IF IsWord(ts, items.next, "FROM") /\ Ends(ts, answeredBy.next)
        THEN [Reading("SELECT", At(ts, items.next + 1), Absent) EXCEPT
                !.items = items.given, !.filter = where.given, !.order = order.given,
                !.start = start.given, !.limit = limit.given,
                !.staleness = staleness.given, !.answeredBy = answeredBy.given]
        ELSE Unreadable

readWrite(ts) ==
  LET verb   == At(ts, 1)[2]
      id     == readClause(ts, 3, ":")
      i      == id.next
      head   == Reading(IF verb = "CREATE" /\ id.given = Absent THEN "CREATE_IN" ELSE verb,
                        At(ts, 2), id.given)
      object == readFields(ts, i + 2, ":")
      fields == readFields(ts, i + 1, "=")
  IN  CASE verb = "DELETE" /\ Ends(ts, i) -> head
        [] verb = "CREATE" /\ IsWord(ts, i, "=") /\ IsWord(ts, i + 1, "lbrace")
             /\ IsWord(ts, object.next, "rbrace") /\ Ends(ts, object.next + 1) ->
             [head EXCEPT !.set = object.given]
        [] verb = "UPDATE" /\ IsWord(ts, i, "SET") /\ Ends(ts, fields.next) ->
             [head EXCEPT !.set = fields.given]
        [] OTHER -> Unreadable

ReadByNode(ts) == IF IsWord(ts, 1, "SELECT") THEN readSelect(ts) ELSE readWrite(ts)

\* The references of a text count up from zero, one for every value bound.
CountsUp(text, bound) ==
  LET references == {i \in 1 .. Len(text) : text[i][1] = "$"}
  IN  /\ {text[i][2] : i \in references} = 0 .. Len(bound) - 1
      /\ \A i, j \in references : i < j => text[i][2] < text[j][2]

-----------------------------------------------------------------------------
(***************************************************************************)
(* Render answers the first refusal of the calls, or a text in which a     *)
(* node reads what was asked for and nothing else, whatever was set again, *)
(* replaced or given before: no string that is not a name, a span or an    *)
(* answerer, no value but by a reference, references that count up from    *)
(* zero as the text goes, and fields in the order of their names, whatever *)
(* the order they were set in.                                             *)
(***************************************************************************)
RendersWhatWasAsked ==
  out # Nothing =>
    IF Refusals # {} THEN out = Refused(FirstRefusal)
    ELSE IF ~Whole THEN out.err # Fine /\ out = Refused(out.err)
    ELSE LET read == ReadByNode(Referred(out.text, out.bound))
         IN  /\ out.err = Fine
             /\ [read EXCEPT !.set = ToSet(@)] = Meant
             /\ \A i, j \in DOMAIN read.set : i < j => read.set[i][1][2] < read.set[j][1][2]
             /\ CountsUp(out.text, out.bound)
=============================================================================
