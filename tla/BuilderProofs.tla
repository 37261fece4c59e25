----------------------------- MODULE BuilderProofs -----------------------------
(***************************************************************************)
(* What the builder promises, proved for statements gathered by any number *)
(* of calls, filters of any nesting and spans of any length.               *)
(***************************************************************************)
EXTENDS Builder, FiniteSetTheorems, SequenceTheorems, TLAPS

-----------------------------------------------------------------------------
(***************************************************************************)
(* Induction, over a set where a rule would take a predicate.              *)
(***************************************************************************)
\* A set that holds zero and every successor holds every number: the numbers up
\* to one it misses would fit, each moved up by one, into one place less.
LEMMA SetInduction ==
  ASSUME NEW S, 0 \in S, \A n \in Nat : n \in S => n + 1 \in S
  PROVE  Nat \subseteq S
  <1> SUFFICES ASSUME NEW n \in Nat, n \notin S PROVE FALSE
    OBVIOUS
  <1> DEFINE F == {i \in 0 .. n : i \in S}
             f == [i \in F |-> i + 1]
  <1>1. 0 \in F /\ F \in SUBSET (0 .. n)
    OBVIOUS
  <1>2. f \in [F -> F \ {0}]
    <2> SUFFICES ASSUME NEW i \in F PROVE i + 1 \in F \ {0}
      OBVIOUS
    <2>1. i \in 0 .. n /\ i \in S /\ i # n
      OBVIOUS
    <2> QED BY <2>1
  <1>3. \A x, y \in F : f[x] = f[y] => x = y
    OBVIOUS
  <1> HIDE DEF F, f
  <1>4. IsFiniteSet(F)
    <2>1. IsFiniteSet(0 .. n)
      BY FS_Interval
    <2> QED BY <2>1, <1>1, FS_Subset
  <1>5. IsFiniteSet(F \ {0}) /\ Cardinality(F \ {0}) < Cardinality(F)
    <2>1. Cardinality(F) \in Nat
      BY <1>4, FS_CardinalityType
    <2>2. IsFiniteSet(F \ {0}) /\ Cardinality(F \ {0}) = Cardinality(F) - 1
      BY <1>1, <1>4, FS_RemoveElement
    <2> QED BY <2>1, <2>2
  <1>6. \E x, y \in F : x # y /\ f[x] = f[y]
    BY <1>2, <1>4, <1>5, FS_PigeonHole
  <1> QED BY <1>3, <1>6

\* A set of numbers that has one has a first one.
LEMMA FirstOne ==
  ASSUME NEW S \in SUBSET Nat, NEW m \in S
  PROVE  \E n \in S : \A i \in S : n <= i
  <1> DEFINE N == {n \in Nat : (\A i \in S : n <= i) \/ \E k \in S : \A i \in S : k <= i}
  <1>1. 0 \in N
    OBVIOUS
  <1>2. ASSUME NEW n \in Nat, n \in N PROVE n + 1 \in N
    <2>1. CASE \E k \in S : \A i \in S : k <= i
      BY <2>1
    <2>2. CASE \A i \in S : n <= i
      <3>1. CASE n \in S
        BY <2>2, <3>1
      <3>2. CASE n \notin S
        <4>1. \A i \in S : n + 1 <= i
          BY <2>2, <3>2
        <4> QED BY <4>1
      <3> QED BY <3>1, <3>2
    <2> QED BY <1>2, <2>1, <2>2
  <1> HIDE DEF N
  <1>3. m + 1 \in N
    BY <1>1, <1>2, SetInduction
  <1> QED BY <1>3 DEF N

-----------------------------------------------------------------------------
(***************************************************************************)
(* Sequences joined (FlattenSeq).                                          *)
(***************************************************************************)
\* The sequences of ws joined up to each of the first n.
IsJoined(f, ws, n) == f = [i \in 1 .. n |-> IF i = 1 THEN ws[i] ELSE f[i - 1] \o ws[i]]

\* Sequences joined one after the other exist, for as many of them as there
\* are.
LEMMA JoinedExists == ASSUME NEW ws PROVE \A n \in Nat : \E f : IsJoined(f, ws, n)
  <1> DEFINE S == {n \in Nat : \E f : IsJoined(f, ws, n)}
  <1>1. 0 \in S
    <2> DEFINE f == [i \in 1 .. 0 |-> <<>>]
    <2>1. IsJoined(f, ws, 0)
      BY DEF IsJoined
    <2> QED BY <2>1
  <1>2. ASSUME NEW n \in Nat, n \in S PROVE n + 1 \in S
    <2>1. PICK f : IsJoined(f, ws, n)
      BY <1>2
    <2> DEFINE g == [i \in 1 .. n + 1 |->
                       IF i = n + 1 THEN (IF i = 1 THEN ws[i] ELSE f[n] \o ws[i]) ELSE f[i]]
    <2>2. ASSUME NEW i \in 1 .. n + 1
          PROVE  g[i] = IF i = 1 THEN ws[i] ELSE g[i - 1] \o ws[i]
      <3>1. CASE i = n + 1
        <4>1. i # 1 => g[i - 1] = f[n]
          BY <3>1
        <4> QED BY <3>1, <4>1
      <3>2. CASE i # n + 1
        <4>1. g[i] = f[i] /\ i \in 1 .. n
          BY <3>2
        <4>2. i # 1 => g[i - 1] = f[i - 1]
          BY <3>2
        <4> HIDE DEF g
        <4> QED BY <2>1, <4>1, <4>2 DEF IsJoined
      <3> QED BY <3>1, <3>2
    <2>3. IsJoined(g, ws, n + 1)
      BY <2>2 DEF IsJoined
    <2>4. n + 1 \in Nat
      OBVIOUS
    <2> HIDE DEF g
    <2> QED BY <2>3, <2>4
  <1> HIDE DEF S
  <1>3. Nat \subseteq S
    BY <1>1, <1>2, SetInduction
  <1> QED BY <1>3 DEF S

\* The join of sequences is what the module's own definition makes of them.
LEMMA FlattenIs ==
  ASSUME NEW ws, Len(ws) \in Nat, Len(ws) # 0
  PROVE  \E f : IsJoined(f, ws, Len(ws)) /\ FlattenSeq(ws) = f[Len(ws)]
  <1>1. \E f : f = [i \in 1 .. Len(ws) |-> IF i = 1 THEN ws[i] ELSE f[i - 1] \o ws[i]]
    BY JoinedExists DEF IsJoined
  <1> QED BY <1>1, Zenon DEF FlattenSeq, IsJoined

\* Two sequences are the same up to m.
Agree(q, t, m) == \A i \in 1 .. m : q[i] = t[i]

\* What is joined up to a place depends on no more than what stands up to it.
LEMMA JoinedSame ==
  ASSUME NEW ws, NEW vs, NEW m \in Nat, NEW n \in Nat, m <= n, Agree(ws, vs, m),
         NEW f, IsJoined(f, ws, m), NEW g, IsJoined(g, vs, n)
  PROVE  Agree(f, g, m)
  <1> DEFINE S == {k \in Nat : k + 1 \in 1 .. m => f[k + 1] = g[k + 1]}
  <1>1. 0 \in S
    BY DEF IsJoined, Agree
  <1>2. ASSUME NEW k \in Nat, k \in S PROVE k + 1 \in S
    <2>1. SUFFICES ASSUME NEW i \in 1 .. m, i = k + 1 + 1 PROVE f[i] = g[i]
      OBVIOUS
    <2>2. i \in 1 .. n /\ i # 1 /\ i - 1 = k + 1 /\ i - 1 \in 1 .. m
      BY <2>1
    <2>3. f[i] = f[i - 1] \o ws[i]
      BY <2>2 DEF IsJoined
    <2>4. g[i] = g[i - 1] \o vs[i]
      BY <2>2 DEF IsJoined, Agree
    <2>5. f[i - 1] = g[i - 1]
      BY <1>2, <2>2
    <2>6. ws[i] = vs[i]
      BY <2>1 DEF Agree
    <2> QED BY <2>3, <2>4, <2>5, <2>6
  <1> HIDE DEF S
  <1>3. Nat \subseteq S
    BY <1>1, <1>2, SetInduction
  <1>4. ASSUME NEW i \in 1 .. m PROVE f[i] = g[i]
    <2>1. i - 1 \in S /\ i - 1 + 1 = i
      BY <1>3
    <2> QED BY <2>1 DEF S
  <1> QED BY <1>4 DEF Agree

\* No sequences join to the empty one.
LEMMA FlattenEmpty == FlattenSeq(<<>>) = <<>>
  BY EmptySeq DEF FlattenSeq

\* One sequence more is joined at the end.
LEMMA FlattenAppend ==
  ASSUME NEW S, NEW ws \in Seq(Seq(S)), NEW w \in Seq(S)
  PROVE  FlattenSeq(Append(ws, w)) = FlattenSeq(ws) \o w
  <1>1. PICK vs : vs = Append(ws, w)
    OBVIOUS
  <1>2. PICK n \in Nat : n = Len(ws)
    BY LenProperties
  <1>3. PICK k \in Nat : k = n + 1
    OBVIOUS
  <1>4. /\ Len(vs) = k /\ k # 0 /\ vs[k] = w
        /\ \A i \in 1 .. n : vs[i] = ws[i]
    BY <1>1, <1>2, <1>3, AppendProperties
  <1>5. PICK g : IsJoined(g, vs, k) /\ FlattenSeq(vs) = g[k]
    BY <1>4, FlattenIs
  <1>6. g[k] = IF k = 1 THEN vs[k] ELSE g[k - 1] \o vs[k]
    <2>1. k \in 1 .. k
      BY <1>4
    <2> QED BY <1>5, <2>1 DEF IsJoined
  <1>7. CASE n = 0
    <2>1. ws = <<>>
      BY <1>2, <1>7, EmptySeq
    <2>2. FlattenSeq(vs) = w
      BY <1>3, <1>4, <1>5, <1>6, <1>7
    <2>3. FlattenSeq(ws) \o w = w
      BY <2>1, FlattenEmpty, ConcatEmptySeq
    <2> QED BY <1>1, <2>2, <2>3
  <1>8. CASE n # 0
    <2>1. PICK f : IsJoined(f, ws, n) /\ FlattenSeq(ws) = f[n]
      BY <1>2, <1>8, FlattenIs
    <2>2. f[n] = g[n]
      <3>1. n <= k /\ Agree(ws, vs, n)
        BY <1>3, <1>4 DEF Agree
      <3>2. Agree(f, g, n)
        BY <1>5, <2>1, <3>1, JoinedSame
      <3> QED BY <1>8, <3>2 DEF Agree
    <2>3. g[k] = g[n] \o w
      <3>1. k # 1 /\ k - 1 = n
        BY <1>3, <1>8
      <3> QED BY <1>4, <1>6, <3>1
    <2> QED BY <1>1, <1>5, <2>1, <2>2, <2>3
  <1> QED BY <1>7, <1>8

-----------------------------------------------------------------------------
(***************************************************************************)
(* Pieces: what they are, and where those of a statement stand.            *)
(***************************************************************************)
Words ==
  {"SELECT", "*", "comma", "FROM", "WHERE", "(", ")", "AND", "OR", "=", "!=", "<", "<=", ">", ">=",
   "ORDER", "ASC", "DESC", "START", "LIMIT", "STALENESS", "ANSWERED", "semicolon",
   "CREATE", "UPDATE", "DELETE", ":", "lbrace", "rbrace", "SET"}

Whys ==
  ({"not-a-name"} \X {"table", "field"} \X Int) \cup ({"operator", "direction"} \X Int) \cup {<<"incomplete">>}

Plain ==
  ({"word"} \X Words) \cup ({"name"} \X Int) \cup ({"lines"} \X Int \X Int \X Int)
    \cup ({"number"} \X Int) \cup ({"span"} \X Seq(STRING)) \cup ({"answerer"} \X {"ANY", "LEADER"})

Pieces == Plain \cup ({"value"} \X Values) \cup ({"refused"} \X Whys)

Tokens == Plain \cup ({"$"} \X Nat)

\* A piece is a token as it is, a value, or a refusal.
LEMMA PieceKinds ==
  ASSUME NEW p \in Pieces
  PROVE  \/ p \in Plain /\ p[1] \notin {"value", "refused", "$"}
         \/ p[1] = "value" /\ p[2] \in Values /\ p = <<"value", p[2]>>
         \/ p[1] = "refused" /\ p[2] \in Whys
  BY DEF Pieces, Plain

LEMMA WhysAreNotFine == Fine \notin Whys
  BY DEF Fine, Whys

HasRefused(w) == \E j \in 1 .. Len(w) : w[j][1] = "refused"

\* The pieces w stand at place i of the tokens.
Stands(w, i, ts) == \A j \in 1 .. Len(w) : i + j - 1 \in 1 .. Len(ts) /\ ts[i + j - 1] = w[j]

LEMMA JoinStands ==
  ASSUME NEW u \in Seq(Pieces), NEW w \in Seq(Pieces), NEW i \in Nat, NEW ts,
         Stands(u \o w, i, ts)
  PROVE  Stands(u, i, ts) /\ Stands(w, i + Len(u), ts)
  <1>1. /\ Len(u \o w) = Len(u) + Len(w) /\ Len(u) \in Nat /\ Len(w) \in Nat
        /\ \A j \in 1 .. Len(u) + Len(w) :
             (u \o w)[j] = IF j <= Len(u) THEN u[j] ELSE w[j - Len(u)]
    BY ConcatProperties, LenProperties
  <1>2. ASSUME NEW j \in 1 .. Len(u)
        PROVE  i + j - 1 \in 1 .. Len(ts) /\ ts[i + j - 1] = u[j]
    <2>1. j \in 1 .. Len(u \o w) /\ (u \o w)[j] = u[j]
      BY <1>1
    <2> QED BY <2>1 DEF Stands
  <1>3. ASSUME NEW j \in 1 .. Len(w)
        PROVE  i + Len(u) + j - 1 \in 1 .. Len(ts) /\ ts[i + Len(u) + j - 1] = w[j]
    <2>1. Len(u) + j \in 1 .. Len(u \o w) /\ (u \o w)[Len(u) + j] = w[j]
      BY <1>1
    <2>2. i + (Len(u) + j) - 1 \in 1 .. Len(ts) /\ ts[i + (Len(u) + j) - 1] = w[j]
      BY <2>1 DEF Stands
    <2>3. i + (Len(u) + j) - 1 = i + Len(u) + j - 1
      BY <1>1
    <2> QED BY <2>2, <2>3
  <1> QED BY <1>2, <1>3 DEF Stands

LEMMA JoinRefused ==
  ASSUME NEW u \in Seq(Pieces), NEW w \in Seq(Pieces)
  PROVE  HasRefused(u \o w) <=> HasRefused(u) \/ HasRefused(w)
  <1>1. /\ Len(u \o w) = Len(u) + Len(w) /\ Len(u) \in Nat /\ Len(w) \in Nat
        /\ \A j \in 1 .. Len(u) + Len(w) :
             (u \o w)[j] = IF j <= Len(u) THEN u[j] ELSE w[j - Len(u)]
    BY ConcatProperties, LenProperties
  <1>2. ASSUME NEW j \in 1 .. Len(u), u[j][1] = "refused" PROVE HasRefused(u \o w)
    <2>1. j \in 1 .. Len(u \o w) /\ (u \o w)[j] = u[j]
      BY <1>1
    <2> QED BY <1>2, <2>1 DEF HasRefused
  <1>3. ASSUME NEW j \in 1 .. Len(w), w[j][1] = "refused" PROVE HasRefused(u \o w)
    <2>1. Len(u) + j \in 1 .. Len(u \o w) /\ (u \o w)[Len(u) + j] = w[j]
      BY <1>1
    <2> QED BY <1>3, <2>1 DEF HasRefused
  <1>4. ASSUME NEW j \in 1 .. Len(u \o w), (u \o w)[j][1] = "refused"
        PROVE  HasRefused(u) \/ HasRefused(w)
    <2>1. CASE j <= Len(u)
      BY <1>1, <1>4, <2>1 DEF HasRefused
    <2>2. CASE ~(j <= Len(u))
      <3>1. j - Len(u) \in 1 .. Len(w) /\ (u \o w)[j] = w[j - Len(u)]
        BY <1>1, <2>2
      <3> QED BY <1>4, <3>1 DEF HasRefused
    <2> QED BY <2>1, <2>2
  <1> QED BY <1>2, <1>3, <1>4 DEF HasRefused

\* One piece.
LEMMA OnePiece ==
  ASSUME NEW p \in Pieces
  PROVE  /\ <<p>> \in Seq(Pieces) /\ Len(<<p>>) = 1 /\ <<p>>[1] = p
         /\ HasRefused(<<p>>) <=> p[1] = "refused"
         /\ \A i \in Nat : \A ts : Stands(<<p>>, i, ts) => i \in 1 .. Len(ts) /\ ts[i] = p
  <1>1. <<p>> \in Seq(Pieces) /\ Len(<<p>>) = 1 /\ <<p>>[1] = p
    OBVIOUS
  <1>2. HasRefused(<<p>>) <=> p[1] = "refused"
    BY <1>1 DEF HasRefused
  <1>3. ASSUME NEW i \in Nat, NEW ts, Stands(<<p>>, i, ts)
        PROVE  i \in 1 .. Len(ts) /\ ts[i] = p
    <2>1. 1 \in 1 .. Len(<<p>>) /\ i + 1 - 1 = i
      BY <1>1
    <2> QED BY <1>1, <1>3, <2>1 DEF Stands
  <1> QED BY <1>1, <1>2, <1>3

LEMMA NoPiece == <<>> \in Seq(Pieces) /\ Len(<<>>) = 0 /\ ~HasRefused(<<>>)
  BY EmptySeq DEF HasRefused

LEMMA WordPiece ==
  ASSUME NEW w \in Words
  PROVE  <<"word", w>> \in Pieces /\ <<"word", w>>[1] = "word"
  BY DEF Pieces, Plain

LEMMA NamePiece ==
  ASSUME NEW n \in Int
  PROVE  <<"name", n>> \in Pieces /\ <<"name", n>>[1] = "name"
  BY DEF Pieces, Plain

LEMMA ValuePiece ==
  ASSUME NEW v \in Values
  PROVE  <<"value", v>> \in Pieces /\ <<"value", v>>[1] = "value"
  BY DEF Pieces

LEMMA RefusedPiece ==
  ASSUME NEW why \in Whys
  PROVE  <<"refused", why>> \in Pieces /\ <<"refused", why>>[1] = "refused"
  BY DEF Pieces

-----------------------------------------------------------------------------
(***************************************************************************)
(* What has been written when some of the pieces have.                     *)
(***************************************************************************)
WrittenAt(i, r, p) == IF i = 0 THEN Nothing ELSE write(r, p[i])

IsWritten(f, n, p) == f = [i \in 0 .. n |-> WrittenAt(i, f[i - 1], p)]

LEMMA WrittenZero == \A a, b, p : WrittenAt(0, a, p) = WrittenAt(0, b, p)
  BY DEF WrittenAt

\* What is written of the first pieces exists, for as many of them as there are.
LEMMA WrittenExists ==
  ASSUME NEW p
  PROVE  \A n \in Nat : \E f : IsWritten(f, n, p)
  <1> DEFINE S == {n \in Nat : \E f : IsWritten(f, n, p)}
  <1>1. 0 \in S
    <2> DEFINE f == [d \in 0 .. 0 |-> WrittenAt(0, 0, p)]
    <2>1. ASSUME NEW d \in 0 .. 0 PROVE WrittenAt(0, 0, p) = WrittenAt(d, f[d - 1], p)
      BY WrittenZero
    <2>2. IsWritten(f, 0, p)
      BY <2>1 DEF IsWritten
    <2> QED BY <2>2
  <1>2. ASSUME NEW n \in Nat, n \in S PROVE n + 1 \in S
    <2>1. PICK f : IsWritten(f, n, p)
      BY <1>2
    <2> DEFINE g == [d \in 0 .. n + 1 |-> IF d = n + 1 THEN WrittenAt(n + 1, f[n], p) ELSE f[d]]
    <2>2. ASSUME NEW d \in 0 .. n + 1 PROVE g[d] = WrittenAt(d, g[d - 1], p)
      <3>1. CASE d = n + 1
        <4>1. g[d - 1] = f[n] /\ g[d] = WrittenAt(n + 1, f[n], p)
          BY <3>1
        <4> HIDE DEF g
        <4> QED BY <3>1, <4>1
      <3>2. CASE d # n + 1
        <4>1. g[d] = f[d] /\ d \in 0 .. n
          BY <3>2
        <4>2. f[d] = WrittenAt(d, f[d - 1], p)
          BY <2>1, <4>1 DEF IsWritten
        <4>3. d # 0 => g[d - 1] = f[d - 1]
          BY <3>2
        <4> HIDE DEF g
        <4>4. CASE d = 0
          <5>1. WrittenAt(0, f[d - 1], p) = WrittenAt(0, g[d - 1], p)
            BY WrittenZero
          <5> QED BY <4>1, <4>2, <4>4, <5>1
        <4> QED BY <4>1, <4>2, <4>3, <4>4
      <3> QED BY <3>1, <3>2
    <2>3. IsWritten(g, n + 1, p)
      BY <2>2 DEF IsWritten
    <2>4. n + 1 \in Nat
      OBVIOUS
    <2> HIDE DEF g
    <2> QED BY <2>3, <2>4
  <1> HIDE DEF S
  <1>3. Nat \subseteq S
    BY <1>1, <1>2, SetInduction
  <1> QED BY <1>3 DEF S

LEMMA WrittenIs ==
  ASSUME NEW p, Len(p) \in Nat
  PROVE  \E f : IsWritten(f, Len(p), p) /\ Written(p) = f[Len(p)]
  <1>1. \E f : f = [i \in 0 .. Len(p) |-> IF i = 0 THEN Nothing ELSE write(f[i - 1], p[i])]
    BY WrittenExists DEF IsWritten, WrittenAt
  <1> QED BY <1>1, Zenon DEF Written, IsWritten, WrittenAt

\* Without a refusal the text is the pieces, a reference for each value.
IsToken(t, bound, piece) ==
  IF piece[1] = "value"
    THEN t[1] = "$" /\ t[2] \in 0 .. Len(bound) - 1 /\ bound[t[2] + 1] = piece[2]
    ELSE t = piece /\ t[1] # "$"

IsText(r, p, k) ==
  /\ r = [err |-> Fine, text |-> r.text, bound |-> r.bound]
  /\ r.text \in Seq(Tokens) /\ Len(r.text) = k /\ r.bound \in Seq(Values)
  /\ \A i \in 1 .. k : IsToken(r.text[i], r.bound, p[i])
  /\ CountsUp(r.text, r.bound)

LEMMA TextOfNothing == ASSUME NEW p PROVE IsText(Nothing, p, 0)
  <1>1. Nothing.text = <<>> /\ Nothing.bound = <<>> /\ Len(<<>>) = 0
    BY EmptySeq DEF Nothing
  <1>2. CountsUp(<<>>, <<>>)
    BY <1>1 DEF CountsUp
  <1>3. <<>> \in Seq(Tokens) /\ <<>> \in Seq(Values)
    BY EmptySeq
  <1> QED BY <1>1, <1>2, <1>3 DEF IsText, Nothing

\* A token more, that is no reference.
LEMMA PlainText ==
  ASSUME NEW p, NEW k \in Nat, NEW r, IsText(r, p, k), p[k + 1] \in Plain
  PROVE  IsText(write(r, p[k + 1]), p, k + 1)
  <1>1. PICK q : q = p[k + 1]
    OBVIOUS
  <1>2. q \in Plain /\ q[1] \notin {"value", "refused", "$"} /\ q \in Tokens
    <2>1. q \in Pieces /\ q \in Tokens
      BY <1>1 DEF Pieces, Tokens
    <2> QED BY <1>1, <2>1 DEF Plain
  <1>3. PICK text, bound : text = r.text /\ bound = r.bound
    OBVIOUS
  <1>4. write(r, q) = [err |-> Fine, text |-> Append(text, q), bound |-> bound]
    <2>1. r = [err |-> Fine, text |-> text, bound |-> bound]
      BY <1>3 DEF IsText
    <2>2. write(r, q) = [r EXCEPT !.text = Append(@, q)]
      BY <1>2, <2>1 DEF write
    <2> QED BY <2>1, <2>2
  <1>5. /\ text \in Seq(Tokens) /\ Len(text) = k /\ bound \in Seq(Values)
        /\ \A i \in 1 .. k : IsToken(text[i], bound, p[i])
        /\ CountsUp(text, bound)
    BY <1>3 DEF IsText
  <1>6. PICK more : more = Append(text, q)
    OBVIOUS
  <1>7. /\ more \in Seq(Tokens) /\ Len(more) = k + 1
        /\ \A i \in 1 .. k : more[i] = text[i]
        /\ more[k + 1] = q
    BY <1>2, <1>5, <1>6, AppendProperties
  <1>8. \A i \in 1 .. k + 1 : IsToken(more[i], bound, p[i])
    <2>1. IsToken(more[k + 1], bound, p[k + 1])
      BY <1>1, <1>2, <1>7 DEF IsToken
    <2>2. \A i \in 1 .. k : IsToken(more[i], bound, p[i])
      BY <1>5, <1>7
    <2> QED BY <2>1, <2>2
  <1>9. CountsUp(more, bound)
    <2>1. {i \in 1 .. Len(more) : more[i][1] = "$"} = {i \in 1 .. Len(text) : text[i][1] = "$"}
      BY <1>2, <1>5, <1>7
    <2>2. \A i \in {i \in 1 .. Len(text) : text[i][1] = "$"} : more[i] = text[i]
      BY <1>5, <1>7
    <2>3. PICK R : R = {i \in 1 .. Len(text) : text[i][1] = "$"}
      OBVIOUS
    <2>4. /\ {text[i][2] : i \in R} = 0 .. Len(bound) - 1
          /\ \A i, j \in R : i < j => text[i][2] < text[j][2]
      BY <1>5, <2>3 DEF CountsUp
    <2>5. {more[i][2] : i \in R} = {text[i][2] : i \in R}
      BY <2>2, <2>3
    <2>6. \A i, j \in R : i < j => more[i][2] < more[j][2]
      BY <2>2, <2>3, <2>4
    <2> QED BY <2>1, <2>3, <2>4, <2>5, <2>6 DEF CountsUp
  <1> QED BY <1>1, <1>4, <1>5, <1>6, <1>7, <1>8, <1>9 DEF IsText

\* A value more.
LEMMA BoundText ==
  ASSUME NEW p, NEW k \in Nat, NEW r, IsText(r, p, k), NEW v \in Values, p[k + 1] = <<"value", v>>
  PROVE  IsText(write(r, p[k + 1]), p, k + 1)
  <1>1. PICK text, bound : text = r.text /\ bound = r.bound
    OBVIOUS
  <1>2. PICK n \in Nat : n = Len(bound)
    <2>1. bound \in Seq(Values)
      BY <1>1 DEF IsText
    <2> QED BY <2>1, LenProperties
  <1>3. PICK t : t = <<"$", n>>
    OBVIOUS
  <1>4. t[1] = "$" /\ t[2] = n /\ t \in Tokens
    BY <1>3 DEF Tokens
  <1>5. write(r, p[k + 1]) = [err |-> Fine, text |-> Append(text, t), bound |-> Append(bound, v)]
    <2>1. r = [err |-> Fine, text |-> text, bound |-> bound]
      BY <1>1 DEF IsText
    <2>2. write(r, p[k + 1]) = bind(r, v)
      BY <2>1 DEF write
    <2> QED BY <1>2, <1>3, <2>1, <2>2 DEF bind
  <1>6. /\ text \in Seq(Tokens) /\ Len(text) = k /\ bound \in Seq(Values)
        /\ \A i \in 1 .. k : IsToken(text[i], bound, p[i])
        /\ CountsUp(text, bound)
    BY <1>1 DEF IsText
  <1>7. PICK more : more = Append(text, t)
    OBVIOUS
  <1>8. PICK given : given = Append(bound, v)
    OBVIOUS
  <1>9. /\ more \in Seq(Tokens) /\ Len(more) = k + 1
        /\ \A i \in 1 .. k : more[i] = text[i]
        /\ more[k + 1] = t
    BY <1>4, <1>6, <1>7, AppendProperties
  <1>10. /\ given \in Seq(Values) /\ Len(given) = n + 1
         /\ \A i \in 1 .. n : given[i] = bound[i]
         /\ given[n + 1] = v
    BY <1>2, <1>6, <1>8, AppendProperties
  <1>11. \A i \in 1 .. k + 1 : IsToken(more[i], given, p[i])
    <2>1. IsToken(more[k + 1], given, p[k + 1])
      BY <1>4, <1>9, <1>10 DEF IsToken
    <2>2. ASSUME NEW i \in 1 .. k PROVE IsToken(more[i], given, p[i])
      <3>1. IsToken(text[i], bound, p[i]) /\ more[i] = text[i]
        BY <1>6, <1>9
      <3>2. CASE p[i][1] = "value"
        <4>1. text[i][1] = "$" /\ text[i][2] \in 0 .. n - 1 /\ bound[text[i][2] + 1] = p[i][2]
          BY <1>2, <3>1, <3>2 DEF IsToken
        <4>2. PICK m \in 0 .. n - 1 : m = text[i][2]
          BY <4>1
        <4>3. given[m + 1] = bound[m + 1] /\ m \in 0 .. Len(given) - 1
          BY <1>10
        <4> QED BY <3>1, <3>2, <4>1, <4>2, <4>3 DEF IsToken
      <3>3. CASE p[i][1] # "value"
        BY <3>1, <3>3 DEF IsToken
      <3> QED BY <3>2, <3>3
    <2> QED BY <2>1, <2>2
  <1>12. CountsUp(more, given)
    <2>1. PICK R : R = {i \in 1 .. Len(text) : text[i][1] = "$"}
      OBVIOUS
    <2>2. R \subseteq 1 .. k
      BY <1>6, <2>1
    <2>3. /\ {text[i][2] : i \in R} = 0 .. n - 1
          /\ \A i, j \in R : i < j => text[i][2] < text[j][2]
      BY <1>2, <1>6, <2>1 DEF CountsUp
    <2>4. {i \in 1 .. Len(more) : more[i][1] = "$"} = R \cup {k + 1}
      BY <1>4, <1>6, <1>9, <2>1
    <2>5. {more[i][2] : i \in R \cup {k + 1}} = 0 .. Len(given) - 1
      <3>1. {more[i][2] : i \in R \cup {k + 1}} = {more[i][2] : i \in R} \cup {more[k + 1][2]}
        OBVIOUS
      <3>2. {more[i][2] : i \in R} = {text[i][2] : i \in R}
        BY <1>9, <2>2
      <3>3. more[k + 1][2] = n
        BY <1>4, <1>9
      <3>4. 0 .. Len(given) - 1 = (0 .. n - 1) \cup {n}
        BY <1>10
      <3> QED BY <2>3, <3>1, <3>2, <3>3, <3>4
    <2>6. ASSUME NEW i \in R \cup {k + 1}, NEW j \in R \cup {k + 1}, i < j
          PROVE  more[i][2] < more[j][2]
      <3>1. i \in R /\ more[i][2] = text[i][2]
        BY <1>9, <2>2, <2>6
      <3>2. CASE j \in R
        BY <1>9, <2>2, <2>3, <2>6, <3>1, <3>2
      <3>3. CASE j = k + 1
        <4>1. text[i][2] \in 0 .. n - 1
          BY <2>3, <3>1
        <4> QED BY <1>4, <1>9, <3>1, <3>3, <4>1
      <3> QED BY <3>2, <3>3
    <2> QED BY <2>4, <2>5, <2>6 DEF CountsUp
  <1>13. PICK w : w = write(r, p[k + 1])
    OBVIOUS
  <1>14. w = [err |-> Fine, text |-> more, bound |-> given] /\ w.text = more /\ w.bound = given
    BY <1>5, <1>7, <1>8, <1>13
  <1> QED BY <1>9, <1>10, <1>11, <1>12, <1>13, <1>14 DEF IsText

\* Pieces written: their text, or the refusal one of them is.
IsWhatIsWritten(r, p, k) ==
  IF \E j \in 1 .. k : p[j][1] = "refused" THEN \E why \in Whys : r = Refused(why)
  ELSE IsText(r, p, k)

LEMMA WrittenStep ==
  ASSUME NEW p \in Seq(Pieces), NEW k \in Nat, k + 1 \in 1 .. Len(p), NEW r,
         IsWhatIsWritten(r, p, k)
  PROVE  IsWhatIsWritten(write(r, p[k + 1]), p, k + 1)
  <1>1. p[k + 1] \in Pieces
    BY ElementOfSeq
  <1>2. CASE \E j \in 1 .. k : p[j][1] = "refused"
    <2>1. PICK why \in Whys : r = Refused(why)
      BY <1>2 DEF IsWhatIsWritten
    <2>2. r.err # Fine
      BY <2>1, WhysAreNotFine DEF Refused, Nothing
    <2>3. write(r, p[k + 1]) = r
      BY <2>2 DEF write
    <2>4. \E j \in 1 .. k + 1 : p[j][1] = "refused"
      BY <1>2
    <2> QED BY <2>1, <2>3, <2>4 DEF IsWhatIsWritten
  <1>3. CASE ~\E j \in 1 .. k : p[j][1] = "refused"
    <2>1. IsText(r, p, k) /\ r.err = Fine
      <3>1. IsText(r, p, k)
        BY <1>3 DEF IsWhatIsWritten
      <3> QED BY <3>1 DEF IsText
    <2>2. CASE p[k + 1][1] = "refused" /\ p[k + 1][2] \in Whys
      <3>1. write(r, p[k + 1]) = Refused(p[k + 1][2])
        BY <2>1, <2>2 DEF write
      <3>2. k + 1 \in 1 .. k + 1
        OBVIOUS
      <3> QED BY <2>2, <3>1, <3>2 DEF IsWhatIsWritten
    <2>3. CASE p[k + 1] \in Plain /\ p[k + 1][1] # "refused"
      <3>1. IsText(write(r, p[k + 1]), p, k + 1)
        BY <2>1, <2>3, PlainText
      <3>2. ~\E j \in 1 .. k + 1 : p[j][1] = "refused"
        BY <1>3, <2>3
      <3> QED BY <3>1, <3>2 DEF IsWhatIsWritten
    <2>4. CASE p[k + 1][1] = "value" /\ p[k + 1][2] \in Values /\ p[k + 1] = <<"value", p[k + 1][2]>>
      <3>1. IsText(write(r, p[k + 1]), p, k + 1)
        <4>1. PICK v \in Values : v = p[k + 1][2]
          BY <2>4
        <4>2. p[k + 1] = <<"value", v>>
          BY <2>4, <4>1
        <4> QED BY <2>1, <4>2, BoundText
      <3>2. ~\E j \in 1 .. k + 1 : p[j][1] = "refused"
        BY <1>3, <2>4
      <3> QED BY <3>1, <3>2 DEF IsWhatIsWritten
    <2> QED BY <1>1, <2>2, <2>3, <2>4, PieceKinds
  <1> QED BY <1>2, <1>3

LEMMA WhatIsWritten ==
  ASSUME NEW p \in Seq(Pieces)
  PROVE  IsWhatIsWritten(Written(p), p, Len(p))
  <1>1. Len(p) \in Nat
    BY LenProperties
  <1>2. PICK f : IsWritten(f, Len(p), p) /\ Written(p) = f[Len(p)]
    BY <1>1, WrittenIs
  <1>3. \A i \in 0 .. Len(p) : f[i] = WrittenAt(i, f[i - 1], p)
    BY <1>2 DEF IsWritten
  <1> DEFINE S == {n \in Nat : n <= Len(p) => IsWhatIsWritten(f[n], p, n)}
  <1>4. 0 \in S
    <2>1. f[0] = Nothing
      BY <1>1, <1>3 DEF WrittenAt
    <2>2. IsText(f[0], p, 0)
      BY <2>1, TextOfNothing
    <2> QED BY <2>2 DEF IsWhatIsWritten
  <1>5. ASSUME NEW n \in Nat, n \in S PROVE n + 1 \in S
    <2>1. SUFFICES ASSUME n + 1 <= Len(p) PROVE IsWhatIsWritten(f[n + 1], p, n + 1)
      OBVIOUS
    <2>2. n + 1 \in 1 .. Len(p) /\ n + 1 \in 0 .. Len(p) /\ n + 1 - 1 = n /\ n + 1 # 0
      BY <1>1, <2>1
    <2>3. f[n + 1] = write(f[n], p[n + 1])
      BY <1>3, <2>2 DEF WrittenAt
    <2>4. IsWhatIsWritten(f[n], p, n)
      BY <1>1, <1>5, <2>1
    <2> QED BY <2>2, <2>3, <2>4, WrittenStep
  <1> HIDE DEF S
  <1>6. Nat \subseteq S
    BY <1>4, <1>5, SetInduction
  <1> QED BY <1>1, <1>2, <1>6 DEF S

\* Pieces one of which is a refusal are refused.
LEMMA RefusedIsWritten ==
  ASSUME NEW p \in Seq(Pieces), HasRefused(p)
  PROVE  Written(p).err # Fine /\ Written(p) = Refused(Written(p).err)
  <1>1. PICK why \in Whys : Written(p) = Refused(why)
    BY WhatIsWritten DEF IsWhatIsWritten, HasRefused
  <1> QED BY <1>1, WhysAreNotFine DEF Refused, Nothing

\* Pieces none of which is one are written, and read back.
LEMMA TextIsWritten ==
  ASSUME NEW p \in Seq(Pieces), ~HasRefused(p)
  PROVE  /\ Written(p).err = Fine
         /\ Referred(Written(p).text, Written(p).bound) = p
         /\ CountsUp(Written(p).text, Written(p).bound)
  <1>1. IsText(Written(p), p, Len(p))
    BY WhatIsWritten DEF IsWhatIsWritten, HasRefused
  <1>2. PICK text, bound : text = Written(p).text /\ bound = Written(p).bound
    OBVIOUS
  <1>3. /\ Written(p).err = Fine /\ Len(text) = Len(p)
        /\ \A i \in 1 .. Len(p) : IsToken(text[i], bound, p[i])
        /\ CountsUp(text, bound)
    BY <1>1, <1>2 DEF IsText
  <1>4. ASSUME NEW i \in 1 .. Len(p)
        PROVE  p[i] = IF text[i][1] = "$" /\ text[i][2] \in 0 .. Len(bound) - 1
                        THEN <<"value", bound[text[i][2] + 1]>> ELSE text[i]
    <2>1. p[i] \in Pieces /\ IsToken(text[i], bound, p[i])
      BY <1>3, ElementOfSeq
    <2>2. CASE p[i][1] = "value"
      <3>1. p[i] = <<"value", p[i][2]>>
        BY <2>1, <2>2, PieceKinds
      <3> QED BY <2>1, <2>2, <3>1 DEF IsToken
    <2>3. CASE p[i][1] # "value"
      BY <2>1, <2>3 DEF IsToken
    <2> QED BY <2>2, <2>3
  <1>5. Referred(text, bound) = [i \in 1 .. Len(p) |-> p[i]]
    BY <1>3, <1>4 DEF Referred
  <1>6. p = [i \in 1 .. Len(p) |-> p[i]]
    BY LenProperties
  <1> QED BY <1>2, <1>3, <1>5, <1>6

-----------------------------------------------------------------------------
(***************************************************************************)
(* Spans: reading digits and units as far as they go, the longest unit     *)
(* first, ends at the end of just those strings that can be cut so.        *)
(***************************************************************************)
UnitSize(k) == IF k <= 3 THEN 2 ELSE 1

IsUnit(u, n) == Len(u) = n /\ \A j \in 1 .. n : u[j] # "0"

LEMMA TwoLetters == ASSUME NEW a, NEW b, a # "0", b # "0" PROVE IsUnit(<<a, b>>, 2)
  BY DEF IsUnit

LEMMA OneLetter == ASSUME NEW a, a # "0" PROVE IsUnit(<<a>>, 1)
  BY DEF IsUnit

LEMMA UnitDomain == DOMAIN spanUnits = 1 .. 8
  BY DEF spanUnits

LEMMA UnitKinds == \A k \in 1 .. 8 : IsUnit(spanUnits[k], UnitSize(k)) /\ UnitSize(k) \in {1, 2}
  <1> SUFFICES ASSUME NEW k \in 1 .. 8 PROVE IsUnit(spanUnits[k], UnitSize(k))
    BY DEF UnitSize
  <1>1. CASE k = 1
    <2>1. spanUnits[k] = <<"m", "s">> /\ UnitSize(k) = 2
      BY <1>1 DEF spanUnits, UnitSize
    <2>2. IsUnit(<<"m", "s">>, 2)
      <3>1. PICK a, b : a = "m" /\ b = "s"
        OBVIOUS
      <3>2. IsUnit(<<a, b>>, 2)
        BY <3>1, TwoLetters
      <3> QED BY <3>1, <3>2
    <2> QED BY <2>1, <2>2
  <1>2. CASE k = 2
    <2>1. spanUnits[k] = <<"n", "s">> /\ UnitSize(k) = 2
      BY <1>2 DEF spanUnits, UnitSize
    <2>2. IsUnit(<<"n", "s">>, 2)
      <3>1. PICK a, b : a = "n" /\ b = "s"
        OBVIOUS
      <3>2. IsUnit(<<a, b>>, 2)
        BY <3>1, TwoLetters
      <3> QED BY <3>1, <3>2
    <2> QED BY <2>1, <2>2
  <1>3. CASE k = 3
    <2>1. spanUnits[k] = <<"u", "s">> /\ UnitSize(k) = 2
      BY <1>3 DEF spanUnits, UnitSize
    <2>2. IsUnit(<<"u", "s">>, 2)
      <3>1. PICK a, b : a = "u" /\ b = "s"
        OBVIOUS
      <3>2. IsUnit(<<a, b>>, 2)
        BY <3>1, TwoLetters
      <3> QED BY <3>1, <3>2
    <2> QED BY <2>1, <2>2
  <1>4. CASE k = 4
    <2>1. spanUnits[k] = <<"s">> /\ UnitSize(k) = 1
      BY <1>4 DEF spanUnits, UnitSize
    <2>2. IsUnit(<<"s">>, 1)
      <3>1. PICK a : a = "s"
        OBVIOUS
      <3>2. IsUnit(<<a>>, 1)
        BY <3>1, OneLetter
      <3> QED BY <3>1, <3>2
    <2> QED BY <2>1, <2>2
  <1>5. CASE k = 5
    <2>1. spanUnits[k] = <<"m">> /\ UnitSize(k) = 1
      BY <1>5 DEF spanUnits, UnitSize
    <2>2. IsUnit(<<"m">>, 1)
      <3>1. PICK a : a = "m"
        OBVIOUS
      <3>2. IsUnit(<<a>>, 1)
        BY <3>1, OneLetter
      <3> QED BY <3>1, <3>2
    <2> QED BY <2>1, <2>2
  <1>6. CASE k = 6
    <2>1. spanUnits[k] = <<"h">> /\ UnitSize(k) = 1
      BY <1>6 DEF spanUnits, UnitSize
    <2>2. IsUnit(<<"h">>, 1)
      <3>1. PICK a : a = "h"
        OBVIOUS
      <3>2. IsUnit(<<a>>, 1)
        BY <3>1, OneLetter
      <3> QED BY <3>1, <3>2
    <2> QED BY <2>1, <2>2
  <1>7. CASE k = 7
    <2>1. spanUnits[k] = <<"d">> /\ UnitSize(k) = 1
      BY <1>7 DEF spanUnits, UnitSize
    <2>2. IsUnit(<<"d">>, 1)
      <3>1. PICK a : a = "d"
        OBVIOUS
      <3>2. IsUnit(<<a>>, 1)
        BY <3>1, OneLetter
      <3> QED BY <3>1, <3>2
    <2> QED BY <2>1, <2>2
  <1>8. CASE k = 8
    <2>1. spanUnits[k] = <<"w">> /\ UnitSize(k) = 1
      BY <1>8 DEF spanUnits, UnitSize
    <2>2. IsUnit(<<"w">>, 1)
      <3>1. PICK a : a = "w"
        OBVIOUS
      <3>2. IsUnit(<<a>>, 1)
        BY <3>1, OneLetter
      <3> QED BY <3>1, <3>2
    <2> QED BY <2>1, <2>2
  <1> QED BY <1>1, <1>2, <1>3, <1>4, <1>5, <1>6, <1>7, <1>8

\* Zeros stand behind place i up to d.
Zeros(t, i, d) == \A j \in i + 1 .. d : t[j] = "0"

\* There are digits behind place i up to d, and a unit up to e.
IsRound(t, i, d, k, e) ==
  /\ d \in i + 1 .. e - 1 /\ e \in 0 .. Len(t)
  /\ Zeros(t, i, d)
  /\ k \in 1 .. 8 /\ SubSeq(t, d + 1, e) = spanUnits[k]

LEMMA DigitsAre ==
  ASSUME NEW t \in Seq(STRING), NEW i \in 0 .. Len(t)
  PROVE  /\ Digits(t, i) \in 0 .. Len(t) - i
         /\ Zeros(t, i, i + Digits(t, i))
         /\ i + Digits(t, i) < Len(t) => t[i + Digits(t, i) + 1] # "0"
  <1>1. Len(t) \in Nat
    BY LenProperties
  <1> DEFINE S == {n \in 0 .. Len(t) - i : i + n < Len(t) => t[i + n + 1] # "0"}
  <1>2. S \in SUBSET Nat /\ Len(t) - i \in S
    BY <1>1
  <1>3. PICK n \in S : \A m \in S : n <= m
    <2> HIDE DEF S
    <2> QED BY <1>2, FirstOne
  <1>4. ASSUME NEW j \in i + 1 .. i + n PROVE t[j] = "0"
    <2>1. j - i - 1 \in 0 .. Len(t) - i /\ j - i - 1 < n /\ i + (j - i - 1) < Len(t)
          /\ i + (j - i - 1) + 1 = j
      BY <1>1, <1>3
    <2>2. j - i - 1 \notin S
      <3>1. PICK m \in Nat : m = j - i - 1
        BY <2>1
      <3>2. n \in Nat /\ m < n
        BY <1>1, <2>1, <3>1
      <3> HIDE DEF S
      <3>3. m \in S => n <= m
        BY <1>3
      <3> QED BY <3>1, <3>2, <3>3
    <2> QED BY <2>1, <2>2
  <1>5. /\ n \in 0 .. Len(t) - i
        /\ (\A j \in i + 1 .. i + n : t[j] = "0") /\ (i + n < Len(t) => t[i + n + 1] # "0")
    BY <1>3, <1>4
  <1>6. /\ Digits(t, i) \in 0 .. Len(t) - i
        /\ \A j \in i + 1 .. i + Digits(t, i) : t[j] = "0"
        /\ i + Digits(t, i) < Len(t) => t[i + Digits(t, i) + 1] # "0"
    BY <1>5, Zenon DEF Digits
  <1> QED BY <1>6 DEF Zeros

\* The units that stand behind a place.
Matched(t, d) == {k \in DOMAIN spanUnits : StandsAt(t, d, spanUnits[k])}

\* A round of the reading is one, as far as it leads.
LEMMA RoundLeads ==
  ASSUME NEW t \in Seq(STRING), NEW i \in 0 .. Len(t), Round(t, i) # Stuck
  PROVE  \E d, k : IsRound(t, i, d, k, Round(t, i))
  <1>1. Len(t) \in Nat
    BY LenProperties
  <1>2. PICK d : d = i + Digits(t, i)
    OBVIOUS
  <1>3. d \in i .. Len(t) /\ Zeros(t, i, d)
    BY <1>1, <1>2, DigitsAre
  <1>4. PICK k : k = CHOOSE m \in Matched(t, d) : \A l \in Matched(t, d) : m <= l
    OBVIOUS
  <1>5. Round(t, i) = IF d = i \/ Matched(t, d) = {} THEN Stuck ELSE d + Len(spanUnits[k])
    BY <1>2, <1>4 DEF Round, Matched
  <1>6. d # i /\ Matched(t, d) # {}
    BY <1>5
  <1>7. k \in Matched(t, d)
    <2>1. Matched(t, d) \in SUBSET Nat
      BY UnitDomain DEF Matched
    <2>2. \E n \in Matched(t, d) : \A l \in Matched(t, d) : n <= l
      BY <1>6, <2>1, FirstOne
    <2> QED BY <1>4, <2>2, Zenon
  <1>8. k \in 1 .. 8 /\ d + Len(spanUnits[k]) <= Len(t)
        /\ SubSeq(t, d + 1, d + Len(spanUnits[k])) = spanUnits[k]
    BY <1>7, UnitDomain DEF Matched, StandsAt
  <1>9. Len(spanUnits[k]) \in {1, 2}
    BY <1>8, UnitKinds DEF IsUnit
  <1>10. PICK e : e = d + Len(spanUnits[k])
    OBVIOUS
  <1>11. Round(t, i) = e
    BY <1>5, <1>6, <1>10
  <1>12. d \in i + 1 .. e - 1 /\ e \in 0 .. Len(t)
    <2>1. PICK z \in {1, 2} : z = Len(spanUnits[k])
      BY <1>9
    <2>2. e = d + z /\ d + z <= Len(t)
      BY <1>8, <1>10, <2>1
    <2> QED BY <1>1, <1>3, <1>6, <2>1, <2>2
  <1>13. IsRound(t, i, d, k, e)
    BY <1>3, <1>8, <1>10, <1>12 DEF IsRound
  <1> QED BY <1>11, <1>13

\* The reading leads as far as a round does, where another may follow.
LEMMA LeadsRound ==
  ASSUME NEW t \in Seq(STRING), NEW i \in 0 .. Len(t), NEW d, NEW k, NEW e,
         IsRound(t, i, d, k, e), e = Len(t) \/ t[e + 1] = "0"
  PROVE  Round(t, i) = e
  <1>1. Len(t) \in Nat
    BY LenProperties
  <1>2. /\ d \in i + 1 .. e - 1 /\ e \in 0 .. Len(t) /\ d \in Nat
        /\ Zeros(t, i, d)
        /\ k \in 1 .. 8 /\ SubSeq(t, d + 1, e) = spanUnits[k]
    BY <1>1 DEF IsRound
  <1>3. /\ Len(spanUnits[k]) = UnitSize(k) /\ UnitSize(k) \in {1, 2}
        /\ \A j \in 1 .. UnitSize(k) : spanUnits[k][j] # "0"
    BY <1>2, UnitKinds DEF IsUnit
  <1>4. e = d + UnitSize(k) /\ \A j \in 1 .. UnitSize(k) : t[d + j] = spanUnits[k][j]
    <2>1. \A j \in d + 1 .. e : t[j] \in STRING
      BY <1>1, <1>2, ElementOfSeq
    <2>2. /\ Len(SubSeq(t, d + 1, e)) = IF d + 1 <= e THEN e - (d + 1) + 1 ELSE 0
          /\ \A j \in 1 .. e - (d + 1) + 1 : SubSeq(t, d + 1, e)[j] = t[d + 1 + j - 1]
      BY <1>2, <2>1, SubSeqProperties
    <2>3. e = d + UnitSize(k)
      <3>1. d + 1 <= e /\ d \in Nat /\ e \in Nat
        BY <1>2
      <3>2. Len(SubSeq(t, d + 1, e)) = e - (d + 1) + 1
        BY <2>2, <3>1
      <3>3. PICK z \in {1, 2} : z = UnitSize(k)
        BY <1>3
      <3>4. z = e - (d + 1) + 1
        BY <1>2, <1>3, <3>2, <3>3
      <3> QED BY <3>1, <3>3, <3>4
    <2>4. ASSUME NEW j \in 1 .. UnitSize(k) PROVE t[d + j] = spanUnits[k][j]
      <3>1. j \in 1 .. e - (d + 1) + 1 /\ d + 1 + j - 1 = d + j
        <4>1. PICK z \in {1, 2} : z = UnitSize(k)
          BY <1>3
        <4>2. e = d + z /\ d \in Nat /\ j \in 1 .. z
          BY <1>2, <2>3, <4>1
        <4> QED BY <4>1, <4>2
      <3> QED BY <1>2, <2>2, <3>1
    <2> QED BY <2>3, <2>4
  <1>5. t[d + 1] # "0" /\ d < Len(t)
    <2>1. 1 \in 1 .. UnitSize(k)
      BY <1>3
    <2>2. t[d + 1] # "0"
      BY <1>3, <1>4, <2>1
    <2> QED BY <1>1, <1>2, <2>2
  <1>6. d = i + Digits(t, i)
    <2>1. PICK n : n = Digits(t, i)
      OBVIOUS
    <2>2. n \in 0 .. Len(t) - i /\ Zeros(t, i, i + n) /\ (i + n < Len(t) => t[i + n + 1] # "0")
      BY <2>1, DigitsAre
    <2>3. ~(i + n < d)
      <3>1. SUFFICES ASSUME i + n < d PROVE FALSE
        OBVIOUS
      <3>2. i + n + 1 \in i + 1 .. d /\ i + n < Len(t)
        BY <1>1, <1>2, <2>2, <3>1
      <3> QED BY <1>2, <2>2, <3>2 DEF Zeros
    <2>4. ~(i + n > d)
      <3>1. SUFFICES ASSUME i + n > d PROVE FALSE
        OBVIOUS
      <3>2. d + 1 \in i + 1 .. i + n
        BY <1>1, <1>2, <2>2, <3>1
      <3> QED BY <1>5, <2>2, <3>2 DEF Zeros
    <2> QED BY <1>1, <1>2, <2>1, <2>2, <2>3, <2>4
  <1>7. k \in Matched(t, d)
    <2>1. d + Len(spanUnits[k]) = e /\ e <= Len(t)
      BY <1>1, <1>2, <1>3, <1>4
    <2> QED BY <1>2, <2>1, UnitDomain DEF Matched, StandsAt
  <1>8. PICK l : l = CHOOSE n \in Matched(t, d) : \A m \in Matched(t, d) : n <= m
    OBVIOUS
  <1>9. l \in Matched(t, d) /\ l <= k
    <2>1. Matched(t, d) \in SUBSET Nat
      BY UnitDomain DEF Matched
    <2>2. \E n \in Matched(t, d) : \A m \in Matched(t, d) : n <= m
      BY <1>7, <2>1, FirstOne
    <2>3. l \in Matched(t, d) /\ \A m \in Matched(t, d) : l <= m
      BY <1>8, <2>2, Zenon
    <2> QED BY <1>7, <2>3
  <1>10. Round(t, i) = d + Len(spanUnits[l])
    <2>1. Round(t, i) = IF d = i \/ Matched(t, d) = {} THEN Stuck ELSE d + Len(spanUnits[l])
      BY <1>6, <1>8 DEF Round, Matched
    <2> QED BY <1>2, <1>7, <2>1
  <1>11. l \in 1 .. 8 /\ Len(spanUnits[l]) = UnitSize(l)
         /\ d + UnitSize(l) <= Len(t) /\ SubSeq(t, d + 1, d + UnitSize(l)) = spanUnits[l]
    <2>1. l \in 1 .. 8 /\ StandsAt(t, d, spanUnits[l])
      BY <1>9, UnitDomain DEF Matched
    <2>2. Len(spanUnits[l]) = UnitSize(l)
      BY <2>1, UnitKinds DEF IsUnit
    <2> QED BY <2>1, <2>2 DEF StandsAt
  <1>12. UnitSize(l) = UnitSize(k)
    <2>1. ~(UnitSize(l) < UnitSize(k))
      BY <1>2, <1>9, <1>11 DEF UnitSize
    <2>2. ~(UnitSize(l) > UnitSize(k))
      <3>1. SUFFICES ASSUME UnitSize(l) > UnitSize(k) PROVE FALSE
        OBVIOUS
      <3>2. UnitSize(l) = 2 /\ e = d + 1 /\ e + 1 = d + 2 /\ e # Len(t)
        BY <1>1, <1>2, <1>3, <1>4, <1>11, <3>1 DEF UnitSize
      <3>3. t[d + 2] # "0"
        <4>1. \A j \in d + 1 .. d + 2 : t[j] \in STRING
          BY <1>1, <1>2, <1>11, <3>2, ElementOfSeq
        <4>2. \A j \in 1 .. d + 2 - (d + 1) + 1 : SubSeq(t, d + 1, d + 2)[j] = t[d + 1 + j - 1]
          BY <1>2, <4>1, SubSeqProperties
        <4>3. 2 \in 1 .. d + 2 - (d + 1) + 1 /\ d + 1 + 2 - 1 = d + 2
          BY <1>2
        <4>4. t[d + 2] = spanUnits[l][2]
          BY <1>11, <3>2, <4>2, <4>3
        <4>5. 2 \in 1 .. UnitSize(l)
          BY <3>2
        <4> QED BY <1>11, <4>4, <4>5, UnitKinds DEF IsUnit
      <3> QED BY <3>2, <3>3
    <2> QED BY <1>3, <1>11, <2>1, <2>2 DEF UnitSize
  <1> QED BY <1>4, <1>10, <1>11, <1>12

RoundsAt(n, r, t) == IF n = 0 THEN 0 ELSE IF r \in {Stuck, Len(t)} THEN r ELSE Round(t, r)

IsRounds(f, n, t) == f = [m \in 0 .. n |-> RoundsAt(m, f[m - 1], t)]

LEMMA RoundsZero == \A a, b, t : RoundsAt(0, a, t) = RoundsAt(0, b, t)
  BY DEF RoundsAt

\* The places the first rounds lead to exist, for as many as there are.
LEMMA RoundsExists ==
  ASSUME NEW t
  PROVE  \A n \in Nat : \E f : IsRounds(f, n, t)
  <1> DEFINE S == {n \in Nat : \E f : IsRounds(f, n, t)}
  <1>1. 0 \in S
    <2> DEFINE f == [d \in 0 .. 0 |-> RoundsAt(0, 0, t)]
    <2>1. ASSUME NEW d \in 0 .. 0 PROVE RoundsAt(0, 0, t) = RoundsAt(d, f[d - 1], t)
      BY RoundsZero
    <2>2. IsRounds(f, 0, t)
      BY <2>1 DEF IsRounds
    <2> QED BY <2>2
  <1>2. ASSUME NEW n \in Nat, n \in S PROVE n + 1 \in S
    <2>1. PICK f : IsRounds(f, n, t)
      BY <1>2
    <2> DEFINE g == [d \in 0 .. n + 1 |-> IF d = n + 1 THEN RoundsAt(n + 1, f[n], t) ELSE f[d]]
    <2>2. ASSUME NEW d \in 0 .. n + 1 PROVE g[d] = RoundsAt(d, g[d - 1], t)
      <3>1. CASE d = n + 1
        <4>1. g[d - 1] = f[n] /\ g[d] = RoundsAt(n + 1, f[n], t)
          BY <3>1
        <4> HIDE DEF g
        <4> QED BY <3>1, <4>1
      <3>2. CASE d # n + 1
        <4>1. g[d] = f[d] /\ d \in 0 .. n
          BY <3>2
        <4>2. f[d] = RoundsAt(d, f[d - 1], t)
          BY <2>1, <4>1 DEF IsRounds
        <4>3. d # 0 => g[d - 1] = f[d - 1]
          BY <3>2
        <4> HIDE DEF g
        <4>4. CASE d = 0
          <5>1. RoundsAt(0, f[d - 1], t) = RoundsAt(0, g[d - 1], t)
            BY RoundsZero
          <5> QED BY <4>1, <4>2, <4>4, <5>1
        <4> QED BY <4>1, <4>2, <4>3, <4>4
      <3> QED BY <3>1, <3>2
    <2>3. IsRounds(g, n + 1, t)
      BY <2>2 DEF IsRounds
    <2>4. n + 1 \in Nat
      OBVIOUS
    <2> HIDE DEF g
    <2> QED BY <2>3, <2>4
  <1> HIDE DEF S
  <1>3. Nat \subseteq S
    BY <1>1, <1>2, SetInduction
  <1> QED BY <1>3 DEF S

LEMMA SpanEndIs ==
  ASSUME NEW t, Len(t) \in Nat
  PROVE  \E f : IsRounds(f, Len(t), t) /\ SpanEnd(t) = f[Len(t)]
  <1>1. \E f : f = [n \in 0 .. Len(t) |->
                      IF n = 0 THEN 0
                      ELSE IF f[n - 1] \in {Stuck, Len(t)} THEN f[n - 1] ELSE Round(t, f[n - 1])]
    BY RoundsExists DEF IsRounds, RoundsAt
  <1> QED BY <1>1, Zenon DEF SpanEnd, IsRounds, RoundsAt

\* Where the reading is stuck or at the end it stays.
LEMMA RoundsStay ==
  ASSUME NEW t, Len(t) \in Nat, NEW f, IsRounds(f, Len(t), t),
         NEW m \in 0 .. Len(t), f[m] \in {Stuck, Len(t)}
  PROVE  \A n \in m .. Len(t) : f[n] = f[m]
  <1>1. \A n \in 0 .. Len(t) : f[n] = RoundsAt(n, f[n - 1], t)
    BY DEF IsRounds
  <1> DEFINE S == {n \in Nat : m + n <= Len(t) => f[m + n] = f[m]}
  <1>2. 0 \in S
    OBVIOUS
  <1>3. ASSUME NEW n \in Nat, n \in S PROVE n + 1 \in S
    <2>1. SUFFICES ASSUME m + (n + 1) <= Len(t) PROVE f[m + (n + 1)] = f[m]
      OBVIOUS
    <2>2. m + (n + 1) \in 0 .. Len(t) /\ m + (n + 1) # 0 /\ m + (n + 1) - 1 = m + n
      BY <2>1
    <2>3. f[m + n] = f[m]
      BY <1>3, <2>1
    <2> QED BY <1>1, <2>2, <2>3 DEF RoundsAt
  <1> HIDE DEF S
  <1>4. Nat \subseteq S
    BY <1>2, <1>3, SetInduction
  <1>5. ASSUME NEW n \in m .. Len(t) PROVE f[n] = f[m]
    <2>1. n - m \in S /\ m + (n - m) = n
      BY <1>4
    <2> QED BY <2>1 DEF S
  <1> QED BY <1>5

\* The places the rounds lead to are places, or none.
LEMMA RoundsType ==
  ASSUME NEW t \in Seq(STRING), NEW f, IsRounds(f, Len(t), t)
  PROVE  \A n \in 0 .. Len(t) : f[n] \in {Stuck} \cup 0 .. Len(t)
  <1>1. Len(t) \in Nat /\ \A n \in 0 .. Len(t) : f[n] = RoundsAt(n, f[n - 1], t)
    BY LenProperties DEF IsRounds
  <1> DEFINE S == {n \in Nat : n <= Len(t) => f[n] \in {Stuck} \cup 0 .. Len(t)}
  <1>2. 0 \in S
    BY <1>1 DEF RoundsAt
  <1>3. ASSUME NEW n \in Nat, n \in S PROVE n + 1 \in S
    <2>1. SUFFICES ASSUME n + 1 <= Len(t) PROVE f[n + 1] \in {Stuck} \cup 0 .. Len(t)
      OBVIOUS
    <2>2. n + 1 \in 0 .. Len(t) /\ n + 1 - 1 = n /\ n + 1 # 0
      BY <1>1, <2>1
    <2>3. f[n] \in {Stuck} \cup 0 .. Len(t)
      BY <1>1, <1>3, <2>1
    <2>4. f[n + 1] = IF f[n] \in {Stuck, Len(t)} THEN f[n] ELSE Round(t, f[n])
      BY <1>1, <2>2 DEF RoundsAt
    <2>5. CASE f[n] \in {Stuck, Len(t)}
      BY <2>3, <2>4, <2>5
    <2>6. CASE f[n] \notin {Stuck, Len(t)}
      <3>1. PICK i \in 0 .. Len(t) : i = f[n]
        BY <2>3, <2>6
      <3>2. Round(t, i) # Stuck => \E d, k : IsRound(t, i, d, k, Round(t, i))
        BY RoundLeads
      <3>3. Round(t, i) # Stuck => Round(t, i) \in 0 .. Len(t)
        BY <3>2 DEF IsRound
      <3> QED BY <2>4, <2>6, <3>1, <3>3
    <2> QED BY <2>5, <2>6
  <1> HIDE DEF S
  <1>4. Nat \subseteq S
    BY <1>2, <1>3, SetInduction
  <1> QED BY <1>1, <1>4 DEF S

\* A cut of the string into rounds.
IsCutInto(t, n, cut) ==
  /\ n \in 1 .. Len(t) /\ cut \in [0 .. n -> 0 .. Len(t)] /\ cut[0] = 0 /\ cut[n] = Len(t)
  /\ \A i \in 1 .. n : \E d, k : IsRound(t, cut[i - 1], d, k, cut[i])

LEMMA ProductionIs ==
  ASSUME NEW t \in Seq(STRING)
  PROVE  Production(t) <=> \E n, cut : IsCutInto(t, n, cut)
  <1>1. Len(t) \in Nat /\ DOMAIN spanUnits = 1 .. 8
    BY LenProperties, UnitDomain
  <1>2. ASSUME NEW i, NEW e \in 0 .. Len(t)
        PROVE  (\E d, k : IsRound(t, i, d, k, e)) <=>
               \E d \in i + 1 .. e - 1 :
                 /\ \A j \in i + 1 .. d : t[j] = "0"
                 /\ \E k \in DOMAIN spanUnits : SubSeq(t, d + 1, e) = spanUnits[k]
    BY <1>1 DEF IsRound, Zeros
  <1>3. ASSUME NEW n \in 1 .. Len(t), NEW cut \in [0 .. n -> 0 .. Len(t)]
        PROVE  (\A i \in 1 .. n : \E d, k : IsRound(t, cut[i - 1], d, k, cut[i])) <=>
               \A i \in 1 .. n : \E d \in cut[i - 1] + 1 .. cut[i] - 1 :
                 /\ \A j \in cut[i - 1] + 1 .. d : t[j] = "0"
                 /\ \E k \in DOMAIN spanUnits : SubSeq(t, d + 1, cut[i]) = spanUnits[k]
    <2>1. \A i \in 1 .. n : cut[i] \in 0 .. Len(t)
      OBVIOUS
    <2>2. ASSUME NEW i \in 1 .. n
          PROVE  (\E d, k : IsRound(t, cut[i - 1], d, k, cut[i])) <=>
                 \E d \in cut[i - 1] + 1 .. cut[i] - 1 :
                   /\ \A j \in cut[i - 1] + 1 .. d : t[j] = "0"
                   /\ \E k \in DOMAIN spanUnits : SubSeq(t, d + 1, cut[i]) = spanUnits[k]
      BY <1>2, <2>1, Zenon
    <2> QED BY <2>2, Zenon
  <1>4. ASSUME NEW n, NEW cut, IsCutInto(t, n, cut) PROVE Production(t)
    BY <1>3, <1>4, Zenon DEF IsCutInto, Production
  <1>5. ASSUME Production(t) PROVE \E n, cut : IsCutInto(t, n, cut)
    BY <1>3, <1>5, Zenon DEF IsCutInto, Production
  <1> QED BY <1>4, <1>5

\* Rounds that end at the end are a cut.
LEMMA RoundsCut ==
  ASSUME NEW t \in Seq(STRING), t # <<>>, NEW f, IsRounds(f, Len(t), t), f[Len(t)] = Len(t)
  PROVE  \E n, cut : IsCutInto(t, n, cut)
  <1>1. Len(t) \in Nat \ {0} /\ \A n \in 0 .. Len(t) : f[n] = RoundsAt(n, f[n - 1], t)
    BY EmptySeq DEF IsRounds
  <1> DEFINE S == {n \in 0 .. Len(t) : f[n] = Len(t)}
  <1>2. PICK n \in S : \A m \in S : n <= m
    <2>1. S \in SUBSET Nat /\ Len(t) \in S
      BY <1>1
    <2> HIDE DEF S
    <2> QED BY <2>1, FirstOne
  <1>3. n \in 0 .. Len(t) /\ f[n] = Len(t) /\ \A m \in 0 .. n - 1 : f[m] # Len(t)
    BY <1>1, <1>2
  <1> HIDE DEF S
  <1>4. f[0] = 0 /\ n # 0
    <2>1. f[0] = 0
      BY <1>1 DEF RoundsAt
    <2> QED BY <1>1, <1>3, <2>1
  <1>5. ASSUME NEW m \in 0 .. n PROVE f[m] \in 0 .. Len(t) /\ f[m] # Stuck
    <2>1. f[m] # Stuck
      <3>1. SUFFICES ASSUME f[m] = Stuck PROVE FALSE
        OBVIOUS
      <3>2. m \in 0 .. Len(t) /\ n \in m .. Len(t) /\ f[m] \in {Stuck, Len(t)}
        BY <1>1, <1>3, <3>1
      <3>3. f[n] = f[m]
        BY <1>1, <3>2, RoundsStay
      <3> QED BY <1>1, <1>3, <3>1, <3>3 DEF Stuck
    <2>2. m \in 0 .. Len(t)
      BY <1>1, <1>3
    <2> QED BY <2>1, <2>2, RoundsType
  <1> DEFINE cut == [m \in 0 .. n |-> f[m]]
  <1>6. ASSUME NEW i \in 1 .. n PROVE \E d, k : IsRound(t, f[i - 1], d, k, f[i])
    <2>1. i - 1 \in 0 .. n - 1 /\ i \in 0 .. n /\ i \in 0 .. Len(t) /\ i # 0 /\ i - 1 \in 0 .. n
      BY <1>1, <1>3
    <2>2. f[i - 1] \in 0 .. Len(t) /\ f[i - 1] \notin {Stuck, Len(t)} /\ f[i] # Stuck
      BY <1>3, <1>5, <2>1
    <2>3. f[i] = Round(t, f[i - 1])
      BY <1>1, <2>1, <2>2 DEF RoundsAt
    <2> QED BY <2>2, <2>3, RoundLeads
  <1>7. IsCutInto(t, n, cut)
    <2>1. n \in 1 .. Len(t) /\ cut \in [0 .. n -> 0 .. Len(t)]
      BY <1>1, <1>3, <1>4, <1>5
    <2>2. cut[0] = 0 /\ cut[n] = Len(t)
      BY <1>3, <1>4
    <2>3. ASSUME NEW i \in 1 .. n PROVE cut[i - 1] = f[i - 1] /\ cut[i] = f[i]
      BY <1>3
    <2> HIDE DEF cut
    <2> QED BY <1>6, <2>1, <2>2, <2>3 DEF IsCutInto
  <1> QED BY <1>7

\* The rounds follow a cut to the end.
LEMMA CutRounds ==
  ASSUME NEW t \in Seq(STRING), NEW n, NEW cut, IsCutInto(t, n, cut), NEW f, IsRounds(f, Len(t), t)
  PROVE  f[Len(t)] = Len(t)
  <1>1. Len(t) \in Nat /\ \A m \in 0 .. Len(t) : f[m] = RoundsAt(m, f[m - 1], t)
    BY LenProperties DEF IsRounds
  <1>2. /\ n \in 1 .. Len(t) /\ cut \in [0 .. n -> 0 .. Len(t)] /\ cut[0] = 0 /\ cut[n] = Len(t)
        /\ \A i \in 1 .. n : \E d, k : IsRound(t, cut[i - 1], d, k, cut[i])
    BY DEF IsCutInto
  <1> DEFINE S == {m \in Nat : m <= n => f[m] = cut[m]}
  <1>3. 0 \in S
    BY <1>1, <1>2 DEF RoundsAt
  <1>4. ASSUME NEW m \in Nat, m \in S PROVE m + 1 \in S
    <2>1. SUFFICES ASSUME m + 1 <= n PROVE f[m + 1] = cut[m + 1]
      OBVIOUS
    <2>2. /\ m + 1 \in 1 .. n /\ m + 1 \in 0 .. Len(t) /\ m + 1 - 1 = m /\ m + 1 # 0
          /\ m \in 0 .. n /\ m + 1 \in 0 .. n
      BY <1>1, <1>2, <2>1
    <2>3. f[m] = cut[m] /\ cut[m] \in 0 .. Len(t) /\ cut[m + 1] \in 0 .. Len(t)
      BY <1>2, <1>4, <2>2
    <2>4. PICK d, k : IsRound(t, cut[m], d, k, cut[m + 1])
      BY <1>2, <2>2
    <2>5. cut[m] < cut[m + 1] /\ cut[m] \notin {Stuck, Len(t)}
      <3>1. d \in cut[m] + 1 .. cut[m + 1] - 1
        BY <2>4, Zenon DEF IsRound
      <3>2. PICK x \in 0 .. Len(t), y \in 0 .. Len(t) : x = cut[m] /\ y = cut[m + 1]
        BY <2>3
      <3>3. d \in x + 1 .. y - 1
        BY <3>1, <3>2
      <3>4. x < y /\ x \notin {Stuck, Len(t)}
        BY <1>1, <3>3 DEF Stuck
      <3> QED BY <3>2, <3>4
    <2>6. cut[m + 1] = Len(t) \/ t[cut[m + 1] + 1] = "0"
      <3>1. CASE m + 1 = n
        BY <1>2, <3>1
      <3>2. CASE m + 1 # n
        <4>1. m + 1 + 1 \in 1 .. n /\ m + 1 + 1 - 1 = m + 1
          BY <1>1, <1>2, <2>2, <3>2
        <4>2. PICK d2, k2 : IsRound(t, cut[m + 1], d2, k2, cut[m + 1 + 1])
          BY <1>2, <4>1
        <4>3. cut[m + 1] + 1 \in cut[m + 1] + 1 .. d2 /\ Zeros(t, cut[m + 1], d2)
          BY <2>3, <4>2 DEF IsRound
        <4> QED BY <4>3 DEF Zeros
      <3> QED BY <3>1, <3>2
    <2>7. Round(t, cut[m]) = cut[m + 1]
      BY <2>3, <2>4, <2>6, LeadsRound
    <2> QED BY <1>1, <2>2, <2>3, <2>5, <2>7 DEF RoundsAt
  <1> HIDE DEF S
  <1>5. Nat \subseteq S
    BY <1>3, <1>4, SetInduction
  <1>6. f[n] = Len(t)
    BY <1>1, <1>2, <1>5 DEF S
  <1>7. n \in 0 .. Len(t) /\ Len(t) \in n .. Len(t)
    BY <1>1, <1>2
  <1>8. f[Len(t)] = f[n]
    BY <1>1, <1>6, <1>7, RoundsStay
  <1> QED BY <1>6, <1>8

\* checkSpan takes just the strings that are digits and a unit, one after
\* another, however they are cut: reading the longest unit first misses none.
THEOREM SpansAreRead == \A t \in Seq(STRING) : checkSpan(t) = Fine <=> Production(t)
  <1> SUFFICES ASSUME NEW t \in Seq(STRING) PROVE checkSpan(t) = Fine <=> Production(t)
    OBVIOUS
  <1>1. Len(t) \in Nat
    BY LenProperties
  <1>2. PICK f : IsRounds(f, Len(t), t) /\ SpanEnd(t) = f[Len(t)]
    BY <1>1, SpanEndIs
  <1>3. checkSpan(t) = Fine <=> t # <<>> /\ SpanEnd(t) = Len(t)
    BY DEF checkSpan, Fine
  <1>4. Production(t) => t # <<>>
    <2>1. ASSUME t = <<>> PROVE ~Production(t)
      <3>1. Len(t) = 0
        BY <2>1, EmptySeq
      <3>2. ASSUME NEW n, NEW cut, IsCutInto(t, n, cut) PROVE FALSE
        BY <3>1, <3>2 DEF IsCutInto
      <3> QED BY <3>2, ProductionIs
    <2> QED BY <2>1
  <1>5. Production(t) => SpanEnd(t) = Len(t)
    BY <1>2, ProductionIs, CutRounds
  <1>6. t # <<>> /\ SpanEnd(t) = Len(t) => Production(t)
    BY <1>2, ProductionIs, RoundsCut
  <1> QED BY <1>3, <1>4, <1>5, <1>6

-----------------------------------------------------------------------------
(***************************************************************************)
(* A finite set of numbers, in order.                                      *)
(***************************************************************************)
Greatest(m, S) == m \in S /\ \A i \in S : i <= m

LEMMA GreatestExists ==
  ASSUME NEW S \in SUBSET Int, IsFiniteSet(S), S # {}
  PROVE  \E m : Greatest(m, S)
  <1> DEFINE N == {n \in Nat : \A T \in SUBSET Int :
                                 IsFiniteSet(T) /\ Cardinality(T) = n + 1 => \E m : Greatest(m, T)}
  <1>1. 0 \in N
    <2> SUFFICES ASSUME NEW T \in SUBSET Int, IsFiniteSet(T), Cardinality(T) = 1
                 PROVE  \E m : Greatest(m, T)
      OBVIOUS
    <2>1. PICK m : T = {m}
      BY FS_Singleton
    <2>2. Greatest(m, T)
      BY <2>1 DEF Greatest
    <2> QED BY <2>2
  <1>2. ASSUME NEW n \in Nat, n \in N PROVE n + 1 \in N
    <2> SUFFICES ASSUME NEW T \in SUBSET Int, IsFiniteSet(T), Cardinality(T) = n + 1 + 1
                 PROVE  \E m : Greatest(m, T)
      OBVIOUS
    <2>1. T # {}
      BY FS_EmptySet
    <2>2. PICK x : x \in T
      BY <2>1
    <2>3. IsFiniteSet(T \ {x}) /\ Cardinality(T \ {x}) = n + 1
      BY <2>2, FS_RemoveElement
    <2>4. PICK m : Greatest(m, T \ {x})
      <3>1. T \ {x} \in SUBSET Int
        OBVIOUS
      <3> QED BY <1>2, <2>3, <3>1
    <2>5. Greatest(x, T) \/ Greatest(m, T)
      BY <2>2, <2>4 DEF Greatest
    <2> QED BY <2>5
  <1> HIDE DEF N
  <1>3. Nat \subseteq N
    BY <1>1, <1>2, SetInduction
  <1>4. PICK n \in Nat : Cardinality(S) = n + 1
    <2>1. Cardinality(S) \in Nat /\ Cardinality(S) # 0
      BY FS_CardinalityType, FS_EmptySet
    <2>2. Cardinality(S) - 1 \in Nat /\ Cardinality(S) = Cardinality(S) - 1 + 1
      BY <2>1
    <2> QED BY <2>2
  <1> QED BY <1>3, <1>4 DEF N

IsAscending(q, S, n) ==
  /\ q \in [1 .. n -> S] /\ {q[i] : i \in 1 .. n} = S
  /\ \A i, j \in 1 .. n : i < j => q[i] < q[j]

LEMMA AscendingExists ==
  \A n \in Nat, S \in SUBSET Int :
    IsFiniteSet(S) /\ Cardinality(S) = n => \E q : IsAscending(q, S, n)
  <1> DEFINE N == {n \in Nat : \A S \in SUBSET Int :
                                 IsFiniteSet(S) /\ Cardinality(S) = n => \E q : IsAscending(q, S, n)}
  <1>1. 0 \in N
    <2> SUFFICES ASSUME NEW S \in SUBSET Int, IsFiniteSet(S), Cardinality(S) = 0
                 PROVE  \E q : IsAscending(q, S, 0)
      OBVIOUS
    <2>1. S = {}
      BY FS_EmptySet
    <2> DEFINE q == [i \in 1 .. 0 |-> 0]
    <2>2. IsAscending(q, S, 0)
      BY <2>1 DEF IsAscending
    <2> QED BY <2>2
  <1>2. ASSUME NEW n \in Nat, n \in N PROVE n + 1 \in N
    <2> SUFFICES ASSUME NEW S \in SUBSET Int, IsFiniteSet(S), Cardinality(S) = n + 1
                 PROVE  \E q : IsAscending(q, S, n + 1)
      OBVIOUS
    <2>1. S # {}
      BY FS_EmptySet
    <2>2. PICK m : Greatest(m, S)
      BY <2>1, GreatestExists
    <2>3. PICK T : T = S \ {m}
      OBVIOUS
    <2>4. m \in S /\ T \in SUBSET Int /\ IsFiniteSet(T) /\ Cardinality(T) = n
      BY <2>2, <2>3, FS_RemoveElement DEF Greatest
    <2>5. PICK q : IsAscending(q, T, n)
      BY <1>2, <2>4
    <2>6. /\ q \in [1 .. n -> T] /\ {q[i] : i \in 1 .. n} = T
          /\ \A i, j \in 1 .. n : i < j => q[i] < q[j]
      BY <2>5 DEF IsAscending
    <2> DEFINE r == [i \in 1 .. n + 1 |-> IF i = n + 1 THEN m ELSE q[i]]
    <2>7. r[n + 1] = m /\ \A i \in 1 .. n : r[i] = q[i]
      OBVIOUS
    <2>8. r \in [1 .. n + 1 -> S]
      BY <2>3, <2>4, <2>6
    <2> HIDE DEF r
    <2>9. {r[i] : i \in 1 .. n + 1} = S
      <3>1. 1 .. n + 1 = 1 .. n \cup {n + 1}
        OBVIOUS
      <3>2. {r[i] : i \in 1 .. n + 1} = {r[i] : i \in 1 .. n} \cup {r[n + 1]}
        BY <3>1
      <3>3. {r[i] : i \in 1 .. n} = T
        BY <2>6, <2>7
      <3> QED BY <2>3, <2>4, <2>7, <3>2, <3>3
    <2>10. ASSUME NEW i \in 1 .. n + 1, NEW j \in 1 .. n + 1, i < j PROVE r[i] < r[j]
      <3>1. i \in 1 .. n /\ r[i] = q[i] /\ q[i] \in T
        BY <2>6, <2>7, <2>10
      <3>2. CASE j \in 1 .. n
        BY <2>6, <2>7, <2>10, <3>1, <3>2
      <3>3. CASE j = n + 1
        <4>1. q[i] \in S /\ q[i] # m /\ q[i] \in Int /\ m \in Int
          BY <2>3, <2>4, <3>1
        <4> QED BY <2>2, <2>7, <3>1, <3>3, <4>1 DEF Greatest
      <3> QED BY <3>2, <3>3
    <2>11. IsAscending(r, S, n + 1)
      BY <2>8, <2>9, <2>10 DEF IsAscending
    <2> QED BY <2>11
  <1> HIDE DEF N
  <1>3. Nat \subseteq N
    BY <1>1, <1>2, SetInduction
  <1> QED BY <1>3 DEF N

LEMMA AscendingIs ==
  ASSUME NEW S \in SUBSET Int, IsFiniteSet(S)
  PROVE  /\ IsAscending(Ascending(S), S, Len(Ascending(S))) /\ Ascending(S) \in Seq(S)
         /\ Ascending(S) = <<>> <=> S = {}
  <1>1. PICK n \in Nat : n = Cardinality(S)
    BY FS_CardinalityType
  <1>2. \E q \in [1 .. n -> S] :
          {q[i] : i \in DOMAIN q} = S /\ \A i, j \in DOMAIN q : i < j => q[i] < q[j]
    <2>1. PICK q : IsAscending(q, S, n)
      BY <1>1, AscendingExists
    <2>2. q \in [1 .. n -> S] /\ DOMAIN q = 1 .. n
      BY <2>1 DEF IsAscending
    <2> QED BY <2>1, <2>2 DEF IsAscending
  <1>3. PICK r : r = Ascending(S)
    OBVIOUS
  <1>4. /\ r \in [1 .. n -> S]
        /\ {r[i] : i \in DOMAIN r} = S /\ \A i, j \in DOMAIN r : i < j => r[i] < r[j]
    BY <1>1, <1>2, <1>3, Zenon DEF Ascending
  <1>5. DOMAIN r = 1 .. n
    BY <1>4
  <1>6. r \in Seq(S) /\ Len(r) = n
    BY <1>4
  <1>7. IsAscending(r, S, Len(r))
    BY <1>4, <1>5, <1>6 DEF IsAscending
  <1>8. r = <<>> <=> S = {}
    <2>1. ASSUME S = {} PROVE r = <<>>
      <3>1. n = 0
        BY <1>1, <2>1, FS_EmptySet
      <3> QED BY <1>6, <3>1, EmptySeq
    <2>2. ASSUME S # {} PROVE r # <<>>
      <3>1. n # 0
        BY <1>1, <2>2, FS_EmptySet
      <3> QED BY <1>6, <3>1, EmptySeq
    <2> QED BY <2>1, <2>2
  <1> QED BY <1>3, <1>6, <1>7, <1>8

-----------------------------------------------------------------------------
(***************************************************************************)
(* Items with a comma between, all of one size.                            *)
(***************************************************************************)
LEMMA Times ==
  ASSUME NEW m \in Nat, NEW w \in {2, 3, 4}
  PROVE  m * w \in Nat /\ (m + 1) * w = m * w + w /\ m <= m * w
  <1>1. CASE w = 2
    BY <1>1
  <1>2. CASE w = 3
    BY <1>2
  <1>3. CASE w = 4
    BY <1>3
  <1> QED BY <1>1, <1>2, <1>3

\* The first m items stand where they are to, from place i on.
Placed(items, m, k, i, ts) ==
  /\ \A j \in 1 .. m : Stands(items[j], i + (j - 1) * (k + 1), ts)
  /\ \A j \in 1 .. m - 1 : IsWord(ts, i + j * (k + 1) - 1, "comma")

OfSize(item, k) == Len(item) = k

IsListing(r, items, m, k, i, ts) ==
  /\ r \in Seq(Pieces) /\ Len(r) = m * (k + 1) - 1
  /\ HasRefused(r) <=> \E j \in 1 .. m : HasRefused(items[j])
  /\ Stands(r, i, ts) => Placed(items, m, k, i, ts)

\* A word that stands at a place is there.
LEMMA WordStands ==
  ASSUME NEW w \in Words, NEW i \in Nat, NEW ts, Stands(Word(w), i, ts)
  PROVE  IsWord(ts, i, w) /\ i \in 1 .. Len(ts) /\ At(ts, i) = <<"word", w>>
  <1>1. <<"word", w>> \in Pieces
    BY WordPiece
  <1>2. i \in 1 .. Len(ts) /\ ts[i] = <<"word", w>>
    BY <1>1, OnePiece DEF Word
  <1> QED BY <1>2 DEF IsWord, At

LEMMA WordIs ==
  ASSUME NEW w \in Words
  PROVE  Word(w) \in Seq(Pieces) /\ Len(Word(w)) = 1 /\ ~HasRefused(Word(w))
  <1>1. <<"word", w>> \in Pieces /\ <<"word", w>>[1] # "refused"
    BY WordPiece
  <1> QED BY <1>1, OnePiece DEF Word

LEMMA ListingStep ==
  ASSUME NEW items \in Seq(Seq(Pieces)), NEW k \in {1, 2, 3}, NEW i \in Nat, NEW ts,
         NEW m \in Nat \ {0}, m + 1 <= Len(items), OfSize(items[m + 1], k),
         NEW r, IsListing(r, items, m, k, i, ts)
  PROVE  IsListing(r \o (Word("comma") \o items[m + 1]), items, m + 1, k, i, ts)
  <1>1. /\ r \in Seq(Pieces) /\ Len(r) = m * (k + 1) - 1
        /\ HasRefused(r) <=> \E j \in 1 .. m : HasRefused(items[j])
        /\ Stands(r, i, ts) => Placed(items, m, k, i, ts)
    BY DEF IsListing
  <1>2. PICK item \in Seq(Pieces) : item = items[m + 1]
    <2>1. m + 1 \in 1 .. Len(items)
      BY LenProperties
    <2> QED BY <2>1, ElementOfSeq
  <1>3. "comma" \in Words
    BY DEF Words
  <1>15. Len(item) = k
    BY <1>2 DEF OfSize
  <1>4. Word("comma") \in Seq(Pieces) /\ Len(Word("comma")) = 1 /\ ~HasRefused(Word("comma"))
    BY <1>3, WordIs
  <1>5. PICK tail \in Seq(Pieces) : tail = Word("comma") \o item
    BY <1>4, ConcatProperties
  <1>6. Len(tail) = 1 + k
    <2>1. Len(tail) = Len(Word("comma")) + Len(item)
      BY <1>4, <1>5, ConcatProperties, Zenon
    <2> QED BY <1>4, <1>15, <2>1
  <1>7. PICK all : all = r \o tail
    OBVIOUS
  <1>8. all \in Seq(Pieces) /\ Len(all) = m * (k + 1) - 1 + (1 + k)
    <2>1. all \in Seq(Pieces) /\ Len(all) = Len(r) + Len(tail)
      BY <1>1, <1>5, <1>7, ConcatProperties
    <2> QED BY <1>1, <1>6, <2>1
  <1>9. PICK w \in {2, 3, 4} : w = k + 1
    OBVIOUS
  <1>10. m * w \in Nat /\ (m + 1) * w = m * w + w
    BY Times
  <1>11. Len(all) = (m + 1) * (k + 1) - 1
    BY <1>8, <1>9, <1>10
  <1>12. HasRefused(all) <=> \E j \in 1 .. m + 1 : HasRefused(items[j])
    <2>1. HasRefused(tail) <=> HasRefused(item)
      BY <1>2, <1>4, <1>5, JoinRefused
    <2>2. HasRefused(all) <=> HasRefused(r) \/ HasRefused(item)
      BY <1>1, <1>5, <1>7, <2>1, JoinRefused
    <2>3. (\E j \in 1 .. m + 1 : HasRefused(items[j]))
            <=> (\E j \in 1 .. m : HasRefused(items[j])) \/ HasRefused(items[m + 1])
      OBVIOUS
    <2> QED BY <1>1, <1>2, <2>2, <2>3
  <1>13. ASSUME Stands(all, i, ts) PROVE Placed(items, m + 1, k, i, ts)
    <2>1. Stands(r, i, ts) /\ Stands(tail, i + Len(r), ts)
      BY <1>1, <1>5, <1>7, <1>13, JoinStands
    <2>2. PICK c \in Nat : c = i + Len(r)
      BY <1>1, LenProperties
    <2>3. Stands(Word("comma"), c, ts) /\ Stands(item, c + 1, ts)
      BY <1>2, <1>4, <1>5, <2>1, <2>2, JoinStands
    <2>4. IsWord(ts, c, "comma")
      BY <1>3, <2>3, WordStands
    <2>5. c = i + m * w - 1 /\ c + 1 = i + m * w
      BY <1>1, <1>9, <1>10, <2>2
    <2>6. Placed(items, m, k, i, ts)
      BY <1>1, <2>1
    <2>7. ASSUME NEW j \in 1 .. m + 1 PROVE Stands(items[j], i + (j - 1) * (k + 1), ts)
      <3>1. CASE j \in 1 .. m
        BY <2>6, <3>1 DEF Placed
      <3>2. CASE j = m + 1
        <4>1. j - 1 = m
          BY <3>2
        <4>2. i + (j - 1) * (k + 1) = c + 1
          BY <1>9, <2>5, <4>1
        <4> QED BY <1>2, <2>3, <3>2, <4>2
      <3> QED BY <3>1, <3>2
    <2>8. ASSUME NEW j \in 1 .. m + 1 - 1 PROVE IsWord(ts, i + j * (k + 1) - 1, "comma")
      <3>1. CASE j \in 1 .. m - 1
        BY <2>6, <3>1 DEF Placed
      <3>2. CASE j = m
        BY <1>9, <2>4, <2>5, <3>2
      <3> QED BY <3>1, <3>2
    <2> QED BY <2>7, <2>8 DEF Placed
  <1>14. IsListing(all, items, m + 1, k, i, ts)
    BY <1>8, <1>11, <1>12, <1>13 DEF IsListing
  <1> QED BY <1>2, <1>5, <1>7, <1>14

LEMMA ListedIs ==
  ASSUME NEW items \in Seq(Seq(Pieces)), items # <<>>, NEW k \in {1, 2, 3},
         \A j \in 1 .. Len(items) : OfSize(items[j], k), NEW i \in Nat, NEW ts
  PROVE  IsListing(Listed(items), items, Len(items), k, i, ts)
  <1>1. PICK n \in Nat \ {0} : n = Len(items)
    BY EmptySeq
  <1>2. PICK ws : ws = [j \in 1 .. Len(items) |->
                          IF j = 1 THEN items[j] ELSE Word("comma") \o items[j]]
    OBVIOUS
  <1>3. Len(ws) = n
    BY <1>1, <1>2
  <1>4. PICK f : IsJoined(f, ws, n) /\ FlattenSeq(ws) = f[n]
    BY <1>1, <1>3, FlattenIs
  <1>5. Listed(items) = f[n]
    BY <1>2, <1>4 DEF Listed
  <1>6. \A j \in 1 .. n : f[j] = IF j = 1 THEN items[j] ELSE f[j - 1] \o (Word("comma") \o items[j])
    <2>1. \A j \in 1 .. n : f[j] = IF j = 1 THEN ws[j] ELSE f[j - 1] \o ws[j]
      BY <1>4 DEF IsJoined
    <2>2. \A j \in 1 .. n : ws[j] = IF j = 1 THEN items[j] ELSE Word("comma") \o items[j]
      BY <1>1, <1>2
    <2> QED BY <2>1, <2>2
  <1> DEFINE S == {m \in Nat : m + 1 <= n => IsListing(f[m + 1], items, m + 1, k, i, ts)}
  <1>7. 0 \in S
    <2>1. 1 \in 1 .. n
      BY <1>1
    <2>2. f[1] = items[1] /\ items[1] \in Seq(Pieces) /\ OfSize(items[1], k)
      BY <1>1, <1>6, <2>1, ElementOfSeq
    <2>3. 1 * (k + 1) - 1 = k /\ i + (1 - 1) * (k + 1) = i
      OBVIOUS
    <2>4. Stands(items[1], i, ts) => Placed(items, 1, k, i, ts)
      <3>1. SUFFICES ASSUME Stands(items[1], i, ts) PROVE Placed(items, 1, k, i, ts)
        OBVIOUS
      <3>2. ASSUME NEW j \in 1 .. 1 PROVE Stands(items[j], i + (j - 1) * (k + 1), ts)
        <4>1. j = 1
          OBVIOUS
        <4>2. i + (j - 1) * (k + 1) = i
          BY <2>3, <4>1
        <4> QED BY <3>1, <4>1, <4>2
      <3>3. 1 .. 1 - 1 = {}
        OBVIOUS
      <3> QED BY <3>2, <3>3 DEF Placed
    <2>5. HasRefused(items[1]) <=> \E j \in 1 .. 1 : HasRefused(items[j])
      OBVIOUS
    <2>6. IsListing(f[1], items, 1, k, i, ts)
      BY <2>2, <2>3, <2>4, <2>5 DEF IsListing, OfSize
    <2> QED BY <2>6
  <1>8. ASSUME NEW m \in Nat, m \in S PROVE m + 1 \in S
    <2>1. SUFFICES ASSUME m + 1 + 1 <= n PROVE IsListing(f[m + 1 + 1], items, m + 1 + 1, k, i, ts)
      OBVIOUS
    <2>2. PICK l \in Nat \ {0} : l = m + 1
      OBVIOUS
    <2>3. l + 1 \in 1 .. n /\ l + 1 # 1 /\ l + 1 - 1 = l /\ l <= n
      BY <1>1, <2>1, <2>2
    <2>4. IsListing(f[l], items, l, k, i, ts)
      BY <1>8, <2>2, <2>3
    <2>5. f[l + 1] = f[l] \o (Word("comma") \o items[l + 1])
      <3>1. PICK j \in 1 .. n : j = l + 1 /\ j # 1 /\ j - 1 = l
        BY <2>3
      <3>2. f[j] = f[j - 1] \o (Word("comma") \o items[j])
        BY <1>6, <3>1
      <3> QED BY <3>1, <3>2
    <2>8. l + 1 <= Len(items)
      BY <1>1, <2>3
    <2>6. OfSize(items[l + 1], k)
      BY <1>1, <2>3
    <2>7. IsListing(f[l + 1], items, l + 1, k, i, ts)
      BY <2>4, <2>5, <2>6, <2>8, ListingStep
    <2> QED BY <2>2, <2>7
  <1> HIDE DEF S
  <1>9. Nat \subseteq S
    BY <1>7, <1>8, SetInduction
  <1>10. PICK m \in Nat : m + 1 = n
    <2>1. n - 1 \in Nat /\ n - 1 + 1 = n
      BY <1>1
    <2> QED BY <2>1
  <1>11. IsListing(f[m + 1], items, m + 1, k, i, ts)
    BY <1>9, <1>10 DEF S
  <1> QED BY <1>1, <1>5, <1>10, <1>11

\* No item leaves nothing.
LEMMA ListedNone == Listed(<<>>) = <<>>
  <1>1. [j \in 1 .. Len(<<>>) |-> IF j = 1 THEN <<>>[j] ELSE Word("comma") \o <<>>[j]] = <<>>
    BY EmptySeq
  <1> QED BY <1>1, FlattenEmpty DEF Listed

\* The items that stand somewhere are counted, up to what is no comma.
LEMMA ItemsAreCounted ==
  ASSUME NEW items, NEW n \in Nat \ {0}, NEW k \in {1, 2, 3}, NEW i \in Nat \ {0},
         NEW ts, Len(ts) \in Nat, Placed(items, n, k, i, ts), OfSize(items[n], k),
         ~IsWord(ts, i + n * (k + 1) - 1, "comma")
  PROVE  Count(ts, i, k) = n
  <1>1. n <= Len(ts)
    <2>1. n \in 1 .. n /\ 1 \in 1 .. k
      OBVIOUS
    <2>7. 1 \in 1 .. Len(items[n])
      BY <2>1 DEF OfSize
    <2>2. Stands(items[n], i + (n - 1) * (k + 1), ts)
      BY <2>1 DEF Placed
    <2>3. i + (n - 1) * (k + 1) + 1 - 1 \in 1 .. Len(ts)
      BY <2>2, <2>7 DEF Stands
    <2>4. PICK w \in {2, 3, 4} : w = k + 1
      OBVIOUS
    <2>5. n - 1 \in Nat
      OBVIOUS
    <2>6. (n - 1) * w \in Nat /\ n - 1 <= (n - 1) * w
      BY <2>5, Times
    <2> QED BY <2>3, <2>4, <2>6
  <1>2. /\ n \in 1 .. Len(ts) + 1
        /\ ~IsWord(ts, i + n * (k + 1) - 1, "comma")
        /\ \A m \in 1 .. n - 1 : IsWord(ts, i + m * (k + 1) - 1, "comma")
    <2>1. n \in 1 .. Len(ts) + 1
      BY <1>1
    <2>2. \A m \in 1 .. n - 1 : IsWord(ts, i + m * (k + 1) - 1, "comma")
      BY DEF Placed
    <2> QED BY <2>1, <2>2
  <1>3. ASSUME NEW l \in 1 .. Len(ts) + 1, ~IsWord(ts, i + l * (k + 1) - 1, "comma"),
               \A m \in 1 .. l - 1 : IsWord(ts, i + m * (k + 1) - 1, "comma")
        PROVE  l = n
    <2>1. ~(l < n)
      <3>1. SUFFICES ASSUME l < n PROVE FALSE
        OBVIOUS
      <3>2. l \in 1 .. n - 1
        BY <3>1
      <3> QED BY <1>2, <1>3, <3>2
    <2>2. ~(n < l)
      <3>1. SUFFICES ASSUME n < l PROVE FALSE
        OBVIOUS
      <3>2. n \in 1 .. l - 1
        BY <3>1
      <3> QED BY <1>2, <1>3, <3>2
    <2> QED BY <2>1, <2>2
  <1> QED BY <1>2, <1>3, Zenon DEF Count

-----------------------------------------------------------------------------
(***************************************************************************)
(* Filters, of any nesting.                                                *)
(***************************************************************************)
AreThree(p, a, b, c, i, ts) ==
  /\ p \in Seq(Pieces) /\ Len(p) = 3
  /\ HasRefused(p) <=> a[1] = "refused" \/ b[1] = "refused" \/ c[1] = "refused"
  /\ Stands(p, i, ts) => At(ts, i) = a /\ At(ts, i + 1) = b /\ At(ts, i + 2) = c
                         /\ i + 2 <= Len(ts)

LEMMA ThreePieces ==
  ASSUME NEW a \in Pieces, NEW b \in Pieces, NEW c \in Pieces, NEW i \in Nat, NEW ts
  PROVE  AreThree(<<a>> \o <<b>> \o <<c>>, a, b, c, i, ts)
  <1>7. PICK p : p = <<a>> \o <<b>> \o <<c>>
    OBVIOUS
  <1>1. /\ <<a>> \in Seq(Pieces) /\ Len(<<a>>) = 1 /\ (HasRefused(<<a>>) <=> a[1] = "refused")
        /\ <<b>> \in Seq(Pieces) /\ Len(<<b>>) = 1 /\ (HasRefused(<<b>>) <=> b[1] = "refused")
        /\ <<c>> \in Seq(Pieces) /\ Len(<<c>>) = 1 /\ (HasRefused(<<c>>) <=> c[1] = "refused")
    BY OnePiece
  <1>2. PICK u : u = <<a>> \o <<b>>
    OBVIOUS
  <1>3. u \in Seq(Pieces) /\ Len(u) = 2
    BY <1>1, <1>2, ConcatProperties
  <1>4. p \in Seq(Pieces) /\ Len(p) = 3
    BY <1>1, <1>2, <1>3, <1>7, ConcatProperties
  <1>5. HasRefused(p) <=> a[1] = "refused" \/ b[1] = "refused" \/ c[1] = "refused"
    <2>1. HasRefused(u) <=> a[1] = "refused" \/ b[1] = "refused"
      BY <1>1, <1>2, JoinRefused
    <2>2. HasRefused(p) <=> HasRefused(u) \/ HasRefused(<<c>>)
      BY <1>1, <1>2, <1>3, <1>7, JoinRefused
    <2> QED BY <1>1, <2>1, <2>2
  <1>6. ASSUME Stands(p, i, ts)
        PROVE  At(ts, i) = a /\ At(ts, i + 1) = b /\ At(ts, i + 2) = c /\ i + 2 <= Len(ts)
    <2>1. Stands(u, i, ts) /\ Stands(<<c>>, i + 2, ts)
      BY <1>1, <1>2, <1>3, <1>6, <1>7, JoinStands
    <2>2. Stands(<<a>>, i, ts) /\ Stands(<<b>>, i + 1, ts)
      BY <1>1, <1>2, <2>1, JoinStands
    <2>3. i \in 1 .. Len(ts) /\ ts[i] = a
      BY <2>2, OnePiece
    <2>4. i + 1 \in 1 .. Len(ts) /\ ts[i + 1] = b
      BY <2>2, OnePiece
    <2>5. i + 2 \in 1 .. Len(ts) /\ ts[i + 2] = c
      BY <2>1, OnePiece
    <2> QED BY <2>3, <2>4, <2>5 DEF At
  <1>8. AreThree(p, a, b, c, i, ts)
    BY <1>4, <1>5, <1>6 DEF AreThree
  <1> QED BY <1>7, <1>8

\* A word of a list stands at one place of it.
Distinct(words) == \A i, j \in 1 .. Len(words) : words[i] = words[j] => i = j

LEMMA PlaceIs ==
  ASSUME NEW words, Len(words) \in Nat, Distinct(words), NEW n \in 0 .. Len(words) - 1
  PROVE  PlaceOf(words, words[n + 1]) = n
  <1>1. PICK w : w = words[n + 1]
    OBVIOUS
  <1>2. n + 1 \in 1 .. Len(words)
    OBVIOUS
  <1>3. PlaceOf(words, w) = CHOOSE i \in 0 .. Len(words) - 1 : words[i + 1] = w
    BY <1>1, <1>2 DEF PlaceOf
  <1>4. \E i \in 0 .. Len(words) - 1 : words[i + 1] = w
    BY <1>1
  <1>5. \A i \in 0 .. Len(words) - 1 : words[i + 1] = w => i = n
    <2> SUFFICES ASSUME NEW i \in 0 .. Len(words) - 1, words[i + 1] = w PROVE i = n
      OBVIOUS
    <2>1. i + 1 \in 1 .. Len(words)
      OBVIOUS
    <2>2. i + 1 = n + 1
      BY <1>1, <1>2, <2>1 DEF Distinct
    <2> QED BY <2>2
  <1>6. (CHOOSE i \in 0 .. Len(words) - 1 : words[i + 1] = w) = n
    BY <1>4, <1>5, Zenon
  <1> QED BY <1>1, <1>3, <1>6

LEMMA SymbolKinds ==
  /\ Len(Symbols) = 6 /\ Distinct(Symbols)
  /\ \A n \in 0 .. 5 : Symbols[n + 1] \in Words
  <1>1. Len(Symbols) = 6
    BY DEF Symbols
  <1>2. /\ Symbols[1] = "=" /\ Symbols[2] = "!=" /\ Symbols[3] = "<"
        /\ Symbols[4] = "<=" /\ Symbols[5] = ">" /\ Symbols[6] = ">="
    BY DEF Symbols
  <1>3. Distinct(Symbols)
    BY <1>1, <1>2 DEF Distinct
  <1>4. \A n \in 1 .. 6 : Symbols[n] \in Words
    BY <1>2 DEF Words
  <1>5. \A n \in 0 .. 5 : n + 1 \in 1 .. 6
    OBVIOUS
  <1> QED BY <1>1, <1>3, <1>4, <1>5

LEMMA DirectionKinds ==
  /\ Len(DirectionWords) = 2 /\ Distinct(DirectionWords)
  /\ \A n \in 0 .. 1 : DirectionWords[n + 1] \in Words
  <1>1. Len(DirectionWords) = 2
    BY DEF DirectionWords
  <1>2. DirectionWords[1] = "ASC" /\ DirectionWords[2] = "DESC"
    BY DEF DirectionWords
  <1>3. Distinct(DirectionWords)
    BY <1>1, <1>2 DEF Distinct
  <1>4. \A n \in 1 .. 2 : DirectionWords[n] \in Words
    BY <1>2 DEF Words
  <1>5. \A n \in 0 .. 1 : n + 1 \in 1 .. 2
    OBVIOUS
  <1> QED BY <1>1, <1>3, <1>4, <1>5

\* The piece a word or a refusal is.
WordOrPiece(words, n, what) ==
  IF n \in 0 .. Len(words) - 1 THEN <<"word", words[n + 1]>> ELSE <<"refused", <<what, n>>>>

LEMMA WordOrIs ==
  ASSUME NEW words, NEW n, NEW what
  PROVE  WordOr(words, n, what) = <<WordOrPiece(words, n, what)>>
  BY DEF WordOr, WordOrPiece, Word

FilterAt(d, inner) ==
  IF d = 0 THEN Comparison ELSE Comparison \cup ({"AND", "OR"} \X inner \X inner)

IsFilter(f, n) == f = [d \in 0 .. n |-> FilterAt(d, f[d - 1])]

LEMMA FilterZero == \A a, b : FilterAt(0, a) = FilterAt(0, b)
  BY DEF FilterAt

\* The filters of each nesting, defined by those of one less, exist.
LEMMA FilterExists ==
  \A n \in Nat : \E f : IsFilter(f, n)
  <1> DEFINE S == {n \in Nat : \E f : IsFilter(f, n)}
  <1>1. 0 \in S
    <2> DEFINE f == [d \in 0 .. 0 |-> FilterAt(0, 0)]
    <2>1. ASSUME NEW d \in 0 .. 0 PROVE FilterAt(0, 0) = FilterAt(d, f[d - 1])
      BY FilterZero
    <2>2. IsFilter(f, 0)
      BY <2>1 DEF IsFilter
    <2> QED BY <2>2
  <1>2. ASSUME NEW n \in Nat, n \in S PROVE n + 1 \in S
    <2>1. PICK f : IsFilter(f, n)
      BY <1>2
    <2> DEFINE g == [d \in 0 .. n + 1 |-> IF d = n + 1 THEN FilterAt(n + 1, f[n]) ELSE f[d]]
    <2>2. ASSUME NEW d \in 0 .. n + 1 PROVE g[d] = FilterAt(d, g[d - 1])
      <3>1. CASE d = n + 1
        <4>1. g[d - 1] = f[n] /\ g[d] = FilterAt(n + 1, f[n])
          BY <3>1
        <4> HIDE DEF g
        <4> QED BY <3>1, <4>1
      <3>2. CASE d # n + 1
        <4>1. g[d] = f[d] /\ d \in 0 .. n
          BY <3>2
        <4>2. f[d] = FilterAt(d, f[d - 1])
          BY <2>1, <4>1 DEF IsFilter
        <4>3. d # 0 => g[d - 1] = f[d - 1]
          BY <3>2
        <4> HIDE DEF g
        <4>4. CASE d = 0
          <5>1. FilterAt(0, f[d - 1]) = FilterAt(0, g[d - 1])
            BY FilterZero
          <5> QED BY <4>1, <4>2, <4>4, <5>1
        <4> QED BY <4>1, <4>2, <4>3, <4>4
      <3> QED BY <3>1, <3>2
    <2>3. IsFilter(g, n + 1)
      BY <2>2 DEF IsFilter
    <2>4. n + 1 \in Nat
      OBVIOUS
    <2> HIDE DEF g
    <2> QED BY <2>3, <2>4
  <1> HIDE DEF S
  <1>3. Nat \subseteq S
    BY <1>1, <1>2, SetInduction
  <1> QED BY <1>3 DEF S

LEMMA FilterIs == \A d \in 0 .. Nesting : Filter[d] = FilterAt(d, Filter[d - 1])
  <1>1. \E f : f = [d \in 0 .. Nesting |->
                      IF d = 0 THEN Comparison
                      ELSE Comparison \cup ({"AND", "OR"} \X f[d - 1] \X f[d - 1])]
    BY FilterExists, BuilderAssumption DEF IsFilter, FilterAt
  <1>2. Filter = [d \in 0 .. Nesting |-> FilterAt(d, Filter[d - 1])]
    BY <1>1, Zenon DEF Filter, FilterAt
  <1> QED BY <1>2

IsJunction(f, d) ==
  /\ d # 0 /\ f[1] \in {"AND", "OR"} /\ f[2] \in Filter[d - 1] /\ f[3] \in Filter[d - 1]
  /\ f = <<f[1], f[2], f[3]>>

IsComparison(f) ==
  f[1] = "compare" /\ f[2] \in Int /\ f[3] \in Int /\ f[4] \in Values
    /\ f = <<"compare", f[2], f[3], f[4]>>

LEMMA FilterKinds ==
  ASSUME NEW d \in 0 .. Nesting, NEW f \in Filter[d]
  PROVE  IsComparison(f) \/ (IsJunction(f, d) /\ f[1] # "compare")
  <1>1. PICK inner : inner = Filter[d - 1]
    OBVIOUS
  <1>2. f \in FilterAt(d, inner)
    BY <1>1, FilterIs
  <1>3. CASE f \in Comparison
    BY <1>3 DEF Comparison, IsComparison
  <1>4. CASE d # 0 /\ f \in {"AND", "OR"} \X inner \X inner
    BY <1>1, <1>4 DEF IsJunction
  <1> QED BY <1>2, <1>3, <1>4 DEF FilterAt

PiecesOf(f, inner) ==
  Word("(") \o inner[f[2]] \o Word(f[1]) \o inner[f[3]] \o Word(")")

PiecesAt(d, inner) ==
  [f \in Filter[d] |-> IF f[1] = "compare" THEN comparisonPieces(f) ELSE PiecesOf(f, inner)]

IsPieces(f, n) == f = [d \in 0 .. n |-> PiecesAt(d, f[d - 1])]

LEMMA OnlyComparisons == \A f \in Filter[0] : f[1] = "compare"
  <1>1. 0 \in 0 .. Nesting
    BY BuilderAssumption
  <1> QED BY <1>1, FilterKinds DEF IsComparison, IsJunction

LEMMA PiecesZero == \A a, b : PiecesAt(0, a) = PiecesAt(0, b)
  BY OnlyComparisons, Zenon DEF PiecesAt

\* The pieces of the filters of each nesting exist.
LEMMA PiecesExists ==
  \A n \in Nat : \E f : IsPieces(f, n)
  <1> DEFINE S == {n \in Nat : \E f : IsPieces(f, n)}
  <1>1. 0 \in S
    <2> DEFINE f == [d \in 0 .. 0 |-> PiecesAt(0, 0)]
    <2>1. ASSUME NEW d \in 0 .. 0 PROVE PiecesAt(0, 0) = PiecesAt(d, f[d - 1])
      BY PiecesZero
    <2>2. IsPieces(f, 0)
      BY <2>1 DEF IsPieces
    <2> QED BY <2>2
  <1>2. ASSUME NEW n \in Nat, n \in S PROVE n + 1 \in S
    <2>1. PICK f : IsPieces(f, n)
      BY <1>2
    <2> DEFINE g == [d \in 0 .. n + 1 |-> IF d = n + 1 THEN PiecesAt(n + 1, f[n]) ELSE f[d]]
    <2>2. ASSUME NEW d \in 0 .. n + 1 PROVE g[d] = PiecesAt(d, g[d - 1])
      <3>1. CASE d = n + 1
        <4>1. g[d - 1] = f[n] /\ g[d] = PiecesAt(n + 1, f[n])
          BY <3>1
        <4> HIDE DEF g
        <4> QED BY <3>1, <4>1
      <3>2. CASE d # n + 1
        <4>1. g[d] = f[d] /\ d \in 0 .. n
          BY <3>2
        <4>2. f[d] = PiecesAt(d, f[d - 1])
          BY <2>1, <4>1 DEF IsPieces
        <4>3. d # 0 => g[d - 1] = f[d - 1]
          BY <3>2
        <4> HIDE DEF g
        <4>4. CASE d = 0
          <5>1. PiecesAt(0, f[d - 1]) = PiecesAt(0, g[d - 1])
            BY PiecesZero
          <5> QED BY <4>1, <4>2, <4>4, <5>1
        <4> QED BY <4>1, <4>2, <4>3, <4>4
      <3> QED BY <3>1, <3>2
    <2>3. IsPieces(g, n + 1)
      BY <2>2 DEF IsPieces
    <2>4. n + 1 \in Nat
      OBVIOUS
    <2> HIDE DEF g
    <2> QED BY <2>3, <2>4
  <1> HIDE DEF S
  <1>3. Nat \subseteq S
    BY <1>1, <1>2, SetInduction
  <1> QED BY <1>3 DEF S

LEMMA FilterPiecesIs == \A d \in 0 .. Nesting : filterPieces[d] = PiecesAt(d, filterPieces[d - 1])
  <1>1. \E g : g = [d \in 0 .. Nesting |->
                      [f \in Filter[d] |->
                         IF f[1] = "compare" THEN comparisonPieces(f)
                         ELSE Word("(") \o g[d - 1][f[2]] \o Word(f[1]) \o g[d - 1][f[3]] \o Word(")")]]
    BY PiecesExists, BuilderAssumption DEF IsPieces, PiecesAt, PiecesOf
  <1>2. filterPieces = [d \in 0 .. Nesting |-> PiecesAt(d, filterPieces[d - 1])]
    BY <1>1, Zenon DEF filterPieces, PiecesAt, PiecesOf
  <1> QED BY <1>2

SoundAt(d, inner) ==
  [f \in Filter[d] |-> IF f[1] = "compare" THEN f[2] > 0 /\ f[3] \in 0 .. 5
                       ELSE inner[f[2]] /\ inner[f[3]]]

IsSound(f, n) == f = [d \in 0 .. n |-> SoundAt(d, f[d - 1])]

LEMMA SoundZero == \A a, b : SoundAt(0, a) = SoundAt(0, b)
  BY OnlyComparisons, Zenon DEF SoundAt

\* Which filters of each nesting are sound is defined by those of one less.
LEMMA SoundExists ==
  \A n \in Nat : \E f : IsSound(f, n)
  <1> DEFINE S == {n \in Nat : \E f : IsSound(f, n)}
  <1>1. 0 \in S
    <2> DEFINE f == [d \in 0 .. 0 |-> SoundAt(0, 0)]
    <2>1. ASSUME NEW d \in 0 .. 0 PROVE SoundAt(0, 0) = SoundAt(d, f[d - 1])
      BY SoundZero
    <2>2. IsSound(f, 0)
      BY <2>1 DEF IsSound
    <2> QED BY <2>2
  <1>2. ASSUME NEW n \in Nat, n \in S PROVE n + 1 \in S
    <2>1. PICK f : IsSound(f, n)
      BY <1>2
    <2> DEFINE g == [d \in 0 .. n + 1 |-> IF d = n + 1 THEN SoundAt(n + 1, f[n]) ELSE f[d]]
    <2>2. ASSUME NEW d \in 0 .. n + 1 PROVE g[d] = SoundAt(d, g[d - 1])
      <3>1. CASE d = n + 1
        <4>1. g[d - 1] = f[n] /\ g[d] = SoundAt(n + 1, f[n])
          BY <3>1
        <4> HIDE DEF g
        <4> QED BY <3>1, <4>1
      <3>2. CASE d # n + 1
        <4>1. g[d] = f[d] /\ d \in 0 .. n
          BY <3>2
        <4>2. f[d] = SoundAt(d, f[d - 1])
          BY <2>1, <4>1 DEF IsSound
        <4>3. d # 0 => g[d - 1] = f[d - 1]
          BY <3>2
        <4> HIDE DEF g
        <4>4. CASE d = 0
          <5>1. SoundAt(0, f[d - 1]) = SoundAt(0, g[d - 1])
            BY SoundZero
          <5> QED BY <4>1, <4>2, <4>4, <5>1
        <4> QED BY <4>1, <4>2, <4>3, <4>4
      <3> QED BY <3>1, <3>2
    <2>3. IsSound(g, n + 1)
      BY <2>2 DEF IsSound
    <2>4. n + 1 \in Nat
      OBVIOUS
    <2> HIDE DEF g
    <2> QED BY <2>3, <2>4
  <1> HIDE DEF S
  <1>3. Nat \subseteq S
    BY <1>1, <1>2, SetInduction
  <1> QED BY <1>3 DEF S

LEMMA SoundIs == \A d \in 0 .. Nesting : Sound[d] = SoundAt(d, Sound[d - 1])
  <1>1. \E g : g = [d \in 0 .. Nesting |->
                      [f \in Filter[d] |->
                         IF f[1] = "compare" THEN f[2] > 0 /\ f[3] \in 0 .. 5
                         ELSE g[d - 1][f[2]] /\ g[d - 1][f[3]]]]
    BY SoundExists, BuilderAssumption DEF IsSound, SoundAt
  <1>2. Sound = [d \in 0 .. Nesting |-> SoundAt(d, Sound[d - 1])]
    BY <1>1, Zenon DEF Sound, SoundAt
  <1> QED BY <1>2

ReadAt(d, inner, ts) ==
  [i \in Nat |-> IF d # 0 /\ IsWord(ts, i, "(") THEN readJunction(ts, i, inner)
                 ELSE readComparison(ts, i)]

IsRead(f, n, ts) == f = [d \in 0 .. n |-> ReadAt(d, f[d - 1], ts)]

LEMMA ReadZero == \A a, b, ts : ReadAt(0, a, ts) = ReadAt(0, b, ts)
  BY DEF ReadAt

\* What is read at each place, of each nesting, exists.
LEMMA ReadExists ==
  ASSUME NEW ts
  PROVE  \A n \in Nat : \E f : IsRead(f, n, ts)
  <1> DEFINE S == {n \in Nat : \E f : IsRead(f, n, ts)}
  <1>1. 0 \in S
    <2> DEFINE f == [d \in 0 .. 0 |-> ReadAt(0, 0, ts)]
    <2>1. ASSUME NEW d \in 0 .. 0 PROVE ReadAt(0, 0, ts) = ReadAt(d, f[d - 1], ts)
      BY ReadZero
    <2>2. IsRead(f, 0, ts)
      BY <2>1 DEF IsRead
    <2> QED BY <2>2
  <1>2. ASSUME NEW n \in Nat, n \in S PROVE n + 1 \in S
    <2>1. PICK f : IsRead(f, n, ts)
      BY <1>2
    <2> DEFINE g == [d \in 0 .. n + 1 |-> IF d = n + 1 THEN ReadAt(n + 1, f[n], ts) ELSE f[d]]
    <2>2. ASSUME NEW d \in 0 .. n + 1 PROVE g[d] = ReadAt(d, g[d - 1], ts)
      <3>1. CASE d = n + 1
        <4>1. g[d - 1] = f[n] /\ g[d] = ReadAt(n + 1, f[n], ts)
          BY <3>1
        <4> HIDE DEF g
        <4> QED BY <3>1, <4>1
      <3>2. CASE d # n + 1
        <4>1. g[d] = f[d] /\ d \in 0 .. n
          BY <3>2
        <4>2. f[d] = ReadAt(d, f[d - 1], ts)
          BY <2>1, <4>1 DEF IsRead
        <4>3. d # 0 => g[d - 1] = f[d - 1]
          BY <3>2
        <4> HIDE DEF g
        <4>4. CASE d = 0
          <5>1. ReadAt(0, f[d - 1], ts) = ReadAt(0, g[d - 1], ts)
            BY ReadZero
          <5> QED BY <4>1, <4>2, <4>4, <5>1
        <4> QED BY <4>1, <4>2, <4>3, <4>4
      <3> QED BY <3>1, <3>2
    <2>3. IsRead(g, n + 1, ts)
      BY <2>2 DEF IsRead
    <2>4. n + 1 \in Nat
      OBVIOUS
    <2> HIDE DEF g
    <2> QED BY <2>3, <2>4
  <1> HIDE DEF S
  <1>3. Nat \subseteq S
    BY <1>1, <1>2, SetInduction
  <1> QED BY <1>3 DEF S

LEMMA ReadFilterIs ==
  ASSUME NEW ts
  PROVE  \E f : IsRead(f, Nesting, ts) /\ readFilter(ts) = f[Nesting]
  <1>1. \E f : f = [d \in 0 .. Nesting |->
          [i \in Nat |-> IF d # 0 /\ IsWord(ts, i, "(") THEN readJunction(ts, i, f[d - 1])
                         ELSE readComparison(ts, i)]]
    <2>1. PICK f : IsRead(f, Nesting, ts)
      BY ReadExists, BuilderAssumption
    <2> QED BY <2>1, Zenon DEF IsRead, ReadAt
  <1> QED BY <1>1, Zenon DEF readFilter, IsRead, ReadAt

\* The pieces of a comparison, and what is read where they stand.
LEMMA ComparisonIsRead ==
  ASSUME NEW f, IsComparison(f), NEW i \in Nat, NEW ts, NEW p, p = comparisonPieces(f)
  PROVE  /\ p \in Seq(Pieces) /\ Len(p) = 3
         /\ HasRefused(p) <=> ~(f[2] > 0 /\ f[3] \in 0 .. 5)
         /\ f[2] > 0 /\ f[3] \in 0 .. 5 /\ Stands(p, i, ts)
              => ~IsWord(ts, i, "(") /\ readComparison(ts, i) = [given |-> f, next |-> i + 3]
  <1>1. PICK n, o, v : n = f[2] /\ o = f[3] /\ v = f[4]
    OBVIOUS
  <1>2. n \in Int /\ o \in Int /\ v \in Values /\ f = <<"compare", n, o, v>>
    BY <1>1 DEF IsComparison
  <1>3. PICK a : a = IF IsName(n) THEN <<"name", n>> ELSE <<"refused", checkName("field", n)>>
    OBVIOUS
  <1>4. a \in Pieces /\ (a[1] = "refused" <=> ~(n > 0)) /\ (n > 0 => a = <<"name", n>>)
    <2>1. CASE n > 0
      <3>1. a = <<"name", n>>
        BY <1>3, <2>1 DEF IsName
      <3> QED BY <1>2, <2>1, <3>1, NamePiece
    <2>2. CASE ~(n > 0)
      <3>1. a = <<"refused", <<"not-a-name", "field", n>>>>
        BY <1>3, <2>2 DEF IsName, checkName
      <3>2. <<"not-a-name", "field", n>> \in Whys
        BY <1>2 DEF Whys
      <3> QED BY <2>2, <3>1, <3>2, RefusedPiece
    <2> QED BY <2>1, <2>2
  <1>5. PICK b : b = WordOrPiece(Symbols, o, "operator")
    OBVIOUS
  <1>6. /\ b \in Pieces /\ (b[1] = "refused" <=> o \notin 0 .. 5)
        /\ o \in 0 .. 5 => b = <<"word", Symbols[o + 1]>>
    <2>1. CASE o \in 0 .. 5
      <3>1. b = <<"word", Symbols[o + 1]>>
        BY <1>5, <2>1, SymbolKinds DEF WordOrPiece
      <3>2. PICK w \in Words : w = Symbols[o + 1]
        BY <2>1, SymbolKinds
      <3> QED BY <2>1, <3>1, <3>2, WordPiece
    <2>2. CASE o \notin 0 .. 5
      <3>1. b = <<"refused", <<"operator", o>>>>
        BY <1>5, <2>2, SymbolKinds DEF WordOrPiece
      <3>2. <<"operator", o>> \in Whys
        BY <1>2 DEF Whys
      <3> QED BY <2>2, <3>1, <3>2, RefusedPiece
    <2> QED BY <2>1, <2>2
  <1>7. PICK c \in Pieces : c = <<"value", v>> /\ c[1] = "value"
    BY <1>2, ValuePiece
  <1>8. p = <<a>> \o <<b>> \o <<c>>
    <2>1. (IF IsName(n) THEN Name(n) ELSE << <<"refused", checkName("field", n)>> >>) = <<a>>
      BY <1>3 DEF Name
    <2>2. WordOr(Symbols, o, "operator") = <<b>>
      BY <1>5, WordOrIs
    <2>3. Bound(v) = <<c>>
      BY <1>7 DEF Bound
    <2> QED BY <1>1, <2>1, <2>2, <2>3 DEF comparisonPieces
  <1>9. /\ p \in Seq(Pieces) /\ Len(p) = 3
        /\ HasRefused(p) <=> a[1] = "refused" \/ b[1] = "refused" \/ c[1] = "refused"
        /\ Stands(p, i, ts) => At(ts, i) = a /\ At(ts, i + 1) = b /\ At(ts, i + 2) = c
    <2>1. AreThree(p, a, b, c, i, ts)
      BY <1>4, <1>6, <1>8, ThreePieces
    <2> QED BY <2>1 DEF AreThree
  <1>10. HasRefused(p) <=> ~(n > 0 /\ o \in 0 .. 5)
    BY <1>4, <1>6, <1>7, <1>9
  <1>11. ASSUME n > 0, o \in 0 .. 5, Stands(p, i, ts)
         PROVE  ~IsWord(ts, i, "(") /\ readComparison(ts, i) = [given |-> f, next |-> i + 3]
    <2>1. At(ts, i) = <<"name", n>> /\ At(ts, i + 1) = <<"word", Symbols[o + 1]>>
            /\ At(ts, i + 2) = <<"value", v>>
      BY <1>4, <1>6, <1>7, <1>9, <1>11
    <2>2. ~IsWord(ts, i, "(")
      BY <2>1 DEF IsWord
    <2>3. PlaceOf(Symbols, Symbols[o + 1]) = o
      <3>1. Len(Symbols) \in Nat /\ o \in 0 .. Len(Symbols) - 1 /\ Distinct(Symbols)
        BY <1>11, SymbolKinds
      <3> QED BY <3>1, PlaceIs
    <2>4. At(ts, i)[2] = n /\ At(ts, i + 1)[2] = Symbols[o + 1] /\ At(ts, i + 2)[2] = v
      BY <2>1
    <2>5. readComparison(ts, i) = [given |-> <<"compare", n, o, v>>, next |-> i + 3]
      BY <2>3, <2>4 DEF readComparison
    <2> QED BY <1>2, <2>2, <2>5
  <1> QED BY <1>1, <1>9, <1>10, <1>11

\* The pieces of AND and OR, and where the pieces inside them stand.
StandsInside(p, w, l, r, i, ts) ==
  /\ p \in Seq(Pieces) /\ Len(p) = Len(l) + Len(r) + 3
  /\ HasRefused(p) <=> HasRefused(l) \/ HasRefused(r)
  /\ Stands(p, i, ts)
       => /\ IsWord(ts, i, "(") /\ Stands(l, i + 1, ts)
          /\ At(ts, i + 1 + Len(l)) = <<"word", w>>
          /\ Stands(r, i + 1 + Len(l) + 1, ts)

LEMMA JunctionStands ==
  ASSUME NEW w \in Words, NEW l \in Seq(Pieces), NEW r \in Seq(Pieces), NEW i \in Nat, NEW ts
  PROVE  StandsInside(Word("(") \o l \o Word(w) \o r \o Word(")"), w, l, r, i, ts)
  <1>1. "(" \in Words /\ ")" \in Words
    BY DEF Words
  <1>12. PICK m \in Nat, n \in Nat : m = Len(l) /\ n = Len(r)
    BY LenProperties
  <1>2. PICK a \in Seq(Pieces) : a = Word("(") /\ Len(a) = 1 /\ ~HasRefused(a)
    BY <1>1, WordIs
  <1>3. PICK b \in Seq(Pieces) : b = Word(w) /\ Len(b) = 1 /\ ~HasRefused(b)
    BY WordIs
  <1>4. PICK c \in Seq(Pieces) : c = Word(")") /\ Len(c) = 1 /\ ~HasRefused(c)
    BY <1>1, WordIs
  <1>5. PICK x \in Seq(Pieces) : x = a \o l /\ Len(x) = 1 + m
    <2>1. a \o l \in Seq(Pieces) /\ Len(a \o l) = Len(a) + Len(l)
      BY ConcatProperties
    <2> QED BY <1>2, <1>12, <2>1
  <1>6. PICK y \in Seq(Pieces) : y = x \o b /\ Len(y) = 2 + m
    <2>1. x \o b \in Seq(Pieces) /\ Len(x \o b) = Len(x) + Len(b)
      BY ConcatProperties
    <2>2. Len(x \o b) = 2 + m
      BY <1>3, <1>5, <2>1
    <2> QED BY <2>1, <2>2
  <1>7. PICK z \in Seq(Pieces) : z = y \o r /\ Len(z) = 2 + m + n
    <2>1. y \o r \in Seq(Pieces) /\ Len(y \o r) = Len(y) + Len(r)
      BY ConcatProperties
    <2> QED BY <1>6, <1>12, <2>1
  <1>8. PICK p \in Seq(Pieces) : p = z \o c /\ Len(p) = m + n + 3
    <2>1. z \o c \in Seq(Pieces) /\ Len(z \o c) = Len(z) + Len(c)
      BY ConcatProperties
    <2>2. PICK lz, lc : lz = Len(z) /\ lc = Len(c)
      OBVIOUS
    <2>3. lz = 2 + m + n /\ lc = 1
      BY <1>4, <1>7, <2>2
    <2>4. lz + lc = m + n + 3
      BY <2>3
    <2> QED BY <2>1, <2>2, <2>4
  <1>9. p = Word("(") \o l \o Word(w) \o r \o Word(")")
    BY <1>2, <1>3, <1>4, <1>5, <1>6, <1>7, <1>8
  <1>10. HasRefused(p) <=> HasRefused(l) \/ HasRefused(r)
    <2>1. HasRefused(x) <=> HasRefused(a) \/ HasRefused(l)
      BY <1>5, JoinRefused
    <2>2. HasRefused(y) <=> HasRefused(x) \/ HasRefused(b)
      BY <1>6, JoinRefused
    <2>3. HasRefused(z) <=> HasRefused(y) \/ HasRefused(r)
      BY <1>7, JoinRefused
    <2>4. HasRefused(p) <=> HasRefused(z) \/ HasRefused(c)
      BY <1>8, JoinRefused
    <2> QED BY <1>2, <1>3, <1>4, <2>1, <2>2, <2>3, <2>4
  <1>11. ASSUME Stands(p, i, ts)
         PROVE  /\ IsWord(ts, i, "(") /\ Stands(l, i + 1, ts)
                /\ At(ts, i + 1 + m) = <<"word", w>> /\ Stands(r, i + 1 + m + 1, ts)
    <2>1. Stands(z, i, ts)
      BY <1>8, <1>11, JoinStands
    <2>2. Stands(y, i, ts) /\ Stands(r, i + (2 + m), ts)
      BY <1>6, <1>7, <2>1, JoinStands
    <2>3. Stands(x, i, ts) /\ Stands(b, i + (1 + m), ts)
      BY <1>5, <1>6, <2>2, JoinStands
    <2>4. Stands(a, i, ts) /\ Stands(l, i + 1, ts)
      BY <1>2, <1>5, <2>3, JoinStands
    <2>5. IsWord(ts, i, "(")
      BY <1>1, <1>2, <2>4, WordStands
    <2>6. PICK e \in Nat : e = i + 1 + m /\ e = i + (1 + m) /\ e + 1 = i + (2 + m)
      OBVIOUS
    <2>7. At(ts, e) = <<"word", w>>
      BY <1>3, <2>3, <2>6, WordStands
    <2> QED BY <2>2, <2>4, <2>5, <2>6, <2>7
  <1>13. StandsInside(p, w, l, r, i, ts)
    BY <1>8, <1>10, <1>11, <1>12 DEF StandsInside
  <1> QED BY <1>9, <1>13

\* What is read where the pieces of a filter stand is the filter.
IsFilterRead(f, p, sound, read, ts) ==
  /\ p \in Seq(Pieces)
  /\ HasRefused(p) <=> ~sound
  /\ \A i \in Nat : sound /\ Stands(p, i, ts) => read[i] = [given |-> f, next |-> i + Len(p)]

IsJoinOf(d, w, pl, pr, sl, sr, sound, inner, read, ts, p) ==
  /\ read = ReadAt(d, inner, ts) /\ sound = (sl /\ sr)
  /\ p = Word("(") \o pl \o Word(w) \o pr \o Word(")")

LEMMA JunctionIsRead ==
  ASSUME NEW d \in 1 .. Nesting, NEW w \in {"AND", "OR"}, NEW l, NEW r, NEW pl, NEW pr,
         NEW sl, NEW sr, NEW sound, NEW inner, NEW read, NEW ts, NEW p,
         IsFilterRead(l, pl, sl, inner, ts), IsFilterRead(r, pr, sr, inner, ts),
         IsJoinOf(d, w, pl, pr, sl, sr, sound, inner, read, ts, p)
  PROVE  IsFilterRead(<<w, l, r>>, p, sound, read, ts)
  <1>0. /\ read = ReadAt(d, inner, ts) /\ sound = (sl /\ sr)
        /\ p = Word("(") \o pl \o Word(w) \o pr \o Word(")")
    BY DEF IsJoinOf
  <1>1. w \in Words
    BY DEF Words
  <1>2. /\ pl \in Seq(Pieces) /\ (HasRefused(pl) <=> ~sl)
        /\ pr \in Seq(Pieces) /\ (HasRefused(pr) <=> ~sr)
    BY Zenon DEF IsFilterRead
  <1>3. p \in Seq(Pieces) /\ Len(p) = Len(pl) + Len(pr) + 3
          /\ (HasRefused(p) <=> HasRefused(pl) \/ HasRefused(pr))
    <2>1. StandsInside(p, w, pl, pr, 0, ts)
      BY <1>0, <1>1, <1>2, JunctionStands
    <2> QED BY <2>1 DEF StandsInside
  <1>4. ASSUME NEW i \in Nat, sl, sr, Stands(p, i, ts)
        PROVE  read[i] = [given |-> <<w, l, r>>, next |-> i + Len(p)]
    <2>1. /\ IsWord(ts, i, "(") /\ Stands(pl, i + 1, ts)
          /\ At(ts, i + 1 + Len(pl)) = <<"word", w>> /\ Stands(pr, i + 1 + Len(pl) + 1, ts)
      <3>1. StandsInside(p, w, pl, pr, i, ts)
        BY <1>0, <1>1, <1>2, JunctionStands
      <3> QED BY <1>4, <3>1 DEF StandsInside
    <2>2. PICK m \in Nat : m = i + 1 + Len(pl)
      BY <1>2, LenProperties
    <2>9. i + 1 \in Nat /\ m + 1 \in Nat
      OBVIOUS
    <2>3. inner[i + 1] = [given |-> l, next |-> i + 1 + Len(pl)]
      BY <1>4, <2>1, <2>9, Zenon DEF IsFilterRead
    <2>4. inner[m + 1] = [given |-> r, next |-> m + 1 + Len(pr)]
      BY <1>4, <2>1, <2>2, <2>9, Zenon DEF IsFilterRead
    <2>5. PICK il, ir : il = inner[i + 1] /\ ir = inner[il.next + 1]
      OBVIOUS
    <2>6. il.given = l /\ il.next = m /\ ir.given = r /\ ir.next = m + 1 + Len(pr)
      BY <2>2, <2>3, <2>4, <2>5
    <2>7. readJunction(ts, i, inner) = [given |-> <<At(ts, il.next)[2], il.given, ir.given>>,
                                        next |-> ir.next + 1]
      BY <2>5, Zenon DEF readJunction
    <2>8. read[i] = readJunction(ts, i, inner)
      BY <1>0, <2>1 DEF ReadAt
    <2>10. At(ts, il.next)[2] = w
      BY <2>1, <2>2, <2>6
    <2>11. ir.next + 1 = i + Len(p)
      <3>1. PICK nl \in Nat, nr \in Nat : nl = Len(pl) /\ nr = Len(pr)
        BY <1>2, LenProperties
      <3>2. Len(p) = nl + nr + 3 /\ m = i + 1 + nl /\ ir.next = m + 1 + nr
        BY <1>3, <2>2, <2>6, <3>1
      <3>3. m + 1 + nr + 1 = i + (nl + nr + 3)
        BY <3>1, <3>2
      <3> QED BY <3>2, <3>3
    <2> QED BY <2>6, <2>7, <2>8, <2>10, <2>11
  <1>5. HasRefused(p) <=> ~(sl /\ sr)
    BY <1>2, <1>3, Zenon
  <1> QED BY <1>0, <1>3, <1>4, <1>5, Zenon DEF IsFilterRead

LEMMA FiltersAreRead ==
  ASSUME NEW ts, NEW read, IsRead(read, Nesting, ts)
  PROVE  \A d \in 0 .. Nesting : \A f \in Filter[d] :
           IsFilterRead(f, filterPieces[d][f], Sound[d][f], read[d], ts)
  <1> DEFINE S == {d \in Nat : d <= Nesting => \A f \in Filter[d] :
                      IsFilterRead(f, filterPieces[d][f], Sound[d][f], read[d], ts)}
  <1>1. ASSUME NEW d \in 0 .. Nesting, NEW f \in Filter[d], IsComparison(f)
        PROVE  IsFilterRead(f, filterPieces[d][f], Sound[d][f], read[d], ts)
    <2>1. f[1] = "compare"
      BY <1>1 DEF IsComparison
    <2>2. filterPieces[d][f] = comparisonPieces(f)
      BY <2>1, FilterPiecesIs DEF PiecesAt
    <2>3. Sound[d][f] = (f[2] > 0 /\ f[3] \in 0 .. 5)
      BY <2>1, SoundIs, Zenon DEF SoundAt
    <2>4. PICK p : p = comparisonPieces(f)
      OBVIOUS
    <2>5. /\ p \in Seq(Pieces) /\ Len(p) = 3
          /\ HasRefused(p) <=> ~(f[2] > 0 /\ f[3] \in 0 .. 5)
      <3>1. 0 \in Nat
        OBVIOUS
      <3> QED BY <1>1, <2>4, <3>1, ComparisonIsRead
    <2>6. ASSUME NEW i \in Nat, f[2] > 0 /\ f[3] \in 0 .. 5, Stands(p, i, ts)
          PROVE  read[d][i] = [given |-> f, next |-> i + Len(p)]
      <3>1. ~IsWord(ts, i, "(") /\ readComparison(ts, i) = [given |-> f, next |-> i + 3]
        BY <1>1, <2>4, <2>6, ComparisonIsRead
      <3>2. read[d] = ReadAt(d, read[d - 1], ts)
        BY DEF IsRead
      <3>3. read[d][i] = readComparison(ts, i)
        BY <3>1, <3>2 DEF ReadAt
      <3> QED BY <2>5, <3>1, <3>3
    <2> QED BY <2>2, <2>3, <2>4, <2>5, <2>6, Zenon DEF IsFilterRead
  <1>2. 0 \in S
    <2>1. 0 \in 0 .. Nesting
      BY BuilderAssumption
    <2>2. \A f \in Filter[0] : IsComparison(f)
      BY <2>1, FilterKinds DEF IsJunction
    <2> QED BY <1>1, <2>1, <2>2
  <1>3. ASSUME NEW d \in Nat, d \in S PROVE d + 1 \in S
    <2>1. SUFFICES ASSUME d + 1 <= Nesting, NEW f \in Filter[d + 1]
                   PROVE  IsFilterRead(f, filterPieces[d + 1][f], Sound[d + 1][f], read[d + 1], ts)
      OBVIOUS
    <2>2. PICK e \in 1 .. Nesting : e = d + 1 /\ e - 1 = d /\ e \in 0 .. Nesting /\ d <= Nesting
      BY <2>1, BuilderAssumption
    <2>3. CASE IsComparison(f)
      BY <1>1, <2>2, <2>3
    <2>4. CASE IsJunction(f, e) /\ f[1] # "compare"
      <3>1. PICK w, l, r : w = f[1] /\ l = f[2] /\ r = f[3]
        OBVIOUS
      <3>2. w \in {"AND", "OR"} /\ l \in Filter[d] /\ r \in Filter[d] /\ f = <<w, l, r>>
        BY <2>2, <2>4, <3>1 DEF IsJunction
      <3>3. /\ IsFilterRead(l, filterPieces[d][l], Sound[d][l], read[d], ts)
            /\ IsFilterRead(r, filterPieces[d][r], Sound[d][r], read[d], ts)
        BY <1>3, <2>2, <3>2
      <3>4. read[e] = ReadAt(e, read[d], ts)
        BY <2>2 DEF IsRead
      <3>5. filterPieces[e][f] = PiecesOf(f, filterPieces[d])
        <4>1. filterPieces[e] = PiecesAt(e, filterPieces[d])
          BY <2>2, FilterPiecesIs
        <4>2. f \in Filter[e]
          BY <2>1, <2>2
        <4> QED BY <2>4, <4>1, <4>2 DEF PiecesAt
      <3>6. filterPieces[e][f] = Word("(") \o filterPieces[d][l] \o Word(w) \o filterPieces[d][r] \o Word(")")
        BY <3>1, <3>5 DEF PiecesOf
      <3>7. Sound[e][f] = (Sound[d][l] /\ Sound[d][r])
        <4>1. Sound[e] = SoundAt(e, Sound[d])
          BY <2>2, SoundIs
        <4>2. f \in Filter[e]
          BY <2>1, <2>2
        <4> QED BY <2>4, <3>1, <4>1, <4>2, Zenon DEF SoundAt
      <3>8. IsFilterRead(<<w, l, r>>, filterPieces[e][f], Sound[d][l] /\ Sound[d][r], read[e], ts)
        <4>1. PICK pl, pr, p : pl = filterPieces[d][l] /\ pr = filterPieces[d][r] /\ p = filterPieces[e][f]
          OBVIOUS
        <4>2. p = Word("(") \o pl \o Word(w) \o pr \o Word(")")
          BY <3>6, <4>1
        <4>3. PICK sl, sr, inner, q : sl = Sound[d][l] /\ sr = Sound[d][r] /\ inner = read[d] /\ q = read[e]
          BY Zenon
        <4>4. IsFilterRead(l, pl, sl, inner, ts) /\ IsFilterRead(r, pr, sr, inner, ts)
          BY <3>3, <4>1, <4>3, Zenon
        <4>5. q = ReadAt(e, inner, ts)
          BY <3>4, <4>3
        <4>6. PICK sound : sound = (sl /\ sr)
          BY Zenon
        <4>7. IsJoinOf(e, w, pl, pr, sl, sr, sound, inner, q, ts, p)
          BY <4>2, <4>5, <4>6, Zenon DEF IsJoinOf
        <4>8. IsFilterRead(<<w, l, r>>, p, sound, q, ts)
          BY <3>2, <4>4, <4>7, JunctionIsRead
        <4> QED BY <4>1, <4>3, <4>6, <4>8, Zenon
      <3> QED BY <2>2, <3>2, <3>7, <3>8, Zenon
    <2> QED BY <2>1, <2>2, <2>3, <2>4, FilterKinds
  <1> HIDE DEF S
  <1>4. Nat \subseteq S
    BY <1>2, <1>3, SetInduction
  <1>5. \A d \in 0 .. Nesting : d \in Nat /\ d <= Nesting
    BY BuilderAssumption
  <1> QED BY <1>4, <1>5 DEF S

\* A filter, as deep as one may be.
LEMMA FilterIsRead ==
  ASSUME NEW f \in Filter[Nesting], NEW ts
  PROVE  IsFilterRead(f, filterPieces[Nesting][f], Sound[Nesting][f], readFilter(ts), ts)
  <1>1. PICK read : IsRead(read, Nesting, ts) /\ readFilter(ts) = read[Nesting]
    BY ReadFilterIs
  <1>2. Nesting \in 0 .. Nesting
    BY BuilderAssumption
  <1> QED BY <1>1, <1>2, FiltersAreRead

-----------------------------------------------------------------------------
(***************************************************************************)
(* Clauses: what is read where their pieces stand, and with which words    *)
(* they begin.                                                             *)
(***************************************************************************)
Begins(ts, i, W) == \E w \in W : At(ts, i) = <<"word", w>>

LEMMA BeginsOther ==
  ASSUME NEW ts, NEW i, NEW W, Begins(ts, i, W), NEW w, w \notin W
  PROVE  ~IsWord(ts, i, w)
  <1>1. PICK u \in W : At(ts, i) = <<"word", u>>
    BY DEF Begins
  <1>2. PICK o : o = At(ts, i)
    OBVIOUS
  <1>3. o[2] = u /\ u # w
    BY <1>1, <1>2
  <1>4. o # <<"word", w>>
    BY <1>3
  <1> QED BY <1>2, <1>4 DEF IsWord

LEMMA BeginsMore ==
  ASSUME NEW ts, NEW i, NEW W, NEW V, Begins(ts, i, W), W \subseteq V
  PROVE  Begins(ts, i, V)
  BY DEF Begins

LEMMA WordBegins ==
  ASSUME NEW ts, NEW i, NEW w, NEW W, w \in W, IsWord(ts, i, w)
  PROVE  Begins(ts, i, W)
  BY DEF Begins, IsWord

AreTwo(p, a, b, i, ts) ==
  /\ p \in Seq(Pieces) /\ Len(p) = 2
  /\ HasRefused(p) <=> a[1] = "refused" \/ b[1] = "refused"
  /\ Stands(p, i, ts) => At(ts, i) = a /\ At(ts, i + 1) = b

LEMMA TwoPieces ==
  ASSUME NEW a \in Pieces, NEW b \in Pieces, NEW i \in Nat, NEW ts
  PROVE  AreTwo(<<a>> \o <<b>>, a, b, i, ts)
  <1>1. /\ <<a>> \in Seq(Pieces) /\ Len(<<a>>) = 1 /\ (HasRefused(<<a>>) <=> a[1] = "refused")
        /\ <<b>> \in Seq(Pieces) /\ Len(<<b>>) = 1 /\ (HasRefused(<<b>>) <=> b[1] = "refused")
    BY OnePiece
  <1>2. PICK p : p = <<a>> \o <<b>>
    OBVIOUS
  <1>3. p \in Seq(Pieces) /\ Len(p) = 2
    BY <1>1, <1>2, ConcatProperties
  <1>4. HasRefused(p) <=> a[1] = "refused" \/ b[1] = "refused"
    BY <1>1, <1>2, JoinRefused
  <1>5. ASSUME Stands(p, i, ts) PROVE At(ts, i) = a /\ At(ts, i + 1) = b
    <2>1. Stands(<<a>>, i, ts) /\ Stands(<<b>>, i + 1, ts)
      BY <1>1, <1>2, <1>5, JoinStands
    <2>2. i \in 1 .. Len(ts) /\ ts[i] = a
      BY <2>1, OnePiece
    <2>3. i + 1 \in 1 .. Len(ts) /\ ts[i + 1] = b
      BY <2>1, OnePiece
    <2> QED BY <2>2, <2>3 DEF At
  <1>6. AreTwo(p, a, b, i, ts)
    BY <1>3, <1>4, <1>5 DEF AreTwo
  <1> QED BY <1>2, <1>6

\* What may be left out: nothing, or one piece.
IsOption(given) == given = Absent \/ \E p \in Pieces : p[1] # "refused" /\ given = <<p>>

IsClause(w, given, p) ==
  /\ p \in Seq(Pieces) /\ ~HasRefused(p)
  /\ \A i \in Nat : \A ts, W :
       /\ w \notin W /\ Stands(p, i, ts) /\ Begins(ts, i + Len(p), W)
       => readClause(ts, i, w) = [given |-> given, next |-> i + Len(p)]
            /\ Begins(ts, i, W \cup {w})

\* A clause where it stands.
ClauseAt(w, given, p, i, e, ts, W) ==
  readClause(ts, i, w) = [given |-> given, next |-> e] /\ Begins(ts, i, W \cup {w})

LEMMA ClauseStands ==
  ASSUME NEW w, NEW given, NEW p, IsClause(w, given, p), NEW i \in Nat, NEW e, e = i + Len(p),
         NEW ts, NEW W, w \notin W, Stands(p, i, ts), Begins(ts, e, W)
  PROVE  ClauseAt(w, given, p, i, e, ts, W)
  BY Zenon DEF IsClause, ClauseAt

LEMMA ClauseIsRead ==
  ASSUME NEW w \in Words, NEW given, IsOption(given)
  PROVE  IsClause(w, given, clausePieces(w, given))
  <1>1. PICK p : p = clausePieces(w, given)
    OBVIOUS
  <1>2. CASE given = Absent
    <2>1. p = <<>> /\ p \in Seq(Pieces) /\ Len(p) = 0 /\ ~HasRefused(p)
      BY <1>1, <1>2, NoPiece DEF clausePieces
    <2>2. ASSUME NEW i \in Nat, NEW ts, NEW W, w \notin W, Begins(ts, i + Len(p), W)
          PROVE  readClause(ts, i, w) = [given |-> given, next |-> i + Len(p)]
                   /\ Begins(ts, i, W \cup {w})
      <3>1. i + Len(p) = i
        BY <2>1
      <3>2. Begins(ts, i, W)
        BY <2>2, <3>1
      <3>3. ~IsWord(ts, i, w)
        BY <2>2, <3>2, BeginsOther
      <3>4. readClause(ts, i, w) = [given |-> given, next |-> i + Len(p)]
        BY <1>2, <3>1, <3>3 DEF readClause, Missing
      <3>5. Begins(ts, i, W \cup {w})
        BY <3>2, BeginsMore
      <3> QED BY <3>4, <3>5
    <2>3. IsClause(w, given, p)
      BY <2>1, <2>2, Zenon DEF IsClause
    <2> QED BY <1>1, <2>3
  <1>3. CASE given # Absent
    <2>1. PICK b \in Pieces : b[1] # "refused" /\ given = <<b>>
      BY <1>3 DEF IsOption
    <2>2. PICK a \in Pieces : a = <<"word", w>> /\ a[1] # "refused"
      BY WordPiece
    <2>3. p = <<a>> \o <<b>>
      BY <1>1, <1>3, <2>1, <2>2 DEF clausePieces, Word
    <2>4. p \in Seq(Pieces) /\ Len(p) = 2 /\ ~HasRefused(p)
      <3>1. 0 \in Nat /\ AreTwo(p, a, b, 0, <<>>)
        BY <2>3, TwoPieces
      <3> QED BY <2>1, <2>2, <3>1 DEF AreTwo
    <2>5. ASSUME NEW i \in Nat, NEW ts, NEW W, Stands(p, i, ts)
          PROVE  readClause(ts, i, w) = [given |-> given, next |-> i + Len(p)]
                   /\ Begins(ts, i, W \cup {w})
      <3>1. AreTwo(p, a, b, i, ts)
        BY <2>3, TwoPieces
      <3>2. At(ts, i) = a /\ At(ts, i + 1) = b
        BY <2>5, <3>1 DEF AreTwo
      <3>3. IsWord(ts, i, w)
        BY <2>2, <3>2 DEF IsWord
      <3>4. readClause(ts, i, w) = [given |-> <<b>>, next |-> i + 2]
        BY <3>2, <3>3 DEF readClause
      <3>5. w \in W \cup {w}
        OBVIOUS
      <3>6. Begins(ts, i, W \cup {w})
        BY <3>3, <3>5, WordBegins
      <3> QED BY <2>1, <2>4, <3>4, <3>6
    <2>6. IsClause(w, given, p)
      BY <2>4, <2>5, Zenon DEF IsClause
    <2> QED BY <1>1, <2>6
  <1> QED BY <1>2, <1>3

IsFilterOption(filter) == filter = Absent \/ \E f \in Filter[Nesting] : filter = <<f>>

Accepted(filter) == filter # Absent => Sound[Nesting][filter[1]]

IsWhere(filter, p) ==
  /\ p \in Seq(Pieces) /\ (HasRefused(p) <=> ~Accepted(filter))
  /\ \A i \in Nat : \A ts, W :
       /\ Accepted(filter) /\ "WHERE" \notin W /\ Stands(p, i, ts) /\ Begins(ts, i + Len(p), W)
       => readWhere(ts, i) = [given |-> filter, next |-> i + Len(p)]
            /\ Begins(ts, i, W \cup {"WHERE"})

LEMMA WhereIsRead ==
  ASSUME NEW filter, IsFilterOption(filter)
  PROVE  IsWhere(filter, wherePieces(filter))
  <1>1. PICK p : p = wherePieces(filter)
    OBVIOUS
  <1>2. CASE filter = Absent
    <2>1. p = <<>> /\ p \in Seq(Pieces) /\ Len(p) = 0 /\ ~HasRefused(p)
      BY <1>1, <1>2, NoPiece DEF wherePieces
    <2>2. ASSUME NEW i \in Nat, NEW ts, NEW W, "WHERE" \notin W, Begins(ts, i + Len(p), W)
          PROVE  readWhere(ts, i) = [given |-> filter, next |-> i + Len(p)]
                   /\ Begins(ts, i, W \cup {"WHERE"})
      <3>1. i + Len(p) = i
        BY <2>1
      <3>2. Begins(ts, i, W)
        BY <2>2, <3>1
      <3>3. ~IsWord(ts, i, "WHERE")
        BY <2>2, <3>2, BeginsOther
      <3>4. readWhere(ts, i) = [given |-> filter, next |-> i + Len(p)]
        BY <1>2, <3>1, <3>3 DEF readWhere, Missing
      <3>5. Begins(ts, i, W \cup {"WHERE"})
        BY <3>2, BeginsMore
      <3> QED BY <3>4, <3>5
    <2>3. Accepted(filter)
      BY <1>2 DEF Accepted
    <2>4. IsWhere(filter, p)
      BY <2>1, <2>2, <2>3, Zenon DEF IsWhere
    <2> QED BY <1>1, <2>4
  <1>3. CASE filter # Absent
    <2>1. PICK f \in Filter[Nesting] : filter = <<f>> /\ filter[1] = f
      BY <1>3 DEF IsFilterOption
    <2>2. PICK r : r = filterPieces[Nesting][f]
      OBVIOUS
    <2>3. p = Word("WHERE") \o r
      BY <1>1, <1>3, <2>1, <2>2 DEF wherePieces
    <2>4. "WHERE" \in Words
      BY DEF Words
    <2>5. Word("WHERE") \in Seq(Pieces) /\ Len(Word("WHERE")) = 1 /\ ~HasRefused(Word("WHERE"))
      BY <2>4, WordIs
    <2>6. \A ts : IsFilterRead(f, r, Sound[Nesting][f], readFilter(ts), ts)
      BY <2>2, FilterIsRead
    <2>7. r \in Seq(Pieces) /\ (HasRefused(r) <=> ~Sound[Nesting][f])
      BY <2>6, Zenon DEF IsFilterRead
    <2>8. Accepted(filter) <=> Sound[Nesting][f]
      BY <1>3, <2>1, Zenon DEF Accepted
    <2>9. p \in Seq(Pieces) /\ Len(p) = 1 + Len(r)
      BY <2>3, <2>5, <2>7, ConcatProperties
    <2>10. HasRefused(p) <=> ~Accepted(filter)
      BY <2>3, <2>5, <2>7, <2>8, JoinRefused, Zenon
    <2>11. ASSUME NEW i \in Nat, NEW ts, NEW W, Accepted(filter), Stands(p, i, ts)
           PROVE  readWhere(ts, i) = [given |-> filter, next |-> i + Len(p)]
                    /\ Begins(ts, i, W \cup {"WHERE"})
      <3>1. Stands(Word("WHERE"), i, ts) /\ Stands(r, i + 1, ts)
        BY <2>3, <2>5, <2>7, <2>11, JoinStands
      <3>2. IsWord(ts, i, "WHERE")
        BY <2>4, <3>1, WordStands
      <3>3. i + 1 \in Nat
        OBVIOUS
      <3>4. readFilter(ts)[i + 1] = [given |-> f, next |-> i + 1 + Len(r)]
        BY <2>6, <2>8, <2>11, <3>1, <3>3, Zenon DEF IsFilterRead
      <3>5. readWhere(ts, i) = [given |-> <<f>>, next |-> i + 1 + Len(r)]
        BY <3>2, <3>4 DEF readWhere
      <3>6. i + 1 + Len(r) = i + Len(p)
        <4>1. Len(r) \in Nat
          BY <2>7, LenProperties
        <4> QED BY <2>9, <4>1
      <3>7. "WHERE" \in W \cup {"WHERE"}
        OBVIOUS
      <3>8. Begins(ts, i, W \cup {"WHERE"})
        BY <3>2, <3>7, WordBegins
      <3> QED BY <2>1, <3>5, <3>6, <3>8
    <2>12. IsWhere(filter, p)
      BY <2>9, <2>10, <2>11, Zenon DEF IsWhere
    <2> QED BY <1>1, <2>12
  <1> QED BY <1>2, <1>3

\* The pieces of one field to order by.
SortPieces(order) ==
  [j \in 1 .. Len(order) |-> Name(order[j][1]) \o WordOr(DirectionWords, order[j][2], "direction")]

DirectionPiece(d) == WordOrPiece(DirectionWords, d, "direction")

LEMMA DirectionIs ==
  ASSUME NEW d \in Int
  PROVE  /\ DirectionPiece(d) \in Pieces /\ (DirectionPiece(d)[1] = "refused" <=> d \notin {0, 1})
         /\ d \in {0, 1} => PlaceOf(DirectionWords, DirectionPiece(d)[2]) = d
  <1>1. PICK b : b = DirectionPiece(d)
    OBVIOUS
  <1>2. CASE d \in {0, 1}
    <2>1. Len(DirectionWords) \in Nat /\ d \in 0 .. Len(DirectionWords) - 1 /\ Distinct(DirectionWords)
      BY <1>2, DirectionKinds
    <2>2. b = <<"word", DirectionWords[d + 1]>>
      BY <1>1, <2>1 DEF DirectionPiece, WordOrPiece
    <2>3. PICK w \in Words : w = DirectionWords[d + 1]
      BY <1>2, DirectionKinds
    <2>4. PlaceOf(DirectionWords, DirectionWords[d + 1]) = d
      BY <2>1, PlaceIs
    <2>5. b \in Pieces /\ b[1] = "word" /\ b[2] = w
      BY <2>2, <2>3, WordPiece
    <2> QED BY <1>1, <1>2, <2>3, <2>4, <2>5
  <1>3. CASE d \notin {0, 1}
    <2>1. b = <<"refused", <<"direction", d>>>>
      BY <1>1, <1>3, DirectionKinds DEF DirectionPiece, WordOrPiece
    <2>2. <<"direction", d>> \in Whys
      BY DEF Whys
    <2> QED BY <1>1, <1>3, <2>1, <2>2, RefusedPiece
  <1> QED BY <1>2, <1>3

LEMMA SortIs ==
  ASSUME NEW order \in Seq(Int \X Int), NEW j \in 1 .. Len(order), NEW i \in Nat, NEW ts
  PROVE  /\ <<"name", order[j][1]>> \in Pieces /\ order[j] = <<order[j][1], order[j][2]>>
         /\ order[j][2] \in Int
         /\ AreTwo(SortPieces(order)[j], <<"name", order[j][1]>>, DirectionPiece(order[j][2]), i, ts)
  <1>1. order[j] \in Int \X Int
    BY ElementOfSeq
  <1>2. PICK n \in Int, d \in Int : n = order[j][1] /\ d = order[j][2] /\ order[j] = <<n, d>>
    BY <1>1
  <1>3. PICK a \in Pieces : a = <<"name", n>>
    BY NamePiece
  <1>4. PICK b \in Pieces : b = DirectionPiece(d)
    BY DirectionIs
  <1>5. SortPieces(order)[j] = Name(n) \o WordOr(DirectionWords, d, "direction")
    BY <1>2 DEF SortPieces
  <1>6. WordOr(DirectionWords, d, "direction") = <<b>>
    BY <1>4, WordOrIs DEF DirectionPiece
  <1>7. SortPieces(order)[j] = <<a>> \o <<b>>
    BY <1>3, <1>5, <1>6 DEF Name
  <1>8. AreTwo(SortPieces(order)[j], a, b, i, ts)
    BY <1>7, TwoPieces
  <1> QED BY <1>2, <1>3, <1>4, <1>8

Sorted(order) == \A j \in 1 .. Len(order) : order[j][2] \in {0, 1}

IsOrder(order, p) ==
  /\ p \in Seq(Pieces) /\ (HasRefused(p) <=> ~Sorted(order))
  /\ \A i \in Nat : \A ts, W :
       /\ Sorted(order) /\ W \cap {"ORDER", "comma"} = {} /\ Len(ts) \in Nat
       /\ Stands(p, i, ts) /\ Begins(ts, i + Len(p), W)
       => readOrder(ts, i) = [given |-> order, next |-> i + Len(p)]
            /\ Begins(ts, i, W \cup {"ORDER"})

\* The order where it stands.
OrderAt(order, p, i, e, ts, W) ==
  readOrder(ts, i) = [given |-> order, next |-> e] /\ Begins(ts, i, W \cup {"ORDER"})

LEMMA OrderStands ==
  ASSUME NEW order, NEW p, IsOrder(order, p), Sorted(order), NEW i \in Nat, NEW e, e = i + Len(p),
         NEW ts, Len(ts) \in Nat, NEW W, W \cap {"ORDER", "comma"} = {},
         Stands(p, i, ts), Begins(ts, e, W)
  PROVE  OrderAt(order, p, i, e, ts, W)
  BY Zenon DEF IsOrder, OrderAt

\* Where the fields to order by stand, they are read.
SortsStand(order, n, i, ts) ==
  /\ Sorted(order) /\ n = Len(order) /\ Placed(SortPieces(order), n, 2, i + 1, ts)
  /\ Count(ts, i + 1, 2) = n /\ IsWord(ts, i, "ORDER")

LEMMA SortsAreRead ==
  ASSUME NEW order \in Seq(Int \X Int), NEW n \in Nat \ {0}, NEW i \in Nat, NEW ts,
         SortsStand(order, n, i, ts)
  PROVE  readOrder(ts, i) = [given |-> order, next |-> i + 3 * n]
  <1>0. /\ Sorted(order) /\ n = Len(order) /\ Placed(SortPieces(order), n, 2, i + 1, ts)
        /\ Count(ts, i + 1, 2) = n /\ IsWord(ts, i, "ORDER")
    BY DEF SortsStand
  <1> DEFINE Read(m) == <<At(ts, i + 3 * m - 2)[2], PlaceOf(DirectionWords, At(ts, i + 3 * m - 1)[2])>>
  <1>1. ASSUME NEW m \in 1 .. n PROVE Read(m) = order[m]
    <2>1. PICK c \in Nat : c = i + 1 + (m - 1) * (2 + 1)
      OBVIOUS
    <2>2. c = i + 3 * m - 2 /\ c + 1 = i + 3 * m - 1
      BY <2>1
    <2>3. PICK x, d : x = order[m][1] /\ d = order[m][2]
      OBVIOUS
    <2>4. m \in 1 .. Len(order)
      BY <1>0
    <2>5. /\ order[m] = <<x, d>> /\ d \in Int
          /\ AreTwo(SortPieces(order)[m], <<"name", x>>, DirectionPiece(d), c, ts)
      BY <2>3, <2>4, SortIs
    <2>6. Stands(SortPieces(order)[m], c, ts)
      BY <1>0, <2>1 DEF Placed
    <2>7. At(ts, c) = <<"name", x>> /\ At(ts, c + 1) = DirectionPiece(d)
      BY <2>5, <2>6 DEF AreTwo
    <2>8. d \in {0, 1}
      BY <1>0, <2>3, <2>4 DEF Sorted
    <2>9. PlaceOf(DirectionWords, DirectionPiece(d)[2]) = d
      BY <2>5, <2>8, DirectionIs
    <2>10. At(ts, i + 3 * m - 2) = <<"name", x>> /\ At(ts, i + 3 * m - 1) = DirectionPiece(d)
      BY <2>2, <2>7
    <2>11. At(ts, i + 3 * m - 2)[2] = x
      BY <2>10
    <2> QED BY <2>5, <2>9, <2>10, <2>11
  <1>2. PICK given : given = [m \in 1 .. n |-> Read(m)]
    OBVIOUS
  <1>3. \A m \in 1 .. n : given[m] = order[m] /\ order[m] \in Int \X Int
    <2>1. \A m \in 1 .. n : order[m] \in Int \X Int
      BY <1>0, ElementOfSeq
    <2> QED BY <1>1, <1>2, <2>1
  <1>4. readOrder(ts, i) = [given |-> given, next |-> i + 3 * n]
    BY <1>0, <1>2 DEF readOrder
  <1> HIDE DEF Read
  <1>5. given \in Seq(Int \X Int) /\ Len(given) = n
    BY <1>2, <1>3
  <1>6. given = order
    BY <1>0, <1>3, <1>5, SeqEqual
  <1> QED BY <1>4, <1>6

LEMMA OrderIsRead ==
  ASSUME NEW order \in Seq(Int \X Int)
  PROVE  IsOrder(order, orderPieces(order))
  <1>1. PICK p : p = orderPieces(order)
    OBVIOUS
  <1>2. CASE order = <<>>
    <2>1. p = <<>> /\ p \in Seq(Pieces) /\ Len(p) = 0 /\ ~HasRefused(p)
      BY <1>1, <1>2, NoPiece DEF orderPieces
    <2>2. ASSUME NEW i \in Nat, NEW ts, NEW W, W \cap {"ORDER", "comma"} = {},
                 Begins(ts, i + Len(p), W)
          PROVE  readOrder(ts, i) = [given |-> order, next |-> i + Len(p)]
                   /\ Begins(ts, i, W \cup {"ORDER"})
      <3>1. i + Len(p) = i
        BY <2>1
      <3>2. Begins(ts, i, W) /\ "ORDER" \notin W
        BY <2>2, <3>1
      <3>3. ~IsWord(ts, i, "ORDER")
        BY <3>2, BeginsOther
      <3>4. readOrder(ts, i) = [given |-> order, next |-> i + Len(p)]
        BY <1>2, <3>1, <3>3 DEF readOrder, Missing, Absent
      <3>5. Begins(ts, i, W \cup {"ORDER"})
        BY <3>2, BeginsMore
      <3> QED BY <3>4, <3>5
    <2>3. Sorted(order)
      BY <1>2 DEF Sorted
    <2>4. IsOrder(order, p)
      BY <2>1, <2>2, <2>3, Zenon DEF IsOrder
    <2> QED BY <1>1, <2>4
  <1>3. CASE order # <<>>
    <2>1. PICK n \in Nat \ {0} : n = Len(order)
      BY <1>3, EmptySeq
    <2>2. PICK items : items = SortPieces(order)
      OBVIOUS
    <2>3. \A j \in 1 .. n : items[j] \in Seq(Pieces) /\ OfSize(items[j], 2)
                            /\ (HasRefused(items[j]) <=> order[j][2] \notin {0, 1})
      <3>1. SUFFICES ASSUME NEW j \in 1 .. n
                     PROVE  items[j] \in Seq(Pieces) /\ OfSize(items[j], 2)
                            /\ (HasRefused(items[j]) <=> order[j][2] \notin {0, 1})
        OBVIOUS
      <3>2. PICK a, d : a = <<"name", order[j][1]>> /\ d = order[j][2]
        OBVIOUS
      <3>3. 0 \in Nat /\ j \in 1 .. Len(order)
        BY <2>1
      <3>4. d \in Int /\ AreTwo(items[j], a, DirectionPiece(d), 0, <<>>) /\ a[1] # "refused"
        BY <2>2, <3>2, <3>3, SortIs
      <3>5. DirectionPiece(d)[1] = "refused" <=> d \notin {0, 1}
        BY <3>4, DirectionIs
      <3> QED BY <3>2, <3>4, <3>5 DEF AreTwo, OfSize
    <2>4. items \in Seq(Seq(Pieces)) /\ Len(items) = n
      BY <2>1, <2>2, <2>3 DEF SortPieces
    <2>5. items # <<>>
      BY <2>1, <2>4, EmptySeq
    <2>6. PICK l : l = Listed(items)
      OBVIOUS
    <2>7. \A i \in Nat : \A ts : IsListing(l, items, n, 2, i, ts)
      BY <2>3, <2>4, <2>5, <2>6, ListedIs
    <2>8. /\ l \in Seq(Pieces) /\ Len(l) = n * (2 + 1) - 1
          /\ HasRefused(l) <=> \E j \in 1 .. n : HasRefused(items[j])
      <3>1. 0 \in Nat
        OBVIOUS
      <3> QED BY <2>7, <3>1 DEF IsListing
    <2>9. p = Word("ORDER") \o l
      BY <1>1, <1>3, <2>2, <2>6 DEF orderPieces, SortPieces
    <2>10. "ORDER" \in Words
      BY DEF Words
    <2>11. Word("ORDER") \in Seq(Pieces) /\ Len(Word("ORDER")) = 1 /\ ~HasRefused(Word("ORDER"))
      BY <2>10, WordIs
    <2>12. p \in Seq(Pieces) /\ Len(p) = 3 * n
      <3>1. p \in Seq(Pieces) /\ Len(p) = Len(Word("ORDER")) + Len(l)
        BY <2>8, <2>9, <2>11, ConcatProperties
      <3>2. Len(p) = 1 + (n * (2 + 1) - 1)
        BY <2>8, <2>11, <3>1
      <3>3. 1 + (n * (2 + 1) - 1) = 3 * n
        OBVIOUS
      <3> QED BY <3>1, <3>2, <3>3
    <2>13. HasRefused(p) <=> ~Sorted(order)
      <3>1. HasRefused(p) <=> HasRefused(l)
        BY <2>8, <2>9, <2>11, JoinRefused
      <3>2. ~Sorted(order) <=> \E j \in 1 .. n : order[j][2] \notin {0, 1}
        BY <2>1 DEF Sorted
      <3> QED BY <2>3, <2>8, <3>1, <3>2
    <2>14. ASSUME NEW i \in Nat, NEW ts, NEW W, Sorted(order), W \cap {"ORDER", "comma"} = {},
                  Len(ts) \in Nat, Stands(p, i, ts), Begins(ts, i + Len(p), W)
           PROVE  readOrder(ts, i) = [given |-> order, next |-> i + Len(p)]
                    /\ Begins(ts, i, W \cup {"ORDER"})
      <3>1. Stands(Word("ORDER"), i, ts) /\ Stands(l, i + 1, ts)
        BY <2>8, <2>9, <2>11, <2>14, JoinStands
      <3>2. IsWord(ts, i, "ORDER")
        BY <2>10, <3>1, WordStands
      <3>3. PICK c \in Nat \ {0} : c = i + 1
        OBVIOUS
      <3>4. Placed(items, n, 2, c, ts)
        <4>1. IsListing(l, items, n, 2, c, ts)
          BY <2>7
        <4> QED BY <3>1, <3>3, <4>1 DEF IsListing
      <3>5. ~IsWord(ts, c + n * (2 + 1) - 1, "comma")
        <4>1. PICK e : e = c + n * (2 + 1) - 1
          OBVIOUS
        <4>2. e = i + Len(p)
          BY <2>12, <3>3, <4>1
        <4>3. "comma" \notin W /\ Begins(ts, e, W)
          BY <2>14, <4>2
        <4> QED BY <4>1, <4>3, BeginsOther
      <3>6. Count(ts, c, 2) = n
        <4>1. OfSize(items[n], 2)
          BY <2>3
        <4> QED BY <2>14, <3>4, <3>5, <4>1, ItemsAreCounted
      <3>7. readOrder(ts, i) = [given |-> order, next |-> i + 3 * n]
        <4>1. Placed(SortPieces(order), n, 2, i + 1, ts) /\ Count(ts, i + 1, 2) = n
          BY <2>2, <3>3, <3>4, <3>6
        <4>2. SortsStand(order, n, i, ts)
          BY <2>1, <2>14, <3>2, <4>1 DEF SortsStand
        <4> QED BY <4>2, SortsAreRead
      <3>8. "ORDER" \in W \cup {"ORDER"}
        OBVIOUS
      <3>9. Begins(ts, i, W \cup {"ORDER"})
        BY <3>2, <3>8, WordBegins
      <3> QED BY <2>12, <3>7, <3>9
    <2>15. IsOrder(order, p)
      BY <2>12, <2>13, <2>14, Zenon DEF IsOrder
    <2> QED BY <1>1, <2>15
  <1> QED BY <1>2, <1>3

-----------------------------------------------------------------------------
(***************************************************************************)
(* The projection, and the fields of a write.                              *)
(***************************************************************************)
Items == ({"name"} \X Int) \cup ({"lines"} \X Int \X Int \X Int)

LEMMA ItemPiece ==
  ASSUME NEW x \in Items
  PROVE  x \in Pieces /\ x[1] # "refused" /\ x[1] # "word"
  BY DEF Items, Pieces, Plain

IsItems(items, p) ==
  /\ p \in Seq(Pieces) /\ ~HasRefused(p)
  /\ \A ts : /\ Len(ts) \in Nat /\ Stands(p, 2, ts) /\ ~IsWord(ts, 2 + Len(p), "comma")
             => readItems(ts) = [given |-> items, next |-> 2 + Len(p)]

LEMMA ItemsAreRead ==
  ASSUME NEW items \in Seq(Items)
  PROVE  IsItems(items, itemPieces(items))
  <1>1. PICK p : p = itemPieces(items)
    OBVIOUS
  <1>2. CASE items = <<>>
    <2>1. "*" \in Words
      BY DEF Words
    <2>2. p = Word("*") /\ p \in Seq(Pieces) /\ Len(p) = 1 /\ ~HasRefused(p)
      BY <1>1, <1>2, <2>1, WordIs DEF itemPieces
    <2>3. ASSUME NEW ts, Stands(p, 2, ts)
          PROVE  readItems(ts) = [given |-> items, next |-> 2 + Len(p)]
      <3>1. IsWord(ts, 2, "*")
        BY <2>1, <2>2, <2>3, WordStands
      <3>2. readItems(ts) = [given |-> <<>>, next |-> 3]
        BY <3>1 DEF readItems
      <3>3. PICK e : e = 2 + Len(p)
        OBVIOUS
      <3>4. e = 3
        BY <2>2, <3>3
      <3> QED BY <1>2, <3>2, <3>3, <3>4, Zenon
    <2>4. IsItems(items, p)
      BY <2>2, <2>3, Zenon DEF IsItems
    <2> QED BY <1>1, <2>4
  <1>3. CASE items # <<>>
    <2>1. PICK n \in Nat \ {0} : n = Len(items)
      BY <1>3, EmptySeq
    <2>2. PICK qs : qs = [i \in 1 .. Len(items) |-> <<items[i]>>]
      OBVIOUS
    <2>3. \A j \in 1 .. n : items[j] \in Pieces /\ items[j][1] # "refused" /\ items[j][1] # "word"
                            /\ qs[j] = <<items[j]>>
      <3>1. \A j \in 1 .. n : items[j] \in Items
        BY <2>1, ElementOfSeq
      <3> QED BY <2>1, <2>2, <3>1, ItemPiece
    <2>4. \A j \in 1 .. n : qs[j] \in Seq(Pieces) /\ OfSize(qs[j], 1) /\ ~HasRefused(qs[j])
      <3>1. SUFFICES ASSUME NEW j \in 1 .. n
                     PROVE  qs[j] \in Seq(Pieces) /\ OfSize(qs[j], 1) /\ ~HasRefused(qs[j])
        OBVIOUS
      <3>2. PICK x \in Pieces : x = items[j] /\ x[1] # "refused"
        BY <2>3
      <3>3. <<x>> \in Seq(Pieces) /\ Len(<<x>>) = 1 /\ ~HasRefused(<<x>>)
        BY <3>2, OnePiece
      <3> QED BY <2>3, <3>2, <3>3 DEF OfSize
    <2>5. qs \in Seq(Seq(Pieces)) /\ Len(qs) = n
      BY <2>1, <2>2, <2>4
    <2>6. qs # <<>>
      BY <2>1, <2>5, EmptySeq
    <2>7. PICK l : l = Listed(qs)
      OBVIOUS
    <2>8. \A ts : IsListing(l, qs, n, 1, 2, ts)
      BY <2>4, <2>5, <2>6, <2>7, ListedIs
    <2>9. /\ l \in Seq(Pieces) /\ Len(l) = n * (1 + 1) - 1 /\ ~HasRefused(l)
      BY <2>4, <2>8 DEF IsListing
    <2>10. p = l
      BY <1>1, <1>3, <2>2, <2>7 DEF itemPieces
    <2>11. ASSUME NEW ts, Len(ts) \in Nat, Stands(p, 2, ts), ~IsWord(ts, 2 + Len(p), "comma")
           PROVE  readItems(ts) = [given |-> items, next |-> 2 + Len(p)]
      <3>1. Placed(qs, n, 1, 2, ts)
        BY <2>8, <2>10, <2>11 DEF IsListing
      <3>2. PICK c \in Nat \ {0} : c = 2
        OBVIOUS
      <3>3. c + n * (1 + 1) - 1 = 2 + Len(p) /\ 2 + Len(p) = 2 * n + 1
        BY <2>9, <2>10, <3>2
      <3>4. Count(ts, c, 1) = n
        <4>1. OfSize(qs[n], 1)
          BY <2>4
        <4>2. ~IsWord(ts, c + n * (1 + 1) - 1, "comma")
          BY <2>11, <3>3
        <4> QED BY <2>11, <3>1, <3>2, <4>1, <4>2, ItemsAreCounted
      <3>5. \A m \in 1 .. n : At(ts, 2 * m) = items[m]
        <4>1. SUFFICES ASSUME NEW m \in 1 .. n PROVE At(ts, 2 * m) = items[m]
          OBVIOUS
        <4>2. PICK x \in Pieces : x = items[m] /\ qs[m] = <<x>>
          BY <2>3
        <4>3. PICK d \in Nat : d = 2 + (m - 1) * (1 + 1)
          OBVIOUS
        <4>4. d = 2 * m
          BY <4>3
        <4>5. Stands(<<x>>, d, ts)
          BY <3>1, <4>2, <4>3 DEF Placed
        <4>6. d \in 1 .. Len(ts) /\ ts[d] = x
          BY <4>5, OnePiece
        <4> QED BY <4>2, <4>4, <4>6 DEF At
      <3>6. ~IsWord(ts, 2, "*")
        <4>1. 1 \in 1 .. n /\ 2 * 1 = 2
          OBVIOUS
        <4>2. At(ts, 2) = items[1] /\ items[1][1] # "word"
          BY <2>3, <3>5, <4>1
        <4> QED BY <4>2 DEF IsWord
      <3>7. PICK given : given = [m \in 1 .. n |-> At(ts, 2 * m)]
        OBVIOUS
      <3>8. readItems(ts) = [given |-> given, next |-> 2 * n + 1]
        BY <3>2, <3>4, <3>6, <3>7 DEF readItems
      <3>9. given \in Seq(Items) /\ Len(given) = n /\ \A m \in 1 .. n : given[m] = items[m]
        <4>1. \A m \in 1 .. n : items[m] \in Items
          BY <2>1, ElementOfSeq
        <4>2. \A m \in 1 .. n : given[m] = items[m]
          BY <3>5, <3>7
        <4>3. PICK g : g = [m \in 1 .. n |-> items[m]]
          OBVIOUS
        <4>4. given = g
          BY <3>5, <3>7, <4>3
        <4>5. g \in Seq(Items) /\ Len(g) = n
          BY <4>1, <4>3
        <4> QED BY <4>2, <4>4, <4>5
      <3>10. given = items
        BY <2>1, <3>9, SeqEqual
      <3> QED BY <3>3, <3>8, <3>10
    <2>12. IsItems(items, p)
      BY <2>9, <2>10, <2>11, Zenon DEF IsItems
    <2> QED BY <1>1, <2>12
  <1> QED BY <1>2, <1>3

\* The fields that are set: a name and a value for each.
AreFields(set) ==
  /\ DOMAIN set \in SUBSET Int /\ IsFiniteSet(DOMAIN set)
  /\ \A n \in DOMAIN set : set[n] \in Values

FieldItems(set, sign) ==
  LET names == sortedNames(set)
  IN  [i \in 1 .. Len(names) |-> Name(names[i]) \o Word(sign) \o Bound(set[names[i]])]

PairOf(set, n) == << <<"name", n>>, <<"value", set[n]>> >>

FieldPairs(set) == [m \in 1 .. Len(sortedNames(set)) |-> PairOf(set, sortedNames(set)[m])]

LEMMA NamesAre ==
  ASSUME NEW set, AreFields(set)
  PROVE  /\ sortedNames(set) \in Seq(DOMAIN set)
         /\ IsAscending(sortedNames(set), DOMAIN set, Len(sortedNames(set)))
         /\ sortedNames(set) = <<>> <=> DOMAIN set = {}
  BY AscendingIs DEF AreFields, sortedNames

LEMMA FieldIs ==
  ASSUME NEW set, AreFields(set), NEW sign \in Words, NEW j \in 1 .. Len(sortedNames(set)),
         NEW i \in Nat, NEW ts, NEW n, n = sortedNames(set)[j]
  PROVE  /\ n \in DOMAIN set /\ <<"name", n>> \in Pieces /\ <<"word", sign>> \in Pieces
         /\ <<"value", set[n]>> \in Pieces
         /\ AreThree(FieldItems(set, sign)[j], <<"name", n>>, <<"word", sign>>,
                     <<"value", set[n]>>, i, ts)
  <1>1. n \in DOMAIN set
    <2>1. sortedNames(set) \in Seq(DOMAIN set)
      BY NamesAre
    <2> QED BY <2>1, ElementOfSeq
  <1>2. n \in Int /\ set[n] \in Values
    BY <1>1 DEF AreFields
  <1>3. PICK v \in Values : v = set[n]
    BY <1>2
  <1>4. PICK a \in Pieces : a = <<"name", n>>
    BY <1>2, NamePiece
  <1>5. PICK b \in Pieces : b = <<"word", sign>>
    BY WordPiece
  <1>6. PICK c \in Pieces : c = <<"value", v>>
    BY ValuePiece
  <1>7. FieldItems(set, sign)[j] = Name(n) \o Word(sign) \o Bound(set[n])
    BY DEF FieldItems
  <1>8. FieldItems(set, sign)[j] = <<a>> \o <<b>> \o <<c>>
    BY <1>3, <1>4, <1>5, <1>6, <1>7 DEF Name, Word, Bound
  <1>9. AreThree(FieldItems(set, sign)[j], a, b, c, i, ts)
    BY <1>8, ThreePieces
  <1> QED BY <1>1, <1>3, <1>4, <1>5, <1>6, <1>9

IsFields(set, sign, p) ==
  /\ p \in Seq(Pieces) /\ ~HasRefused(p)
  /\ \A i \in Nat \ {0} : \A ts :
       /\ Len(ts) \in Nat /\ Stands(p, i, ts) /\ ~IsWord(ts, i + Len(p), "comma")
       => readFields(ts, i, sign) = [given |-> FieldPairs(set), next |-> i + Len(p)]

LEMMA FieldsAreRead ==
  ASSUME NEW set, AreFields(set), DOMAIN set # {}, NEW sign \in Words
  PROVE  IsFields(set, sign, fieldPieces(set, sign))
  <1>1. PICK names : names = sortedNames(set)
    OBVIOUS
  <1>2. PICK n \in Nat \ {0} : n = Len(names)
    <2>1. names \in Seq(DOMAIN set) /\ names # <<>>
      BY <1>1, NamesAre
    <2> QED BY <2>1, EmptySeq, LenProperties
  <1>3. PICK items : items = FieldItems(set, sign)
    OBVIOUS
  <1>4. \A j \in 1 .. n : items[j] \in Seq(Pieces) /\ OfSize(items[j], 3) /\ ~HasRefused(items[j])
    <2>1. SUFFICES ASSUME NEW j \in 1 .. n
                   PROVE  items[j] \in Seq(Pieces) /\ OfSize(items[j], 3) /\ ~HasRefused(items[j])
      OBVIOUS
    <2>2. PICK a, b, c, x : x = names[j] /\ a = <<"name", x>> /\ b = <<"word", sign>> /\ c = <<"value", set[x]>>
      OBVIOUS
    <2>3. j \in 1 .. Len(sortedNames(set)) /\ x = sortedNames(set)[j] /\ 0 \in Nat
      BY <1>1, <1>2, <2>2
    <2>4. AreThree(items[j], a, b, c, 0, <<>>)
      BY <1>3, <2>2, <2>3, FieldIs
    <2>5. a[1] # "refused" /\ b[1] # "refused" /\ c[1] # "refused"
      BY <2>2
    <2> QED BY <2>4, <2>5 DEF AreThree, OfSize
  <1>5. items \in Seq(Seq(Pieces)) /\ Len(items) = n
    <2>1. items = [i \in 1 .. n |-> Name(names[i]) \o Word(sign) \o Bound(set[names[i]])]
      BY <1>1, <1>2, <1>3 DEF FieldItems
    <2> QED BY <1>4, <2>1
  <1>6. items # <<>>
    BY <1>2, <1>5, EmptySeq
  <1>7. PICK l : l = Listed(items)
    OBVIOUS
  <1>8. \A i \in Nat : \A ts : IsListing(l, items, n, 3, i, ts)
    BY <1>4, <1>5, <1>6, <1>7, ListedIs
  <1>9. /\ l \in Seq(Pieces) /\ Len(l) = n * (3 + 1) - 1 /\ ~HasRefused(l)
    <2>1. 0 \in Nat
      OBVIOUS
    <2> QED BY <1>4, <1>8, <2>1 DEF IsListing
  <1>10. fieldPieces(set, sign) = l
    BY <1>3, <1>7 DEF fieldPieces, FieldItems
  <1>11. ASSUME NEW i \in Nat \ {0}, NEW ts, Len(ts) \in Nat, Stands(l, i, ts),
                ~IsWord(ts, i + Len(l), "comma")
         PROVE  readFields(ts, i, sign) = [given |-> FieldPairs(set), next |-> i + Len(l)]
    <2>1. Placed(items, n, 3, i, ts)
      <3>1. IsListing(l, items, n, 3, i, ts)
        BY <1>8
      <3> QED BY <1>11, <3>1 DEF IsListing
    <2>2. i + n * (3 + 1) - 1 = i + Len(l) /\ i + Len(l) = i + 4 * n - 1
      BY <1>9
    <2>3. Count(ts, i, 3) = n
      <3>1. OfSize(items[n], 3)
        BY <1>4
      <3>2. ~IsWord(ts, i + n * (3 + 1) - 1, "comma")
        BY <1>11, <2>2
      <3> QED BY <1>11, <2>1, <3>1, <3>2, ItemsAreCounted
    <2> DEFINE Read(m) == IF IsWord(ts, i + 4 * m - 3, sign)
                          THEN <<At(ts, i + 4 * m - 4), At(ts, i + 4 * m - 2)>> ELSE <<>>
    <2>4. ASSUME NEW m \in 1 .. n PROVE Read(m) = PairOf(set, names[m])
      <3>1. PICK e \in Nat : e = i + (m - 1) * (3 + 1)
        OBVIOUS
      <3>2. e = i + 4 * m - 4 /\ e + 1 = i + 4 * m - 3 /\ e + 2 = i + 4 * m - 2
        BY <3>1
      <3>3. PICK a, b, c, x : x = names[m] /\ a = <<"name", x>> /\ b = <<"word", sign>> /\ c = <<"value", set[x]>>
        OBVIOUS
      <3>4. m \in 1 .. Len(sortedNames(set)) /\ x = sortedNames(set)[m]
        BY <1>1, <1>2, <3>3
      <3>5. AreThree(items[m], a, b, c, e, ts)
        BY <1>3, <3>3, <3>4, FieldIs
      <3>6. Stands(items[m], e, ts)
        BY <2>1, <3>1 DEF Placed
      <3>7. At(ts, e) = a /\ At(ts, e + 1) = b /\ At(ts, e + 2) = c
        BY <3>5, <3>6 DEF AreThree
      <3>8. IsWord(ts, i + 4 * m - 3, sign) /\ At(ts, i + 4 * m - 4) = a /\ At(ts, i + 4 * m - 2) = c
        BY <3>2, <3>3, <3>7 DEF IsWord
      <3> QED BY <3>3, <3>8 DEF PairOf
    <2>5. PICK given : given = [m \in 1 .. n |-> Read(m)]
      OBVIOUS
    <2>6. readFields(ts, i, sign) = [given |-> given, next |-> i + 4 * n - 1]
      BY <2>3, <2>5 DEF readFields
    <2> HIDE DEF Read
    <2>7. given = [m \in 1 .. n |-> PairOf(set, names[m])]
      BY <2>4, <2>5
    <2>8. given = FieldPairs(set)
      BY <1>1, <1>2, <2>7 DEF FieldPairs
    <2> QED BY <2>2, <2>6, <2>8
  <1>12. IsFields(set, sign, l)
    BY <1>9, <1>11, Zenon DEF IsFields
  <1> QED BY <1>10, <1>12

-----------------------------------------------------------------------------
(***************************************************************************)
(* A statement as gathered, and what is read where its pieces stand.       *)
(***************************************************************************)
\* The pieces u fill the places before e.
Upto(u, e) == u \in Seq(Pieces) /\ e \in Nat \ {0} /\ Len(u) = e - 1

Adds(u, x, v, e, f) ==
  /\ v = u \o x /\ f = e + Len(x) /\ Upto(v, f)
  /\ HasRefused(v) <=> HasRefused(u) \/ HasRefused(x)
  /\ \A ts : Stands(v, 1, ts) => Stands(u, 1, ts) /\ Stands(x, e, ts)

LEMMA PartAdds ==
  ASSUME NEW u, NEW x \in Seq(Pieces), NEW e, Upto(u, e)
  PROVE  \E f \in Nat \ {0}, v \in Seq(Pieces) : Adds(u, x, v, e, f) /\ Upto(v, f)
  <1>1. u \in Seq(Pieces) /\ e \in Nat \ {0} /\ Len(u) = e - 1
    BY DEF Upto
  <1>2. PICK n \in Nat : n = Len(x)
    BY LenProperties
  <1>3. PICK v \in Seq(Pieces) : v = u \o x
    BY <1>1, ConcatProperties
  <1>4. PICK f \in Nat \ {0} : f = e + n
    BY <1>1
  <1>5. Len(v) = f - 1
    <2>1. Len(v) = Len(u) + Len(x)
      BY <1>1, <1>3, ConcatProperties
    <2> QED BY <1>1, <1>2, <1>4, <2>1
  <1>6. HasRefused(v) <=> HasRefused(u) \/ HasRefused(x)
    BY <1>1, <1>3, JoinRefused
  <1>7. ASSUME NEW ts, Stands(v, 1, ts) PROVE Stands(u, 1, ts) /\ Stands(x, e, ts)
    <2>1. PICK i \in Nat : i = 1
      OBVIOUS
    <2>2. Stands(u, i, ts) /\ Stands(x, i + Len(u), ts)
      BY <1>1, <1>3, <1>7, <2>1, JoinStands
    <2>3. i + Len(u) = e
      BY <1>1, <2>1
    <2> QED BY <2>1, <2>2, <2>3
  <1>8. Adds(u, x, v, e, f) /\ Upto(v, f)
    BY <1>2, <1>3, <1>4, <1>5, <1>6, <1>7 DEF Adds, Upto
  <1> QED BY <1>8

LEMMA SelfStands ==
  ASSUME NEW p \in Seq(Pieces)
  PROVE  Stands(p, 1, p) /\ Len(p) \in Nat
  <1>1. Len(p) \in Nat
    BY LenProperties
  <1>2. \A j \in 1 .. Len(p) : 1 + j - 1 = j
    BY <1>1
  <1> QED BY <1>1, <1>2 DEF Stands

LEMMA NameIs ==
  ASSUME NEW n \in Int
  PROVE  /\ Name(n) \in Seq(Pieces) /\ Len(Name(n)) = 1 /\ ~HasRefused(Name(n))
         /\ \A i \in Nat : \A ts : Stands(Name(n), i, ts) => At(ts, i) = <<"name", n>>
  <1>1. PICK p \in Pieces : p = <<"name", n>> /\ p[1] # "refused"
    BY NamePiece
  <1>2. <<p>> \in Seq(Pieces) /\ Len(<<p>>) = 1 /\ ~HasRefused(<<p>>)
    BY <1>1, OnePiece
  <1>3. ASSUME NEW i \in Nat, NEW ts, Stands(<<p>>, i, ts) PROVE At(ts, i) = p
    <2>1. i \in 1 .. Len(ts) /\ ts[i] = p
      BY <1>3, OnePiece
    <2> QED BY <2>1 DEF At
  <1> QED BY <1>1, <1>2, <1>3 DEF Name

LEMMA StatementWords ==
  /\ {"SELECT", "FROM", "START", "LIMIT", "STALENESS", "ANSWERED", "semicolon"} \subseteq Words
  /\ {"CREATE", "UPDATE", "DELETE", ":", "=", "SET", "lbrace", "rbrace"} \subseteq Words
  BY DEF Words

\* The clauses of a SELECT.
IsQuery(q) ==
  /\ q.table \in Int /\ q.items \in Seq(Items) /\ IsFilterOption(q.filter)
  /\ q.order \in Seq(Int \X Int) /\ IsOption(q.start) /\ IsOption(q.limit)
  /\ IsOption(q.staleness) /\ IsOption(q.answeredBy)

QueryMeaning(q) ==
  [Reading("SELECT", <<"name", q.table>>, Absent) EXCEPT
     !.items = q.items, !.filter = q.filter, !.order = q.order, !.start = q.start,
     !.limit = q.limit, !.staleness = q.staleness, !.answeredBy = q.answeredBy]

\* What is read of a query, once each clause is read in its place.
LEMMA ReadSelectIs ==
  ASSUME NEW ts, NEW q, NEW e2, NEW e3, NEW e4, NEW e5, NEW e6, NEW e7, NEW e8, NEW e9, NEW e10,
         e3 = e2 + 1, e4 = e2 + 2,
         readItems(ts) = [given |-> q.items, next |-> e2],
         IsWord(ts, e2, "FROM"), At(ts, e3) = <<"name", q.table>>,
         readWhere(ts, e4) = [given |-> q.filter, next |-> e5],
         readOrder(ts, e5) = [given |-> q.order, next |-> e6],
         readClause(ts, e6, "START") = [given |-> q.start, next |-> e7],
         readClause(ts, e7, "LIMIT") = [given |-> q.limit, next |-> e8],
         readClause(ts, e8, "STALENESS") = [given |-> q.staleness, next |-> e9],
         readClause(ts, e9, "ANSWERED") = [given |-> q.answeredBy, next |-> e10],
         Ends(ts, e10)
  PROVE  readSelect(ts) = QueryMeaning(q)
  <1>1. PICK items, where, order, start, limit, staleness, answeredBy :
          /\ items = readItems(ts) /\ where = readWhere(ts, items.next + 2)
          /\ order = readOrder(ts, where.next) /\ start = readClause(ts, order.next, "START")
          /\ limit = readClause(ts, start.next, "LIMIT")
          /\ staleness = readClause(ts, limit.next, "STALENESS")
          /\ answeredBy = readClause(ts, staleness.next, "ANSWERED")
    BY Zenon
  <1>2. readSelect(ts) =
          IF IsWord(ts, items.next, "FROM") /\ Ends(ts, answeredBy.next)
            THEN [Reading("SELECT", At(ts, items.next + 1), Absent) EXCEPT
                    !.items = items.given, !.filter = where.given, !.order = order.given,
                    !.start = start.given, !.limit = limit.given,
                    !.staleness = staleness.given, !.answeredBy = answeredBy.given]
            ELSE Unreadable
    BY <1>1, Zenon DEF readSelect
  <1>3. items.given = q.items /\ items.next = e2
    BY <1>1
  <1>4. where.given = q.filter /\ where.next = e5
    <2>1. where = readWhere(ts, e4)
      BY <1>1, <1>3
    <2>2. where = [given |-> q.filter, next |-> e5]
      BY <2>1, Zenon
    <2> QED BY <2>2
  <1>5. order.given = q.order /\ order.next = e6
    <2>1. order = readOrder(ts, e5)
      BY <1>1, <1>4, Zenon
    <2>2. order = [given |-> q.order, next |-> e6]
      BY <2>1, Zenon
    <2> QED BY <2>2
  <1>6. start.given = q.start /\ start.next = e7
    <2>1. start = readClause(ts, e6, "START")
      BY <1>1, <1>5, Zenon
    <2>2. start = [given |-> q.start, next |-> e7]
      BY <2>1, Zenon
    <2> QED BY <2>2
  <1>7. limit.given = q.limit /\ limit.next = e8
    <2>1. limit = readClause(ts, e7, "LIMIT")
      BY <1>1, <1>6, Zenon
    <2>2. limit = [given |-> q.limit, next |-> e8]
      BY <2>1, Zenon
    <2> QED BY <2>2
  <1>8. staleness.given = q.staleness /\ staleness.next = e9
    <2>1. staleness = readClause(ts, e8, "STALENESS")
      BY <1>1, <1>7, Zenon
    <2>2. staleness = [given |-> q.staleness, next |-> e9]
      BY <2>1, Zenon
    <2> QED BY <2>2
  <1>9. answeredBy.given = q.answeredBy /\ answeredBy.next = e10
    <2>1. answeredBy = readClause(ts, e9, "ANSWERED")
      BY <1>1, <1>8, Zenon
    <2>2. answeredBy = [given |-> q.answeredBy, next |-> e10]
      BY <2>1, Zenon
    <2> QED BY <2>2
  <1>10. At(ts, items.next + 1) = <<"name", q.table>>
    BY <1>3
  <1> QED BY <1>2, <1>3, <1>4, <1>5, <1>6, <1>7, <1>8, <1>9, <1>10, Zenon DEF QueryMeaning

LEMMA SelectIsRead ==
  ASSUME NEW q, IsQuery(q), NEW p, p = selectPieces(q)
  PROVE  /\ p \in Seq(Pieces) /\ (HasRefused(p) <=> ~(Accepted(q.filter) /\ Sorted(q.order)))
         /\ Accepted(q.filter) /\ Sorted(q.order)
              => IsWord(p, 1, "SELECT") /\ readSelect(p) = QueryMeaning(q)
  <1>1. PICK x1 \in Seq(Pieces) : x1 = Word("SELECT") /\ Len(x1) = 1 /\ ~HasRefused(x1)
    BY StatementWords, WordIs
  <1>2. PICK x2 \in Seq(Pieces) : x2 = itemPieces(q.items) /\ IsItems(q.items, x2) /\ ~HasRefused(x2)
    BY ItemsAreRead DEF IsQuery, IsItems
  <1>3. PICK x3 \in Seq(Pieces) : x3 = Word("FROM") /\ Len(x3) = 1 /\ ~HasRefused(x3)
    BY StatementWords, WordIs
  <1>4. PICK x4 \in Seq(Pieces) :
          /\ x4 = Name(q.table) /\ Len(x4) = 1 /\ ~HasRefused(x4)
          /\ \A i \in Nat : \A ts : Stands(x4, i, ts) => At(ts, i) = <<"name", q.table>>
    BY NameIs DEF IsQuery
  <1>5. PICK x5 \in Seq(Pieces) :
          x5 = wherePieces(q.filter) /\ IsWhere(q.filter, x5) /\ (HasRefused(x5) <=> ~Accepted(q.filter))
    BY WhereIsRead DEF IsQuery, IsWhere
  <1>6. PICK x6 \in Seq(Pieces) :
          x6 = orderPieces(q.order) /\ IsOrder(q.order, x6) /\ (HasRefused(x6) <=> ~Sorted(q.order))
    BY OrderIsRead DEF IsQuery, IsOrder
  <1>7. PICK x7 \in Seq(Pieces) :
          x7 = clausePieces("START", q.start) /\ IsClause("START", q.start, x7) /\ ~HasRefused(x7)
    BY StatementWords, ClauseIsRead DEF IsQuery, IsClause
  <1>8. PICK x8 \in Seq(Pieces) :
          x8 = clausePieces("LIMIT", q.limit) /\ IsClause("LIMIT", q.limit, x8) /\ ~HasRefused(x8)
    BY StatementWords, ClauseIsRead DEF IsQuery, IsClause
  <1>9. PICK x9 \in Seq(Pieces) :
          x9 = clausePieces("STALENESS", q.staleness) /\ IsClause("STALENESS", q.staleness, x9)
            /\ ~HasRefused(x9)
    BY StatementWords, ClauseIsRead DEF IsQuery, IsClause
  <1>10. PICK x10 \in Seq(Pieces) :
           x10 = clausePieces("ANSWERED", q.answeredBy) /\ IsClause("ANSWERED", q.answeredBy, x10)
             /\ ~HasRefused(x10)
    BY StatementWords, ClauseIsRead DEF IsQuery, IsClause
  <1>11. PICK x11 \in Seq(Pieces) : x11 = Word("semicolon") /\ Len(x11) = 1 /\ ~HasRefused(x11)
    BY StatementWords, WordIs
  <1>21. Upto(x1, 2)
    BY <1>1 DEF Upto
  <1>22. PICK e2 \in Nat \ {0}, v2 \in Seq(Pieces) : Adds(x1, x2, v2, 2, e2) /\ Upto(v2, e2)
    BY <1>21, PartAdds
  <1>23. PICK e3 \in Nat \ {0}, v3 \in Seq(Pieces) : Adds(v2, x3, v3, e2, e3) /\ Upto(v3, e3)
    BY <1>22, PartAdds
  <1>24. PICK e4 \in Nat \ {0}, v4 \in Seq(Pieces) : Adds(v3, x4, v4, e3, e4) /\ Upto(v4, e4)
    BY <1>23, PartAdds
  <1>25. PICK e5 \in Nat \ {0}, v5 \in Seq(Pieces) : Adds(v4, x5, v5, e4, e5) /\ Upto(v5, e5)
    BY <1>24, PartAdds
  <1>26. PICK e6 \in Nat \ {0}, v6 \in Seq(Pieces) : Adds(v5, x6, v6, e5, e6) /\ Upto(v6, e6)
    BY <1>25, PartAdds
  <1>27. PICK e7 \in Nat \ {0}, v7 \in Seq(Pieces) : Adds(v6, x7, v7, e6, e7) /\ Upto(v7, e7)
    BY <1>26, PartAdds
  <1>28. PICK e8 \in Nat \ {0}, v8 \in Seq(Pieces) : Adds(v7, x8, v8, e7, e8) /\ Upto(v8, e8)
    BY <1>27, PartAdds
  <1>29. PICK e9 \in Nat \ {0}, v9 \in Seq(Pieces) : Adds(v8, x9, v9, e8, e9) /\ Upto(v9, e9)
    BY <1>28, PartAdds
  <1>30. PICK e10 \in Nat \ {0}, v10 \in Seq(Pieces) : Adds(v9, x10, v10, e9, e10) /\ Upto(v10, e10)
    BY <1>29, PartAdds
  <1>31. PICK e11 \in Nat \ {0}, v11 \in Seq(Pieces) : Adds(v10, x11, v11, e10, e11) /\ Upto(v11, e11)
    BY <1>30, PartAdds
  <1>32. p = v11
    <2>1. v2 = x1 \o x2 /\ v3 = v2 \o x3 /\ v4 = v3 \o x4 /\ v5 = v4 \o x5 /\ v6 = v5 \o x6
          /\ v7 = v6 \o x7 /\ v8 = v7 \o x8 /\ v9 = v8 \o x9 /\ v10 = v9 \o x10 /\ v11 = v10 \o x11
      BY <1>22, <1>23, <1>24, <1>25, <1>26, <1>27, <1>28, <1>29, <1>30, <1>31, Zenon DEF Adds
    <2> QED BY <1>1, <1>2, <1>3, <1>4, <1>5, <1>6, <1>7, <1>8, <1>9, <1>10, <1>11, <2>1, Zenon
             DEF selectPieces
  <1>33. HasRefused(p) <=> ~(Accepted(q.filter) /\ Sorted(q.order))
    <2>1. ~HasRefused(v4)
      BY <1>1, <1>2, <1>3, <1>4, <1>22, <1>23, <1>24, Zenon DEF Adds
    <2>2. HasRefused(v6) <=> ~(Accepted(q.filter) /\ Sorted(q.order))
      BY <1>5, <1>6, <1>25, <1>26, <2>1, Zenon DEF Adds
    <2>3. HasRefused(v9) <=> HasRefused(v6)
      BY <1>7, <1>8, <1>9, <1>27, <1>28, <1>29, Zenon DEF Adds
    <2>4. HasRefused(v11) <=> HasRefused(v9)
      BY <1>10, <1>11, <1>30, <1>31, Zenon DEF Adds
    <2> QED BY <1>32, <2>2, <2>3, <2>4, Zenon
  <1>34. ASSUME Accepted(q.filter), Sorted(q.order)
         PROVE  IsWord(p, 1, "SELECT") /\ readSelect(p) = QueryMeaning(q)
    <2>1. Stands(v11, 1, p) /\ Len(p) \in Nat
      BY <1>32, SelfStands
    <2>2. /\ Stands(v10, 1, p) /\ Stands(x11, e10, p) /\ Stands(x10, e9, p) /\ Stands(x9, e8, p)
          /\ Stands(x8, e7, p) /\ Stands(v7, 1, p)
      BY <1>28, <1>29, <1>30, <1>31, <2>1, Zenon DEF Adds
    <2>3. Stands(x7, e6, p) /\ Stands(x6, e5, p) /\ Stands(x5, e4, p) /\ Stands(v4, 1, p)
      BY <1>25, <1>26, <1>27, <2>2, Zenon DEF Adds
    <2>4. Stands(x4, e3, p) /\ Stands(x3, e2, p) /\ Stands(x2, 2, p) /\ Stands(x1, 1, p)
      BY <1>22, <1>23, <1>24, <2>3, Zenon DEF Adds
    <2>5. /\ e2 = 2 + Len(x2) /\ e3 = e2 + Len(x3) /\ e4 = e3 + Len(x4) /\ e5 = e4 + Len(x5)
          /\ e6 = e5 + Len(x6) /\ e7 = e6 + Len(x7) /\ e8 = e7 + Len(x8) /\ e9 = e8 + Len(x9)
          /\ e10 = e9 + Len(x10) /\ e11 = e10 + Len(x11) /\ Upto(v11, e11)
      BY <1>22, <1>23, <1>24, <1>25, <1>26, <1>27, <1>28, <1>29, <1>30, <1>31, Zenon DEF Adds
    <2>6. IsWord(p, e10, "semicolon") /\ Ends(p, e10)
      <3>1. IsWord(p, e10, "semicolon")
        BY <1>11, <2>2, StatementWords, WordStands
      <3>2. Len(p) = e10
        BY <1>11, <1>32, <2>5 DEF Upto
      <3> QED BY <3>1, <3>2 DEF Ends
    <2>7. PICK W10 : W10 = {"semicolon"}
      OBVIOUS
    <2>8. Begins(p, e10, W10)
      BY <2>6, <2>7, WordBegins
    <2>9. PICK W9 : W9 = W10 \cup {"ANSWERED"}
      OBVIOUS
    <2>10. readClause(p, e9, "ANSWERED") = [given |-> q.answeredBy, next |-> e10] /\ Begins(p, e9, W9)
      <3>1. "ANSWERED" \notin W10
        BY <2>7
      <3>2. e10 = e9 + Len(x10)
        BY <2>5
      <3>3. ClauseAt("ANSWERED", q.answeredBy, x10, e9, e10, p, W10)
        BY <1>10, <2>2, <2>8, <3>1, <3>2, ClauseStands
      <3> QED BY <2>9, <3>3, Zenon DEF ClauseAt
    <2>11. PICK W8 : W8 = W9 \cup {"STALENESS"}
      OBVIOUS
    <2>12. readClause(p, e8, "STALENESS") = [given |-> q.staleness, next |-> e9] /\ Begins(p, e8, W8)
      <3>1. "STALENESS" \notin W9
        BY <2>7, <2>9
      <3>2. e9 = e8 + Len(x9)
        BY <2>5
      <3>3. ClauseAt("STALENESS", q.staleness, x9, e8, e9, p, W9)
        BY <1>9, <2>2, <2>10, <3>1, <3>2, ClauseStands
      <3> QED BY <2>11, <3>3, Zenon DEF ClauseAt
    <2>13. PICK W7 : W7 = W8 \cup {"LIMIT"}
      OBVIOUS
    <2>14. readClause(p, e7, "LIMIT") = [given |-> q.limit, next |-> e8] /\ Begins(p, e7, W7)
      <3>1. "LIMIT" \notin W8
        BY <2>7, <2>9, <2>11
      <3>2. e8 = e7 + Len(x8)
        BY <2>5
      <3>3. ClauseAt("LIMIT", q.limit, x8, e7, e8, p, W8)
        BY <1>8, <2>2, <2>12, <3>1, <3>2, ClauseStands
      <3> QED BY <2>13, <3>3, Zenon DEF ClauseAt
    <2>15. PICK W6 : W6 = W7 \cup {"START"}
      OBVIOUS
    <2>16. readClause(p, e6, "START") = [given |-> q.start, next |-> e7] /\ Begins(p, e6, W6)
      <3>1. "START" \notin W7
        BY <2>7, <2>9, <2>11, <2>13
      <3>2. e7 = e6 + Len(x7)
        BY <2>5
      <3>3. ClauseAt("START", q.start, x7, e6, e7, p, W7)
        BY <1>7, <2>3, <2>14, <3>1, <3>2, ClauseStands
      <3> QED BY <2>15, <3>3, Zenon DEF ClauseAt
    <2>17. PICK W5 : W5 = W6 \cup {"ORDER"}
      OBVIOUS
    <2>18. readOrder(p, e5) = [given |-> q.order, next |-> e6] /\ Begins(p, e5, W5)
      <3>1. W6 \cap {"ORDER", "comma"} = {}
        BY <2>7, <2>9, <2>11, <2>13, <2>15
      <3>2. e6 = e5 + Len(x6)
        BY <2>5
      <3>3. OrderAt(q.order, x6, e5, e6, p, W6)
        BY <1>6, <1>34, <2>1, <2>3, <2>16, <3>1, <3>2, OrderStands
      <3> QED BY <2>17, <3>3, Zenon DEF OrderAt
    <2>19. readWhere(p, e4) = [given |-> q.filter, next |-> e5]
      <3>1. "WHERE" \notin W5
        BY <2>7, <2>9, <2>11, <2>13, <2>15, <2>17
      <3> QED BY <1>5, <1>34, <2>3, <2>5, <2>18, <3>1 DEF IsWhere
    <2>20. At(p, e3) = <<"name", q.table>>
      BY <1>4, <2>4
    <2>21. IsWord(p, e2, "FROM")
      BY <1>3, <2>4, StatementWords, WordStands
    <2>22. readItems(p) = [given |-> q.items, next |-> e2]
      <3>1. "FROM" \in {"FROM"} /\ "comma" \notin {"FROM"}
        OBVIOUS
      <3>2. Begins(p, e2, {"FROM"})
        BY <2>21, <3>1, WordBegins
      <3>3. ~IsWord(p, e2, "comma")
        BY <3>1, <3>2, BeginsOther
      <3> QED BY <1>2, <2>1, <2>4, <2>5, <3>3 DEF IsItems
    <2>23. e3 = e2 + 1 /\ e4 = e2 + 2
      BY <1>3, <1>4, <2>5
    <2>24. readSelect(p) = QueryMeaning(q)
      BY <2>6, <2>10, <2>12, <2>14, <2>16, <2>18, <2>19, <2>20, <2>21, <2>22, <2>23, ReadSelectIs
    <2>25. IsWord(p, 1, "SELECT")
      <3>1. PICK i \in Nat : i = 1
        OBVIOUS
      <3>2. IsWord(p, i, "SELECT")
        BY <1>1, <2>4, <3>1, StatementWords, WordStands
      <3> QED BY <3>1, <3>2
    <2> QED BY <2>24, <2>25
  <1> QED BY <1>32, <1>33, <1>34

\* The verb, the table and the identity of a write.
IsWriting(q) ==
  /\ q.kind \in {"CREATE", "CREATE_IN", "UPDATE", "DELETE"} /\ q.table \in Int
  /\ IsOption(Tagged("value", q.id)) /\ (q.id = Absent <=> q.kind = "CREATE_IN")
  /\ AreFields(q.set)

IsHead(h, verb, q, e) ==
  /\ Upto(h, e) /\ ~HasRefused(h)
  /\ \A ts, W : Stands(h, 1, ts) /\ ":" \notin W /\ Begins(ts, e, W)
       => /\ At(ts, 1) = <<"word", verb>> /\ At(ts, 2) = <<"name", q.table>>
          /\ readClause(ts, 3, ":") = [given |-> Tagged("value", q.id), next |-> e]

LEMMA HeadIsRead ==
  ASSUME NEW q, IsWriting(q), NEW verb \in {"CREATE", "UPDATE", "DELETE"}
  PROVE  \E e \in Nat \ {0} : IsHead(headPieces(verb, q), verb, q, e)
  <1>1. PICK x1 \in Seq(Pieces) : x1 = Word(verb) /\ Len(x1) = 1 /\ ~HasRefused(x1)
    BY StatementWords, WordIs
  <1>2. PICK x2 \in Seq(Pieces) :
          /\ x2 = Name(q.table) /\ Len(x2) = 1 /\ ~HasRefused(x2)
          /\ \A i \in Nat : \A ts : Stands(x2, i, ts) => At(ts, i) = <<"name", q.table>>
    BY NameIs DEF IsWriting
  <1>3. PICK id : id = Tagged("value", q.id)
    OBVIOUS
  <1>4. PICK x3 \in Seq(Pieces) : x3 = clausePieces(":", id) /\ IsClause(":", id, x3) /\ ~HasRefused(x3)
    BY <1>3, StatementWords, ClauseIsRead DEF IsWriting, IsClause
  <1>5. x3 = IF q.id = Absent THEN <<>> ELSE Word(":") \o Bound(q.id[1])
    <2>1. CASE q.id = Absent
      BY <1>3, <1>4, <2>1 DEF Tagged, clausePieces
    <2>2. CASE q.id # Absent
      <3>1. id = Bound(q.id[1])
        BY <1>3, <2>2 DEF Tagged, Bound
      <3>2. id # Absent
        BY <3>1 DEF Bound, Absent
      <3> QED BY <1>4, <2>2, <3>1, <3>2 DEF clausePieces
    <2> QED BY <2>1, <2>2
  <1>6. Upto(x1, 2)
    BY <1>1 DEF Upto
  <1>7. PICK e2 \in Nat \ {0}, v2 \in Seq(Pieces) : Adds(x1, x2, v2, 2, e2) /\ Upto(v2, e2)
    BY <1>6, PartAdds
  <1>8. PICK e3 \in Nat \ {0}, v3 \in Seq(Pieces) : Adds(v2, x3, v3, e2, e3) /\ Upto(v3, e3)
    BY <1>7, PartAdds
  <1>9. v3 = headPieces(verb, q)
    <2>1. v2 = x1 \o x2 /\ v3 = v2 \o x3
      BY <1>7, <1>8, Zenon DEF Adds
    <2> QED BY <1>1, <1>2, <1>5, <2>1, Zenon DEF headPieces
  <1>10. ~HasRefused(v3)
    BY <1>1, <1>2, <1>4, <1>7, <1>8, Zenon DEF Adds
  <1>11. e2 = 3 /\ e3 = 3 + Len(x3)
    <2>1. e2 = 2 + Len(x2) /\ e3 = e2 + Len(x3)
      BY <1>7, <1>8, Zenon DEF Adds
    <2> QED BY <1>2, <2>1
  <1>12. ASSUME NEW ts, NEW W, Stands(v3, 1, ts), ":" \notin W, Begins(ts, e3, W)
         PROVE  /\ At(ts, 1) = <<"word", verb>> /\ At(ts, 2) = <<"name", q.table>>
                /\ readClause(ts, 3, ":") = [given |-> id, next |-> e3]
    <2>1. Stands(x1, 1, ts) /\ Stands(x2, 2, ts) /\ Stands(x3, e2, ts)
      BY <1>7, <1>8, <1>12, Zenon DEF Adds
    <2>2. PICK i \in Nat : i = 1
      OBVIOUS
    <2>3. At(ts, i) = <<"word", verb>>
      BY <1>1, <2>1, <2>2, StatementWords, WordStands
    <2>4. At(ts, 2) = <<"name", q.table>>
      BY <1>2, <2>1
    <2>5. PICK j \in Nat : j = 3
      OBVIOUS
    <2>6. Stands(x3, j, ts) /\ Begins(ts, j + Len(x3), W)
      BY <1>11, <1>12, <2>1, <2>5
    <2>7. readClause(ts, j, ":") = [given |-> id, next |-> j + Len(x3)]
      BY <1>4, <1>12, <2>6, Zenon DEF IsClause
    <2> QED BY <1>11, <2>2, <2>3, <2>4, <2>5, <2>7
  <1>13. IsHead(v3, verb, q, e3)
    BY <1>3, <1>8, <1>10, <1>12, Zenon DEF IsHead
  <1> QED BY <1>9, <1>13

HeadOf(verb, table, id) ==
  Reading(IF verb = "CREATE" /\ id = Absent THEN "CREATE_IN" ELSE verb, table, id)

WriteAt(ts, verb, head, i, object, fields) ==
  CASE verb = "DELETE" /\ Ends(ts, i) -> head
    [] verb = "CREATE" /\ IsWord(ts, i, "=") /\ IsWord(ts, i + 1, "lbrace")
         /\ IsWord(ts, object.next, "rbrace") /\ Ends(ts, object.next + 1) ->
         [head EXCEPT !.set = object.given]
    [] verb = "UPDATE" /\ IsWord(ts, i, "SET") /\ Ends(ts, fields.next) ->
         [head EXCEPT !.set = fields.given]
    [] OTHER -> Unreadable

LEMMA ReadWriteIs ==
  ASSUME NEW ts, NEW verb, NEW table, NEW given, NEW e, At(ts, 1) = <<"word", verb>>,
         At(ts, 2) = table, readClause(ts, 3, ":") = [given |-> given, next |-> e]
  PROVE  readWrite(ts) = WriteAt(ts, verb, HeadOf(verb, table, given), e,
                                 readFields(ts, e + 2, ":"), readFields(ts, e + 1, "="))
  <1>1. PICK id, i, o : id = readClause(ts, 3, ":") /\ i = id.next /\ o = At(ts, 1)
    OBVIOUS
  <1>2. id.given = given /\ i = e /\ o[2] = verb
    BY <1>1
  <1>3. PICK head, object, fields :
          /\ head = Reading(IF o[2] = "CREATE" /\ id.given = Absent THEN "CREATE_IN" ELSE o[2],
                            At(ts, 2), id.given)
          /\ object = readFields(ts, i + 2, ":") /\ fields = readFields(ts, i + 1, "=")
    OBVIOUS
  <1>4. readWrite(ts) = WriteAt(ts, o[2], head, i, object, fields)
    BY <1>1, <1>3, Zenon DEF readWrite, WriteAt
  <1>5. head = HeadOf(verb, table, given)
    BY <1>2, <1>3, Zenon DEF HeadOf
  <1> QED BY <1>2, <1>3, <1>4, <1>5, Zenon

WriteMeaning(q) ==
  [Reading(q.kind, <<"name", q.table>>, Tagged("value", q.id)) EXCEPT !.set = FieldPairs(q.set)]

LEMMA NoFields ==
  ASSUME NEW set, AreFields(set), DOMAIN set = {}
  PROVE  FieldPairs(set) = <<>>
  <1>1. sortedNames(set) = <<>>
    BY NamesAre
  <1>2. Len(sortedNames(set)) = 0
    BY <1>1, EmptySeq
  <1> QED BY <1>2 DEF FieldPairs

\* What a write answers once it is read: the word of its verb, no SELECT.
ReadsWrite(p, q) ==
  /\ p \in Seq(Pieces) /\ ~HasRefused(p) /\ ~IsWord(p, 1, "SELECT")
  /\ readWrite(p) = WriteMeaning(q)

LEMMA DeleteIsRead ==
  ASSUME NEW q, IsWriting(q), q.kind = "DELETE", DOMAIN q.set = {}
  PROVE  ReadsWrite(headPieces("DELETE", q) \o Word("semicolon"), q)
  <1>1. PICK verb \in {"CREATE", "UPDATE", "DELETE"} : verb = "DELETE"
    OBVIOUS
  <1>20. PICK h : h = headPieces(verb, q)
    OBVIOUS
  <1>2. PICK e \in Nat \ {0} : IsHead(h, verb, q, e)
    BY <1>20, HeadIsRead
  <1>3. PICK x \in Seq(Pieces) : x = Word("semicolon") /\ Len(x) = 1 /\ ~HasRefused(x)
    BY StatementWords, WordIs
  <1>4. Upto(h, e) /\ ~HasRefused(h)
    BY <1>2, Zenon DEF IsHead
  <1>5. PICK f \in Nat \ {0}, p \in Seq(Pieces) : Adds(h, x, p, e, f) /\ Upto(p, f)
    BY <1>4, PartAdds
  <1>6. p = h \o x /\ f = e + Len(x) /\ (HasRefused(p) <=> HasRefused(h) \/ HasRefused(x))
    BY <1>5, Zenon DEF Adds
  <1>7. Stands(h, 1, p) /\ Stands(x, e, p) /\ Len(p) = e
    <2>1. Stands(p, 1, p)
      BY SelfStands
    <2>2. Len(p) = f - 1
      BY <1>5 DEF Upto
    <2> QED BY <1>3, <1>5, <1>6, <2>1, <2>2 DEF Adds
  <1>8. IsWord(p, e, "semicolon")
    BY <1>3, <1>7, StatementWords, WordStands
  <1>9. Ends(p, e)
    BY <1>7, <1>8 DEF Ends
  <1>10. PICK W : W = {"semicolon"}
    OBVIOUS
  <1>11. Begins(p, e, W) /\ ":" \notin W
    BY <1>8, <1>10, WordBegins
  <1>12. PICK id : id = Tagged("value", q.id)
    OBVIOUS
  <1>13. /\ At(p, 1) = <<"word", verb>> /\ At(p, 2) = <<"name", q.table>>
         /\ readClause(p, 3, ":") = [given |-> id, next |-> e]
    BY <1>2, <1>7, <1>11, <1>12, Zenon DEF IsHead
  <1>14. readWrite(p) = WriteAt(p, verb, HeadOf(verb, <<"name", q.table>>, id), e,
                                readFields(p, e + 2, ":"), readFields(p, e + 1, "="))
    BY <1>13, ReadWriteIs
  <1>15. readWrite(p) = HeadOf(verb, <<"name", q.table>>, id)
    BY <1>1, <1>9, <1>14 DEF WriteAt
  <1>16. HeadOf(verb, <<"name", q.table>>, id) = Reading(q.kind, <<"name", q.table>>, id)
    BY <1>1 DEF HeadOf
  <1>17. Reading(q.kind, <<"name", q.table>>, id) = WriteMeaning(q)
    <2>1. FieldPairs(q.set) = <<>>
      BY NoFields DEF IsWriting
    <2>2. PICK kind, table : kind = q.kind /\ table = <<"name", q.table>>
      OBVIOUS
    <2>3. [Reading(kind, table, id) EXCEPT !.set = <<>>] = Reading(kind, table, id)
      BY DEF Reading
    <2>4. WriteMeaning(q) = [Reading(kind, table, id) EXCEPT !.set = <<>>]
      BY <1>12, <2>1, <2>2, Zenon DEF WriteMeaning
    <2> QED BY <2>2, <2>3, <2>4, Zenon
  <1>18. ~IsWord(p, 1, "SELECT")
    BY <1>1, <1>13 DEF IsWord
  <1>19. ReadsWrite(p, q)
    BY <1>3, <1>4, <1>6, <1>15, <1>16, <1>17, <1>18 DEF ReadsWrite
  <1> QED BY <1>1, <1>3, <1>6, <1>19, <1>20

\* A head, a word, a body and a semicolon: where each stands.
BodyStands(p, h, w, b, e, g) ==
  /\ p \in Seq(Pieces) /\ ~HasRefused(p) /\ Len(p) \in Nat
  /\ Stands(h, 1, p) /\ IsWord(p, e, w) /\ Stands(b, e + 1, p)
  /\ g = e + 1 + Len(b) /\ IsWord(p, g, "semicolon") /\ Ends(p, g)

LEMMA BodyIs ==
  ASSUME NEW h, NEW e \in Nat \ {0}, Upto(h, e), ~HasRefused(h), NEW w \in Words,
         NEW b \in Seq(Pieces), ~HasRefused(b)
  PROVE  \E g \in Nat \ {0} : BodyStands(h \o Word(w) \o b \o Word("semicolon"), h, w, b, e, g)
  <1>1. PICK x \in Seq(Pieces) : x = Word(w) /\ Len(x) = 1 /\ ~HasRefused(x)
    BY WordIs
  <1>2. PICK y \in Seq(Pieces) : y = Word("semicolon") /\ Len(y) = 1 /\ ~HasRefused(y)
    BY StatementWords, WordIs
  <1>3. PICK e1 \in Nat \ {0}, v1 \in Seq(Pieces) : Adds(h, x, v1, e, e1) /\ Upto(v1, e1)
    BY PartAdds
  <1>4. PICK e2 \in Nat \ {0}, v2 \in Seq(Pieces) : Adds(v1, b, v2, e1, e2) /\ Upto(v2, e2)
    BY <1>3, PartAdds
  <1>5. PICK e3 \in Nat \ {0}, v3 \in Seq(Pieces) : Adds(v2, y, v3, e2, e3) /\ Upto(v3, e3)
    BY <1>4, PartAdds
  <1>6. v3 = h \o Word(w) \o b \o Word("semicolon")
    <2>1. v1 = h \o x /\ v2 = v1 \o b /\ v3 = v2 \o y
      BY <1>3, <1>4, <1>5, Zenon DEF Adds
    <2> QED BY <1>1, <1>2, <2>1
  <1>7. ~HasRefused(v3)
    BY <1>1, <1>2, <1>3, <1>4, <1>5, Zenon DEF Adds
  <1>8. Stands(v3, 1, v3) /\ Len(v3) \in Nat
    BY SelfStands
  <1>9. Stands(h, 1, v3) /\ Stands(x, e, v3) /\ Stands(b, e1, v3) /\ Stands(y, e2, v3)
    BY <1>3, <1>4, <1>5, <1>8, Zenon DEF Adds
  <1>10. e1 = e + Len(x) /\ e2 = e1 + Len(b) /\ e3 = e2 + Len(y)
    BY <1>3, <1>4, <1>5, Zenon DEF Adds
  <1>11. e1 = e + 1 /\ e2 = e + 1 + Len(b) /\ Len(v3) = e2
    <2>1. Len(v3) = e3 - 1
      BY <1>5 DEF Upto
    <2> QED BY <1>1, <1>2, <1>10, <2>1
  <1>12. IsWord(v3, e, w)
    BY <1>1, <1>9, WordStands
  <1>13. IsWord(v3, e2, "semicolon")
    BY <1>2, <1>9, StatementWords, WordStands
  <1>14. Ends(v3, e2)
    BY <1>11, <1>13 DEF Ends
  <1>15. BodyStands(v3, h, w, b, e, e2)
    BY <1>7, <1>8, <1>9, <1>11, <1>12, <1>13, <1>14 DEF BodyStands
  <1> QED BY <1>6, <1>15

\* With a body, the head is read, and the statement is no SELECT.
LEMMA HeadOfBody ==
  ASSUME NEW q, NEW verb \in {"CREATE", "UPDATE", "DELETE"}, NEW h, NEW e, IsHead(h, verb, q, e),
         NEW w, w # ":", NEW b, NEW g, NEW p, BodyStands(p, h, w, b, e, g)
  PROVE  /\ readWrite(p) = WriteAt(p, verb, HeadOf(verb, <<"name", q.table>>, Tagged("value", q.id)),
                                   e, readFields(p, e + 2, ":"), readFields(p, e + 1, "="))
         /\ ~IsWord(p, 1, "SELECT")
  <1>1. Stands(h, 1, p) /\ IsWord(p, e, w)
    BY DEF BodyStands
  <1>2. PICK W : W = {w}
    OBVIOUS
  <1>3. Begins(p, e, W) /\ ":" \notin W
    BY <1>1, <1>2, WordBegins
  <1>4. PICK id : id = Tagged("value", q.id)
    OBVIOUS
  <1>5. /\ At(p, 1) = <<"word", verb>> /\ At(p, 2) = <<"name", q.table>>
        /\ readClause(p, 3, ":") = [given |-> id, next |-> e]
    BY <1>1, <1>3, <1>4, Zenon DEF IsHead
  <1>6. ~IsWord(p, 1, "SELECT")
    BY <1>5 DEF IsWord
  <1> QED BY <1>4, <1>5, <1>6, ReadWriteIs

LEMMA NoComma ==
  ASSUME NEW p, NEW g, NEW w, w # "comma", IsWord(p, g, w)
  PROVE  ~IsWord(p, g, "comma")
  <1>1. w \in {w} /\ "comma" \notin {w}
    OBVIOUS
  <1>2. Begins(p, g, {w})
    BY <1>1, WordBegins
  <1> QED BY <1>1, <1>2, BeginsOther

LEMMA UpdateIsRead ==
  ASSUME NEW q, IsWriting(q), q.kind = "UPDATE", DOMAIN q.set # {}
  PROVE  ReadsWrite(headPieces("UPDATE", q) \o Word("SET") \o fieldPieces(q.set, "=")
                      \o Word("semicolon"), q)
  <1>1. PICK verb \in {"CREATE", "UPDATE", "DELETE"} : verb = "UPDATE"
    OBVIOUS
  <1>2. PICK h : h = headPieces(verb, q)
    OBVIOUS
  <1>3. PICK e \in Nat \ {0} : IsHead(h, verb, q, e)
    BY <1>2, HeadIsRead
  <1>4. PICK b \in Seq(Pieces) : b = fieldPieces(q.set, "=") /\ IsFields(q.set, "=", b) /\ ~HasRefused(b)
    BY StatementWords, FieldsAreRead DEF IsFields, IsWriting
  <1>5. Upto(h, e) /\ ~HasRefused(h)
    BY <1>3, Zenon DEF IsHead
  <1>6. PICK p : p = h \o Word("SET") \o b \o Word("semicolon")
    OBVIOUS
  <1>7. PICK g \in Nat \ {0} : BodyStands(p, h, "SET", b, e, g)
    BY <1>4, <1>5, <1>6, StatementWords, BodyIs
  <1>8. /\ p \in Seq(Pieces) /\ ~HasRefused(p) /\ Len(p) \in Nat
        /\ IsWord(p, e, "SET") /\ Stands(b, e + 1, p) /\ g = e + 1 + Len(b)
        /\ IsWord(p, g, "semicolon") /\ Ends(p, g)
    BY <1>7 DEF BodyStands
  <1>9. PICK id, head : id = Tagged("value", q.id) /\ head = HeadOf(verb, <<"name", q.table>>, id)
    OBVIOUS
  <1>10. /\ readWrite(p) = WriteAt(p, verb, head, e, readFields(p, e + 2, ":"), readFields(p, e + 1, "="))
         /\ ~IsWord(p, 1, "SELECT")
    BY <1>3, <1>7, <1>9, HeadOfBody
  <1>11. readFields(p, e + 1, "=") = [given |-> FieldPairs(q.set), next |-> g]
    <2>1. PICK i \in Nat \ {0} : i = e + 1
      OBVIOUS
    <2>2. ~IsWord(p, i + Len(b), "comma")
      BY <1>8, <2>1, NoComma
    <2>3. readFields(p, i, "=") = [given |-> FieldPairs(q.set), next |-> i + Len(b)]
      BY <1>4, <1>8, <2>1, <2>2 DEF IsFields
    <2> QED BY <1>8, <2>1, <2>3
  <1>12. PICK object, fields : object = readFields(p, e + 2, ":") /\ fields = readFields(p, e + 1, "=")
    OBVIOUS
  <1>13. fields.given = FieldPairs(q.set) /\ fields.next = g
    BY <1>11, <1>12
  <1>14. WriteAt(p, verb, head, e, object, fields) = [head EXCEPT !.set = fields.given]
    BY <1>1, <1>8, <1>13 DEF WriteAt
  <1>15. head = Reading(q.kind, <<"name", q.table>>, id)
    BY <1>1, <1>9 DEF HeadOf
  <1>16. readWrite(p) = WriteMeaning(q)
    BY <1>9, <1>10, <1>12, <1>13, <1>14, <1>15, Zenon DEF WriteMeaning
  <1>17. ReadsWrite(p, q)
    BY <1>8, <1>10, <1>16 DEF ReadsWrite
  <1> QED BY <1>1, <1>2, <1>4, <1>6, <1>17

\* The fields of CREATE, in braces.
IsObject(b, f, i, ts) ==
  /\ b \in Seq(Pieces) /\ ~HasRefused(b) /\ Len(b) = Len(f) + 2
  /\ Stands(b, i, ts) => /\ IsWord(ts, i, "lbrace") /\ Stands(f, i + 1, ts)
                         /\ IsWord(ts, i + 1 + Len(f), "rbrace")

LEMMA ObjectIs ==
  ASSUME NEW f \in Seq(Pieces), ~HasRefused(f), NEW i \in Nat, NEW ts
  PROVE  IsObject(Word("lbrace") \o f \o Word("rbrace"), f, i, ts)
  <1>1. PICK x \in Seq(Pieces) : x = Word("lbrace") /\ Len(x) = 1 /\ ~HasRefused(x)
    BY StatementWords, WordIs
  <1>2. PICK y \in Seq(Pieces) : y = Word("rbrace") /\ Len(y) = 1 /\ ~HasRefused(y)
    BY StatementWords, WordIs
  <1>3. PICK n \in Nat : n = Len(f)
    BY LenProperties
  <1>4. PICK u \in Seq(Pieces) : u = x \o f /\ Len(u) = 1 + n
    <2>1. x \o f \in Seq(Pieces) /\ Len(x \o f) = Len(x) + Len(f)
      BY ConcatProperties
    <2> QED BY <1>1, <1>3, <2>1
  <1>5. PICK b \in Seq(Pieces) : b = u \o y
    BY ConcatProperties
  <1>6. Len(b) = n + 2
    <2>1. Len(b) = Len(u) + Len(y)
      BY <1>5, ConcatProperties
    <2> QED BY <1>2, <1>4, <2>1
  <1>7. ~HasRefused(b)
    BY <1>1, <1>2, <1>4, <1>5, JoinRefused
  <1>8. ASSUME Stands(b, i, ts)
        PROVE  IsWord(ts, i, "lbrace") /\ Stands(f, i + 1, ts) /\ IsWord(ts, i + 1 + n, "rbrace")
    <2>1. Stands(u, i, ts) /\ Stands(y, i + (1 + n), ts)
      BY <1>4, <1>5, <1>8, JoinStands
    <2>2. Stands(x, i, ts) /\ Stands(f, i + 1, ts)
      BY <1>1, <1>4, <2>1, JoinStands
    <2>3. IsWord(ts, i, "lbrace")
      BY <1>1, <2>2, StatementWords, WordStands
    <2>4. PICK j \in Nat : j = i + 1 + n /\ j = i + (1 + n)
      OBVIOUS
    <2>5. IsWord(ts, j, "rbrace")
      BY <1>2, <2>1, <2>4, StatementWords, WordStands
    <2> QED BY <2>2, <2>3, <2>4, <2>5
  <1>9. IsObject(b, f, i, ts)
    BY <1>3, <1>6, <1>7, <1>8 DEF IsObject
  <1> QED BY <1>1, <1>2, <1>4, <1>5, <1>9

LEMMA CreateIsRead ==
  ASSUME NEW q, IsWriting(q), q.kind \in {"CREATE", "CREATE_IN"}, DOMAIN q.set # {}
  PROVE  ReadsWrite(headPieces("CREATE", q) \o Word("=") \o objectPieces(q.set)
                      \o Word("semicolon"), q)
  <1>1. PICK verb \in {"CREATE", "UPDATE", "DELETE"} : verb = "CREATE"
    OBVIOUS
  <1>2. PICK h : h = headPieces(verb, q)
    OBVIOUS
  <1>3. PICK e \in Nat \ {0} : IsHead(h, verb, q, e)
    BY <1>2, HeadIsRead
  <1>4. PICK f \in Seq(Pieces) : f = fieldPieces(q.set, ":") /\ IsFields(q.set, ":", f) /\ ~HasRefused(f)
    BY StatementWords, FieldsAreRead DEF IsFields, IsWriting
  <1>5. PICK b : b = objectPieces(q.set)
    OBVIOUS
  <1>6. \A i \in Nat : \A ts : IsObject(b, f, i, ts)
    <2>1. b = Word("lbrace") \o f \o Word("rbrace")
      BY <1>4, <1>5 DEF objectPieces
    <2> QED BY <1>4, <2>1, ObjectIs
  <1>7. b \in Seq(Pieces) /\ ~HasRefused(b) /\ Len(b) = Len(f) + 2
    <2>1. 0 \in Nat
      OBVIOUS
    <2> QED BY <1>6, <2>1 DEF IsObject
  <1>8. Upto(h, e) /\ ~HasRefused(h)
    BY <1>3, Zenon DEF IsHead
  <1>9. PICK p : p = h \o Word("=") \o b \o Word("semicolon")
    OBVIOUS
  <1>10. PICK g \in Nat \ {0} : BodyStands(p, h, "=", b, e, g)
    BY <1>7, <1>8, <1>9, StatementWords, BodyIs
  <1>11. /\ p \in Seq(Pieces) /\ ~HasRefused(p) /\ Len(p) \in Nat
         /\ IsWord(p, e, "=") /\ Stands(b, e + 1, p) /\ g = e + 1 + Len(b) /\ Ends(p, g)
    BY <1>10 DEF BodyStands
  <1>12. PICK id, head : id = Tagged("value", q.id) /\ head = HeadOf(verb, <<"name", q.table>>, id)
    OBVIOUS
  <1>13. /\ readWrite(p) = WriteAt(p, verb, head, e, readFields(p, e + 2, ":"), readFields(p, e + 1, "="))
         /\ ~IsWord(p, 1, "SELECT")
    BY <1>3, <1>10, <1>12, HeadOfBody
  <1>14. PICK i \in Nat \ {0} : i = e + 2
    OBVIOUS
  <1>15. IsWord(p, e + 1, "lbrace") /\ Stands(f, i, p) /\ IsWord(p, i + Len(f), "rbrace")
           /\ i + Len(f) + 1 = g
    <2>1. PICK k \in Nat : k = e + 1 /\ k + 1 = i
      BY <1>14
    <2>2. IsObject(b, f, k, p)
      BY <1>6
    <2>3. Len(f) \in Nat
      BY LenProperties
    <2>4. i + Len(f) + 1 = g
      BY <1>7, <1>11, <1>14, <2>3
    <2> QED BY <1>11, <2>1, <2>2, <2>4 DEF IsObject
  <1>16. readFields(p, i, ":") = [given |-> FieldPairs(q.set), next |-> i + Len(f)]
    <2>1. ~IsWord(p, i + Len(f), "comma")
      BY <1>15, NoComma
    <2> QED BY <1>4, <1>11, <1>15, <2>1 DEF IsFields
  <1>17. PICK object, fields : object = readFields(p, i, ":") /\ fields = readFields(p, e + 1, "=")
    OBVIOUS
  <1>18. object.given = FieldPairs(q.set) /\ object.next = i + Len(f) /\ object.next + 1 = g
    BY <1>15, <1>16, <1>17
  <1>19. WriteAt(p, verb, head, e, object, fields) = [head EXCEPT !.set = object.given]
    BY <1>1, <1>11, <1>15, <1>18 DEF WriteAt
  <1>20. head = Reading(q.kind, <<"name", q.table>>, id)
    <2>1. id = Absent <=> q.kind = "CREATE_IN"
      BY <1>12 DEF IsWriting, Tagged, Absent
    <2> QED BY <1>1, <1>12, <2>1 DEF HeadOf
  <1>21. readWrite(p) = WriteMeaning(q)
    BY <1>12, <1>13, <1>14, <1>17, <1>18, <1>19, <1>20, Zenon DEF WriteMeaning
  <1>22. ReadsWrite(p, q)
    BY <1>11, <1>13, <1>21 DEF ReadsWrite
  <1> QED BY <1>1, <1>2, <1>5, <1>9, <1>22

-----------------------------------------------------------------------------
(***************************************************************************)
(* The statement as a whole.                                               *)
(***************************************************************************)
IsStatement(q) ==
  \/ q.kind = "SELECT" /\ IsQuery(q) /\ q.id = Absent /\ AreFields(q.set) /\ DOMAIN q.set = {}
  \/ /\ IsWriting(q) /\ (q.kind = "DELETE" => DOMAIN q.set = {})
     /\ q.items = <<>> /\ q.filter = Absent /\ q.order = <<>> /\ q.start = Absent
     /\ q.limit = Absent /\ q.staleness = Absent /\ q.answeredBy = Absent

Complete(q) ==
  /\ q.kind \in {"CREATE", "CREATE_IN", "UPDATE"} => DOMAIN q.set # {}
  /\ Accepted(q.filter) /\ Sorted(q.order)

Meaning(q) == IF q.kind = "SELECT" THEN QueryMeaning(q) ELSE WriteMeaning(q)

IsReadAs(p, q) ==
  /\ p \in Seq(Pieces) /\ (HasRefused(p) <=> ~Complete(q))
  /\ Complete(q) => ReadByNode(p) = Meaning(q)

LEMMA WritePieces ==
  ASSUME NEW q, IsWriting(q), q.kind = "DELETE" => DOMAIN q.set = {}
  PROVE  \/ q.kind = "DELETE" /\ writePieces(q) = headPieces("DELETE", q) \o Word("semicolon")
         \/ /\ q.kind = "UPDATE" /\ DOMAIN q.set # {}
            /\ writePieces(q) = headPieces("UPDATE", q) \o Word("SET") \o fieldPieces(q.set, "=")
                                  \o Word("semicolon")
         \/ /\ q.kind \in {"CREATE", "CREATE_IN"} /\ DOMAIN q.set # {}
            /\ writePieces(q) = headPieces("CREATE", q) \o Word("=") \o objectPieces(q.set)
                                  \o Word("semicolon")
         \/ /\ q.kind # "DELETE" /\ DOMAIN q.set = {}
            /\ writePieces(q) = << <<"refused", <<"incomplete">>>> >>
  <1>1. CASE q.kind = "DELETE"
    BY <1>1 DEF writePieces
  <1>2. CASE q.kind = "UPDATE" /\ DOMAIN q.set # {}
    BY <1>2 DEF writePieces
  <1>3. CASE q.kind \in {"CREATE", "CREATE_IN"} /\ DOMAIN q.set # {}
    BY <1>3 DEF writePieces
  <1>4. CASE q.kind # "DELETE" /\ DOMAIN q.set = {}
    BY <1>4 DEF writePieces
  <1> QED BY <1>1, <1>2, <1>3, <1>4 DEF IsWriting

LEMMA WritesAreRead ==
  ASSUME NEW q, q.kind # "SELECT", IsStatement(q)
  PROVE  IsReadAs(pieces(q), q)
  <1>1. IsWriting(q) /\ (q.kind = "DELETE" => DOMAIN q.set = {}) /\ q.filter = Absent /\ q.order = <<>>
    BY Zenon DEF IsStatement
  <1>2. Accepted(q.filter) /\ Sorted(q.order)
    BY <1>1 DEF Accepted, Sorted
  <1>3. PICK p : p = writePieces(q)
    OBVIOUS
  <1>4. pieces(q) = p
    BY <1>3 DEF pieces
  <1>5. Complete(q) <=> q.kind = "DELETE" \/ DOMAIN q.set # {}
    BY <1>1, <1>2 DEF Complete, IsWriting
  <1>6. CASE ReadsWrite(p, q) /\ Complete(q)
    <2>1. ReadByNode(p) = Meaning(q)
      BY <1>6 DEF ReadByNode, Meaning, ReadsWrite
    <2> QED BY <1>4, <1>6, <2>1 DEF IsReadAs, ReadsWrite
  <1>7. CASE q.kind # "DELETE" /\ DOMAIN q.set = {} /\ p = << <<"refused", <<"incomplete">>>> >>
    <2>1. PICK why \in Whys : why = <<"incomplete">>
      BY DEF Whys
    <2>2. PICK a \in Pieces : a = <<"refused", why>> /\ a[1] = "refused"
      BY RefusedPiece
    <2>3. <<a>> \in Seq(Pieces) /\ HasRefused(<<a>>)
      BY <2>2, OnePiece
    <2>4. p = <<a>>
      BY <1>7, <2>1, <2>2
    <2> QED BY <1>4, <1>5, <1>7, <2>3, <2>4 DEF IsReadAs
  <1>8. \/ ReadsWrite(p, q) /\ Complete(q)
        \/ q.kind # "DELETE" /\ DOMAIN q.set = {} /\ p = << <<"refused", <<"incomplete">>>> >>
    <2>1. CASE q.kind = "DELETE" /\ p = headPieces("DELETE", q) \o Word("semicolon")
      <3>1. PICK r : r = headPieces("DELETE", q) \o Word("semicolon")
        OBVIOUS
      <3>2. ReadsWrite(r, q)
        BY <1>1, <2>1, <3>1, DeleteIsRead
      <3>3. ReadsWrite(p, q) /\ Complete(q)
        BY <1>5, <2>1, <3>1, <3>2
      <3> QED BY <3>3, Zenon
    <2>2. CASE /\ q.kind = "UPDATE" /\ DOMAIN q.set # {}
               /\ p = headPieces("UPDATE", q) \o Word("SET") \o fieldPieces(q.set, "=")
                        \o Word("semicolon")
      <3>1. PICK r : r = headPieces("UPDATE", q) \o Word("SET") \o fieldPieces(q.set, "=") \o Word("semicolon")
        OBVIOUS
      <3>2. ReadsWrite(r, q)
        BY <1>1, <2>2, <3>1, UpdateIsRead
      <3>3. ReadsWrite(p, q) /\ Complete(q)
        BY <1>5, <2>2, <3>1, <3>2
      <3> QED BY <3>3, Zenon
    <2>3. CASE /\ q.kind \in {"CREATE", "CREATE_IN"} /\ DOMAIN q.set # {}
               /\ p = headPieces("CREATE", q) \o Word("=") \o objectPieces(q.set)
                        \o Word("semicolon")
      <3>1. PICK r : r = headPieces("CREATE", q) \o Word("=") \o objectPieces(q.set) \o Word("semicolon")
        OBVIOUS
      <3>2. ReadsWrite(r, q)
        BY <1>1, <2>3, <3>1, CreateIsRead
      <3>3. ReadsWrite(p, q) /\ Complete(q)
        BY <1>5, <2>3, <3>1, <3>2
      <3> QED BY <3>3, Zenon
    <2>4. CASE q.kind # "DELETE" /\ DOMAIN q.set = {} /\ p = << <<"refused", <<"incomplete">>>> >>
      BY <2>4
    <2> QED BY <1>1, <1>3, <2>1, <2>2, <2>3, <2>4, WritePieces
  <1> QED BY <1>6, <1>7, <1>8

LEMMA StatementIsRead ==
  ASSUME NEW q, IsStatement(q)
  PROVE  IsReadAs(pieces(q), q)
  <1>1. CASE q.kind = "SELECT"
    <2>1. IsQuery(q)
      BY <1>1, Zenon DEF IsStatement, IsWriting
    <2>2. PICK p : p = selectPieces(q)
      OBVIOUS
    <2>3. pieces(q) = p
      BY <1>1, <2>2 DEF pieces
    <2>4. Complete(q) <=> Accepted(q.filter) /\ Sorted(q.order)
      BY <1>1 DEF Complete
    <2>5. /\ p \in Seq(Pieces) /\ (HasRefused(p) <=> ~(Accepted(q.filter) /\ Sorted(q.order)))
          /\ Accepted(q.filter) /\ Sorted(q.order)
               => IsWord(p, 1, "SELECT") /\ readSelect(p) = QueryMeaning(q)
      BY <2>1, <2>2, SelectIsRead
    <2>6. Complete(q) => ReadByNode(p) = Meaning(q)
      BY <1>1, <2>4, <2>5 DEF ReadByNode, Meaning
    <2> QED BY <2>3, <2>4, <2>5, <2>6 DEF IsReadAs
  <1> QED BY <1>1, WritesAreRead

-----------------------------------------------------------------------------
(***************************************************************************)
(* What a sequence of calls asks for, and what one more call adds.         *)
(***************************************************************************)
Extends(ds, cs, c) ==
  /\ Len(cs) \in Nat /\ Len(ds) = Len(cs) + 1
  /\ \A i \in 1 .. Len(cs) : ds[i] = cs[i]
  /\ ds[Len(cs) + 1] = c

PlacesIn(cs, method) == {i \in 1 .. Len(cs) : cs[i][1] = method}

IsGreatest(i, places) == i \in places /\ \A j \in places : j <= i

LastPlace(places) == CHOOSE i \in places : \A j \in places : j <= i

LastIn(cs, method) ==
  IF PlacesIn(cs, method) = {} THEN Absent ELSE <<cs[LastPlace(PlacesIn(cs, method))][2]>>

LEMMA GreatestIs ==
  ASSUME NEW places \in SUBSET Nat, NEW i, IsGreatest(i, places)
  PROVE  LastPlace(places) = i
  <1>1. \A k \in places : (\A j \in places : j <= k) => k = i
    <2> SUFFICES ASSUME NEW k \in places, \A j \in places : j <= k PROVE k = i
      OBVIOUS
    <2>1. i <= k /\ k <= i /\ i \in Nat /\ k \in Nat
      BY DEF IsGreatest
    <2> QED BY <2>1
  <1>2. i \in places /\ \A j \in places : j <= i
    BY DEF IsGreatest
  <1> QED BY <1>1, <1>2, Zenon DEF LastPlace

LEMMA LastAdds ==
  ASSUME NEW cs, NEW c, NEW ds, Extends(ds, cs, c), NEW method
  PROVE  LastIn(ds, method) = IF c[1] = method THEN <<c[2]>> ELSE LastIn(cs, method)
  <1>1. PICK n \in Nat : n = Len(cs)
    BY DEF Extends
  <1>2. Len(ds) = n + 1 /\ (\A i \in 1 .. n : ds[i] = cs[i]) /\ ds[n + 1] = c
    BY <1>1 DEF Extends
  <1>3. PICK P, Q : P = PlacesIn(cs, method) /\ Q = PlacesIn(ds, method)
    OBVIOUS
  <1>4. P \subseteq 1 .. n /\ Q \subseteq 1 .. n + 1
    BY <1>1, <1>2, <1>3 DEF PlacesIn
  <1>5. CASE c[1] = method
    <2>1. IsGreatest(n + 1, Q)
      BY <1>2, <1>3, <1>4, <1>5 DEF IsGreatest, PlacesIn
    <2>2. LastPlace(Q) = n + 1
      <3>1. Q \in SUBSET Nat
        BY <1>4
      <3> QED BY <2>1, <3>1, GreatestIs
    <2>3. Q # {}
      BY <2>1 DEF IsGreatest
    <2> QED BY <1>2, <1>3, <1>5, <2>2, <2>3 DEF LastIn
  <1>6. CASE c[1] # method
    <2>1. Q = P
      BY <1>1, <1>2, <1>3, <1>6 DEF PlacesIn
    <2>2. CASE P = {}
      BY <1>3, <1>6, <2>1, <2>2 DEF LastIn
    <2>3. CASE P # {}
      <3>1. P \in SUBSET Int /\ IsFiniteSet(P)
        <4>1. PICK S : S = 1 .. n
          OBVIOUS
        <4>2. IsFiniteSet(S) /\ P \in SUBSET S /\ S \subseteq Int
          BY <1>4, <4>1, FS_Interval
        <4>3. IsFiniteSet(P)
          BY <4>2, FS_Subset
        <4> QED BY <4>2, <4>3
      <3>2. PICK i : Greatest(i, P)
        BY <2>3, <3>1, GreatestExists
      <3>3. IsGreatest(i, P) /\ P \in SUBSET Nat
        BY <1>4, <3>2 DEF Greatest, IsGreatest
      <3>4. LastPlace(P) = i
        BY <3>3, GreatestIs
      <3>5. cs[i] = ds[i]
        BY <1>2, <1>4, <3>3 DEF IsGreatest
      <3> QED BY <1>3, <1>6, <2>1, <2>3, <3>4, <3>5 DEF LastIn
    <2> QED BY <2>2, <2>3
  <1> QED BY <1>5, <1>6

RefusalsIn(cs) == {i \in 1 .. Len(cs) : RefusalOf(cs[i]) # Fine}

FirstIn(cs) == CHOOSE i \in RefusalsIn(cs) : \A j \in RefusalsIn(cs) : i <= j

ErrIn(cs) == IF RefusalsIn(cs) = {} THEN Fine ELSE RefusalOf(cs[FirstIn(cs)])

LEMMA FirstIs ==
  ASSUME NEW cs, Len(cs) \in Nat, NEW i \in RefusalsIn(cs), \A j \in RefusalsIn(cs) : i <= j
  PROVE  FirstIn(cs) = i
  <1>1. PICK R : R = RefusalsIn(cs)
    OBVIOUS
  <1>2. R \subseteq Nat
    BY <1>1 DEF RefusalsIn
  <1>3. \A k \in R : (\A j \in R : k <= j) => k = i
    BY <1>1, <1>2
  <1> QED BY <1>1, <1>3, Zenon DEF FirstIn

LEMMA FirstExists ==
  ASSUME NEW cs, Len(cs) \in Nat, RefusalsIn(cs) # {}
  PROVE  /\ FirstIn(cs) \in RefusalsIn(cs) /\ \A j \in RefusalsIn(cs) : FirstIn(cs) <= j
  <1>1. RefusalsIn(cs) \in SUBSET Nat
    BY DEF RefusalsIn
  <1>2. PICK i \in RefusalsIn(cs) : \A j \in RefusalsIn(cs) : i <= j
    BY <1>1, FirstOne
  <1> QED BY <1>2, FirstIs

\* The first refusal is kept.
LEMMA ErrAdds ==
  ASSUME NEW cs, NEW c, NEW ds, Extends(ds, cs, c)
  PROVE  ErrIn(ds) = fail(ErrIn(cs), RefusalOf(c))
  <1>1. PICK n \in Nat : n = Len(cs)
    BY DEF Extends
  <1>2. Len(ds) = n + 1 /\ (\A i \in 1 .. n : ds[i] = cs[i]) /\ ds[n + 1] = c
    BY <1>1 DEF Extends
  <1>3. PICK R, Q : R = RefusalsIn(cs) /\ Q = RefusalsIn(ds)
    OBVIOUS
  <1>4. PICK why : why = RefusalOf(c)
    OBVIOUS
  <1>5. /\ R \subseteq 1 .. n
        /\ Q = R \cup (IF why = Fine THEN {} ELSE {n + 1})
    <2>1. R = {i \in 1 .. n : RefusalOf(cs[i]) # Fine}
      BY <1>1, <1>3 DEF RefusalsIn
    <2>2. Q = {i \in 1 .. n + 1 : RefusalOf(ds[i]) # Fine}
      BY <1>2, <1>3 DEF RefusalsIn
    <2>3. 1 .. n + 1 = (1 .. n) \cup {n + 1}
      OBVIOUS
    <2>4. \A i \in 1 .. n : RefusalOf(ds[i]) = RefusalOf(cs[i])
      BY <1>2
    <2> QED BY <1>2, <1>4, <2>1, <2>2, <2>3, <2>4, Zenon
  <1>6. CASE R # {}
    <2>1. PICK i : i = FirstIn(cs)
      OBVIOUS
    <2>2. i \in R /\ \A j \in R : i <= j
      BY <1>1, <1>3, <1>6, <2>1, FirstExists
    <2>3. i \in Q /\ \A j \in Q : i <= j
      BY <1>5, <2>2
    <2>4. FirstIn(ds) = i
      BY <1>2, <1>3, <2>3, FirstIs
    <2>5. ds[i] = cs[i]
      BY <1>2, <1>5, <2>2
    <2>6. ErrIn(ds) = RefusalOf(cs[i]) /\ ErrIn(cs) = RefusalOf(cs[i])
      BY <1>3, <1>6, <2>1, <2>3, <2>4, <2>5 DEF ErrIn
    <2>7. RefusalOf(cs[i]) # Fine
      BY <1>3, <2>2 DEF RefusalsIn
    <2> QED BY <2>6, <2>7 DEF fail
  <1>7. CASE R = {} /\ why = Fine
    <2>1. Q = {}
      BY <1>5, <1>7
    <2> QED BY <1>3, <1>4, <1>7, <2>1 DEF ErrIn, fail
  <1>8. CASE R = {} /\ why # Fine
    <2>1. Q = {n + 1}
      BY <1>5, <1>8
    <2>2. FirstIn(ds) = n + 1
      <3>1. Len(ds) \in Nat /\ n + 1 \in RefusalsIn(ds) /\ \A j \in RefusalsIn(ds) : n + 1 <= j
        BY <1>2, <1>3, <2>1
      <3> QED BY <3>1, FirstIs
    <2>3. ErrIn(ds) = why
      BY <1>2, <1>3, <1>4, <2>1, <2>2 DEF ErrIn
    <2> QED BY <1>3, <1>4, <1>8, <2>3 DEF ErrIn, fail
  <1> QED BY <1>6, <1>7, <1>8

AtMostOne(w) == w = <<>> \/ \E x : w = <<x>>

\* Of sequences that are empty or have one item, one more.
LEMMA FlattenAdds ==
  ASSUME NEW n \in Nat, NEW f, NEW g, \A i \in 1 .. n : AtMostOne(f[i]) /\ g[i] = f[i],
         AtMostOne(g[n + 1])
  PROVE  FlattenSeq([i \in 1 .. n + 1 |-> g[i]]) = FlattenSeq([i \in 1 .. n |-> f[i]]) \o g[n + 1]
  <1>1. PICK S : S = {g[i][1] : i \in 1 .. n + 1}
    OBVIOUS
  <1>2. \A i \in 1 .. n + 1 : g[i] \in Seq(S)
    <2>1. SUFFICES ASSUME NEW i \in 1 .. n + 1 PROVE g[i] \in Seq(S)
      OBVIOUS
    <2>2. AtMostOne(g[i])
      <3>1. CASE i = n + 1
        BY <3>1
      <3>2. CASE i \in 1 .. n
        BY <3>2
      <3> QED BY <3>1, <3>2
    <2>3. CASE g[i] = <<>>
      BY <2>3, EmptySeq
    <2>4. CASE g[i] # <<>>
      <3>1. PICK x : g[i] = <<x>>
        BY <2>2, <2>4 DEF AtMostOne
      <3>2. g[i][1] = x
        BY <3>1
      <3>3. x \in S
        BY <1>1, <3>2
      <3> QED BY <3>1, <3>3
    <2> QED BY <2>3, <2>4
  <1>3. PICK ws : ws = [i \in 1 .. n |-> f[i]]
    OBVIOUS
  <1>4. PICK vs : vs = [i \in 1 .. n + 1 |-> g[i]]
    OBVIOUS
  <1>5. ws \in Seq(Seq(S)) /\ Len(ws) = n /\ \A i \in 1 .. n : ws[i] = g[i]
    <2>1. \A i \in 1 .. n : f[i] \in Seq(S)
      BY <1>2
    <2> QED BY <1>3, <2>1
  <1>6. vs \in Seq(Seq(S)) /\ Len(vs) = n + 1 /\ \A i \in 1 .. n + 1 : vs[i] = g[i]
    BY <1>2, <1>4
  <1>7. PICK w \in Seq(S) : w = g[n + 1]
    BY <1>2
  <1>8. PICK us \in Seq(Seq(S)) : us = Append(ws, w)
    BY <1>5, AppendProperties
  <1>9. Len(us) = n + 1 /\ (\A i \in 1 .. n : us[i] = ws[i]) /\ us[n + 1] = w
    BY <1>5, <1>8, AppendProperties
  <1>10. vs = us
    <2>1. \A i \in 1 .. n + 1 : vs[i] = us[i]
      <3>1. SUFFICES ASSUME NEW i \in 1 .. n + 1 PROVE vs[i] = us[i]
        OBVIOUS
      <3>2. CASE i = n + 1
        BY <1>6, <1>7, <1>9, <3>2
      <3>3. CASE i \in 1 .. n
        BY <1>5, <1>6, <1>9, <3>3
      <3> QED BY <3>2, <3>3
    <2> QED BY <1>6, <1>9, <2>1, SeqEqual
  <1>11. FlattenSeq(us) = FlattenSeq(ws) \o w
    BY <1>5, <1>8, FlattenAppend
  <1> QED BY <1>3, <1>4, <1>7, <1>10, <1>11

ItemsIn(cs) == FlattenSeq([i \in 1 .. Len(cs) |-> ItemOf(cs[i])])

OrderIn(cs) == FlattenSeq([i \in 1 .. Len(cs) |-> SortOf(cs[i])])

LEMMA ItemAtMostOne == ASSUME NEW c PROVE AtMostOne(ItemOf(c)) /\ AtMostOne(SortOf(c))
  <1>1. AtMostOne(ItemOf(c))
    <2>1. CASE c[1] = "Field"
      <3>1. PICK x : x = <<"name", c[2]>>
        OBVIOUS
      <3>2. ItemOf(c) = <<x>>
        BY <2>1, <3>1 DEF ItemOf
      <3> QED BY <3>2, Zenon DEF AtMostOne
    <2>2. CASE c[1] = "Lines"
      <3>1. PICK x : x = <<"lines", c[2], c[3], c[4]>>
        OBVIOUS
      <3>2. ItemOf(c) = <<x>>
        BY <2>2, <3>1 DEF ItemOf
      <3> QED BY <3>2, Zenon DEF AtMostOne
    <2>3. CASE c[1] \notin {"Field", "Lines"}
      <3>1. ItemOf(c) = <<>>
        BY <2>3 DEF ItemOf
      <3> QED BY <3>1, Zenon DEF AtMostOne
    <2> QED BY <2>1, <2>2, <2>3
  <1>2. AtMostOne(SortOf(c))
    BY DEF AtMostOne, SortOf
  <1> QED BY <1>1, <1>2

LEMMA ItemsAdd ==
  ASSUME NEW cs, NEW c, NEW ds, Extends(ds, cs, c)
  PROVE  ItemsIn(ds) = ItemsIn(cs) \o ItemOf(c) /\ OrderIn(ds) = OrderIn(cs) \o SortOf(c)
  <1>1. PICK n \in Nat : n = Len(cs)
    BY DEF Extends
  <1>2. Len(ds) = n + 1 /\ (\A i \in 1 .. n : ds[i] = cs[i]) /\ ds[n + 1] = c
    BY <1>1 DEF Extends
  <1>3. n + 1 \in 1 .. n + 1
    OBVIOUS
  <1>4. ItemsIn(ds) = ItemsIn(cs) \o ItemOf(c)
    <2>1. PICK f : f = [i \in 1 .. n |-> ItemOf(cs[i])]
      OBVIOUS
    <2>2. PICK g : g = [i \in 1 .. n + 1 |-> ItemOf(ds[i])]
      OBVIOUS
    <2>3. \A i \in 1 .. n : AtMostOne(f[i]) /\ g[i] = f[i]
      BY <1>2, <2>1, <2>2, ItemAtMostOne
    <2>4. g[n + 1] = ItemOf(c)
      BY <1>2, <1>3, <2>2
    <2>5. AtMostOne(g[n + 1])
      BY <2>4, ItemAtMostOne
    <2>6. FlattenSeq([i \in 1 .. n + 1 |-> g[i]]) = FlattenSeq([i \in 1 .. n |-> f[i]]) \o g[n + 1]
      BY <2>3, <2>5, FlattenAdds
    <2>7. [i \in 1 .. n + 1 |-> g[i]] = g /\ [i \in 1 .. n |-> f[i]] = f
      BY <2>1, <2>2
    <2>8. ItemsIn(ds) = FlattenSeq(g) /\ ItemsIn(cs) = FlattenSeq(f)
      BY <1>1, <1>2, <2>1, <2>2 DEF ItemsIn
    <2> QED BY <2>4, <2>6, <2>7, <2>8
  <1>5. OrderIn(ds) = OrderIn(cs) \o SortOf(c)
    <2>1. PICK f : f = [i \in 1 .. n |-> SortOf(cs[i])]
      OBVIOUS
    <2>2. PICK g : g = [i \in 1 .. n + 1 |-> SortOf(ds[i])]
      OBVIOUS
    <2>3. \A i \in 1 .. n : AtMostOne(f[i]) /\ g[i] = f[i]
      BY <1>2, <2>1, <2>2, ItemAtMostOne
    <2>4. g[n + 1] = SortOf(c)
      BY <1>2, <1>3, <2>2
    <2>5. AtMostOne(g[n + 1])
      BY <2>4, ItemAtMostOne
    <2>6. FlattenSeq([i \in 1 .. n + 1 |-> g[i]]) = FlattenSeq([i \in 1 .. n |-> f[i]]) \o g[n + 1]
      BY <2>3, <2>5, FlattenAdds
    <2>7. [i \in 1 .. n + 1 |-> g[i]] = g /\ [i \in 1 .. n |-> f[i]] = f
      BY <2>1, <2>2
    <2>8. OrderIn(ds) = FlattenSeq(g) /\ OrderIn(cs) = FlattenSeq(f)
      BY <1>1, <1>2, <2>1, <2>2 DEF OrderIn
    <2> QED BY <2>4, <2>6, <2>7, <2>8
  <1> QED BY <1>4, <1>5

SetsIn(cs) ==
  {i \in 1 .. Len(cs) :
     /\ cs[i][1] = "Set"
     /\ \A j \in i + 1 .. Len(cs) : cs[j][1] = "Set" => cs[j][2] # cs[i][2]}

PairOfCall(c) == << <<"name", c[2]>>, <<"value", c[3]>> >>

PairsIn(cs) == {PairOfCall(cs[i]) : i \in SetsIn(cs)}

\* The pairs of other names.
Others(pairs, n) == {x \in pairs : x[1] # <<"name", n>>}

LEMMA PairName == \A c, n : PairOfCall(c)[1] # <<"name", n>> <=> c[2] # n
  <1> SUFFICES ASSUME NEW c, NEW n PROVE PairOfCall(c)[1] # <<"name", n>> <=> c[2] # n
    OBVIOUS
  <1>1. PICK x, y : x = c[2] /\ y = c[3]
    OBVIOUS
  <1>2. PairOfCall(c) = << <<"name", x>>, <<"value", y>> >>
    BY <1>1 DEF PairOfCall
  <1>3. PairOfCall(c)[1] = <<"name", x>>
    BY <1>2
  <1>4. <<"name", x>> = <<"name", n>> <=> x = n
    OBVIOUS
  <1> QED BY <1>1, <1>3, <1>4

LEMMA SetsAdd ==
  ASSUME NEW cs, NEW c, NEW ds, Extends(ds, cs, c)
  PROVE  SetsIn(ds) = IF c[1] = "Set" THEN {i \in SetsIn(cs) : cs[i][2] # c[2]} \cup {Len(cs) + 1}
                      ELSE SetsIn(cs)
  <1>1. PICK n \in Nat : n = Len(cs)
    BY DEF Extends
  <1>2. Len(ds) = n + 1 /\ (\A i \in 1 .. n : ds[i] = cs[i]) /\ ds[n + 1] = c
    BY <1>1 DEF Extends
  <1>3. ASSUME NEW i \in 1 .. n
        PROVE  i \in SetsIn(ds) <=> i \in SetsIn(cs) /\ (c[1] = "Set" => c[2] # cs[i][2])
    <2>1. \A j \in i + 1 .. n : ds[j] = cs[j]
      BY <1>2
    <2>2. (\A j \in i + 1 .. n + 1 : ds[j][1] = "Set" => ds[j][2] # ds[i][2])
            <=> (\A j \in i + 1 .. n : cs[j][1] = "Set" => cs[j][2] # cs[i][2])
                  /\ (c[1] = "Set" => c[2] # cs[i][2])
      <3>1. i + 1 .. n + 1 = (i + 1 .. n) \cup {n + 1}
        OBVIOUS
      <3>2. ds[i] = cs[i]
        BY <1>2
      <3> QED BY <1>2, <2>1, <3>1, <3>2, Zenon
    <2> QED BY <1>1, <1>2, <2>2 DEF SetsIn
  <1>4. n + 1 \in SetsIn(ds) <=> c[1] = "Set"
    <2>1. n + 1 + 1 .. n + 1 = {}
      OBVIOUS
    <2> QED BY <1>2, <2>1 DEF SetsIn
  <1>5. SetsIn(ds) \subseteq 1 .. n + 1 /\ SetsIn(cs) \subseteq 1 .. n
    BY <1>1, <1>2 DEF SetsIn
  <1>6. PICK D, C : D = SetsIn(ds) /\ C = SetsIn(cs)
    OBVIOUS
  <1>7. CASE c[1] = "Set"
    <2>1. D = {i \in C : cs[i][2] # c[2]} \cup {n + 1}
      BY <1>3, <1>4, <1>5, <1>6, <1>7
    <2> QED BY <1>1, <1>6, <1>7, <2>1
  <1>8. CASE c[1] # "Set"
    <2>2. n + 1 \notin D /\ D \subseteq 1 .. n + 1 /\ C \subseteq 1 .. n
      BY <1>4, <1>5, <1>6, <1>8
    <2>3. \A i \in 1 .. n : i \in D <=> i \in C
      BY <1>3, <1>6, <1>8
    <2>4. D \subseteq 1 .. n
      BY <2>2
    <2>1. D = C
      BY <2>2, <2>3, <2>4
    <2> QED BY <1>6, <1>8, <2>1
  <1> QED BY <1>7, <1>8

\* The last call of Set of a name is the one that counts.
LEMMA PairsAdd ==
  ASSUME NEW cs, NEW c, NEW ds, Extends(ds, cs, c)
  PROVE  PairsIn(ds) = IF c[1] = "Set" THEN Others(PairsIn(cs), c[2]) \cup {PairOfCall(c)}
                       ELSE PairsIn(cs)
  <1>1. PICK n \in Nat : n = Len(cs)
    BY DEF Extends
  <1>2. (\A i \in 1 .. n : ds[i] = cs[i]) /\ ds[n + 1] = c
    BY <1>1 DEF Extends
  <1>3. PICK D, C : D = SetsIn(ds) /\ C = SetsIn(cs)
    OBVIOUS
  <1>4. D = IF c[1] = "Set" THEN {i \in C : cs[i][2] # c[2]} \cup {n + 1} ELSE C
    BY <1>1, <1>3, SetsAdd
  <1>5. C \subseteq 1 .. n
    BY <1>1, <1>3 DEF SetsIn
  <1>6. PairsIn(ds) = {PairOfCall(ds[i]) : i \in D} /\ PairsIn(cs) = {PairOfCall(cs[i]) : i \in C}
    BY <1>3 DEF PairsIn
  <1>7. \A i \in C : PairOfCall(ds[i]) = PairOfCall(cs[i])
    BY <1>2, <1>5
  <1>8. CASE c[1] = "Set"
    <2>1. \A x : x \in PairsIn(ds) <=> x = PairOfCall(c) \/ \E i \in C : cs[i][2] # c[2] /\ x = PairOfCall(cs[i])
      BY <1>2, <1>4, <1>6, <1>7, <1>8
    <2>2. \A x : x \in Others(PairsIn(cs), c[2]) <=> \E i \in C : cs[i][2] # c[2] /\ x = PairOfCall(cs[i])
      BY <1>6, PairName DEF Others
    <2> QED BY <1>8, <2>1, <2>2
  <1>9. CASE c[1] # "Set"
    BY <1>4, <1>6, <1>7, <1>9
  <1> QED BY <1>8, <1>9

-----------------------------------------------------------------------------
(***************************************************************************)
(* The statement is what its calls gather.                                 *)
(***************************************************************************)
IsForm(t) ==
  t = [kind |-> t.kind, table |-> t.table, id |-> t.id, err |-> t.err, items |-> t.items,
       filter |-> t.filter, order |-> t.order, start |-> t.start, limit |-> t.limit,
       staleness |-> t.staleness, answeredBy |-> t.answeredBy, set |-> t.set]

StatementPairs(set) == {PairOf(set, n) : n \in DOMAIN set}

\* What the last call of a method gave, under its tag.
Keeps(x, tag, method, cs) == x = Tagged(tag, LastIn(cs, method))

\* A call of the method replaces it, any other leaves it.
Replaces(y, x, tag, method, c) == y = IF c[1] = method THEN << <<tag, c[2]>> >> ELSE x

Gathers(t, cs) ==
  /\ t.err = ErrIn(cs) /\ t.items = ItemsIn(cs) /\ t.order = OrderIn(cs)
  /\ t.filter = LastIn(cs, "Where")
  /\ Keeps(t.start, "number", "Start", cs) /\ Keeps(t.limit, "number", "Limit", cs)
  /\ t.err = Fine => /\ Keeps(t.staleness, "span", "Staleness", cs)
                     /\ Keeps(t.answeredBy, "answerer", "AnsweredBy", cs)
                     /\ StatementPairs(t.set) = PairsIn(cs)

\* What a call of Set does to the pairs.
Puts(after, before, c) ==
  after = IF c[1] = "Set" THEN Others(before, c[2]) \cup {PairOfCall(c)} ELSE before

\* What one call does to a statement.
Follows(t, c, u) ==
  /\ u.err = fail(t.err, RefusalOf(c))
  /\ u.items = IF ItemOf(c) = <<>> THEN t.items ELSE t.items \o ItemOf(c)
  /\ u.order = IF SortOf(c) = <<>> THEN t.order ELSE t.order \o SortOf(c)
  /\ u.filter = IF c[1] = "Where" THEN <<c[2]>> ELSE t.filter
  /\ Replaces(u.start, t.start, "number", "Start", c)
  /\ Replaces(u.limit, t.limit, "number", "Limit", c)
  /\ RefusalOf(c) = Fine =>
       /\ Replaces(u.staleness, t.staleness, "span", "Staleness", c)
       /\ Replaces(u.answeredBy, t.answeredBy, "answerer", "AnsweredBy", c)
       /\ Puts(StatementPairs(u.set), StatementPairs(t.set), c)

LEMMA TaggedLast ==
  ASSUME NEW cs, NEW c, NEW ds, Extends(ds, cs, c), NEW method, NEW tag, NEW x, NEW y,
         Keeps(x, tag, method, cs), Replaces(y, x, tag, method, c)
  PROVE  Keeps(y, tag, method, ds)
  <1>1. CASE c[1] = method
    <2>1. PICK z : z = c[2]
      OBVIOUS
    <2>2. LastIn(ds, method) = <<z>>
      BY <1>1, <2>1, LastAdds
    <2>3. <<z>> # Absent /\ <<z>>[1] = z
      BY DEF Absent
    <2>4. y = << <<tag, z>> >>
      BY <1>1, <2>1 DEF Replaces
    <2> QED BY <2>2, <2>3, <2>4 DEF Tagged, Keeps
  <1>2. CASE c[1] # method
    <2>1. LastIn(ds, method) = LastIn(cs, method)
      BY <1>2, LastAdds
    <2>2. y = x
      BY <1>2 DEF Replaces
    <2> QED BY <2>1, <2>2 DEF Keeps
  <1> QED BY <1>1, <1>2

LEMMA GathersMore ==
  ASSUME NEW t, NEW cs, Gathers(t, cs), NEW c, NEW ds, Extends(ds, cs, c), NEW u, Follows(t, c, u),
         t.items \in Seq(Items), t.order \in Seq(Int \X Int)
  PROVE  Gathers(u, ds)
  <1>1. u.err = ErrIn(ds)
    BY ErrAdds DEF Gathers, Follows
  <1>2. u.items = ItemsIn(ds)
    <2>1. t.items \o <<>> = t.items
      BY ConcatEmptySeq
    <2>2. u.items = t.items \o ItemOf(c)
      BY <2>1 DEF Follows
    <2> QED BY <2>2, ItemsAdd DEF Gathers
  <1>3. u.order = OrderIn(ds)
    <2>1. t.order \o <<>> = t.order
      BY ConcatEmptySeq
    <2>2. u.order = t.order \o SortOf(c)
      BY <2>1 DEF Follows
    <2> QED BY <2>2, ItemsAdd DEF Gathers
  <1>4. u.filter = LastIn(ds, "Where")
    BY LastAdds DEF Gathers, Follows
  <1>5. Keeps(u.start, "number", "Start", ds) /\ Keeps(u.limit, "number", "Limit", ds)
    <2>1. Keeps(t.start, "number", "Start", cs) /\ Keeps(t.limit, "number", "Limit", cs)
      BY Zenon DEF Gathers
    <2>2. /\ Replaces(u.start, t.start, "number", "Start", c)
          /\ Replaces(u.limit, t.limit, "number", "Limit", c)
      BY Zenon DEF Follows
    <2> QED BY <2>1, <2>2, TaggedLast, Zenon
  <1>6. ASSUME u.err = Fine
        PROVE  /\ Keeps(u.staleness, "span", "Staleness", ds)
               /\ Keeps(u.answeredBy, "answerer", "AnsweredBy", ds)
               /\ StatementPairs(u.set) = PairsIn(ds)
    <2>1. t.err = Fine /\ RefusalOf(c) = Fine
      BY <1>6 DEF Follows, fail
    <2>2. /\ Keeps(t.staleness, "span", "Staleness", cs)
          /\ Keeps(t.answeredBy, "answerer", "AnsweredBy", cs)
          /\ StatementPairs(t.set) = PairsIn(cs)
      BY <2>1, Zenon DEF Gathers
    <2>3. /\ Replaces(u.staleness, t.staleness, "span", "Staleness", c)
          /\ Replaces(u.answeredBy, t.answeredBy, "answerer", "AnsweredBy", c)
          /\ Puts(StatementPairs(u.set), StatementPairs(t.set), c)
      BY <2>1, Zenon DEF Follows
    <2>4. /\ Keeps(u.staleness, "span", "Staleness", ds)
          /\ Keeps(u.answeredBy, "answerer", "AnsweredBy", ds)
      BY <2>2, <2>3, TaggedLast, Zenon
    <2>5. StatementPairs(u.set) = PairsIn(ds)
      <3>1. PICK before, after : before = StatementPairs(t.set) /\ after = StatementPairs(u.set)
        OBVIOUS
      <3>2. after = IF c[1] = "Set" THEN Others(before, c[2]) \cup {PairOfCall(c)} ELSE before
        BY <2>3, <3>1 DEF Puts
      <3> QED BY <2>2, <3>1, <3>2, PairsAdd
    <2> QED BY <2>4, <2>5
  <1> QED BY <1>1, <1>2, <1>3, <1>4, <1>5, <1>6, Zenon DEF Gathers

LEMMA NoCalls == Gathers(Unbuilt, <<>>)
  <1>1. PICK cs : cs = <<>>
    OBVIOUS
  <1>2. Len(cs) = 0 /\ 1 .. Len(cs) = {}
    BY <1>1
  <1>3. ErrIn(cs) = Fine
    BY <1>2 DEF ErrIn, RefusalsIn
  <1>4. ItemsIn(cs) = <<>>
    <2>1. [i \in 1 .. Len(cs) |-> ItemOf(cs[i])] = <<>>
      BY <1>2
    <2> QED BY <2>1, FlattenEmpty DEF ItemsIn
  <1>5. OrderIn(cs) = <<>>
    <2>1. [i \in 1 .. Len(cs) |-> SortOf(cs[i])] = <<>>
      BY <1>2
    <2> QED BY <2>1, FlattenEmpty DEF OrderIn
  <1>6. \A method : LastIn(cs, method) = Absent
    BY <1>2 DEF LastIn, PlacesIn
  <1>7. \A tag : Tagged(tag, Absent) = Absent
    BY DEF Tagged
  <1>8. PairsIn(cs) = {}
    <2>1. SetsIn(cs) = {}
      BY <1>2 DEF SetsIn
    <2> QED BY <2>1 DEF PairsIn
  <1>9. StatementPairs(<<>>) = {}
    BY EmptySeq DEF StatementPairs
  <1>10. /\ Unbuilt.err = Fine /\ Unbuilt.items = <<>> /\ Unbuilt.order = <<>>
         /\ Unbuilt.filter = Absent /\ Unbuilt.start = Absent /\ Unbuilt.limit = Absent
         /\ Unbuilt.staleness = Absent /\ Unbuilt.answeredBy = Absent /\ Unbuilt.set = <<>>
    BY DEF Unbuilt
  <1>11. Gathers(Unbuilt, cs)
    BY <1>3, <1>4, <1>5, <1>6, <1>7, <1>8, <1>9, <1>10, Zenon DEF Gathers, Keeps
  <1> QED BY <1>1, <1>11

-----------------------------------------------------------------------------
(***************************************************************************)
(* Each call, and what it does to the statement.                           *)
(***************************************************************************)
SameHead(t, u) == u.kind = t.kind /\ u.table = t.table /\ u.id = t.id

Moves(t, c, u) == IsForm(u) /\ SameHead(t, u) /\ IsStatement(u) /\ Follows(t, c, u)

\* A statement that still is a query, with fields as they were.
LEMMA StillQuery ==
  ASSUME NEW t, IsStatement(t), t.kind = "SELECT", NEW u, SameHead(t, u), u.set = t.set, IsQuery(u)
  PROVE  IsStatement(u)
  <1>1. t.id = Absent /\ AreFields(t.set) /\ DOMAIN t.set = {}
    BY Zenon DEF IsStatement, IsWriting
  <1> QED BY <1>1, Zenon DEF IsStatement, SameHead

LEMMA QueryIs ==
  ASSUME NEW t, IsStatement(t), t.kind = "SELECT"
  PROVE  IsQuery(t)
  BY Zenon DEF IsStatement, IsWriting

\* A statement has items and an order, if empty ones.
LEMMA StatementLists ==
  ASSUME NEW t, IsStatement(t)
  PROVE  t.items \in Seq(Items) /\ t.order \in Seq(Int \X Int)
  <1>1. CASE t.items = <<>> /\ t.order = <<>>
    BY <1>1, EmptySeq
  <1>2. CASE IsQuery(t)
    BY <1>2 DEF IsQuery
  <1> QED BY <1>1, <1>2, Zenon DEF IsStatement

LEMMA OneMore ==
  ASSUME NEW S, NEW q \in Seq(S), NEW x \in S
  PROVE  Append(q, x) \in Seq(S) /\ Append(q, x) = q \o <<x>> /\ <<x>> # <<>>
  BY AppendProperties, AppendIsConcat

\* What is refused in a call, and what it adds to the lists.
LEMMA CallIs ==
  ASSUME NEW c
  PROVE  /\ c[1] \in {"Field", "Lines", "OrderBy", "Set"} => RefusalOf(c) = checkName("field", c[2])
         /\ c[1] \in {"Where", "Start", "Limit"} => RefusalOf(c) = Fine
         /\ c[1] = "AnsweredBy" => RefusalOf(c) = checkAnswerer(c[2])
         /\ c[1] \in {"SELECT", "CREATE", "CREATE_IN", "UPDATE", "DELETE"}
              => RefusalOf(c) = checkName("table", c[2])
         /\ c[1] \notin {"Field", "Lines"} => ItemOf(c) = <<>>
         /\ c[1] # "OrderBy" => SortOf(c) = <<>>
  BY DEF RefusalOf, checkName, IsName, checkAnswerer, ItemOf, SortOf

LEMMA StalenessIs ==
  ASSUME NEW c, c[1] = "Staleness", c[2] \in Seq(STRING)
  PROVE  RefusalOf(c) = checkSpan(c[2])
  <1>1. PICK t \in Seq(STRING) : t = c[2]
    OBVIOUS
  <1>2. RefusalOf(c) = IF Production(t) THEN Fine ELSE <<"not-a-span", t>>
    BY <1>1 DEF RefusalOf
  <1>3. checkSpan(t) = Fine <=> Production(t)
    BY SpansAreRead
  <1>4. checkSpan(t) \in {Fine, <<"not-a-span", t>>}
    BY DEF checkSpan
  <1> QED BY <1>1, <1>2, <1>3, <1>4

LEMMA NoMatter == \A err : fail(err, Fine) = err
  BY DEF fail, Fine

\* A call that leaves the tagged clauses and the fields as they are.
OnlyLists(t, c, u) ==
  /\ c[1] \in {"Field", "Lines", "OrderBy", "Where"}
  /\ u.err = fail(t.err, RefusalOf(c))
  /\ u.items = IF ItemOf(c) = <<>> THEN t.items ELSE t.items \o ItemOf(c)
  /\ u.order = IF SortOf(c) = <<>> THEN t.order ELSE t.order \o SortOf(c)
  /\ u.filter = IF c[1] = "Where" THEN <<c[2]>> ELSE t.filter
  /\ u.start = t.start /\ u.limit = t.limit /\ u.staleness = t.staleness
  /\ u.answeredBy = t.answeredBy /\ u.set = t.set

LEMMA FollowsLists ==
  ASSUME NEW t, NEW c, NEW u, OnlyLists(t, c, u)
  PROVE  Follows(t, c, u)
  <1>1. c[1] \notin {"Start", "Limit", "Staleness", "AnsweredBy", "Set"}
    BY DEF OnlyLists
  <1>2. Replaces(u.start, t.start, "number", "Start", c)
    BY <1>1 DEF Replaces, OnlyLists
  <1>3. Replaces(u.limit, t.limit, "number", "Limit", c)
    BY <1>1 DEF Replaces, OnlyLists
  <1>4. Replaces(u.staleness, t.staleness, "span", "Staleness", c)
    BY <1>1 DEF Replaces, OnlyLists
  <1>5. Replaces(u.answeredBy, t.answeredBy, "answerer", "AnsweredBy", c)
    BY <1>1 DEF Replaces, OnlyLists
  <1>6. Puts(StatementPairs(u.set), StatementPairs(t.set), c)
    BY <1>1 DEF Puts, OnlyLists
  <1> QED BY <1>2, <1>3, <1>4, <1>5, <1>6, Zenon DEF Follows, OnlyLists

AddsItem(u, t, c, x) ==
  /\ c[1] \in {"Field", "Lines"} /\ x \in Items /\ ItemOf(c) = <<x>>
  /\ u = [t EXCEPT !.err = fail(@, checkName("field", c[2])), !.items = Append(@, x)]

LEMMA FieldMoves ==
  ASSUME NEW t, IsForm(t), IsStatement(t), t.kind = "SELECT", NEW c, NEW x, NEW u, AddsItem(u, t, c, x)
  PROVE  Moves(t, c, u)
  <1>1. /\ u.kind = t.kind /\ u.table = t.table /\ u.id = t.id
        /\ u.err = fail(t.err, checkName("field", c[2])) /\ u.items = Append(t.items, x)
        /\ u.filter = t.filter /\ u.order = t.order /\ u.start = t.start /\ u.limit = t.limit
        /\ u.staleness = t.staleness /\ u.answeredBy = t.answeredBy /\ u.set = t.set
    BY DEF AddsItem, IsForm
  <1>2. IsForm(u)
    BY DEF AddsItem, IsForm
  <1>3. IsQuery(t)
    BY QueryIs
  <1>4. u.items \in Seq(Items) /\ u.items = t.items \o <<x>> /\ <<x>> # <<>>
    BY <1>1, <1>3, OneMore DEF AddsItem, IsQuery
  <1>5. IsQuery(u)
    BY <1>1, <1>3, <1>4, Zenon DEF IsQuery
  <1>6. RefusalOf(c) = checkName("field", c[2]) /\ SortOf(c) = <<>> /\ c[1] # "Where"
    BY CallIs DEF AddsItem
  <1>7. Follows(t, c, u)
    <2>1. OnlyLists(t, c, u)
      BY <1>1, <1>4, <1>6 DEF AddsItem, OnlyLists
    <2> QED BY <2>1, FollowsLists
  <1>8. SameHead(t, u)
    BY <1>1 DEF SameHead
  <1>9. IsStatement(u)
    BY <1>1, <1>5, <1>8, StillQuery
  <1> QED BY <1>2, <1>7, <1>8, <1>9 DEF Moves

\* A statement stays one with another refusal and another order.
LEMMA ReorderedForm ==
  ASSUME NEW t, IsForm(t), NEW e, NEW o, NEW u, u = [t EXCEPT !.err = e, !.order = o]
  PROVE  IsForm(u)
  BY DEF IsForm

LEMMA OrderByMoves ==
  ASSUME NEW t, IsForm(t), IsStatement(t), t.kind = "SELECT", NEW c, c[1] = "OrderBy",
         NEW n \in Int, NEW d \in Int, c[2] = n, c[3] = d, NEW u,
         u = [t EXCEPT !.err = fail(@, checkName("field", n)), !.order = Append(@, <<n, d>>)]
  PROVE  Moves(t, c, u)
  <1>1. PICK x \in Int \X Int : x = <<n, d>>
    OBVIOUS
  <1>2. /\ u.kind = t.kind /\ u.table = t.table /\ u.id = t.id
        /\ u.err = fail(t.err, checkName("field", n)) /\ u.items = t.items
        /\ u.filter = t.filter /\ u.order = Append(t.order, x) /\ u.start = t.start
        /\ u.limit = t.limit /\ u.staleness = t.staleness /\ u.answeredBy = t.answeredBy
        /\ u.set = t.set
    BY <1>1 DEF IsForm
  <1>3. IsForm(u)
    BY ReorderedForm
  <1>4. IsQuery(t)
    BY QueryIs
  <1>5. u.order \in Seq(Int \X Int) /\ u.order = t.order \o <<x>> /\ <<x>> # <<>>
    BY <1>2, <1>4, OneMore DEF IsQuery
  <1>6. IsQuery(u)
    BY <1>2, <1>4, <1>5, Zenon DEF IsQuery
  <1>7. RefusalOf(c) = checkName("field", n) /\ ItemOf(c) = <<>> /\ c[1] # "Where"
    BY CallIs
  <1>8. SortOf(c) = <<x>>
    BY <1>1 DEF SortOf
  <1>9. Follows(t, c, u)
    <2>1. OnlyLists(t, c, u)
      BY <1>2, <1>5, <1>7, <1>8 DEF OnlyLists
    <2> QED BY <2>1, FollowsLists
  <1>10. SameHead(t, u)
    BY <1>2 DEF SameHead
  <1>11. IsStatement(u)
    BY <1>2, <1>6, <1>10, StillQuery
  <1> QED BY <1>3, <1>9, <1>10, <1>11 DEF Moves

LEMMA WhereMoves ==
  ASSUME NEW t, IsForm(t), IsStatement(t), t.kind = "SELECT", NEW c, c[1] = "Where",
         NEW f \in Filter[Nesting], c[2] = f, NEW u, u = [t EXCEPT !.filter = <<f>>]
  PROVE  Moves(t, c, u)
  <1>1. /\ u.kind = t.kind /\ u.table = t.table /\ u.id = t.id
        /\ u.err = t.err /\ u.items = t.items
        /\ u.filter = <<f>> /\ u.order = t.order /\ u.start = t.start
        /\ u.limit = t.limit /\ u.staleness = t.staleness /\ u.answeredBy = t.answeredBy
        /\ u.set = t.set
    BY DEF IsForm
  <1>2. IsForm(u)
    BY DEF IsForm
  <1>3. IsQuery(t)
    BY QueryIs
  <1>4. IsFilterOption(u.filter)
    BY <1>1, Zenon DEF IsFilterOption
  <1>5. IsQuery(u)
    BY <1>1, <1>3, <1>4, Zenon DEF IsQuery
  <1>6. RefusalOf(c) = Fine /\ ItemOf(c) = <<>> /\ SortOf(c) = <<>>
    BY CallIs
  <1>7. fail(t.err, RefusalOf(c)) = t.err
    BY <1>6, NoMatter
  <1>8. Follows(t, c, u)
    <2>1. OnlyLists(t, c, u)
      BY <1>1, <1>6, <1>7 DEF OnlyLists
    <2> QED BY <2>1, FollowsLists
  <1>9. SameHead(t, u)
    BY <1>1 DEF SameHead
  <1>10. IsStatement(u)
    BY <1>1, <1>5, <1>9, StillQuery
  <1> QED BY <1>2, <1>8, <1>9, <1>10 DEF Moves

\* A call that leaves the lists, the filter and the fields as they are.
OnlyClauses(t, c, u) ==
  /\ c[1] \in {"Start", "Limit", "Staleness", "AnsweredBy"}
  /\ u.err = fail(t.err, RefusalOf(c))
  /\ u.items = t.items /\ u.order = t.order /\ u.filter = t.filter /\ u.set = t.set
  /\ Replaces(u.start, t.start, "number", "Start", c)
  /\ Replaces(u.limit, t.limit, "number", "Limit", c)
  /\ RefusalOf(c) = Fine =>
       /\ Replaces(u.staleness, t.staleness, "span", "Staleness", c)
       /\ Replaces(u.answeredBy, t.answeredBy, "answerer", "AnsweredBy", c)

LEMMA FollowsClauses ==
  ASSUME NEW t, NEW c, NEW u, OnlyClauses(t, c, u)
  PROVE  Follows(t, c, u)
  <1>1. c[1] \notin {"Field", "Lines", "OrderBy", "Where", "Set"}
    BY DEF OnlyClauses
  <1>2. ItemOf(c) = <<>> /\ SortOf(c) = <<>>
    BY <1>1, CallIs
  <1>3. /\ u.items = IF ItemOf(c) = <<>> THEN t.items ELSE t.items \o ItemOf(c)
        /\ u.order = IF SortOf(c) = <<>> THEN t.order ELSE t.order \o SortOf(c)
    BY <1>2 DEF OnlyClauses
  <1>4. u.filter = IF c[1] = "Where" THEN <<c[2]>> ELSE t.filter
    BY <1>1 DEF OnlyClauses
  <1>5. Puts(StatementPairs(u.set), StatementPairs(t.set), c)
    BY <1>1 DEF Puts, OnlyClauses
  <1> QED BY <1>3, <1>4, <1>5, Zenon DEF Follows, OnlyClauses

\* What is left of the statement when one of its clauses is given.
LEMMA ClauseMoves ==
  ASSUME NEW t, IsForm(t), IsStatement(t), t.kind = "SELECT", NEW c, NEW u, IsForm(u),
         SameHead(t, u), OnlyClauses(t, c, u), IsOption(u.start), IsOption(u.limit),
         IsOption(u.staleness), IsOption(u.answeredBy)
  PROVE  Moves(t, c, u)
  <1>1. u.items = t.items /\ u.order = t.order /\ u.filter = t.filter /\ u.set = t.set
    BY Zenon DEF OnlyClauses
  <1>2. IsQuery(t)
    BY QueryIs
  <1>3. u.table = t.table
    BY DEF SameHead
  <1>4. IsQuery(u)
    BY <1>1, <1>2, <1>3, Zenon DEF IsQuery
  <1>5. IsStatement(u)
    BY <1>1, <1>4, StillQuery
  <1>6. Follows(t, c, u)
    BY FollowsClauses
  <1> QED BY <1>5, <1>6 DEF Moves

\* A clause given is one that can be written.
LEMMA GivenIsOption ==
  /\ \A n \in Int : IsOption(<< <<"number", n>> >>)
  /\ \A x \in Seq(STRING) : IsOption(<< <<"span", x>> >>)
  /\ \A w \in {"ANY", "LEADER"} : IsOption(<< <<"answerer", w>> >>)
  /\ \A x \in Values : IsOption(<< <<"value", x>> >>)
  /\ IsOption(Absent)
  <1>1. ASSUME NEW n \in Int PROVE IsOption(<< <<"number", n>> >>)
    <2>1. PICK p : p = <<"number", n>>
      OBVIOUS
    <2>2. p \in Pieces /\ p[1] # "refused"
      BY <2>1 DEF Pieces, Plain
    <2> QED BY <2>1, <2>2, Zenon DEF IsOption
  <1>2. ASSUME NEW x \in Seq(STRING) PROVE IsOption(<< <<"span", x>> >>)
    <2>1. PICK p : p = <<"span", x>>
      OBVIOUS
    <2>2. p \in Pieces /\ p[1] # "refused"
      BY <2>1 DEF Pieces, Plain
    <2> QED BY <2>1, <2>2, Zenon DEF IsOption
  <1>3. ASSUME NEW w \in {"ANY", "LEADER"} PROVE IsOption(<< <<"answerer", w>> >>)
    <2>1. PICK p : p = <<"answerer", w>>
      OBVIOUS
    <2>2. p \in Pieces /\ p[1] # "refused"
      BY <2>1 DEF Pieces, Plain
    <2> QED BY <2>1, <2>2, Zenon DEF IsOption
  <1>4. ASSUME NEW x \in Values PROVE IsOption(<< <<"value", x>> >>)
    <2>1. PICK p : p = <<"value", x>>
      OBVIOUS
    <2>2. p \in Pieces /\ p[1] # "refused"
      BY <2>1 DEF Pieces
    <2> QED BY <2>1, <2>2, Zenon DEF IsOption
  <1>5. IsOption(Absent)
    BY Zenon DEF IsOption
  <1> QED BY <1>1, <1>2, <1>3, <1>4, <1>5

LEMMA StartMoves ==
  ASSUME NEW t, IsForm(t), IsStatement(t), t.kind = "SELECT", NEW c, c[1] = "Start",
         NEW n \in Int, c[2] = n, NEW u, u = [t EXCEPT !.start = << <<"number", n>> >>]
  PROVE  Moves(t, c, u)
  <1>1. PICK x : x = << <<"number", n>> >>
    OBVIOUS
  <1>2. /\ u.kind = t.kind /\ u.table = t.table /\ u.id = t.id
        /\ u.err = t.err /\ u.items = t.items /\ u.filter = t.filter /\ u.order = t.order
        /\ u.start = x /\ u.limit = t.limit /\ u.staleness = t.staleness
        /\ u.answeredBy = t.answeredBy /\ u.set = t.set
    BY <1>1 DEF IsForm
  <1>3. IsForm(u)
    BY DEF IsForm
  <1>4. IsOption(u.start) /\ IsOption(u.limit) /\ IsOption(u.staleness) /\ IsOption(u.answeredBy)
    <2>1. IsQuery(t)
      BY QueryIs
    <2>2. IsOption(x)
      BY <1>1, GivenIsOption
    <2> QED BY <1>2, <2>1, <2>2, Zenon DEF IsQuery
  <1>5. fail(t.err, RefusalOf(c)) = t.err
    BY CallIs, NoMatter
  <1>6. Replaces(u.start, t.start, "number", "Start", c)
    BY <1>1, <1>2 DEF Replaces
  <1>7. /\ Replaces(u.limit, t.limit, "number", "Limit", c)
        /\ Replaces(u.staleness, t.staleness, "span", "Staleness", c)
        /\ Replaces(u.answeredBy, t.answeredBy, "answerer", "AnsweredBy", c)
    BY <1>2 DEF Replaces
  <1>8. OnlyClauses(t, c, u)
    BY <1>2, <1>5, <1>6, <1>7 DEF OnlyClauses
  <1>9. SameHead(t, u)
    BY <1>2 DEF SameHead
  <1> QED BY <1>3, <1>4, <1>8, <1>9, ClauseMoves

LEMMA LimitMoves ==
  ASSUME NEW t, IsForm(t), IsStatement(t), t.kind = "SELECT", NEW c, c[1] = "Limit",
         NEW n \in Int, c[2] = n, NEW u, u = [t EXCEPT !.limit = << <<"number", n>> >>]
  PROVE  Moves(t, c, u)
  <1>1. PICK x : x = << <<"number", n>> >>
    OBVIOUS
  <1>2. /\ u.kind = t.kind /\ u.table = t.table /\ u.id = t.id
        /\ u.err = t.err /\ u.items = t.items /\ u.filter = t.filter /\ u.order = t.order
        /\ u.start = t.start /\ u.limit = x /\ u.staleness = t.staleness
        /\ u.answeredBy = t.answeredBy /\ u.set = t.set
    BY <1>1 DEF IsForm
  <1>3. IsForm(u)
    BY DEF IsForm
  <1>4. IsOption(u.start) /\ IsOption(u.limit) /\ IsOption(u.staleness) /\ IsOption(u.answeredBy)
    <2>1. IsQuery(t)
      BY QueryIs
    <2>2. IsOption(x)
      BY <1>1, GivenIsOption
    <2> QED BY <1>2, <2>1, <2>2, Zenon DEF IsQuery
  <1>5. fail(t.err, RefusalOf(c)) = t.err
    BY CallIs, NoMatter
  <1>6. Replaces(u.limit, t.limit, "number", "Limit", c)
    BY <1>1, <1>2 DEF Replaces
  <1>7. /\ Replaces(u.start, t.start, "number", "Start", c)
        /\ Replaces(u.staleness, t.staleness, "span", "Staleness", c)
        /\ Replaces(u.answeredBy, t.answeredBy, "answerer", "AnsweredBy", c)
    BY <1>2 DEF Replaces
  <1>8. OnlyClauses(t, c, u)
    BY <1>2, <1>5, <1>6, <1>7 DEF OnlyClauses
  <1>9. SameHead(t, u)
    BY <1>2 DEF SameHead
  <1> QED BY <1>3, <1>4, <1>8, <1>9, ClauseMoves

LEMMA StalenessMoves ==
  ASSUME NEW t, IsForm(t), IsStatement(t), t.kind = "SELECT", NEW c, c[1] = "Staleness",
         NEW g \in Seq(STRING), c[2] = g, NEW u,
         u = IF checkSpan(g) = Fine THEN [t EXCEPT !.staleness = << <<"span", g>> >>]
             ELSE [t EXCEPT !.err = fail(@, checkSpan(g))]
  PROVE  Moves(t, c, u)
  <1>1. PICK x : x = << <<"span", g>> >>
    OBVIOUS
  <1>2. RefusalOf(c) = checkSpan(g)
    BY StalenessIs
  <1>3. CASE checkSpan(g) = Fine
    <2>1. /\ u.kind = t.kind /\ u.table = t.table /\ u.id = t.id
          /\ u.err = t.err /\ u.items = t.items /\ u.filter = t.filter /\ u.order = t.order
          /\ u.start = t.start /\ u.limit = t.limit /\ u.staleness = x
          /\ u.answeredBy = t.answeredBy /\ u.set = t.set
      BY <1>1, <1>3 DEF IsForm
    <2>2. IsForm(u)
      BY <1>3 DEF IsForm
    <2>3. IsOption(u.start) /\ IsOption(u.limit) /\ IsOption(u.staleness) /\ IsOption(u.answeredBy)
      <3>1. IsQuery(t)
        BY QueryIs
      <3>2. IsOption(x)
        BY <1>1, GivenIsOption
      <3> QED BY <2>1, <3>1, <3>2, Zenon DEF IsQuery
    <2>4. fail(t.err, RefusalOf(c)) = t.err
      BY <1>2, <1>3, NoMatter
    <2>5. Replaces(u.staleness, t.staleness, "span", "Staleness", c)
      BY <1>1, <2>1 DEF Replaces
    <2>6. /\ Replaces(u.start, t.start, "number", "Start", c)
          /\ Replaces(u.limit, t.limit, "number", "Limit", c)
          /\ Replaces(u.answeredBy, t.answeredBy, "answerer", "AnsweredBy", c)
      BY <2>1 DEF Replaces
    <2>7. OnlyClauses(t, c, u)
      BY <2>1, <2>4, <2>5, <2>6 DEF OnlyClauses
    <2>8. SameHead(t, u)
      BY <2>1 DEF SameHead
    <2> QED BY <2>2, <2>3, <2>7, <2>8, ClauseMoves
  <1>4. CASE checkSpan(g) # Fine
    <2>1. /\ u.kind = t.kind /\ u.table = t.table /\ u.id = t.id
          /\ u.err = fail(t.err, RefusalOf(c)) /\ u.items = t.items /\ u.filter = t.filter
          /\ u.order = t.order /\ u.start = t.start /\ u.limit = t.limit
          /\ u.staleness = t.staleness /\ u.answeredBy = t.answeredBy /\ u.set = t.set
      BY <1>2, <1>4 DEF IsForm
    <2>2. IsForm(u)
      BY <1>4 DEF IsForm
    <2>3. IsOption(u.start) /\ IsOption(u.limit) /\ IsOption(u.staleness) /\ IsOption(u.answeredBy)
      <3>1. IsQuery(t)
        BY QueryIs
      <3> QED BY <2>1, <3>1, Zenon DEF IsQuery
    <2>4. /\ Replaces(u.start, t.start, "number", "Start", c)
          /\ Replaces(u.limit, t.limit, "number", "Limit", c)
      BY <2>1 DEF Replaces
    <2>5. OnlyClauses(t, c, u)
      BY <1>2, <1>4, <2>1, <2>4 DEF OnlyClauses
    <2>6. SameHead(t, u)
      BY <2>1 DEF SameHead
    <2> QED BY <2>2, <2>3, <2>5, <2>6, ClauseMoves
  <1> QED BY <1>3, <1>4

LEMMA AnsweredByMoves ==
  ASSUME NEW t, IsForm(t), IsStatement(t), t.kind = "SELECT", NEW c, c[1] = "AnsweredBy",
         NEW g, c[2] = g, NEW u,
         u = IF checkAnswerer(g) = Fine THEN [t EXCEPT !.answeredBy = << <<"answerer", g>> >>]
             ELSE [t EXCEPT !.err = fail(@, checkAnswerer(g))]
  PROVE  Moves(t, c, u)
  <1>1. PICK x : x = << <<"answerer", g>> >>
    OBVIOUS
  <1>2. RefusalOf(c) = checkAnswerer(g)
    BY CallIs
  <1>3. CASE checkAnswerer(g) = Fine
    <2>0. g \in {"ANY", "LEADER"}
      BY <1>3 DEF checkAnswerer, Fine
    <2>1. /\ u.kind = t.kind /\ u.table = t.table /\ u.id = t.id
          /\ u.err = t.err /\ u.items = t.items /\ u.filter = t.filter /\ u.order = t.order
          /\ u.start = t.start /\ u.limit = t.limit /\ u.answeredBy = x
          /\ u.staleness = t.staleness /\ u.set = t.set
      BY <1>1, <1>3 DEF IsForm
    <2>2. IsForm(u)
      BY <1>3 DEF IsForm
    <2>3. IsOption(u.start) /\ IsOption(u.limit) /\ IsOption(u.staleness) /\ IsOption(u.answeredBy)
      <3>1. IsQuery(t)
        BY QueryIs
      <3>2. IsOption(x)
        BY <1>1, <2>0, GivenIsOption
      <3> QED BY <2>1, <3>1, <3>2, Zenon DEF IsQuery
    <2>4. fail(t.err, RefusalOf(c)) = t.err
      BY <1>2, <1>3, NoMatter
    <2>5. Replaces(u.answeredBy, t.answeredBy, "answerer", "AnsweredBy", c)
      BY <1>1, <2>1 DEF Replaces
    <2>6. /\ Replaces(u.start, t.start, "number", "Start", c)
          /\ Replaces(u.limit, t.limit, "number", "Limit", c)
          /\ Replaces(u.staleness, t.staleness, "span", "Staleness", c)
      BY <2>1 DEF Replaces
    <2>7. OnlyClauses(t, c, u)
      BY <2>1, <2>4, <2>5, <2>6 DEF OnlyClauses
    <2>8. SameHead(t, u)
      BY <2>1 DEF SameHead
    <2> QED BY <2>2, <2>3, <2>7, <2>8, ClauseMoves
  <1>4. CASE checkAnswerer(g) # Fine
    <2>1. /\ u.kind = t.kind /\ u.table = t.table /\ u.id = t.id
          /\ u.err = fail(t.err, RefusalOf(c)) /\ u.items = t.items /\ u.filter = t.filter
          /\ u.order = t.order /\ u.start = t.start /\ u.limit = t.limit
          /\ u.answeredBy = t.answeredBy /\ u.staleness = t.staleness /\ u.set = t.set
      BY <1>2, <1>4 DEF IsForm
    <2>2. IsForm(u)
      BY <1>4 DEF IsForm
    <2>3. IsOption(u.start) /\ IsOption(u.limit) /\ IsOption(u.staleness) /\ IsOption(u.answeredBy)
      <3>1. IsQuery(t)
        BY QueryIs
      <3> QED BY <2>1, <3>1, Zenon DEF IsQuery
    <2>4. /\ Replaces(u.start, t.start, "number", "Start", c)
          /\ Replaces(u.limit, t.limit, "number", "Limit", c)
      BY <2>1 DEF Replaces
    <2>5. OnlyClauses(t, c, u)
      BY <1>2, <1>4, <2>1, <2>4 DEF OnlyClauses
    <2>6. SameHead(t, u)
      BY <2>1 DEF SameHead
    <2> QED BY <2>2, <2>3, <2>5, <2>6, ClauseMoves
  <1> QED BY <1>3, <1>4

\* A name set again is replaced, another is added.
IsPut(after, before, n, x) ==
  after = [m \in DOMAIN before \cup {n} |-> IF m = n THEN x ELSE before[m]]

AddsPair(after, before, n, x) ==
  StatementPairs(after) = Others(StatementPairs(before), n) \cup {<< <<"name", n>>, <<"value", x>> >>}

LEMMA PairsOfPut ==
  ASSUME NEW before, NEW n, NEW x, NEW after, IsPut(after, before, n, x)
  PROVE  AddsPair(after, before, n, x)
  <1> PICK pair : pair = << <<"name", n>>, <<"value", x>> >>
    OBVIOUS
  <1>1. DOMAIN after = DOMAIN before \cup {n} /\ after[n] = x
        /\ \A m \in DOMAIN before : m # n => after[m] = before[m]
    BY DEF IsPut
  <1>2. \A set, m : PairOf(set, m)[1] = <<"name", m>>
    BY DEF PairOf
  <1>3. \A m : <<"name", m>> = <<"name", n>> <=> m = n
    OBVIOUS
  <1>4. \A m \in DOMAIN before : m # n => PairOf(after, m) = PairOf(before, m)
    BY <1>1 DEF PairOf
  <1>5. PairOf(after, n) = pair
    BY <1>1 DEF PairOf
  <1>6. \A y : y \in Others(StatementPairs(before), n)
                 <=> \E m \in DOMAIN before : m # n /\ y = PairOf(before, m)
    BY <1>2, <1>3 DEF Others, StatementPairs
  <1>7. \A y : y \in StatementPairs(after) <=> \E m \in DOMAIN before \cup {n} : y = PairOf(after, m)
    BY <1>1 DEF StatementPairs
  <1>8. \A y : y \in StatementPairs(after)
                 <=> y = pair \/ \E m \in DOMAIN before : m # n /\ y = PairOf(before, m)
    BY <1>4, <1>5, <1>7
  <1>9. StatementPairs(after) = Others(StatementPairs(before), n) \cup {pair}
    BY <1>6, <1>8
  <1> QED BY <1>9 DEF AddsPair

LEMMA FieldsOfPut ==
  ASSUME NEW before, AreFields(before), NEW n \in Int, NEW x \in Values, NEW after,
         after = [m \in DOMAIN before \cup {n} |-> IF m = n THEN x ELSE before[m]]
  PROVE  AreFields(after)
  <1>1. PICK D : D = DOMAIN before
    OBVIOUS
  <1>2. D \in SUBSET Int /\ IsFiniteSet(D) /\ \A m \in D : before[m] \in Values
    BY <1>1 DEF AreFields
  <1>3. DOMAIN after = D \cup {n}
    BY <1>1
  <1>4. \A m \in D \cup {n} : after[m] \in Values
    BY <1>1, <1>2
  <1>5. IsFiniteSet(D \cup {n})
    BY <1>2, FS_AddElement
  <1> QED BY <1>2, <1>3, <1>4, <1>5 DEF AreFields

LEMMA WritingIs ==
  ASSUME NEW t, IsStatement(t), t.kind # "SELECT"
  PROVE  /\ IsWriting(t) /\ (t.kind = "DELETE" => DOMAIN t.set = {})
         /\ t.items = <<>> /\ t.filter = Absent /\ t.order = <<>> /\ t.start = Absent
         /\ t.limit = Absent /\ t.staleness = Absent /\ t.answeredBy = Absent
  BY Zenon DEF IsStatement

\* A call that leaves all but the fields as they are.
OnlyFields(t, c, u) ==
  /\ c[1] = "Set" /\ u.err = fail(t.err, RefusalOf(c))
  /\ u.items = t.items /\ u.order = t.order /\ u.filter = t.filter
  /\ u.start = t.start /\ u.limit = t.limit /\ u.staleness = t.staleness
  /\ u.answeredBy = t.answeredBy
  /\ RefusalOf(c) = Fine => Puts(StatementPairs(u.set), StatementPairs(t.set), c)

LEMMA SetMovesOnly ==
  ASSUME NEW t, IsStatement(t), t.kind \in {"CREATE", "CREATE_IN", "UPDATE"}, NEW c, NEW u,
         IsForm(u), SameHead(t, u), OnlyFields(t, c, u), AreFields(u.set)
  PROVE  Moves(t, c, u)
  <1>1. /\ IsWriting(t) /\ t.items = <<>> /\ t.filter = Absent /\ t.order = <<>>
        /\ t.start = Absent /\ t.limit = Absent /\ t.staleness = Absent /\ t.answeredBy = Absent
    BY WritingIs
  <1>2. IsWriting(u) /\ u.kind # "DELETE"
    <2>1. u.kind = t.kind /\ u.table = t.table /\ u.id = t.id
      BY DEF SameHead
    <2>2. IsWriting(u)
      BY <1>1, <2>1, Zenon DEF IsWriting
    <2> QED BY <2>1, <2>2
  <1>3. IsStatement(u)
    BY <1>1, <1>2, Zenon DEF IsStatement, OnlyFields
  <1>4. c[1] = "Set"
    BY DEF OnlyFields
  <1>5. ItemOf(c) = <<>> /\ SortOf(c) = <<>>
    BY <1>4, CallIs
  <1>6. /\ u.items = IF ItemOf(c) = <<>> THEN t.items ELSE t.items \o ItemOf(c)
        /\ u.order = IF SortOf(c) = <<>> THEN t.order ELSE t.order \o SortOf(c)
        /\ u.filter = IF c[1] = "Where" THEN <<c[2]>> ELSE t.filter
    BY <1>4, <1>5 DEF OnlyFields
  <1>7. /\ Replaces(u.start, t.start, "number", "Start", c)
        /\ Replaces(u.limit, t.limit, "number", "Limit", c)
        /\ Replaces(u.staleness, t.staleness, "span", "Staleness", c)
        /\ Replaces(u.answeredBy, t.answeredBy, "answerer", "AnsweredBy", c)
    BY <1>4 DEF Replaces, OnlyFields
  <1>8. Follows(t, c, u)
    BY <1>6, <1>7, Zenon DEF Follows, OnlyFields
  <1> QED BY <1>3, <1>8 DEF Moves

LEMMA SetMoves ==
  ASSUME NEW t, IsForm(t), IsStatement(t), t.kind \in {"CREATE", "CREATE_IN", "UPDATE"},
         NEW n \in Int, NEW x \in Values, NEW c, c[1] = "Set", c[2] = n, c[3] = x, NEW u,
         u = IF IsName(n)
               THEN [t EXCEPT !.set = [m \in DOMAIN @ \cup {n} |-> IF m = n THEN x ELSE @[m]]]
               ELSE [t EXCEPT !.err = fail(@, checkName("field", n))]
  PROVE  Moves(t, c, u)
  <1>1. RefusalOf(c) = checkName("field", n)
    BY CallIs
  <1>2. AreFields(t.set)
    BY WritingIs DEF IsWriting
  <1>3. CASE IsName(n)
    <2>1. PICK before : before = t.set
      OBVIOUS
    <2>2. PICK after : after = [m \in DOMAIN before \cup {n} |-> IF m = n THEN x ELSE before[m]]
      OBVIOUS
    <2>3. u = [t EXCEPT !.set = after]
      BY <1>3, <2>1, <2>2
    <2>4. /\ u.kind = t.kind /\ u.table = t.table /\ u.id = t.id
          /\ u.err = t.err /\ u.items = t.items /\ u.filter = t.filter /\ u.order = t.order
          /\ u.start = t.start /\ u.limit = t.limit /\ u.staleness = t.staleness
          /\ u.answeredBy = t.answeredBy /\ u.set = after
      BY <2>3 DEF IsForm
    <2>5. IsForm(u)
      BY <2>3 DEF IsForm
    <2>6. AreFields(u.set)
      BY <1>2, <2>1, <2>2, <2>4, FieldsOfPut
    <2>7. RefusalOf(c) = Fine
      BY <1>1, <1>3 DEF checkName
    <2>8. fail(t.err, RefusalOf(c)) = t.err
      BY <2>7, NoMatter
    <2>9. Puts(StatementPairs(u.set), StatementPairs(t.set), c)
      <3>1. PICK pair : pair = << <<"name", n>>, <<"value", x>> >>
        OBVIOUS
      <3>2. IsPut(after, before, n, x)
        BY <2>2 DEF IsPut
      <3>3. AddsPair(after, before, n, x)
        BY <3>2, PairsOfPut
      <3>4. StatementPairs(after) = Others(StatementPairs(before), n) \cup {pair}
        BY <3>1, <3>3 DEF AddsPair
      <3>5. PairOfCall(c) = pair
        BY <3>1 DEF PairOfCall
      <3> QED BY <2>1, <2>4, <3>4, <3>5 DEF Puts
    <2>10. OnlyFields(t, c, u)
      BY <2>4, <2>8, <2>9 DEF OnlyFields
    <2>11. SameHead(t, u)
      BY <2>4 DEF SameHead
    <2> QED BY <2>5, <2>6, <2>10, <2>11, SetMovesOnly
  <1>4. CASE ~IsName(n)
    <2>1. /\ u.kind = t.kind /\ u.table = t.table /\ u.id = t.id
          /\ u.err = fail(t.err, RefusalOf(c)) /\ u.items = t.items /\ u.filter = t.filter
          /\ u.order = t.order /\ u.start = t.start /\ u.limit = t.limit
          /\ u.staleness = t.staleness /\ u.answeredBy = t.answeredBy /\ u.set = t.set
      BY <1>1, <1>4 DEF IsForm
    <2>2. IsForm(u)
      BY <1>4 DEF IsForm
    <2>3. RefusalOf(c) # Fine
      BY <1>1, <1>4 DEF checkName, Fine
    <2>4. OnlyFields(t, c, u)
      BY <2>1, <2>3 DEF OnlyFields
    <2>5. SameHead(t, u)
      BY <2>1 DEF SameHead
    <2> QED BY <1>2, <2>1, <2>2, <2>4, <2>5, SetMovesOnly
  <1> QED BY <1>3, <1>4

\* A statement begun: of one of the five kinds, with an identity where it needs one.
CanBegin(kind, table, id) ==
  /\ kind \in {"SELECT", "CREATE", "CREATE_IN", "UPDATE", "DELETE"} /\ table \in Int
  /\ IF kind \in {"SELECT", "CREATE_IN"} THEN id = Absent ELSE \E x \in Values : id = <<x>>

IsBegun(u, kind, table, id) ==
  u = [Unbuilt EXCEPT !.kind = kind, !.table = table, !.id = id,
                      !.err = fail(Fine, checkName("table", table))]

IsCall(c, kind, table, id) == c = <<kind, table, id>>

HasHead(u, kind, table, id) == u.kind = kind /\ u.table = table /\ u.id = id

LEMMA NewMoves ==
  ASSUME NEW kind, NEW table, NEW id, CanBegin(kind, table, id), NEW c, IsCall(c, kind, table, id),
         NEW u, IsBegun(u, kind, table, id)
  PROVE  IsForm(u) /\ IsStatement(u) /\ Follows(Unbuilt, c, u) /\ HasHead(u, kind, table, id)
  <1>1. /\ Unbuilt.err = Fine /\ Unbuilt.items = <<>> /\ Unbuilt.order = <<>>
        /\ Unbuilt.filter = Absent /\ Unbuilt.start = Absent /\ Unbuilt.limit = Absent
        /\ Unbuilt.staleness = Absent /\ Unbuilt.answeredBy = Absent /\ Unbuilt.set = <<>>
    BY DEF Unbuilt
  <1>2. c[1] = kind /\ c[2] = table
    BY DEF IsCall
  <1>3. /\ RefusalOf(c) = checkName("table", table) /\ ItemOf(c) = <<>> /\ SortOf(c) = <<>>
    BY <1>2, CallIs DEF CanBegin
  <1>4. /\ u.kind = kind /\ u.table = table /\ u.id = id /\ u.err = fail(Fine, RefusalOf(c))
        /\ u.items = <<>> /\ u.order = <<>> /\ u.filter = Absent /\ u.start = Absent
        /\ u.limit = Absent /\ u.staleness = Absent /\ u.answeredBy = Absent /\ u.set = <<>>
    BY <1>3 DEF IsBegun, Unbuilt
  <1>5. IsForm(u)
    BY DEF IsBegun, IsForm, Unbuilt
  <1>6. DOMAIN u.set = {} /\ AreFields(u.set)
    <2>1. DOMAIN u.set = {}
      BY <1>4, EmptySeq
    <2> QED BY <2>1, FS_EmptySet DEF AreFields
  <1>7. IsStatement(u)
    <2>1. CASE kind = "SELECT"
      <3>1. u.id = Absent /\ u.kind = "SELECT"
        BY <1>4, <2>1 DEF CanBegin
      <3>2. /\ u.items \in Seq(Items) /\ u.order \in Seq(Int \X Int) /\ u.table \in Int
        BY <1>4, EmptySeq DEF CanBegin
      <3>3. IsFilterOption(u.filter)
        BY <1>4, Zenon DEF IsFilterOption
      <3>4. IsOption(u.start) /\ IsOption(u.limit) /\ IsOption(u.staleness) /\ IsOption(u.answeredBy)
        BY <1>4, GivenIsOption
      <3>5. IsQuery(u)
        BY <3>2, <3>3, <3>4, Zenon DEF IsQuery
      <3> QED BY <1>6, <3>1, <3>5, Zenon DEF IsStatement
    <2>2. CASE kind # "SELECT"
      <3>1. IsOption(Tagged("value", u.id)) /\ (u.id = Absent <=> kind = "CREATE_IN")
        <4>1. CASE id = Absent /\ kind = "CREATE_IN"
          <5>1. Tagged("value", id) = Absent
            BY <4>1 DEF Tagged
          <5> QED BY <1>4, <4>1, <5>1, GivenIsOption
        <4>2. CASE kind # "CREATE_IN"
          <5>1. PICK x \in Values : id = <<x>>
            BY <2>2, <4>2, Zenon DEF CanBegin
          <5>2. <<x>> # Absent /\ <<x>>[1] = x
            BY DEF Absent
          <5>3. Tagged("value", id) = << <<"value", x>> >>
            BY <5>1, <5>2 DEF Tagged
          <5> QED BY <1>4, <4>2, <5>1, <5>2, <5>3, GivenIsOption
        <4> QED BY <2>2, <4>1, <4>2 DEF CanBegin
      <3>2. u.kind \in {"CREATE", "CREATE_IN", "UPDATE", "DELETE"} /\ u.table \in Int
        BY <1>4, <2>2 DEF CanBegin
      <3>3. IsWriting(u)
        BY <1>4, <1>6, <3>1, <3>2, Zenon DEF IsWriting
      <3> QED BY <1>4, <1>6, <3>3, Zenon DEF IsStatement
    <2> QED BY <2>1, <2>2
  <1>8. Follows(Unbuilt, c, u)
    <2>1. /\ u.items = IF ItemOf(c) = <<>> THEN Unbuilt.items ELSE Unbuilt.items \o ItemOf(c)
          /\ u.order = IF SortOf(c) = <<>> THEN Unbuilt.order ELSE Unbuilt.order \o SortOf(c)
          /\ u.filter = IF c[1] = "Where" THEN <<c[2]>> ELSE Unbuilt.filter
      BY <1>1, <1>2, <1>3, <1>4 DEF CanBegin
    <2>2. /\ Replaces(u.start, Unbuilt.start, "number", "Start", c)
          /\ Replaces(u.limit, Unbuilt.limit, "number", "Limit", c)
          /\ Replaces(u.staleness, Unbuilt.staleness, "span", "Staleness", c)
          /\ Replaces(u.answeredBy, Unbuilt.answeredBy, "answerer", "AnsweredBy", c)
      BY <1>1, <1>2, <1>4 DEF Replaces, CanBegin
    <2>3. Puts(StatementPairs(u.set), StatementPairs(Unbuilt.set), c)
      BY <1>1, <1>2, <1>4 DEF Puts, CanBegin
    <2>4. u.err = fail(Unbuilt.err, RefusalOf(c))
      BY <1>1, <1>4
    <2> QED BY <2>1, <2>2, <2>3, <2>4, Zenon DEF Follows
  <1> QED BY <1>4, <1>5, <1>7, <1>8 DEF HasHead

-----------------------------------------------------------------------------
(***************************************************************************)
(* The invariant: the statement is one that can be built, it is what the   *)
(* calls gather, and what was last rendered was rendered from it.          *)
(***************************************************************************)
Built(t, cs) ==
  IF t.kind = "none" THEN t = Unbuilt /\ cs = <<>>
  ELSE IsForm(t) /\ IsStatement(t) /\ cs # <<>> /\ cs[1] = <<t.kind, t.table, t.id>>

Rendered(t) == IF t.err # Fine THEN Refused(t.err) ELSE Written(pieces(t))

IsList(cs) == \E S : cs \in Seq(S)

RenderedFrom(t, answer) == answer = Nothing \/ (t.kind # "none" /\ answer = Rendered(t))

IInv == Built(s, calls) /\ Gathers(s, calls) /\ IsList(calls) /\ RenderedFrom(s, out)

LEMMA CallExtends ==
  ASSUME NEW S, NEW cs \in Seq(S), NEW c
  PROVE  /\ Extends(Append(cs, c), cs, c) /\ IsList(Append(cs, c))
         /\ Append(cs, c) # <<>> /\ Append(cs, c)[1] = IF cs = <<>> THEN c ELSE cs[1]
  <1>1. PICK R : R = S \cup {c}
    OBVIOUS
  <1>2. cs \in Seq(R) /\ c \in R
    BY <1>1
  <1>3. PICK ds : ds = Append(cs, c)
    OBVIOUS
  <1>4. PICK n \in Nat : n = Len(cs)
    BY <1>2, LenProperties
  <1>5. /\ ds \in Seq(R) /\ Len(ds) = n + 1 /\ (\A i \in 1 .. n : ds[i] = cs[i]) /\ ds[n + 1] = c
    BY <1>2, <1>3, <1>4, AppendProperties
  <1>6. Extends(ds, cs, c)
    BY <1>4, <1>5 DEF Extends
  <1>7. ds # <<>>
    BY <1>5, EmptySeq
  <1>8. ds[1] = IF cs = <<>> THEN c ELSE cs[1]
    <2>1. cs = <<>> <=> n = 0
      BY <1>2, <1>4, EmptySeq
    <2>2. CASE n = 0
      BY <1>5, <2>1, <2>2
    <2>3. CASE n # 0
      <3>1. 1 \in 1 .. n
        BY <2>3
      <3> QED BY <1>5, <2>1, <2>3, <3>1
    <2> QED BY <2>2, <2>3
  <1>9. IsList(ds)
    BY <1>5, Zenon DEF IsList
  <1> QED BY <1>3, <1>6, <1>7, <1>8, <1>9

LEMMA MoveBuilds ==
  ASSUME NEW t, NEW cs, Built(t, cs), Gathers(t, cs), NEW S, cs \in Seq(S), t.kind # "none",
         NEW c, NEW u, Moves(t, c, u)
  PROVE  Built(u, Append(cs, c)) /\ Gathers(u, Append(cs, c))
  <1>1. PICK ds : ds = Append(cs, c)
    OBVIOUS
  <1>2. Extends(ds, cs, c) /\ ds # <<>> /\ ds[1] = IF cs = <<>> THEN c ELSE cs[1]
    BY <1>1, CallExtends
  <1>3. IsStatement(t) /\ cs # <<>> /\ cs[1] = <<t.kind, t.table, t.id>>
    BY DEF Built
  <1>4. Gathers(u, ds)
    <2>1. t.items \in Seq(Items) /\ t.order \in Seq(Int \X Int)
      BY <1>3, StatementLists
    <2>2. Follows(t, c, u)
      BY DEF Moves
    <2> QED BY <1>2, <2>1, <2>2, GathersMore
  <1>5. Built(u, ds)
    <2>1. u.kind = t.kind /\ u.table = t.table /\ u.id = t.id
      BY DEF Moves, SameHead
    <2>2. IsForm(u) /\ IsStatement(u)
      BY DEF Moves
    <2> QED BY <1>2, <1>3, <2>1, <2>2 DEF Built
  <1> QED BY <1>1, <1>4, <1>5

LEMMA NewBuilds ==
  ASSUME NEW c, NEW u, IsForm(u), IsStatement(u), Follows(Unbuilt, c, u),
         c = <<u.kind, u.table, u.id>>
  PROVE  Built(u, Append(<<>>, c)) /\ Gathers(u, Append(<<>>, c))
  <1>1. PICK cs : cs = <<>>
    OBVIOUS
  <1>2. PICK S : cs \in Seq(S)
    BY <1>1, EmptySeq
  <1>3. PICK ds : ds = Append(cs, c)
    OBVIOUS
  <1>4. Extends(ds, cs, c) /\ ds # <<>> /\ ds[1] = c
    BY <1>1, <1>2, <1>3, CallExtends
  <1>5. Gathers(u, ds)
    <2>1. PICK t : t = Unbuilt
      OBVIOUS
    <2>2. t.items \in Seq(Items) /\ t.order \in Seq(Int \X Int)
      BY <2>1, EmptySeq DEF Unbuilt
    <2>3. Gathers(t, cs) /\ Follows(t, c, u)
      BY <1>1, <2>1, NoCalls
    <2> QED BY <1>4, <2>2, <2>3, GathersMore
  <1>6. Built(u, ds)
    <2>1. u.kind # "none"
      BY DEF IsStatement, IsWriting
    <2> QED BY <1>4, <2>1 DEF Built
  <1> QED BY <1>1, <1>3, <1>5, <1>6

LEMMA InitIs == Init => IInv
  <1> SUFFICES ASSUME Init PROVE IInv
    OBVIOUS
  <1>1. s = Unbuilt /\ calls = <<>> /\ out = Nothing
    BY DEF Init
  <1>2. Built(s, calls)
    BY <1>1 DEF Built, Unbuilt
  <1>3. Gathers(s, calls)
    BY <1>1, NoCalls
  <1>4. \A S : <<>> \in Seq(S)
    BY EmptySeq
  <1>5. IsList(calls)
    BY <1>1, <1>4, Zenon DEF IsList
  <1>6. RenderedFrom(s, out)
    BY <1>1 DEF RenderedFrom
  <1> QED BY <1>2, <1>3, <1>5, <1>6 DEF IInv

\* A call that changes a statement keeps the invariant if the change is a move.
LEMMA ChangeStep ==
  ASSUME IInv, NEW kinds, NEW c, NEW u, Change(kinds, c, u), "none" \notin kinds,
         IsForm(s) /\ IsStatement(s) /\ s.kind \in kinds => Moves(s, c, u)
  PROVE  IInv'
  <1>1. s.kind \in kinds /\ s' = u /\ calls' = Append(calls, c) /\ out' = Nothing
    BY DEF Change, Called
  <1>2. PICK S : calls \in Seq(S)
    BY Zenon DEF IInv, IsList
  <1>3. s.kind # "none"
    BY <1>1
  <1>4. Built(s, calls) /\ Gathers(s, calls)
    BY Zenon DEF IInv
  <1>5. Moves(s, c, u)
    BY <1>1, <1>3, <1>4, Zenon DEF Built
  <1>6. Built(u, Append(calls, c)) /\ Gathers(u, Append(calls, c))
    BY <1>2, <1>3, <1>4, <1>5, MoveBuilds
  <1>7. IsList(Append(calls, c))
    BY <1>2, CallExtends
  <1>8. RenderedFrom(s', out')
    BY <1>1 DEF RenderedFrom
  <1> QED BY <1>1, <1>6, <1>7, <1>8 DEF IInv

LEMMA NewStep ==
  ASSUME IInv, NEW kind, NEW table, NEW id, CanBegin(kind, table, id), New(kind, table, id)
  PROVE  IInv'
  <1>1. PICK c : c = <<kind, table, id>>
    OBVIOUS
  <1>2. PICK u : u = [Unbuilt EXCEPT !.kind = kind, !.table = table, !.id = id,
                                     !.err = fail(Fine, checkName("table", table))]
    OBVIOUS
  <1>3. s.kind = "none" /\ s' = u /\ calls' = Append(calls, c) /\ out' = Nothing
    BY <1>1, <1>2 DEF New, Called
  <1>4. calls = <<>>
    BY <1>3 DEF IInv, Built
  <1>5. /\ IsForm(u) /\ IsStatement(u) /\ Follows(Unbuilt, c, u)
        /\ u.kind = kind /\ u.table = table /\ u.id = id
    <2>1. IsBegun(u, kind, table, id)
      BY <1>2 DEF IsBegun
    <2>2. IsCall(c, kind, table, id)
      BY <1>1 DEF IsCall
    <2>3. IsForm(u) /\ IsStatement(u) /\ Follows(Unbuilt, c, u) /\ HasHead(u, kind, table, id)
      BY <2>1, <2>2, NewMoves
    <2> QED BY <2>3 DEF HasHead
  <1>6. Built(u, Append(<<>>, c)) /\ Gathers(u, Append(<<>>, c))
    BY <1>1, <1>5, NewBuilds
  <1>7. PICK S : calls \in Seq(S)
    BY Zenon DEF IInv, IsList
  <1>8. IsList(Append(calls, c))
    BY <1>7, CallExtends
  <1>9. RenderedFrom(s', out')
    BY <1>3 DEF RenderedFrom
  <1> QED BY <1>3, <1>4, <1>6, <1>8, <1>9 DEF IInv

\* The calls of a SELECT.
LEMMA QueryCallStep ==
  ASSUME IInv, NEW c, NEW u, Change({"SELECT"}, c, u),
         IsForm(s) /\ IsStatement(s) /\ s.kind = "SELECT" => Moves(s, c, u)
  PROVE  IInv'
  <1>1. PICK kinds : kinds = {"SELECT"}
    OBVIOUS
  <1>2. Change(kinds, c, u) /\ "none" \notin kinds
    BY <1>1
  <1>3. s.kind \in kinds => s.kind = "SELECT"
    BY <1>1
  <1> QED BY <1>2, <1>3, ChangeStep

LEMMA FieldStep == ASSUME IInv, NEW n \in Int, Field(n) PROVE IInv'
  <1>1. PICK c : c = <<"Field", n>>
    OBVIOUS
  <1>2. PICK u : u = [s EXCEPT !.err = fail(@, checkName("field", n)), !.items = Append(@, <<"name", n>>)]
    OBVIOUS
  <1>3. Change({"SELECT"}, c, u)
    BY <1>1, <1>2 DEF Field
  <1>4. ASSUME IsForm(s), IsStatement(s), s.kind = "SELECT" PROVE Moves(s, c, u)
    <2>1. PICK x : x = <<"name", n>>
      OBVIOUS
    <2>2. x \in Items
      BY <2>1 DEF Items
    <2>3. c[1] = "Field" /\ c[2] = n
      BY <1>1
    <2>4. ItemOf(c) = <<x>>
      BY <2>1, <2>3 DEF ItemOf
    <2>5. u = [s EXCEPT !.err = fail(@, checkName("field", c[2])), !.items = Append(@, x)]
      BY <1>2, <2>1, <2>3
    <2>6. AddsItem(u, s, c, x)
      BY <2>2, <2>3, <2>4, <2>5 DEF AddsItem
    <2> QED BY <1>4, <2>6, FieldMoves
  <1> QED BY <1>3, <1>4, QueryCallStep

LEMMA LinesStep == ASSUME IInv, NEW n \in Int, NEW i \in Int, NEW j \in Int, Lines(n, i, j) PROVE IInv'
  <1>1. PICK c : c = <<"Lines", n, i, j>>
    OBVIOUS
  <1>2. PICK u : u = [s EXCEPT !.err = fail(@, checkName("field", n)),
                           !.items = Append(@, <<"lines", n, i, j>>)]
    OBVIOUS
  <1>3. Change({"SELECT"}, c, u)
    BY <1>1, <1>2 DEF Lines
  <1>4. ASSUME IsForm(s), IsStatement(s), s.kind = "SELECT" PROVE Moves(s, c, u)
    <2>1. PICK x : x = <<"lines", n, i, j>>
      OBVIOUS
    <2>2. x \in Items
      BY <2>1 DEF Items
    <2>3. c[1] = "Lines" /\ c[2] = n /\ c[3] = i /\ c[4] = j
      BY <1>1
    <2>4. ItemOf(c) = <<x>>
      BY <2>1, <2>3 DEF ItemOf
    <2>5. u = [s EXCEPT !.err = fail(@, checkName("field", c[2])), !.items = Append(@, x)]
      BY <1>2, <2>1, <2>3
    <2>6. AddsItem(u, s, c, x)
      BY <2>2, <2>3, <2>4, <2>5 DEF AddsItem
    <2> QED BY <1>4, <2>6, FieldMoves
  <1> QED BY <1>3, <1>4, QueryCallStep

LEMMA OrderByStep == ASSUME IInv, NEW n \in Int, NEW d \in Int, OrderBy(n, d) PROVE IInv'
  <1>1. PICK c : c = <<"OrderBy", n, d>>
    OBVIOUS
  <1>2. PICK u : u = [s EXCEPT !.err = fail(@, checkName("field", n)), !.order = Append(@, <<n, d>>)]
    OBVIOUS
  <1>3. Change({"SELECT"}, c, u)
    BY <1>1, <1>2 DEF OrderBy
  <1>4. ASSUME IsForm(s), IsStatement(s), s.kind = "SELECT" PROVE Moves(s, c, u)
    <2>1. c[1] = "OrderBy" /\ c[2] = n /\ c[3] = d
      BY <1>1
    <2> QED BY <1>2, <1>4, <2>1, OrderByMoves
  <1> QED BY <1>3, <1>4, QueryCallStep

LEMMA WhereStep == ASSUME IInv, NEW f \in Filter[Nesting], Where(f) PROVE IInv'
  <1>1. PICK c : c = <<"Where", f>>
    OBVIOUS
  <1>2. PICK u : u = [s EXCEPT !.filter = <<f>>]
    OBVIOUS
  <1>3. Change({"SELECT"}, c, u)
    BY <1>1, <1>2 DEF Where
  <1>4. ASSUME IsForm(s), IsStatement(s), s.kind = "SELECT" PROVE Moves(s, c, u)
    <2>1. c[1] = "Where" /\ c[2] = f
      BY <1>1
    <2> QED BY <1>2, <1>4, <2>1, WhereMoves
  <1> QED BY <1>3, <1>4, QueryCallStep

LEMMA StartStep == ASSUME IInv, NEW n \in Int, Start(n) PROVE IInv'
  <1>1. PICK c : c = <<"Start", n>>
    OBVIOUS
  <1>2. PICK u : u = [s EXCEPT !.start = << <<"number", n>> >>]
    OBVIOUS
  <1>3. Change({"SELECT"}, c, u)
    BY <1>1, <1>2 DEF Start
  <1>4. ASSUME IsForm(s), IsStatement(s), s.kind = "SELECT" PROVE Moves(s, c, u)
    <2>1. c[1] = "Start" /\ c[2] = n
      BY <1>1
    <2> QED BY <1>2, <1>4, <2>1, StartMoves
  <1> QED BY <1>3, <1>4, QueryCallStep

LEMMA LimitStep == ASSUME IInv, NEW n \in Int, Limit(n) PROVE IInv'
  <1>1. PICK c : c = <<"Limit", n>>
    OBVIOUS
  <1>2. PICK u : u = [s EXCEPT !.limit = << <<"number", n>> >>]
    OBVIOUS
  <1>3. Change({"SELECT"}, c, u)
    BY <1>1, <1>2 DEF Limit
  <1>4. ASSUME IsForm(s), IsStatement(s), s.kind = "SELECT" PROVE Moves(s, c, u)
    <2>1. c[1] = "Limit" /\ c[2] = n
      BY <1>1
    <2> QED BY <1>2, <1>4, <2>1, LimitMoves
  <1> QED BY <1>3, <1>4, QueryCallStep

LEMMA StalenessStep == ASSUME IInv, NEW t \in Seq(STRING), Staleness(t) PROVE IInv'
  <1>1. PICK c : c = <<"Staleness", t>>
    OBVIOUS
  <1>2. PICK u : u = IF checkSpan(t) = Fine THEN [s EXCEPT !.staleness = << <<"span", t>> >>]
                   ELSE [s EXCEPT !.err = fail(@, checkSpan(t))]
    OBVIOUS
  <1>3. Change({"SELECT"}, c, u)
    BY <1>1, <1>2 DEF Staleness
  <1>4. ASSUME IsForm(s), IsStatement(s), s.kind = "SELECT" PROVE Moves(s, c, u)
    <2>1. c[1] = "Staleness" /\ c[2] = t
      BY <1>1
    <2> QED BY <1>2, <1>4, <2>1, StalenessMoves
  <1> QED BY <1>3, <1>4, QueryCallStep

LEMMA AnsweredByStep == ASSUME IInv, NEW w, AnsweredBy(w) PROVE IInv'
  <1>1. PICK c : c = <<"AnsweredBy", w>>
    OBVIOUS
  <1>2. PICK u : u = IF checkAnswerer(w) = Fine THEN [s EXCEPT !.answeredBy = << <<"answerer", w>> >>]
                   ELSE [s EXCEPT !.err = fail(@, checkAnswerer(w))]
    OBVIOUS
  <1>3. Change({"SELECT"}, c, u)
    BY <1>1, <1>2 DEF AnsweredBy
  <1>4. ASSUME IsForm(s), IsStatement(s), s.kind = "SELECT" PROVE Moves(s, c, u)
    <2>1. c[1] = "AnsweredBy" /\ c[2] = w
      BY <1>1
    <2> QED BY <1>2, <1>4, <2>1, AnsweredByMoves
  <1> QED BY <1>3, <1>4, QueryCallStep

LEMMA SetStep == ASSUME IInv, NEW n \in Int, NEW x \in Values, Set(n, x) PROVE IInv'
  <1>1. PICK c : c = <<"Set", n, x>>
    OBVIOUS
  <1>2. PICK u : u = put(n, x)
    OBVIOUS
  <1>3. PICK kinds : kinds = {"CREATE", "CREATE_IN", "UPDATE"}
    OBVIOUS
  <1>4. Change(kinds, c, u) /\ "none" \notin kinds
    BY <1>1, <1>2, <1>3 DEF Set
  <1>5. ASSUME IsForm(s), IsStatement(s), s.kind \in kinds PROVE Moves(s, c, u)
    <2>1. c[1] = "Set" /\ c[2] = n /\ c[3] = x
      BY <1>1
    <2>2. u = IF IsName(n)
                THEN [s EXCEPT !.set = [m \in DOMAIN @ \cup {n} |-> IF m = n THEN x ELSE @[m]]]
                ELSE [s EXCEPT !.err = fail(@, checkName("field", n))]
      BY <1>2 DEF put
    <2>3. s.kind \in {"CREATE", "CREATE_IN", "UPDATE"}
      BY <1>3, <1>5
    <2> QED BY <1>5, <2>1, <2>2, <2>3, SetMoves
  <1> QED BY <1>4, <1>5, ChangeStep

LEMMA RenderStep == ASSUME IInv, Render PROVE IInv'
  <1>1. s.kind # "none" /\ out' = Rendered(s) /\ s' = s /\ calls' = calls
    BY DEF Render, Rendered
  <1>2. RenderedFrom(s', out')
    BY <1>1 DEF RenderedFrom
  <1> QED BY <1>1, <1>2 DEF IInv

LEMMA BeginStep ==
  ASSUME IInv, NEW t \in Int,
         \/ Select(t) \/ CreateInTable(t)
         \/ \E id \in Values : CreateRecord(t, id) \/ UpdateRecord(t, id) \/ DeleteRecord(t, id)
  PROVE  IInv'
  <1>1. CASE Select(t)
    <2>1. CanBegin("SELECT", t, Absent)
      BY DEF CanBegin
    <2> QED BY <1>1, <2>1, NewStep DEF Select
  <1>2. CASE CreateInTable(t)
    <2>1. CanBegin("CREATE_IN", t, Absent)
      BY DEF CanBegin
    <2> QED BY <1>2, <2>1, NewStep DEF CreateInTable
  <1>3. CASE \E id \in Values : CreateRecord(t, id) \/ UpdateRecord(t, id) \/ DeleteRecord(t, id)
    <2>1. PICK id \in Values : CreateRecord(t, id) \/ UpdateRecord(t, id) \/ DeleteRecord(t, id)
      BY <1>3
    <2>2. \A kind \in {"CREATE", "UPDATE", "DELETE"} : CanBegin(kind, t, <<id>>)
      BY DEF CanBegin
    <2>3. \E kind \in {"CREATE", "UPDATE", "DELETE"} : New(kind, t, <<id>>)
      BY <2>1 DEF CreateRecord, UpdateRecord, DeleteRecord
    <2> QED BY <2>2, <2>3, NewStep
  <1> QED BY <1>1, <1>2, <1>3

LEMMA StepIs == IInv /\ [Next]_vars => IInv'
  <1> SUFFICES ASSUME IInv, [Next]_vars PROVE IInv'
    OBVIOUS
  <1> USE BuilderAssumption
  <1>1. ASSUME NEW t \in Tables,
               \/ Select(t) \/ CreateInTable(t)
               \/ \E id \in Values : CreateRecord(t, id) \/ UpdateRecord(t, id) \/ DeleteRecord(t, id)
        PROVE  IInv'
    BY <1>1, BeginStep
  <1>2. ASSUME NEW n \in Fields, Field(n) PROVE IInv'
    BY <1>2, FieldStep
  <1>3. ASSUME NEW n \in Fields, Lines(n, 0, 2) PROVE IInv'
    <2>1. PICK i \in Int, j \in Int : i = 0 /\ j = 2
      OBVIOUS
    <2>2. n \in Int /\ Lines(n, i, j)
      BY <1>3, <2>1
    <2> QED BY <2>2, LinesStep
  <1>4. ASSUME NEW n \in Fields, NEW d \in Directions, OrderBy(n, d) PROVE IInv'
    BY <1>4, OrderByStep
  <1>5. ASSUME NEW n \in Fields, NEW x \in Values, Set(n, x) PROVE IInv'
    BY <1>5, SetStep
  <1>6. ASSUME NEW f \in Filters, Where(f) PROVE IInv'
    BY <1>6, WhereStep
  <1>7. ASSUME NEW n \in {0, 1}, Start(n) \/ Limit(n) PROVE IInv'
    BY <1>7, StartStep, LimitStep
  <1>8. ASSUME NEW t \in Spans, Staleness(t) PROVE IInv'
    BY <1>8, StalenessStep
  <1>9. ASSUME NEW w \in {"ANY", "LEADER", "MASTER"}, AnsweredBy(w) PROVE IInv'
    BY <1>9, AnsweredByStep
  <1>10. ASSUME Render PROVE IInv'
    BY <1>10, RenderStep
  <1>11. ASSUME UNCHANGED vars PROVE IInv'
    <2>1. s' = s /\ calls' = calls /\ out' = out
      BY <1>11 DEF vars
    <2> QED BY <2>1 DEF IInv
  <1> QED BY <1>1, <1>2, <1>3, <1>4, <1>5, <1>6, <1>7, <1>8, <1>9, <1>10, <1>11, Zenon DEF Next


-----------------------------------------------------------------------------
(***************************************************************************)
(* What was asked for is what the statement means.                         *)
(***************************************************************************)
MeantBy(t) ==
  [kind |-> t.kind, table |-> <<"name", t.table>>, id |-> Tagged("value", t.id),
   items |-> t.items, filter |-> t.filter, order |-> t.order, start |-> t.start,
   limit |-> t.limit, staleness |-> t.staleness, answeredBy |-> t.answeredBy,
   set |-> StatementPairs(t.set)]

ByName(pairs) == \A i, j \in DOMAIN pairs : i < j => pairs[i][1][2] < pairs[j][1][2]

LEMMA FieldPairsAre ==
  ASSUME NEW set, AreFields(set)
  PROVE  ToSet(FieldPairs(set)) = StatementPairs(set) /\ ByName(FieldPairs(set))
  <1>1. PICK names : names = sortedNames(set)
    OBVIOUS
  <1>2. PICK n \in Nat : n = Len(names)
    BY <1>1, NamesAre, LenProperties
  <1>3. PICK D : D = DOMAIN set
    OBVIOUS
  <1>4. /\ {names[i] : i \in 1 .. n} = D /\ \A i, j \in 1 .. n : i < j => names[i] < names[j]
    BY <1>1, <1>2, <1>3, NamesAre DEF IsAscending
  <1>5. PICK pairs : pairs = [m \in 1 .. n |-> PairOf(set, names[m])]
    OBVIOUS
  <1>6. FieldPairs(set) = pairs /\ DOMAIN pairs = 1 .. n
    BY <1>1, <1>2, <1>5 DEF FieldPairs
  <1>7. \A i \in 1 .. n : pairs[i] = PairOf(set, names[i])
    BY <1>5
  <1>8. ToSet(pairs) = StatementPairs(set)
    <2>1. \A x : x \in ToSet(pairs) <=> \E i \in 1 .. n : x = PairOf(set, names[i])
      BY <1>6, <1>7 DEF ToSet
    <2>2. \A x : x \in StatementPairs(set) <=> \E m \in D : x = PairOf(set, m)
      BY <1>3 DEF StatementPairs
    <2>3. \A m : m \in D <=> \E i \in 1 .. n : m = names[i]
      BY <1>4
    <2>4. \A x : x \in ToSet(pairs) <=> x \in StatementPairs(set)
      BY <2>1, <2>2, <2>3, Zenon
    <2> QED BY <2>4
  <1>9. ByName(pairs)
    <2>1. \A m : PairOf(set, m)[1][2] = m
      BY DEF PairOf
    <2>2. \A i \in 1 .. n : pairs[i][1][2] = names[i]
      BY <1>7, <2>1
    <2> QED BY <1>4, <1>6, <2>2 DEF ByName
  <1> QED BY <1>6, <1>8, <1>9

LEMMA NoPairs == ASSUME NEW set, DOMAIN set = {} PROVE StatementPairs(set) = {}
  BY DEF StatementPairs

LEMMA MeaningIs ==
  ASSUME NEW t, IsStatement(t)
  PROVE  [Meaning(t) EXCEPT !.set = ToSet(@)] = MeantBy(t) /\ ByName(Meaning(t).set)
  <1>1. CASE t.kind = "SELECT"
    <2>1. t.id = Absent /\ DOMAIN t.set = {}
      BY <1>1, Zenon DEF IsStatement, IsWriting
    <2>2. Tagged("value", t.id) = Absent /\ StatementPairs(t.set) = {}
      BY <2>1, NoPairs DEF Tagged
    <2>3. ToSet(<<>>) = {} /\ ByName(<<>>)
      BY EmptySeq DEF ToSet, ByName
    <2>4. Meaning(t) = [kind |-> "SELECT", table |-> <<"name", t.table>>, id |-> Absent,
                        items |-> t.items, filter |-> t.filter, order |-> t.order,
                        start |-> t.start, limit |-> t.limit, staleness |-> t.staleness,
                        answeredBy |-> t.answeredBy, set |-> <<>>]
      BY <1>1 DEF Meaning, QueryMeaning, Reading
    <2>5. PICK none : none = ToSet(<<>>)
      OBVIOUS
    <2>6. Meaning(t).set = <<>>
      BY <2>4
    <2>7. [Meaning(t) EXCEPT !.set = none]
            = [kind |-> "SELECT", table |-> <<"name", t.table>>, id |-> Absent,
               items |-> t.items, filter |-> t.filter, order |-> t.order,
               start |-> t.start, limit |-> t.limit, staleness |-> t.staleness,
               answeredBy |-> t.answeredBy, set |-> none]
      BY <2>4
    <2>8. [Meaning(t) EXCEPT !.set = ToSet(@)] = [Meaning(t) EXCEPT !.set = none]
      BY <2>5, <2>6
    <2>9. MeantBy(t) = [kind |-> "SELECT", table |-> <<"name", t.table>>, id |-> Absent,
               items |-> t.items, filter |-> t.filter, order |-> t.order,
               start |-> t.start, limit |-> t.limit, staleness |-> t.staleness,
               answeredBy |-> t.answeredBy, set |-> none]
      BY <1>1, <2>2, <2>3, <2>5, Zenon DEF MeantBy
    <2> QED BY <2>3, <2>6, <2>7, <2>8, <2>9
  <1>2. CASE t.kind # "SELECT"
    <2>1. /\ t.items = <<>> /\ t.filter = Absent /\ t.order = <<>> /\ t.start = Absent
          /\ t.limit = Absent /\ t.staleness = Absent /\ t.answeredBy = Absent /\ AreFields(t.set)
      BY <1>2, WritingIs DEF IsWriting
    <2>2. PICK pairs : pairs = FieldPairs(t.set)
      OBVIOUS
    <2>3. PICK id : id = Tagged("value", t.id)
      OBVIOUS
    <2>4. Meaning(t) = [kind |-> t.kind, table |-> <<"name", t.table>>, id |-> id,
                        items |-> <<>>, filter |-> Absent, order |-> <<>>, start |-> Absent,
                        limit |-> Absent, staleness |-> Absent, answeredBy |-> Absent,
                        set |-> pairs]
      BY <1>2, <2>2, <2>3 DEF Meaning, WriteMeaning, Reading
    <2>5. ToSet(pairs) = StatementPairs(t.set) /\ ByName(pairs)
      BY <2>1, <2>2, FieldPairsAre
    <2>6. PICK all : all = ToSet(pairs)
      OBVIOUS
    <2>7. Meaning(t).set = pairs
      BY <2>4
    <2>8. [Meaning(t) EXCEPT !.set = all]
            = [kind |-> t.kind, table |-> <<"name", t.table>>, id |-> id,
               items |-> <<>>, filter |-> Absent, order |-> <<>>, start |-> Absent,
               limit |-> Absent, staleness |-> Absent, answeredBy |-> Absent, set |-> all]
      BY <2>4
    <2>9. [Meaning(t) EXCEPT !.set = ToSet(@)] = [Meaning(t) EXCEPT !.set = all]
      BY <2>6, <2>7
    <2>10. MeantBy(t)
             = [kind |-> t.kind, table |-> <<"name", t.table>>, id |-> id,
                items |-> <<>>, filter |-> Absent, order |-> <<>>, start |-> Absent,
                limit |-> Absent, staleness |-> Absent, answeredBy |-> Absent, set |-> all]
      BY <2>1, <2>3, <2>5, <2>6, Zenon DEF MeantBy
    <2> QED BY <2>5, <2>7, <2>8, <2>9, <2>10
  <1> QED BY <1>1, <1>2

\* The calls mean what the statement they gathered means.
LEMMA MeantIs ==
  ASSUME Built(s, calls), Gathers(s, calls), s.kind # "none", s.err = Fine
  PROVE  Meant = MeantBy(s)
  <1>1. calls[1][1] = s.kind /\ calls[1][2] = s.table /\ calls[1][3] = s.id
    <2>1. calls[1] = <<s.kind, s.table, s.id>>
      BY DEF Built
    <2> QED BY <2>1
  <1>2. \A method : LastOf(method) = LastIn(calls, method)
    BY Zenon DEF LastOf, LastIn, PlacesIn, LastPlace
  <1>3. /\ s.items = ItemsIn(calls) /\ s.order = OrderIn(calls) /\ s.filter = LastOf("Where")
        /\ s.start = Tagged("number", LastOf("Start")) /\ s.limit = Tagged("number", LastOf("Limit"))
        /\ s.staleness = Tagged("span", LastOf("Staleness"))
        /\ s.answeredBy = Tagged("answerer", LastOf("AnsweredBy"))
    BY <1>2, Zenon DEF Gathers, Keeps
  <1>4. {<< <<"name", calls[i][2]>>, <<"value", calls[i][3]>> >> : i \in Sets} = StatementPairs(s.set)
    <2>1. Sets = SetsIn(calls)
      BY Zenon DEF Sets, SetsIn
    <2>2. PairsIn(calls) = {<< <<"name", calls[i][2]>>, <<"value", calls[i][3]>> >> : i \in Sets}
      BY <2>1, Zenon DEF PairsIn, PairOfCall
    <2>3. StatementPairs(s.set) = PairsIn(calls)
      BY Zenon DEF Gathers
    <2> QED BY <2>2, <2>3
  <1> QED BY <1>1, <1>3, <1>4, Zenon DEF Meant, MeantBy, ItemsIn, OrderIn

LEMMA WholeIs ==
  ASSUME Meant = MeantBy(s)
  PROVE  Whole <=> Complete(s)
  <1>1. /\ Meant.kind = s.kind /\ Meant.set = StatementPairs(s.set) /\ Meant.filter = s.filter
        /\ Meant.order = s.order
    BY DEF MeantBy
  <1>2. StatementPairs(s.set) # {} <=> DOMAIN s.set # {}
    BY DEF StatementPairs
  <1>3. (Meant.filter # Absent => Sound[Nesting][Meant.filter[1]]) <=> Accepted(s.filter)
    BY <1>1, Zenon DEF Accepted
  <1>4. (\A i \in 1 .. Len(Meant.order) : Meant.order[i][2] \in {0, 1}) <=> Sorted(s.order)
    BY <1>1, Zenon DEF Sorted
  <1>5. (Meant.kind \in {"CREATE", "CREATE_IN", "UPDATE"} => Meant.set # {})
          <=> (s.kind \in {"CREATE", "CREATE_IN", "UPDATE"} => DOMAIN s.set # {})
    BY <1>1, <1>2
  <1> QED BY <1>3, <1>4, <1>5, Zenon DEF Whole, Complete

\* Nothing that may be out breaks the promise.
LEMMA RendersIs == IInv => RendersWhatWasAsked
  <1> SUFFICES ASSUME IInv, out # Nothing PROVE RendersWhatWasAsked
    BY DEF RendersWhatWasAsked
  <1>1. Built(s, calls) /\ Gathers(s, calls) /\ IsList(calls) /\ s.kind # "none" /\ out = Rendered(s)
    BY DEF IInv, RenderedFrom
  <1>2. Refusals = RefusalsIn(calls) /\ FirstRefusal = RefusalOf(calls[FirstIn(calls)])
    BY Zenon DEF Refusals, RefusalsIn, FirstRefusal, FirstIn
  <1>3. s.err = ErrIn(calls)
    BY <1>1, Zenon DEF Gathers
  <1>4. IsStatement(s)
    BY <1>1 DEF Built
  <1>5. CASE Refusals # {}
    <2>1. Len(calls) \in Nat
      BY <1>1, LenProperties DEF IsList
    <2>2. FirstRefusal # Fine
      BY <1>2, <1>5, <2>1, FirstExists DEF RefusalsIn
    <2>3. s.err = FirstRefusal
      BY <1>2, <1>3, <1>5 DEF ErrIn
    <2>4. out = Refused(FirstRefusal)
      BY <1>1, <2>2, <2>3 DEF Rendered
    <2> QED BY <1>5, <2>4, Zenon DEF RendersWhatWasAsked
  <1>6. CASE Refusals = {}
    <2>1. s.err = Fine
      BY <1>2, <1>3, <1>6 DEF ErrIn
    <2>2. PICK p : p = pieces(s)
      OBVIOUS
    <2>3. out = Written(p)
      BY <1>1, <2>1, <2>2 DEF Rendered
    <2>4. Meant = MeantBy(s)
      BY <1>1, <2>1, MeantIs
    <2>5. IsReadAs(p, s)
      BY <1>4, <2>2, StatementIsRead
    <2>6. p \in Seq(Pieces) /\ (HasRefused(p) <=> ~Complete(s)) /\ (Complete(s) => ReadByNode(p) = Meaning(s))
      BY <2>5 DEF IsReadAs
    <2>7. CASE ~Whole
      <3>1. HasRefused(p)
        BY <2>4, <2>6, <2>7, WholeIs
      <3>2. out.err # Fine /\ out = Refused(out.err)
        BY <2>3, <2>6, <3>1, RefusedIsWritten
      <3> QED BY <1>6, <2>7, <3>2, Zenon DEF RendersWhatWasAsked
    <2>8. CASE Whole
      <3>1. Complete(s)
        BY <2>4, <2>8, WholeIs
      <3>2. ~HasRefused(p) /\ ReadByNode(p) = Meaning(s)
        BY <2>6, <3>1
      <3>3. out.err = Fine /\ Referred(out.text, out.bound) = p /\ CountsUp(out.text, out.bound)
        BY <2>3, <2>6, <3>2, TextIsWritten
      <3>4. PICK read : read = ReadByNode(Referred(out.text, out.bound))
        OBVIOUS
      <3>5. read = Meaning(s)
        BY <3>2, <3>3, <3>4
      <3>6. [read EXCEPT !.set = ToSet(@)] = Meant /\ ByName(read.set)
        BY <1>4, <2>4, <3>5, MeaningIs
      <3>7. \A i, j \in DOMAIN read.set : i < j => read.set[i][1][2] < read.set[j][1][2]
        BY <3>6, Zenon DEF ByName
      <3> QED BY <1>6, <2>8, <3>3, <3>4, <3>6, <3>7, Zenon DEF RendersWhatWasAsked
    <2> QED BY <2>7, <2>8
  <1> QED BY <1>5, <1>6

\* Whatever calls gather a statement, in whatever order, with refusals among
\* them, names set again and clauses replaced, and however often it is rendered
\* and added to: what Render answers is the first refusal, or a text in which a
\* node reads what the calls asked for and nothing else.
THEOREM RendersWhatWasAskedHolds == Spec => []RendersWhatWasAsked
  <1>1. Init => IInv
    BY InitIs
  <1>2. IInv /\ [Next]_vars => IInv'
    BY StepIs
  <1>3. IInv => RendersWhatWasAsked
    BY RendersIs
  <1> QED BY <1>1, <1>2, <1>3, PTL DEF Spec

=============================================================================
