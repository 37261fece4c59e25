------------------------------ MODULE CodecProofs ------------------------------
(***************************************************************************)
(* What the codec promises, proved for cells, values and nestings of any   *)
(* size.                                                                   *)
(***************************************************************************)
EXTENDS Codec, Outcomes, FiniteSetTheorems, SequenceTheorems, TLAPS

-----------------------------------------------------------------------------
(***************************************************************************)
(* Induction, over a set where a rule would take a predicate.              *)
(***************************************************************************)
\* A set that holds zero and every successor holds every number: the numbers up
\* to one it misses would fit, each moved up by one, into one place less.
LEMMA SetInduction ==
  ASSUME NEW S, 0 \in S, \A n \in Nat : n \in S => n + 1 \in S
  PROVE  Nat \subseteq S
  <1> SUFFICES ASSUME NEW n \in Nat, n \notin S PROVE FALSE
    OBVIOUS
  <1> DEFINE F == {i \in 0 .. n : i \in S}
             f == [i \in F |-> i + 1]
  <1>1. 0 \in F /\ F \in SUBSET (0 .. n)
    OBVIOUS
  <1>2. f \in [F -> F \ {0}]
    <2> SUFFICES ASSUME NEW i \in F PROVE i + 1 \in F \ {0}
      OBVIOUS
    <2>1. i \in 0 .. n /\ i \in S /\ i # n
      OBVIOUS
    <2> QED BY <2>1
  <1>3. \A x, y \in F : f[x] = f[y] => x = y
    OBVIOUS
  <1> HIDE DEF F, f
  <1>4. IsFiniteSet(F)
    <2>1. IsFiniteSet(0 .. n)
      BY FS_Interval
    <2> QED BY <2>1, <1>1, FS_Subset
  <1>5. IsFiniteSet(F \ {0}) /\ Cardinality(F \ {0}) < Cardinality(F)
    <2>1. Cardinality(F) \in Nat
      BY <1>4, FS_CardinalityType
    <2>2. IsFiniteSet(F \ {0}) /\ Cardinality(F \ {0}) = Cardinality(F) - 1
      BY <1>1, <1>4, FS_RemoveElement
    <2> QED BY <2>1, <2>2
  <1>6. \E x, y \in F : x # y /\ f[x] = f[y]
    BY <1>2, <1>4, <1>5, FS_PigeonHole
  <1> QED BY <1>3, <1>6

\* The same for sequences, grown at their end.
LEMMA SeqInduction ==
  ASSUME NEW S, NEW Q, <<>> \in Q,
         \A s \in Seq(S), e \in S : s \in Q => Append(s, e) \in Q
  PROVE  Seq(S) \subseteq Q
  <1> DEFINE N == {n \in Nat : \A s \in Seq(S) : Len(s) = n => s \in Q}
  <1>1. 0 \in N
    BY EmptySeq
  <1>2. ASSUME NEW n \in Nat, n \in N PROVE n + 1 \in N
    <2> SUFFICES ASSUME NEW s \in Seq(S), Len(s) = n + 1 PROVE s \in Q
      OBVIOUS
    <2>1. PICK t \in Seq(S), e \in S : s = Append(t, e)
      BY SequenceEmptyOrAppend, EmptySeq
    <2>2. Len(t) = n
      BY <2>1, AppendProperties
    <2> QED BY <1>2, <2>1, <2>2
  <1> HIDE DEF N
  <1>3. Nat \subseteq N
    BY <1>1, <1>2, SetInduction
  <1> QED BY <1>3 DEF N

\* A set of numbers that has one has a first one.
LEMMA FirstOne ==
  ASSUME NEW S \in SUBSET Nat, NEW m \in S
  PROVE  \E n \in S : \A i \in S : n <= i
  <1> DEFINE N == {n \in Nat : (\A i \in S : n <= i) \/ \E k \in S : \A i \in S : k <= i}
  <1>1. 0 \in N
    OBVIOUS
  <1>2. ASSUME NEW n \in Nat, n \in N PROVE n + 1 \in N
    <2>1. CASE \E k \in S : \A i \in S : k <= i
      BY <2>1
    <2>2. CASE \A i \in S : n <= i
      <3>1. CASE n \in S
        BY <2>2, <3>1
      <3>2. CASE n \notin S
        <4>1. \A i \in S : n + 1 <= i
          BY <2>2, <3>2
        <4> QED BY <4>1
      <3> QED BY <3>1, <3>2
    <2> QED BY <1>2, <2>1, <2>2
  <1> HIDE DEF N
  <1>3. m + 1 \in N
    BY <1>1, <1>2, SetInduction
  <1> QED BY <1>3 DEF N

-----------------------------------------------------------------------------
(***************************************************************************)
(* Sequences.                                                              *)
(***************************************************************************)
\* A sequence behind one more element.
LEMMA ConsParts ==
  ASSUME NEW S, NEW a \in S, NEW s \in Seq(S)
  PROVE  /\ <<a>> \in Seq(S) /\ <<a>> \o s \in Seq(S) /\ <<a>> \o s # <<>>
         /\ Head(<<a>> \o s) = a /\ Tail(<<a>> \o s) = s
         /\ Len(<<a>> \o s) = Len(s) + 1
         /\ (<<a>> \o s)[1] = a
  <1>1. <<a>> \in Seq(S) /\ Len(<<a>>) = 1 /\ <<a>>[1] = a
    OBVIOUS
  <1>2. /\ <<a>> \o s \in Seq(S)
        /\ Len(<<a>> \o s) = 1 + Len(s)
        /\ \A i \in 1 .. 1 + Len(s) : (<<a>> \o s)[i] = IF i <= 1 THEN <<a>>[i] ELSE s[i - 1]
    BY <1>1, ConcatProperties
  <1>3. Len(s) \in Nat
    BY LenProperties
  <1>4. <<a>> \o s # <<>> /\ (<<a>> \o s)[1] = a
    BY <1>1, <1>2, <1>3
  <1>5. /\ Head(<<a>> \o s) = (<<a>> \o s)[1]
        /\ Tail(<<a>> \o s) \in Seq(S) /\ Len(Tail(<<a>> \o s)) = Len(s)
        /\ \A i \in 1 .. Len(s) : Tail(<<a>> \o s)[i] = s[i]
    <2>1. Tail(<<a>> \o s) \in Seq(S) /\ Len(Tail(<<a>> \o s)) = Len(s)
      BY <1>2, <1>3, <1>4, HeadTailProperties
    <2>2. \A i \in 1 .. Len(s) : Tail(<<a>> \o s)[i] = (<<a>> \o s)[i + 1]
      BY <2>1, <1>2, <1>4, HeadTailProperties
    <2>3. \A i \in 1 .. Len(s) : (<<a>> \o s)[i + 1] = s[i]
      BY <1>2, <1>3
    <2> QED BY <2>1, <2>2, <2>3
  <1>6. Tail(<<a>> \o s) = s
    BY <1>5, SeqEqual
  <1> QED BY <1>1, <1>2, <1>3, <1>4, <1>5, <1>6

\* Every sequence but the empty one is its head before its tail.
LEMMA HeadFirst ==
  ASSUME NEW S, NEW s \in Seq(S), s # <<>>
  PROVE  s = <<Head(s)>> \o Tail(s) /\ Head(s) \in S /\ Tail(s) \in Seq(S)
         /\ Len(s) = Len(Tail(s)) + 1 /\ Len(Tail(s)) \in Nat
  <1>1. /\ Head(s) \in S /\ Tail(s) \in Seq(S) /\ Len(Tail(s)) = Len(s) - 1
        /\ \A i \in 1 .. Len(Tail(s)) : Tail(s)[i] = s[i + 1]
    BY HeadTailProperties
  <1>2. Len(s) \in Nat /\ Len(Tail(s)) \in Nat
    BY <1>1, LenProperties
  <1>3. /\ <<Head(s)>> \o Tail(s) \in Seq(S)
        /\ Len(<<Head(s)>> \o Tail(s)) = Len(s)
        /\ \A i \in 1 .. Len(s) : (<<Head(s)>> \o Tail(s))[i] = s[i]
    <2>1. <<Head(s)>> \in Seq(S) /\ Len(<<Head(s)>>) = 1 /\ <<Head(s)>>[1] = s[1]
      BY <1>1
    <2>2. /\ <<Head(s)>> \o Tail(s) \in Seq(S)
          /\ Len(<<Head(s)>> \o Tail(s)) = 1 + Len(Tail(s))
          /\ \A i \in 1 .. 1 + Len(Tail(s)) : (<<Head(s)>> \o Tail(s))[i] =
                IF i <= 1 THEN <<Head(s)>>[i] ELSE Tail(s)[i - 1]
      BY <1>1, <2>1, ConcatProperties
    <2>3. ASSUME NEW i \in 1 .. Len(s) PROVE (<<Head(s)>> \o Tail(s))[i] = s[i]
      <3>1. CASE i = 1
        BY <1>1, <1>2, <2>1, <2>2, <3>1
      <3>2. CASE i # 1
        <4>1. i - 1 \in 1 .. Len(Tail(s))
          BY <1>1, <1>2, <3>2
        <4> QED BY <1>1, <1>2, <2>2, <3>2, <4>1
      <3> QED BY <3>1, <3>2
    <2> QED BY <1>1, <1>2, <2>2, <2>3
  <1>4. s = <<Head(s)>> \o Tail(s)
    BY <1>3, SeqEqual
  <1> QED BY <1>1, <1>2, <1>4

\* What stands before and behind the join of two sequences.
LEMMA JoinParts ==
  ASSUME NEW S, NEW s \in Seq(S), NEW t \in Seq(S)
  PROVE  /\ SubSeq(s \o t, 1, Len(s)) = s
         /\ SubSeq(s \o t, Len(s) + 1, Len(s \o t)) = t
  <1>1. /\ s \o t \in Seq(S) /\ Len(s \o t) = Len(s) + Len(t)
        /\ Len(s) \in Nat /\ Len(t) \in Nat
        /\ \A i \in 1 .. Len(s) + Len(t) : (s \o t)[i] \in S
        /\ \A i \in 1 .. Len(s) + Len(t) :
             (s \o t)[i] = IF i <= Len(s) THEN s[i] ELSE t[i - Len(s)]
    BY ConcatProperties, LenProperties, ElementOfSeq
  <1>2. /\ SubSeq(s \o t, 1, Len(s)) \in Seq(S)
        /\ Len(SubSeq(s \o t, 1, Len(s))) = Len(s)
        /\ \A i \in 1 .. Len(s) : SubSeq(s \o t, 1, Len(s))[i] = s[i]
    BY <1>1, SubSeqProperties
  <1>3. /\ SubSeq(s \o t, Len(s) + 1, Len(s) + Len(t)) \in Seq(S)
        /\ Len(SubSeq(s \o t, Len(s) + 1, Len(s) + Len(t))) = Len(t)
        /\ \A i \in 1 .. Len(t) : SubSeq(s \o t, Len(s) + 1, Len(s) + Len(t))[i] = t[i]
    BY <1>1, SubSeqProperties
  <1> QED BY <1>1, <1>2, <1>3, SeqEqual

\* The parts of a sequence of cells are sequences of cells.
LEMMA JoinIn ==
  ASSUME NEW S, NEW T, NEW s \in Seq(S), NEW t \in Seq(S), s \o t \in Seq(T)
  PROVE  s \in Seq(T) /\ t \in Seq(T)
  <1>1. /\ Len(s \o t) = Len(s) + Len(t) /\ Len(s) \in Nat /\ Len(t) \in Nat
        /\ \A i \in 1 .. Len(s) + Len(t) :
             (s \o t)[i] = IF i <= Len(s) THEN s[i] ELSE t[i - Len(s)]
    BY ConcatProperties, LenProperties
  <1>2. \A i \in 1 .. Len(s) + Len(t) : (s \o t)[i] \in T
    BY <1>1, ElementOfSeq
  <1>3. \A i \in 1 .. Len(s) : s[i] \in T
    BY <1>1, <1>2
  <1>4. ASSUME NEW i \in 1 .. Len(t) PROVE t[i] \in T
    <2>1. /\ Len(s) + i \in 1 .. Len(s) + Len(t)
          /\ (s \o t)[Len(s) + i] = t[Len(s) + i - Len(s)]
      BY <1>1
    <2> QED BY <1>1, <1>2, <2>1
  <1>5. s = SubSeq(s, 1, Len(s)) /\ t = SubSeq(t, 1, Len(t))
    BY SubSeqFull
  <1>6. SubSeq(s, 1, Len(s)) \in Seq(T)
    BY <1>1, <1>3, SubSeqProperties
  <1>7. SubSeq(t, 1, Len(t)) \in Seq(T)
    BY <1>1, <1>4, SubSeqProperties
  <1> QED BY <1>5, <1>6, <1>7

\* A sequence up to one element more.
LEMMA OneMore ==
  ASSUME NEW S, NEW s \in Seq(S), NEW n \in Nat, n + 1 <= Len(s)
  PROVE  /\ SubSeq(s, 1, n) \in Seq(S) /\ Len(SubSeq(s, 1, n)) = n /\ s[n + 1] \in S
         /\ SubSeq(s, 1, n + 1) = Append(SubSeq(s, 1, n), s[n + 1])
  <1>1. Len(s) \in Nat /\ \A i \in 1 .. Len(s) : s[i] \in S
    BY LenProperties, ElementOfSeq
  <1>2. /\ SubSeq(s, 1, n) \in Seq(S) /\ Len(SubSeq(s, 1, n)) = n
        /\ \A i \in 1 .. n : SubSeq(s, 1, n)[i] = s[i]
    BY <1>1, SubSeqProperties
  <1>3. n + 1 \in 1 .. Len(s) /\ 1 \in 1 .. Len(s) /\ n + 1 \in 1 .. Len(s)
    BY <1>1
  <1>4. SubSeq(s, 1, n + 1) = SubSeq(s, 1, n + 1 - 1) \o <<s[n + 1]>>
    BY <1>3, SubSeqRecursiveSecond
  <1>5. Append(SubSeq(s, 1, n), s[n + 1]) = SubSeq(s, 1, n) \o <<s[n + 1]>>
    BY <1>1, <1>2, <1>3, AppendIsConcat
  <1> QED BY <1>1, <1>2, <1>3, <1>4, <1>5

-----------------------------------------------------------------------------
(***************************************************************************)
(* Sequences joined (FlattenSeq).                                          *)
(***************************************************************************)
\* The sequences of ws joined up to each of the first n.
IsJoined(f, ws, n) == f = [i \in 1 .. n |-> IF i = 1 THEN ws[i] ELSE f[i - 1] \o ws[i]]

\* Sequences joined one after the other exist, for as many of them as there
\* are.
LEMMA JoinedExists == ASSUME NEW ws PROVE \A n \in Nat : \E f : IsJoined(f, ws, n)
  <1> DEFINE S == {n \in Nat : \E f : IsJoined(f, ws, n)}
  <1>1. 0 \in S
    <2> DEFINE f == [i \in 1 .. 0 |-> <<>>]
    <2>1. IsJoined(f, ws, 0)
      BY DEF IsJoined
    <2> QED BY <2>1
  <1>2. ASSUME NEW n \in Nat, n \in S PROVE n + 1 \in S
    <2>1. PICK f : IsJoined(f, ws, n)
      BY <1>2
    <2> DEFINE g == [i \in 1 .. n + 1 |->
                       IF i = n + 1 THEN (IF i = 1 THEN ws[i] ELSE f[n] \o ws[i]) ELSE f[i]]
    <2>2. ASSUME NEW i \in 1 .. n + 1
          PROVE  g[i] = IF i = 1 THEN ws[i] ELSE g[i - 1] \o ws[i]
      <3>1. CASE i = n + 1
        <4>1. i # 1 => g[i - 1] = f[n]
          BY <3>1
        <4> QED BY <3>1, <4>1
      <3>2. CASE i # n + 1
        <4>1. g[i] = f[i] /\ i \in 1 .. n
          BY <3>2
        <4>2. i # 1 => g[i - 1] = f[i - 1]
          BY <3>2
        <4> HIDE DEF g
        <4> QED BY <2>1, <4>1, <4>2 DEF IsJoined
      <3> QED BY <3>1, <3>2
    <2>3. IsJoined(g, ws, n + 1)
      BY <2>2 DEF IsJoined
    <2>4. n + 1 \in Nat
      OBVIOUS
    <2> HIDE DEF g
    <2> QED BY <2>3, <2>4
  <1> HIDE DEF S
  <1>3. Nat \subseteq S
    BY <1>1, <1>2, SetInduction
  <1> QED BY <1>3 DEF S

\* The join of sequences is what the module's own definition makes of them.
LEMMA FlattenIs ==
  ASSUME NEW ws, Len(ws) \in Nat, Len(ws) # 0
  PROVE  \E f : IsJoined(f, ws, Len(ws)) /\ FlattenSeq(ws) = f[Len(ws)]
  <1>1. \E f : f = [i \in 1 .. Len(ws) |-> IF i = 1 THEN ws[i] ELSE f[i - 1] \o ws[i]]
    BY JoinedExists DEF IsJoined
  <1> QED BY <1>1, Zenon DEF FlattenSeq, IsJoined

\* Two sequences are the same up to m.
Agree(s, t, m) == \A i \in 1 .. m : s[i] = t[i]

\* What is joined up to a place depends on no more than what stands up to it.
LEMMA JoinedSame ==
  ASSUME NEW ws, NEW vs, NEW m \in Nat, NEW n \in Nat, m <= n, Agree(ws, vs, m),
         NEW f, IsJoined(f, ws, m), NEW g, IsJoined(g, vs, n)
  PROVE  Agree(f, g, m)
  <1> DEFINE S == {k \in Nat : k + 1 \in 1 .. m => f[k + 1] = g[k + 1]}
  <1>1. 0 \in S
    BY DEF IsJoined, Agree
  <1>2. ASSUME NEW k \in Nat, k \in S PROVE k + 1 \in S
    <2>1. SUFFICES ASSUME NEW i \in 1 .. m, i = k + 1 + 1 PROVE f[i] = g[i]
      OBVIOUS
    <2>2. i \in 1 .. n /\ i # 1 /\ i - 1 = k + 1 /\ i - 1 \in 1 .. m
      BY <2>1
    <2>3. f[i] = f[i - 1] \o ws[i]
      BY <2>2 DEF IsJoined
    <2>4. g[i] = g[i - 1] \o vs[i]
      BY <2>2 DEF IsJoined, Agree
    <2>5. f[i - 1] = g[i - 1]
      BY <1>2, <2>2
    <2>6. ws[i] = vs[i]
      BY <2>1 DEF Agree
    <2> QED BY <2>3, <2>4, <2>5, <2>6
  <1> HIDE DEF S
  <1>3. Nat \subseteq S
    BY <1>1, <1>2, SetInduction
  <1>4. ASSUME NEW i \in 1 .. m PROVE f[i] = g[i]
    <2>1. i - 1 \in S /\ i - 1 + 1 = i
      BY <1>3
    <2> QED BY <2>1 DEF S
  <1> QED BY <1>4 DEF Agree

\* No sequences join to the empty one.
LEMMA FlattenEmpty == FlattenSeq(<<>>) = <<>>
  BY EmptySeq DEF FlattenSeq

\* One sequence more is joined at the end.
LEMMA FlattenAppend ==
  ASSUME NEW S, NEW ws \in Seq(Seq(S)), NEW w \in Seq(S)
  PROVE  FlattenSeq(Append(ws, w)) = FlattenSeq(ws) \o w
  <1>1. PICK vs : vs = Append(ws, w)
    OBVIOUS
  <1>2. PICK n \in Nat : n = Len(ws)
    BY LenProperties
  <1>3. PICK k \in Nat : k = n + 1
    OBVIOUS
  <1>4. /\ Len(vs) = k /\ k # 0 /\ vs[k] = w
        /\ \A i \in 1 .. n : vs[i] = ws[i]
    BY <1>1, <1>2, <1>3, AppendProperties
  <1>5. PICK g : IsJoined(g, vs, k) /\ FlattenSeq(vs) = g[k]
    BY <1>4, FlattenIs
  <1>6. g[k] = IF k = 1 THEN vs[k] ELSE g[k - 1] \o vs[k]
    <2>1. k \in 1 .. k
      BY <1>4
    <2> QED BY <1>5, <2>1 DEF IsJoined
  <1>7. CASE n = 0
    <2>1. ws = <<>>
      BY <1>2, <1>7, EmptySeq
    <2>2. FlattenSeq(vs) = w
      BY <1>3, <1>4, <1>5, <1>6, <1>7
    <2>3. FlattenSeq(ws) \o w = w
      BY <2>1, FlattenEmpty, ConcatEmptySeq
    <2> QED BY <1>1, <2>2, <2>3
  <1>8. CASE n # 0
    <2>1. PICK f : IsJoined(f, ws, n) /\ FlattenSeq(ws) = f[n]
      BY <1>2, <1>8, FlattenIs
    <2>2. f[n] = g[n]
      <3>1. n <= k /\ Agree(ws, vs, n)
        BY <1>3, <1>4 DEF Agree
      <3>2. Agree(f, g, n)
        BY <1>5, <2>1, <3>1, JoinedSame
      <3> QED BY <1>8, <3>2 DEF Agree
    <2>3. g[k] = g[n] \o w
      <3>1. k # 1 /\ k - 1 = n
        BY <1>3, <1>8
      <3> QED BY <1>4, <1>6, <3>1
    <2> QED BY <1>1, <1>5, <2>1, <2>2, <2>3
  <1> QED BY <1>7, <1>8

\* A join of sequences over a set is a sequence over it.
LEMMA FlattenType ==
  ASSUME NEW S, NEW ws \in Seq(Seq(S))
  PROVE  FlattenSeq(ws) \in Seq(S)
  <1> DEFINE Q == {q \in Seq(Seq(S)) : FlattenSeq(q) \in Seq(S)}
  <1>1. <<>> \in Q
    BY FlattenEmpty, EmptySeq
  <1>2. ASSUME NEW q \in Seq(Seq(S)), NEW w \in Seq(S), q \in Q PROVE Append(q, w) \in Q
    BY <1>2, FlattenAppend, AppendProperties, ConcatProperties
  <1> HIDE DEF Q
  <1>3. Seq(Seq(S)) \subseteq Q
    BY <1>1, <1>2, SeqInduction
  <1> QED BY <1>3 DEF Q

\* Joined sequences of cells are sequences of cells, each.
LEMMA FlattenIn ==
  ASSUME NEW S, NEW T, NEW ws \in Seq(Seq(S)), FlattenSeq(ws) \in Seq(T)
  PROVE  \A i \in 1 .. Len(ws) : ws[i] \in Seq(T)
  <1> DEFINE Q == {q \in Seq(Seq(S)) :
                     FlattenSeq(q) \in Seq(T) => \A i \in 1 .. Len(q) : q[i] \in Seq(T)}
  <1>1. <<>> \in Q
    BY EmptySeq
  <1>2. ASSUME NEW q \in Seq(Seq(S)), NEW w \in Seq(S), q \in Q PROVE Append(q, w) \in Q
    <2>1. /\ Append(q, w) \in Seq(Seq(S)) /\ Len(Append(q, w)) = Len(q) + 1 /\ Len(q) \in Nat
          /\ \A i \in 1 .. Len(q) : Append(q, w)[i] = q[i]
          /\ Append(q, w)[Len(q) + 1] = w
      BY AppendProperties, LenProperties
    <2> SUFFICES ASSUME FlattenSeq(Append(q, w)) \in Seq(T), NEW i \in 1 .. Len(q) + 1
                 PROVE  Append(q, w)[i] \in Seq(T)
      BY <2>1
    <2>2. FlattenSeq(q) \in Seq(T) /\ w \in Seq(T)
      <3>1. FlattenSeq(q) \o w \in Seq(T)
        BY FlattenAppend
      <3>2. FlattenSeq(q) \in Seq(S)
        BY FlattenType
      <3> QED BY <3>1, <3>2, JoinIn
    <2> QED BY <1>2, <2>1, <2>2
  <1> HIDE DEF Q
  <1>3. Seq(Seq(S)) \subseteq Q
    BY <1>1, <1>2, SeqInduction
  <1> QED BY <1>3 DEF Q

\* Joining is the same in two parts.
LEMMA FlattenJoin ==
  ASSUME NEW S, NEW ws \in Seq(Seq(S)), NEW vs \in Seq(Seq(S))
  PROVE  FlattenSeq(ws \o vs) = FlattenSeq(ws) \o FlattenSeq(vs)
  <1> DEFINE Q == {q \in Seq(Seq(S)) : FlattenSeq(ws \o q) = FlattenSeq(ws) \o FlattenSeq(q)}
  <1>1. <<>> \in Q
    BY FlattenEmpty, FlattenType, EmptySeq, ConcatEmptySeq
  <1>2. ASSUME NEW q \in Seq(Seq(S)), NEW w \in Seq(S), q \in Q PROVE Append(q, w) \in Q
    <2>1. ws \o Append(q, w) = Append(ws \o q, w)
      <3>1. Append(q, w) = q \o <<w>> /\ <<w>> \in Seq(Seq(S)) /\ ws \o q \in Seq(Seq(S))
        BY AppendIsConcat, ConcatProperties
      <3>2. Append(ws \o q, w) = (ws \o q) \o <<w>>
        BY <3>1, AppendIsConcat
      <3> QED BY <3>1, <3>2, ConcatAssociative
    <2>2. FlattenSeq(ws \o Append(q, w)) = FlattenSeq(ws \o q) \o w
      BY <2>1, FlattenAppend, ConcatProperties
    <2>3. FlattenSeq(Append(q, w)) = FlattenSeq(q) \o w
      BY FlattenAppend
    <2>4. FlattenSeq(ws) \in Seq(S) /\ FlattenSeq(q) \in Seq(S)
      BY FlattenType
    <2>5. FlattenSeq(ws \o q) = FlattenSeq(ws) \o FlattenSeq(q)
      BY <1>2
    <2>6. (FlattenSeq(ws) \o FlattenSeq(q)) \o w = FlattenSeq(ws) \o (FlattenSeq(q) \o w)
      BY <2>4, ConcatAssociative
    <2> QED BY <2>2, <2>3, <2>5, <2>6, AppendProperties
  <1> HIDE DEF Q
  <1>3. Seq(Seq(S)) \subseteq Q
    BY <1>1, <1>2, SeqInduction
  <1> QED BY <1>3 DEF Q

-----------------------------------------------------------------------------
(***************************************************************************)
(* Readers.  A reader is a function of what is left of a wire.             *)
(***************************************************************************)
LEMMA GotIs ==
  /\ ~Failed.ok
  /\ \A v, rest : Got(v, rest).ok /\ Got(v, rest).value = v /\ Got(v, rest).rest = rest
  /\ \A v, rest : Got(v, rest) # Failed
  BY DEF Got, Failed

\* What f reads is of T, and what is left is a wire; and it reads the same when
\* more follows.
ReadsOf(f, T, s) ==
  \/ f[s] = Failed
  \/ \E v \in T, rest \in Wires :
       /\ f[s] = Got(v, rest)
       /\ \A x \in Wires : f[s \o x] = Got(v, rest \o x)

Reads(f, T) == \A s \in Wires : ReadsOf(f, T, s)

\* f reads v off the wire w, and leaves what follows it.
Back(f, v, w) == \A rest \in Wires : f[w \o rest] = Got(v, rest)

\* Wires are closed under joining, which may be grouped in any way, and a cell
\* is one.
LEMMA WiresJoin ==
  /\ <<>> \in Wires
  /\ \A s, t \in Wires : s \o t \in Wires
  /\ \A s, t, u \in Wires : (s \o t) \o u = s \o (t \o u)
  /\ \A s \in Wires : s \o <<>> = s /\ <<>> \o s = s
  /\ \A c \in Cells : <<c>> \in Wires
  <1>1. <<>> \in Wires
    BY EmptySeq DEF Wires
  <1>2. \A s, t \in Wires : s \o t \in Wires
    BY ConcatProperties DEF Wires
  <1>3. \A s, t, u \in Wires : (s \o t) \o u = s \o (t \o u)
    BY ConcatAssociative DEF Wires
  <1>4. \A s \in Wires : s \o <<>> = s /\ <<>> \o s = s
    BY ConcatEmptySeq DEF Wires
  <1>5. \A c \in Cells : <<c>> \in Wires
    BY DEF Wires
  <1> QED BY <1>1, <1>2, <1>3, <1>4, <1>5

\* A cell is read off the front (u8, u32 and the other fixed fields), and
\* nothing off no bytes.
LEMMA readCellOf ==
  /\ readCell(<<>>) = Failed
  /\ \A c \in Cells, s \in Wires : readCell(<<c>> \o s) = Got(c, s)
  <1>1. readCell(<<>>) = Failed
    BY DEF readCell
  <1>2. ASSUME NEW c \in Cells, NEW s \in Wires PROVE readCell(<<c>> \o s) = Got(c, s)
    <2>1. PICK w : w = <<c>> \o s
      OBVIOUS
    <2>2. s \in Seq(Cells)
      BY DEF Wires
    <2>4. <<c>> \o s # <<>> /\ Head(<<c>> \o s) = c /\ Tail(<<c>> \o s) = s
      BY <2>2, ConsParts
    <2>3. readCell(w) = Got(c, s)
      BY <2>1, <2>4, Zenon DEF readCell
    <2> QED BY <2>1, <2>3
  <1> QED BY <1>1, <1>2

\* Wires joined one after the other, in either grouping.
LEMMA WiresAssoc ==
  ASSUME NEW s \in Wires, NEW t \in Wires, NEW u \in Wires
  PROVE  (s \o t) \o u = s \o (t \o u)
  BY WiresJoin

Assoc(s, t, u) == (s \o t) \o u = s \o (t \o u)

LEMMA WiresAssocs == ASSUME NEW s \in Wires, NEW t \in Wires, NEW u \in Wires PROVE Assoc(s, t, u)
  BY WiresAssoc DEF Assoc

\* Wires join to a wire.
LEMMA WireJoined ==
  ASSUME NEW s \in Wires, NEW t \in Wires
  PROVE  s \o t \in Wires
  BY WiresJoin

\* Every wire is empty or a cell before a wire.
LEMMA WireCases ==
  ASSUME NEW s \in Wires, s # <<>>
  PROVE  \E c \in Cells, t \in Wires :
           s = <<c>> \o t /\ \A x \in Wires : s \o x = <<c>> \o (t \o x)
  <1>1. PICK c \in Cells, t \in Wires : s = <<c>> \o t
    BY HeadFirst DEF Wires
  <1>2. ASSUME NEW x \in Wires PROVE s \o x = <<c>> \o (t \o x)
    BY <1>1, WiresJoin
  <1> QED BY <1>1, <1>2

\* Its first cell and the rest, and no more of it.
LEMMA WireHead ==
  ASSUME NEW s \in Wires, s # <<>>
  PROVE  \E c \in Cells, t \in Wires : s = <<c>> \o t
  BY HeadFirst DEF Wires

\* A cell is read alike whatever follows it.
LEMMA readCellReads == Reads([s \in Wires |-> readCell(s)], Cells)
  <1> DEFINE f == [s \in Wires |-> readCell(s)]
  <1> SUFFICES ASSUME NEW s \in Wires PROVE ReadsOf(f, Cells, s)
    BY DEF Reads
  <1>1. CASE s = <<>>
    BY <1>1, readCellOf DEF ReadsOf
  <1>2. CASE s # <<>>
    <2>1. PICK c \in Cells, t \in Wires :
            s = <<c>> \o t /\ \A x \in Wires : s \o x = <<c>> \o (t \o x)
      BY <1>2, WireCases
    <2>2. f[s] = Got(c, t)
      BY <2>1, readCellOf
    <2>3. ASSUME NEW x \in Wires PROVE f[s \o x] = Got(c, t \o x)
      <3>1. s \o x \in Wires /\ t \o x \in Wires
        BY WiresJoin
      <3> QED BY <2>1, <3>1, readCellOf
    <2> HIDE DEF f
    <2> QED BY <2>2, <2>3 DEF ReadsOf
  <1> QED BY <1>1, <1>2


\* f reads with g, then with what h gives for what was read.
FollowedBy(f, g, h, T) ==
  \A s \in Wires :
    /\ g[s] = Failed => f[s] = Failed
    /\ \A v \in T, rest \in Wires : g[s] = Got(v, rest) => f[s] = h[v][rest]

\* Two fields read one after the other are read alike whatever follows them.
LEMMA ThenReads ==
  ASSUME NEW f, NEW g, NEW h, NEW T, NEW U,
         FollowedBy(f, g, h, T), Reads(g, T), \A v \in T : Reads(h[v], U)
  PROVE  Reads(f, U)
  <1> SUFFICES ASSUME NEW s \in Wires PROVE ReadsOf(f, U, s)
    BY DEF Reads
  <1>1. CASE g[s] = Failed
    <2>1. f[s] = Failed
      BY <1>1 DEF FollowedBy
    <2> QED BY <2>1 DEF ReadsOf
  <1>2. CASE g[s] # Failed
    <2>1. ReadsOf(g, T, s)
      BY DEF Reads
    <2>2. PICK v \in T, rest \in Wires :
            g[s] = Got(v, rest) /\ \A x \in Wires : g[s \o x] = Got(v, rest \o x)
      BY <1>2, <2>1 DEF ReadsOf
    <2>3. f[s] = h[v][rest]
      BY <2>2 DEF FollowedBy
    <2>4. ASSUME NEW x \in Wires PROVE f[s \o x] = h[v][rest \o x]
      <3>1. s \o x \in Wires /\ rest \o x \in Wires
        BY WiresJoin
      <3> QED BY <2>2, <3>1 DEF FollowedBy
    <2>5. ReadsOf(h[v], U, rest)
      BY DEF Reads
    <2>6. CASE h[v][rest] = Failed
      BY <2>3, <2>6 DEF ReadsOf
    <2>7. CASE h[v][rest] # Failed
      <3>1. PICK u \in U, left \in Wires :
              h[v][rest] = Got(u, left) /\ \A x \in Wires : h[v][rest \o x] = Got(u, left \o x)
        BY <2>5, <2>7 DEF ReadsOf
      <3> QED BY <2>3, <2>4, <3>1 DEF ReadsOf
    <2> QED BY <2>6, <2>7
  <1> QED BY <1>1, <1>2

\* Two fields written one after the other are read back.
LEMMA ThenBack ==
  ASSUME NEW f, NEW g, NEW h, NEW T, NEW v \in T, NEW u, NEW w \in Wires, NEW z \in Wires,
         FollowedBy(f, g, h, T), Back(g, v, w), Back(h[v], u, z)
  PROVE  Back(f, u, w \o z)
  <1> SUFFICES ASSUME NEW rest \in Wires PROVE f[(w \o z) \o rest] = Got(u, rest)
    BY DEF Back
  <1>1. z \o rest \in Wires /\ w \o (z \o rest) \in Wires /\ (w \o z) \o rest = w \o (z \o rest)
    BY WiresJoin
  <1>2. g[w \o (z \o rest)] = Got(v, z \o rest)
    BY <1>1 DEF Back
  <1>3. f[w \o (z \o rest)] = h[v][z \o rest]
    BY <1>1, <1>2 DEF FollowedBy
  <1>4. h[v][z \o rest] = Got(u, rest)
    BY DEF Back
  <1> QED BY <1>1, <1>3, <1>4

\* f makes of what g reads what m says.
MadeOf(f, g, m, T) ==
  \A s \in Wires :
    /\ g[s] = Failed => f[s] = Failed
    /\ \A v \in T, rest \in Wires : g[s] = Got(v, rest) => f[s] = Got(m[v], rest)

\* What is made of a field is read alike whatever follows it.
LEMMA MadeReads ==
  ASSUME NEW f, NEW g, NEW m, NEW T, NEW U,
         MadeOf(f, g, m, T), Reads(g, T), \A v \in T : m[v] \in U
  PROVE  Reads(f, U)
  <1> SUFFICES ASSUME NEW s \in Wires PROVE ReadsOf(f, U, s)
    BY DEF Reads
  <1>1. CASE g[s] = Failed
    <2>1. f[s] = Failed
      BY <1>1 DEF MadeOf
    <2> QED BY <2>1 DEF ReadsOf
  <1>2. CASE g[s] # Failed
    <2>1. ReadsOf(g, T, s)
      BY DEF Reads
    <2>2. PICK v \in T, rest \in Wires :
            g[s] = Got(v, rest) /\ \A x \in Wires : g[s \o x] = Got(v, rest \o x)
      BY <1>2, <2>1 DEF ReadsOf
    <2>3. f[s] = Got(m[v], rest)
      BY <2>2 DEF MadeOf
    <2>4. ASSUME NEW x \in Wires PROVE f[s \o x] = Got(m[v], rest \o x)
      <3>1. s \o x \in Wires /\ rest \o x \in Wires
        BY WiresJoin
      <3> QED BY <2>2, <3>1 DEF MadeOf
    <2> QED BY <2>3, <2>4 DEF ReadsOf
  <1> QED BY <1>1, <1>2

\* What is made of a field is read back where the field is.
LEMMA MadeBack ==
  ASSUME NEW f, NEW g, NEW m, NEW T, NEW v \in T, NEW w \in Wires,
         MadeOf(f, g, m, T), Back(g, v, w)
  PROVE  Back(f, m[v], w)
  <1> SUFFICES ASSUME NEW rest \in Wires PROVE f[w \o rest] = Got(m[v], rest)
    BY DEF Back
  <1>1. w \o rest \in Wires
    BY WiresJoin
  <1>2. g[w \o rest] = Got(v, rest)
    BY DEF Back
  <1> QED BY <1>1, <1>2 DEF MadeOf

\* f reads a tag, then with what h gives for what the tag stands for.
Tagged(f, tags, h) ==
  /\ f[<<>>] = Failed
  /\ \A c \in Cells, rest \in Wires :
       /\ (\A t \in DOMAIN tags : tags[t] # c) => f[<<c>> \o rest] = Failed
       /\ \A t \in DOMAIN tags : tags[t] = c => f[<<c>> \o rest] = h[t][rest]

\* A tag and what its kind consists of are read alike whatever follows them.
LEMMA TaggedReads ==
  ASSUME NEW f, NEW tags, NEW h, NEW U,
         Tagged(f, tags, h), \A t \in DOMAIN tags : Reads(h[t], U)
  PROVE  Reads(f, U)
  <1> SUFFICES ASSUME NEW s \in Wires PROVE ReadsOf(f, U, s)
    BY DEF Reads
  <1>1. CASE s = <<>>
    BY <1>1 DEF ReadsOf, Tagged
  <1>2. CASE s # <<>>
    <2>1. PICK c \in Cells, rest \in Wires :
            s = <<c>> \o rest /\ \A x \in Wires : s \o x = <<c>> \o (rest \o x)
      BY <1>2, WireCases
    <2>2. CASE \A t \in DOMAIN tags : tags[t] # c
      <3>1. f[s] = Failed
        BY <2>1, <2>2 DEF Tagged
      <3> QED BY <3>1 DEF ReadsOf
    <2>3. CASE \E t \in DOMAIN tags : tags[t] = c
      <3>1. PICK t \in DOMAIN tags : tags[t] = c
        BY <2>3
      <3>2. f[s] = h[t][rest]
        BY <2>1, <3>1 DEF Tagged
      <3>3. ASSUME NEW x \in Wires PROVE f[s \o x] = h[t][rest \o x]
        <4>1. rest \o x \in Wires
          BY WiresJoin
        <4>2. f[<<c>> \o (rest \o x)] = h[t][rest \o x]
          BY <3>1, <4>1 DEF Tagged
        <4> QED BY <2>1, <4>2
      <3>4. ReadsOf(h[t], U, rest)
        BY DEF Reads
      <3>5. CASE h[t][rest] = Failed
        BY <3>2, <3>5 DEF ReadsOf
      <3>6. CASE h[t][rest] # Failed
        <4>1. PICK u \in U, left \in Wires :
                h[t][rest] = Got(u, left) /\ \A x \in Wires : h[t][rest \o x] = Got(u, left \o x)
          BY <3>4, <3>6 DEF ReadsOf
        <4> QED BY <3>2, <3>3, <4>1 DEF ReadsOf
      <3> QED BY <3>5, <3>6
    <2> QED BY <2>2, <2>3
  <1> QED BY <1>1, <1>2

\* A tag and what is written of its kind are read back.
LEMMA TaggedBack ==
  ASSUME NEW f, NEW tags, NEW h, NEW t \in DOMAIN tags, NEW v, NEW w \in Wires,
         tags[t] \in Cells, Tagged(f, tags, h), Back(h[t], v, w)
  PROVE  Back(f, v, <<tags[t]>> \o w)
  <1> SUFFICES ASSUME NEW rest \in Wires PROVE f[(<<tags[t]>> \o w) \o rest] = Got(v, rest)
    BY DEF Back
  <1>1. (<<tags[t]>> \o w) \o rest = <<tags[t]>> \o (w \o rest) /\ w \o rest \in Wires
    BY WiresJoin
  <1>2. f[<<tags[t]>> \o (w \o rest)] = h[t][w \o rest]
    BY <1>1 DEF Tagged
  <1>3. h[t][w \o rest] = Got(v, rest)
    BY DEF Back
  <1> QED BY <1>1, <1>2, <1>3

\* More may be said of the same than what was read of it.
LEMMA ReadsMore ==
  ASSUME NEW f, NEW T, NEW U, Reads(f, T), T \subseteq U
  PROVE  Reads(f, U)
  BY DEF Reads, ReadsOf

\* Reading nothing, a value stands there already; and failing.
LEMMA PutReads ==
  ASSUME NEW U, NEW u \in U
  PROVE  /\ Reads([s \in Wires |-> Got(u, s)], U)
         /\ Back([s \in Wires |-> Got(u, s)], u, <<>>)
  BY WiresJoin DEF Reads, ReadsOf, Back

\* A reader that refuses everything reads nothing.
LEMMA FailReads ==
  ASSUME NEW U
  PROVE  Reads([s \in Wires |-> Failed], U)
  BY DEF Reads, ReadsOf

-----------------------------------------------------------------------------
(***************************************************************************)
(* The primitives.                                                         *)
(***************************************************************************)
\* What a cell holds.
LEMMA CellsAre ==
  /\ Half \in Nat /\ Half > 1 /\ Width = 2 * Half /\ Top = Width - 1
  /\ Cells = 0 .. Width - 1 /\ Signed = (-Half) .. (Half - 1)
  /\ 0 \in Cells /\ 1 \in Cells /\ Top \in Cells /\ Top # 0 /\ Top # 1
  /\ Cells \subseteq Nat
  BY WireAssumption DEF Width, Top, Cells, Signed

\* A signed field is read back (i64Inverted), and every cell is the field of a
\* number.
LEMMA readSignedReads ==
  /\ Reads([s \in Wires |-> readSigned(s)], Signed)
  /\ \A n \in Signed : <<i64Inverted(n)>> \in Wires
                       /\ Back([s \in Wires |-> readSigned(s)], n, <<i64Inverted(n)>>)
  <1> DEFINE f == [s \in Wires |-> readSigned(s)]
             g == [s \in Wires |-> readCell(s)]
             m == [c \in Cells |-> c - Half]
  <1>1. MadeOf(f, g, m, Cells)
    BY GotIs DEF MadeOf, readSigned, As
  <1>2. Reads(g, Cells)
    BY readCellReads
  <1>3. \A c \in Cells : m[c] \in Signed
    BY CellsAre
  <1>4. ASSUME NEW n \in Signed PROVE <<i64Inverted(n)>> \in Wires /\ Back(f, n, <<i64Inverted(n)>>)
    <2>1. i64Inverted(n) \in Cells /\ m[i64Inverted(n)] = n
      BY CellsAre DEF i64Inverted
    <2>2. <<i64Inverted(n)>> \in Wires
      BY <2>1, WiresJoin
    <2>3. Back(g, i64Inverted(n), <<i64Inverted(n)>>)
      BY <2>1, <2>2, WiresJoin, readCellOf DEF Back
    <2> HIDE DEF f, g, m
    <2> QED BY <1>1, <2>1, <2>2, <2>3, MadeBack
  <1>5. Reads(f, Signed)
    <2> HIDE DEF f, g, m
    <2> QED BY <1>1, <1>2, <1>3, MadeReads
  <1> QED BY <1>4, <1>5

\* A mantissa in two's complement is read back (i128), and every cell is one.
LEMMA readMantissaReads ==
  /\ Reads([s \in Wires |-> readMantissa(s)], Signed)
  /\ \A n \in Signed : <<i128(n)>> \in Wires
                       /\ Back([s \in Wires |-> readMantissa(s)], n, <<i128(n)>>)
  <1> DEFINE f == [s \in Wires |-> readMantissa(s)]
             g == [s \in Wires |-> readCell(s)]
             m == [n \in Cells |-> IF n >= Half THEN n - Width ELSE n]
  <1>1. MadeOf(f, g, m, Cells)
    BY GotIs DEF MadeOf, readMantissa, As
  <1>2. Reads(g, Cells)
    BY readCellReads
  <1>3. \A c \in Cells : m[c] \in Signed
    BY CellsAre
  <1>4. ASSUME NEW n \in Signed PROVE <<i128(n)>> \in Wires /\ Back(f, n, <<i128(n)>>)
    <2>1. i128(n) \in Cells /\ m[i128(n)] = n
      BY CellsAre DEF i128
    <2>2. <<i128(n)>> \in Wires
      BY <2>1, WiresJoin
    <2>3. Back(g, i128(n), <<i128(n)>>)
      BY <2>1, <2>2, WiresJoin, readCellOf DEF Back
    <2> HIDE DEF f, g, m
    <2> QED BY <1>1, <2>1, <2>2, <2>3, MadeBack
  <1>5. Reads(f, Signed)
    <2> HIDE DEF f, g, m
    <2> QED BY <1>1, <1>2, <1>3, MadeReads
  <1> QED BY <1>4, <1>5

\* A sequence is its first n elements before the others.
LEMMA SplitAt ==
  ASSUME NEW S, NEW s \in Seq(S), NEW n \in Nat, n <= Len(s)
  PROVE  /\ SubSeq(s, 1, n) \in Seq(S) /\ Len(SubSeq(s, 1, n)) = n
         /\ SubSeq(s, n + 1, Len(s)) \in Seq(S)
         /\ s = SubSeq(s, 1, n) \o SubSeq(s, n + 1, Len(s))
  <1> DEFINE a == SubSeq(s, 1, n)
             b == SubSeq(s, n + 1, Len(s))
  <1>1. Len(s) \in Nat /\ \A i \in 1 .. Len(s) : s[i] \in S
    BY LenProperties, ElementOfSeq
  <1>2. a \in Seq(S) /\ Len(a) = n /\ \A i \in 1 .. n : a[i] = s[i]
    BY <1>1, SubSeqProperties
  <1>3. /\ b \in Seq(S) /\ Len(b) = Len(s) - n
        /\ \A i \in 1 .. Len(s) - n : b[i] = s[n + i]
    <2>1. /\ b \in Seq(S) /\ Len(b) = Len(s) - n
          /\ \A i \in 1 .. Len(s) - (n + 1) + 1 : b[i] = s[n + 1 + i - 1]
      BY <1>1, SubSeqProperties
    <2>2. ASSUME NEW i \in 1 .. Len(s) - n PROVE b[i] = s[n + i]
      <3>1. n + 1 + i - 1 = n + i /\ i \in 1 .. Len(s) - (n + 1) + 1
        BY <1>1
      <3> HIDE DEF b
      <3> QED BY <2>1, <3>1
    <2> QED BY <2>1, <2>2
  <1> HIDE DEF a, b
  <1>4. /\ a \o b \in Seq(S) /\ Len(a \o b) = Len(s)
        /\ \A i \in 1 .. Len(s) : (a \o b)[i] = s[i]
    <2>1. /\ a \o b \in Seq(S) /\ Len(a \o b) = n + (Len(s) - n)
          /\ \A i \in 1 .. n + (Len(s) - n) : (a \o b)[i] = IF i <= n THEN a[i] ELSE b[i - n]
      BY <1>2, <1>3, ConcatProperties
    <2>2. ASSUME NEW i \in 1 .. Len(s) PROVE (a \o b)[i] = s[i]
      <3>1. CASE i <= n
        BY <1>1, <1>2, <2>1, <3>1
      <3>2. CASE ~(i <= n)
        <4>1. i - n \in 1 .. Len(s) - n /\ n + (i - n) = i /\ i \in 1 .. n + (Len(s) - n)
          BY <1>1, <3>2
        <4> QED BY <1>3, <2>1, <3>2, <4>1
      <3> QED BY <3>1, <3>2
    <2> QED BY <1>1, <2>1, <2>2
  <1>5. s = a \o b
    BY <1>4, SeqEqual
  <1> QED BY <1>2, <1>3, <1>5 DEF a, b

\* So many cells are read, if they are there.
LEMMA readFixedOf ==
  ASSUME NEW b \in Wires, NEW s \in Wires
  PROVE  readFixed(Len(b), b \o s) = Got(b, s)
  <1>1. b \in Seq(Cells) /\ s \in Seq(Cells)
    BY DEF Wires
  <1>2. Len(b \o s) = Len(b) + Len(s) /\ Len(b) \in Nat /\ Len(s) \in Nat
    BY <1>1, ConcatProperties, LenProperties
  <1>3. SubSeq(b \o s, 1, Len(b)) = b /\ SubSeq(b \o s, Len(b) + 1, Len(b \o s)) = s
    BY <1>1, JoinParts
  <1>4. ~(Len(b \o s) < Len(b))
    BY <1>2
  <1> QED BY <1>3, <1>4 DEF readFixed

\* A number of bytes is read back (fixed), and nothing off fewer.
LEMMA readFixedReads ==
  ASSUME NEW n \in Nat
  PROVE  /\ Reads([s \in Wires |-> readFixed(n, s)], Wires)
         /\ \A b \in Wires : Len(b) = n => Back([s \in Wires |-> readFixed(n, s)], b, b)
  <1> DEFINE f == [s \in Wires |-> readFixed(n, s)]
  <1>1. ASSUME NEW b \in Wires, NEW t \in Wires, Len(b) = n PROVE f[b \o t] = Got(b, t)
    BY <1>1, readFixedOf, WiresJoin
  <1>2. ASSUME NEW s \in Wires PROVE ReadsOf(f, Wires, s)
    <2>1. CASE Len(s) < n
      BY <2>1 DEF readFixed, ReadsOf
    <2>2. CASE ~(Len(s) < n)
      <3>1. s \in Seq(Cells)
        BY DEF Wires
      <3>2. n <= Len(s)
        BY <2>2, <3>1, LenProperties
      <3>3. PICK b \in Wires, t \in Wires : s = b \o t /\ Len(b) = n
        <4>1. /\ SubSeq(s, 1, n) \in Wires /\ Len(SubSeq(s, 1, n)) = n
              /\ SubSeq(s, n + 1, Len(s)) \in Wires
              /\ s = SubSeq(s, 1, n) \o SubSeq(s, n + 1, Len(s))
          BY <3>1, <3>2, SplitAt DEF Wires
        <4> QED BY <4>1
      <3>4. f[s] = Got(b, t)
        BY <1>1, <3>3
      <3>5. ASSUME NEW x \in Wires PROVE f[s \o x] = Got(b, t \o x)
        <4>1. s \o x = b \o (t \o x) /\ t \o x \in Wires
          BY <3>3, WiresJoin
        <4> HIDE DEF f
        <4> QED BY <1>1, <3>3, <4>1
      <3> HIDE DEF f
      <3> QED BY <3>4, <3>5 DEF ReadsOf
    <2> QED BY <2>1, <2>2
  <1>3. Reads(f, Wires)
    <2> HIDE DEF f
    <2> QED BY <1>2 DEF Reads
  <1>4. ASSUME NEW b \in Wires, Len(b) = n PROVE Back(f, b, b)
    <2> HIDE DEF f
    <2> QED BY <1>1, <1>4 DEF Back
  <1> QED BY <1>3, <1>4

\* Bytes behind their length are read back (lenbytes), if a cell can hold the
\* length.
LEMMA readLenbytesReads ==
  /\ Reads([s \in Wires |-> readLenbytes(s)], {b \in Wires : Len(b) \in Cells})
  /\ \A b \in Wires : Len(b) \in Cells => lenbytes(b) \in Wires
                        /\ Back([s \in Wires |-> readLenbytes(s)], b, lenbytes(b))
  <1> DEFINE f == [s \in Wires |-> readLenbytes(s)]
             g == [s \in Wires |-> readCell(s)]
             h == [n \in Cells |-> [s \in Wires |-> readFixed(n, s)]]
             T == {b \in Wires : Len(b) \in Cells}
  <1>1. FollowedBy(f, g, h, Cells)
    BY GotIs DEF FollowedBy, readLenbytes, Then
  <1>2. Reads(g, Cells)
    BY readCellReads
  <1>3. ASSUME NEW n \in Cells PROVE Reads(h[n], T)
    <2>1. n \in Nat
      BY CellsAre
    <2>2. Reads(h[n], Wires)
      BY <2>1, readFixedReads
    <2>3. ASSUME NEW s \in Wires, h[n][s] # Failed,
                 NEW v \in Wires, NEW rest, h[n][s] = Got(v, rest)
          PROVE  v \in T
      <3>1. ~(Len(s) < n) /\ s \in Seq(Cells)
        BY <2>3 DEF readFixed, Wires
      <3>2. v = SubSeq(s, 1, n)
        <4>1. h[n][s] = Got(SubSeq(s, 1, n), SubSeq(s, n + 1, Len(s)))
          BY <3>1 DEF readFixed
        <4> HIDE DEF h
        <4>2. Got(v, rest).value = v
          BY GotIs
        <4>3. Got(SubSeq(s, 1, n), SubSeq(s, n + 1, Len(s))).value = SubSeq(s, 1, n)
          BY GotIs
        <4> QED BY <2>3, <4>1, <4>2, <4>3
      <3>3. n <= Len(s)
        BY <2>1, <3>1, LenProperties
      <3>4. Len(v) = n
        BY <2>1, <3>1, <3>2, <3>3, SplitAt
      <3> QED BY <3>4
    <2> HIDE DEF h, T
    <2>4. ASSUME NEW s \in Wires PROVE ReadsOf(h[n], T, s)
      <3>1. CASE h[n][s] = Failed
        BY <3>1 DEF ReadsOf
      <3>2. CASE h[n][s] # Failed
        <4>1. ReadsOf(h[n], Wires, s)
          BY <2>2 DEF Reads
        <4>2. PICK v \in Wires, rest \in Wires :
                h[n][s] = Got(v, rest) /\ \A x \in Wires : h[n][s \o x] = Got(v, rest \o x)
          BY <3>2, <4>1 DEF ReadsOf
        <4>3. v \in T
          BY <2>3, <3>2, <4>2
        <4> QED BY <4>2, <4>3 DEF ReadsOf
      <3> QED BY <3>1, <3>2
    <2> QED BY <2>4 DEF Reads
  <1>4. ASSUME NEW b \in Wires, Len(b) \in Cells
        PROVE  lenbytes(b) \in Wires /\ Back(f, b, lenbytes(b))
    <2>1. <<Len(b)>> \in Wires /\ Len(b) \in Nat
      BY <1>4, WiresJoin, CellsAre
    <2>2. Back(g, Len(b), <<Len(b)>>)
      BY <1>4, <2>1, WiresJoin, readCellOf DEF Back
    <2>3. Back(h[Len(b)], b, b)
      BY <1>4, <2>1, readFixedReads
    <2>4. <<Len(b)>> \o b \in Wires
      BY <2>1, WiresJoin
    <2> HIDE DEF f, g, h
    <2>5. Back(f, b, <<Len(b)>> \o b)
      BY <1>1, <1>4, <2>1, <2>2, <2>3, ThenBack
    <2> QED BY <2>4, <2>5 DEF lenbytes
  <1>5. Reads(f, T)
    <2> HIDE DEF f, g, h, T
    <2> QED BY <1>1, <1>2, <1>3, ThenReads
  <1> QED BY <1>4, <1>5

\* The sequences that a length in a cell can announce.
Short == {b \in Wires : Len(b) \in Cells}

ShortTexts == {b \in Texts : Len(b) \in Cells}

\* A text is read back (text), and bytes that are none are refused.
LEMMA readTextReads ==
  /\ Reads([s \in Wires |-> readText(s)], ShortTexts)
  /\ \A b \in ShortTexts : lenbytes(b) \in Wires
                             /\ Back([s \in Wires |-> readText(s)], b, lenbytes(b))
  <1> DEFINE f == [s \in Wires |-> readText(s)]
             g == [s \in Wires |-> readLenbytes(s)]
             h == [b \in Short |-> [s \in Wires |-> IF Utf8(b) THEN Got(b, s) ELSE Failed]]
  <1>1. FollowedBy(f, g, h, Short)
    BY GotIs DEF FollowedBy, readText, Then
  <1>2. Reads(g, Short)
    BY readLenbytesReads DEF Short
  <1>3. ASSUME NEW b \in Short PROVE Reads(h[b], ShortTexts)
    <2>1. CASE Utf8(b)
      <3>1. b \in ShortTexts
        BY <2>1 DEF Short, ShortTexts, Texts
      <3>2. h[b] = [s \in Wires |-> Got(b, s)]
        BY <2>1
      <3> HIDE DEF h
      <3> QED BY <3>1, <3>2, PutReads
    <2>2. CASE ~Utf8(b)
      <3>1. h[b] = [s \in Wires |-> Failed]
        BY <2>2
      <3> HIDE DEF h
      <3> QED BY <3>1, FailReads
    <2> QED BY <2>1, <2>2
  <1>4. ASSUME NEW b \in ShortTexts PROVE lenbytes(b) \in Wires /\ Back(f, b, lenbytes(b))
    <2>1. b \in Wires /\ Len(b) \in Cells /\ Utf8(b) /\ b \in Short
      BY DEF ShortTexts, Texts, Short
    <2>2. lenbytes(b) \in Wires /\ Back(g, b, lenbytes(b))
      BY <2>1, readLenbytesReads
    <2>3. h[b] = [s \in Wires |-> Got(b, s)]
      BY <2>1
    <2> HIDE DEF f, g, h
    <2>4. Back(h[b], b, <<>>)
      BY <2>3, PutReads
    <2>5. Back(f, b, lenbytes(b) \o <<>>)
      BY <1>1, <2>1, <2>2, <2>4, WiresJoin, ThenBack
    <2> QED BY <2>2, <2>5, WiresJoin
  <1>5. Reads(f, ShortTexts)
    <2> HIDE DEF f, g, h
    <2> QED BY <1>1, <1>2, <1>3, ThenReads
  <1> QED BY <1>4, <1>5

-----------------------------------------------------------------------------
(***************************************************************************)
(* Escaped bytes.                                                          *)
(***************************************************************************)
\* One cell, escaped.
Esc(c) == IF c = 0 THEN <<0, Top>> ELSE <<c>>

\* The escaped form of a cell is one cell or two.
LEMMA EscIs == \A c \in Cells : Esc(c) \in Wires
  <1>1. <<0, Top>> \in Wires
    BY CellsAre DEF Wires
  <1> QED BY <1>1, WiresJoin DEF Esc

\* Bytes are escaped cell by cell.
LEMMA EscapedJoin ==
  ASSUME NEW p \in Wires, NEW q \in Wires
  PROVE  Escaped(p) \in Wires /\ Escaped(p \o q) = Escaped(p) \o Escaped(q)
  <1> DEFINE E(s) == [i \in 1 .. Len(s) |-> Esc(s[i])]
  <1>1. /\ p \in Seq(Cells) /\ q \in Seq(Cells) /\ p \o q \in Seq(Cells)
        /\ Len(p) \in Nat /\ Len(q) \in Nat /\ Len(p \o q) = Len(p) + Len(q)
        /\ \A i \in 1 .. Len(p) + Len(q) : (p \o q)[i] = IF i <= Len(p) THEN p[i] ELSE q[i - Len(p)]
    BY ConcatProperties, LenProperties DEF Wires
  <1>2. ASSUME NEW s \in Seq(Cells) PROVE E(s) \in Seq(Wires) /\ Len(E(s)) = Len(s)
    <2>1. Len(s) \in Nat
      BY LenProperties
    <2>2. \A i \in 1 .. Len(s) : Esc(s[i]) \in Wires
      BY EscIs, ElementOfSeq
    <2> QED BY <2>1, <2>2
  <1>3. ASSUME NEW s PROVE Escaped(s) = FlattenSeq(E(s))
    BY Zenon DEF Escaped, Esc
  <1>4. E(p \o q) = E(p) \o E(q)
    <2>1. /\ E(p) \o E(q) \in Seq(Wires) /\ Len(E(p) \o E(q)) = Len(p) + Len(q)
          /\ \A i \in 1 .. Len(p) + Len(q) :
               (E(p) \o E(q))[i] = IF i <= Len(p) THEN E(p)[i] ELSE E(q)[i - Len(p)]
      <3>1. E(p) \in Seq(Wires) /\ Len(E(p)) = Len(p) /\ E(q) \in Seq(Wires) /\ Len(E(q)) = Len(q)
        BY <1>1, <1>2
      <3>2. PICK a : a = E(p)
        OBVIOUS
      <3>3. PICK b : b = E(q)
        OBVIOUS
      <3>4. a \in Seq(Wires) /\ Len(a) = Len(p) /\ b \in Seq(Wires) /\ Len(b) = Len(q)
        BY <3>1, <3>2, <3>3
      <3>5. /\ a \o b \in Seq(Wires) /\ Len(a \o b) = Len(p) + Len(q)
            /\ \A i \in 1 .. Len(p) + Len(q) :
                 (a \o b)[i] = IF i <= Len(p) THEN a[i] ELSE b[i - Len(p)]
        <4>1. a \in Seq(Wires) /\ b \in Seq(Wires)
          BY <3>4
        <4>2. /\ a \o b \in Seq(Wires) /\ Len(a \o b) = Len(a) + Len(b)
              /\ \A i \in 1 .. Len(a) + Len(b) :
                   (a \o b)[i] = IF i <= Len(a) THEN a[i] ELSE b[i - Len(a)]
          BY <4>1, ConcatProperties
        <4> QED BY <3>4, <4>2
      <3> HIDE DEF E
      <3> QED BY <3>2, <3>3, <3>5
    <2>2. E(p \o q) \in Seq(Wires) /\ Len(E(p \o q)) = Len(p) + Len(q)
      BY <1>1, <1>2
    <2>3. ASSUME NEW i \in 1 .. Len(p) + Len(q) PROVE E(p \o q)[i] = (E(p) \o E(q))[i]
      <3>1. E(p \o q)[i] = Esc((p \o q)[i])
        BY <1>1
      <3>2. CASE i <= Len(p)
        <4>1. E(p)[i] = Esc(p[i])
          BY <1>1, <3>2
        <4> HIDE DEF E
        <4> QED BY <1>1, <2>1, <3>1, <3>2, <4>1
      <3>3. CASE ~(i <= Len(p))
        <4>1. E(q)[i - Len(p)] = Esc(q[i - Len(p)])
          BY <1>1, <3>3
        <4> HIDE DEF E
        <4> QED BY <1>1, <2>1, <3>1, <3>3, <4>1
      <3> QED BY <3>2, <3>3
    <2> HIDE DEF E
    <2> QED BY <2>1, <2>2, <2>3, SeqEqual
  <1>5. /\ E(p) \in Seq(Seq(Cells)) /\ E(q) \in Seq(Seq(Cells))
        /\ FlattenSeq(E(p) \o E(q)) = FlattenSeq(E(p)) \o FlattenSeq(E(q))
        /\ FlattenSeq(E(p)) \in Seq(Cells)
    <2>1. E(p) \in Seq(Seq(Cells)) /\ E(q) \in Seq(Seq(Cells))
      BY <1>1, <1>2 DEF Wires
    <2> HIDE DEF E
    <2> QED BY <2>1, FlattenJoin, FlattenType
  <1> HIDE DEF E
  <1> QED BY <1>3, <1>4, <1>5 DEF Wires

\* One cell's escaped form is that of the cell.
LEMMA EscapedOne ==
  ASSUME NEW c \in Cells
  PROVE  Escaped(<<c>>) = Esc(c)
  <1>1. Escaped(<<c>>) = FlattenSeq(<<Esc(c)>>)
    <2>1. [i \in 1 .. Len(<<c>>) |-> IF <<c>>[i] = 0 THEN <<0, Top>> ELSE <<<<c>>[i]>>] = <<Esc(c)>>
      BY DEF Esc
    <2> QED BY <2>1, Zenon DEF Escaped
  <1>2. <<Esc(c)>> = Append(<<>>, Esc(c))
    OBVIOUS
  <1>3. FlattenSeq(Append(<<>>, Esc(c))) = FlattenSeq(<<>>) \o Esc(c)
    <2>1. Esc(c) \in Seq(Cells)
      BY EscIs DEF Wires
    <2>2. <<>> \in Seq(Seq(Cells))
      BY EmptySeq
    <2> QED BY <2>1, <2>2, FlattenAppend
  <1>4. FlattenSeq(<<>>) \o Esc(c) = Esc(c)
    BY FlattenEmpty, EscIs, WiresJoin
  <1> QED BY <1>1, <1>2, <1>3, <1>4

\* Nothing is escaped to nothing.
LEMMA EscapedNone == Escaped(<<>>) = <<>>
  <1>1. [i \in 1 .. Len(<<>>) |-> IF <<>>[i] = 0 THEN <<0, Top>> ELSE <<<<>>[i]>>] = <<>>
    BY EmptySeq
  <1> QED BY <1>1, FlattenEmpty, Zenon DEF Escaped

\* What n cells read as, given the first two of them and what is behind those,
\* and what one and two cells less read as.
LastAt(n, c, d, rest, one, two) ==
  IF n = 0 THEN Failed
  ELSE IF c # 0 THEN As(one, LAMBDA b : <<c>> \o b)
  ELSE IF n = 1 THEN Failed
  ELSE IF d = Top THEN As(two, LAMBDA b : <<0>> \o b)
  ELSE IF d = 1 THEN Got(<<>>, rest)
  ELSE Failed

LastStep(s, n, one, two) ==
  LET i == Len(s) - n + 1
  IN  LastAt(n, s[i], s[i + 1], SubSeq(s, i + 2, Len(s)), one, two)

IsLast(f, s, k) == f = [n \in 0 .. k |-> LastStep(s, n, f[n - 1], f[n - 2])]

\* What is read of the last cells, in each of the cases of varbytes.
LEMMA LastAtOf ==
  ASSUME NEW n, NEW c, NEW d, NEW rest, NEW one, NEW two,
         NEW c1, NEW d1, NEW rest1, NEW one1, NEW two1,
         n # 0 => c = c1 /\ one = one1,
         n # 0 /\ n # 1 => d = d1 /\ rest = rest1 /\ two = two1
  PROVE  LastAt(n, c, d, rest, one, two) = LastAt(n, c1, d1, rest1, one1, two1)
  <1>1. CASE n = 0
    BY <1>1 DEF LastAt
  <1>2. CASE n = 1
    <2>1. c = c1 /\ one = one1 /\ n # 0
      BY <1>2
    <2>2. ~(n # 1)
      BY <1>2
    <2>3. LastAt(n, c, d, rest, one, two) = LastAt(n, c, d1, rest1, one, two1)
      BY <2>1, <2>2, Zenon DEF LastAt
    <2> QED BY <2>1, <2>3
  <1>3. CASE n # 0 /\ n # 1
    <2>1. c = c1 /\ one = one1 /\ d = d1 /\ rest = rest1 /\ two = two1
      BY <1>3
    <2> QED BY <2>1
  <1> QED BY <1>1, <1>2, <1>3

\* A step of the reader looks at what was read of the last cells but one and
\* two.
LEMMA LastStepOf ==
  ASSUME NEW s, NEW n, NEW one, NEW two, NEW one1, NEW two1,
         n # 0 => one = one1, n # 0 /\ n # 1 => two = two1
  PROVE  LastStep(s, n, one, two) = LastStep(s, n, one1, two1)
  BY LastAtOf DEF LastStep

\* What is read of the last n cells exists for each n.
LEMMA LastExists == ASSUME NEW s PROVE \A k \in Nat : \E f : IsLast(f, s, k)
  <1> DEFINE S == {k \in Nat : \E f : IsLast(f, s, k)}
  <1>1. 0 \in S
    <2> DEFINE f == [n \in 0 .. 0 |-> Failed]
    <2>1. ASSUME NEW n \in 0 .. 0 PROVE LastStep(s, n, f[n - 1], f[n - 2]) = Failed
      <3>1. n = 0
        OBVIOUS
      <3> QED BY <3>1 DEF LastStep, LastAt
    <2>2. IsLast(f, s, 0)
      BY <2>1 DEF IsLast
    <2> QED BY <2>2
  <1>2. ASSUME NEW k \in Nat, k \in S PROVE k + 1 \in S
    <2>1. PICK f : IsLast(f, s, k)
      BY <1>2
    <2> DEFINE g == [n \in 0 .. k + 1 |->
                       IF n = k + 1 THEN LastStep(s, n, f[k], f[k - 1]) ELSE f[n]]
    <2>2. ASSUME NEW n \in 0 .. k + 1
          PROVE  g[n] = LastStep(s, n, g[n - 1], g[n - 2])
      <3>1. CASE n = k + 1
        <4>1. g[n] = LastStep(s, n, f[k], f[k - 1])
          BY <3>1
        <4>2. g[n - 1] = f[k]
          BY <3>1
        <4>3. n # 0 /\ n # 1 => g[n - 2] = f[k - 1]
          BY <3>1
        <4> HIDE DEF g
        <4>4. LastStep(s, n, f[k], f[k - 1]) = LastStep(s, n, g[n - 1], g[n - 2])
          BY <4>2, <4>3, LastStepOf
        <4> QED BY <4>1, <4>4
      <3>2. CASE n # k + 1
        <4>1. g[n] = f[n] /\ n \in 0 .. k
          BY <3>2
        <4>2. (n # 0 => g[n - 1] = f[n - 1]) /\ (n # 0 /\ n # 1 => g[n - 2] = f[n - 2])
          BY <3>2
        <4> HIDE DEF g
        <4>3. f[n] = LastStep(s, n, f[n - 1], f[n - 2])
          BY <2>1, <4>1 DEF IsLast
        <4>4. LastStep(s, n, f[n - 1], f[n - 2]) = LastStep(s, n, g[n - 1], g[n - 2])
          BY <4>2, LastStepOf
        <4> QED BY <4>1, <4>3, <4>4
      <3> QED BY <3>1, <3>2
    <2>3. IsLast(g, s, k + 1)
      BY <2>2 DEF IsLast
    <2>4. k + 1 \in Nat
      OBVIOUS
    <2> HIDE DEF g
    <2> QED BY <2>3, <2>4
  <1> HIDE DEF S
  <1>3. Nat \subseteq S
    BY <1>1, <1>2, SetInduction
  <1> QED BY <1>3 DEF S

\* The reader of escaped bytes reads all of the last cells.
LEMMA readVarbytesIs ==
  ASSUME NEW s, Len(s) \in Nat
  PROVE  \E f : IsLast(f, s, Len(s)) /\ readVarbytes(s) = f[Len(s)]
  <1>1. \E f : IsLast(f, s, Len(s))
    BY LastExists
  <1> QED BY <1>1, Zenon DEF readVarbytes, IsLast, LastStep, LastAt

\* A cell in front moves every other one by one place.
LEMMA Moved ==
  ASSUME NEW c \in Cells, NEW t \in Wires
  PROVE  /\ Len(<<c>> \o t) = Len(t) + 1 /\ Len(t) \in Nat
         /\ (<<c>> \o t)[1] = c
         /\ \A i \in 1 .. Len(t) : (<<c>> \o t)[i + 1] = t[i]
         /\ \A i \in 1 .. Len(t) + 1 :
              SubSeq(<<c>> \o t, i + 1, Len(t) + 1) = SubSeq(t, i, Len(t))
  <1>1. PICK s : s = <<c>> \o t
    OBVIOUS
  <1>2. t \in Seq(Cells) /\ Len(t) \in Nat
    BY LenProperties DEF Wires
  <1>3. s \in Seq(Cells) /\ Len(s) = Len(t) + 1 /\ s[1] = c
    BY <1>1, <1>2, ConsParts
  <1>4. \A i \in 1 .. Len(t) : s[i + 1] = t[i]
    <2>1. <<c>> \in Seq(Cells) /\ Len(<<c>>) = 1
      OBVIOUS
    <2>2. \A i \in 1 .. 1 + Len(t) : s[i] = IF i <= 1 THEN <<c>>[i] ELSE t[i - 1]
      BY <1>1, <1>2, <2>1, ConcatProperties
    <2> QED BY <1>2, <2>2
  <1>5. ASSUME NEW i \in 1 .. Len(t) + 1
        PROVE  SubSeq(s, i + 1, Len(t) + 1) = SubSeq(t, i, Len(t))
    <2>1. \A j \in 1 .. Len(t) : s[j] \in Cells /\ t[j] \in Cells
      BY <1>2, <1>3, ElementOfSeq
    <2>2. /\ SubSeq(t, i, Len(t)) \in Seq(Cells) /\ Len(SubSeq(t, i, Len(t))) = Len(t) - i + 1
          /\ \A j \in 1 .. Len(t) - i + 1 : SubSeq(t, i, Len(t))[j] = t[i + j - 1]
      BY <1>2, SubSeqProperties
    <2>3. /\ SubSeq(s, i + 1, Len(t) + 1) \in Seq(Cells)
          /\ Len(SubSeq(s, i + 1, Len(t) + 1)) = Len(t) - i + 1
          /\ \A j \in 1 .. Len(t) - i + 1 : SubSeq(s, i + 1, Len(t) + 1)[j] = s[i + 1 + j - 1]
      BY <1>2, <1>3, SubSeqProperties
    <2>4. ASSUME NEW j \in 1 .. Len(t) - i + 1 PROVE s[i + 1 + j - 1] = t[i + j - 1]
      <3>1. i + j - 1 \in 1 .. Len(t) /\ i + j - 1 + 1 = i + 1 + j - 1
        BY <1>2
      <3> QED BY <1>4, <3>1
    <2>5. PICK a : a = SubSeq(s, i + 1, Len(t) + 1)
      OBVIOUS
    <2>6. PICK b : b = SubSeq(t, i, Len(t))
      OBVIOUS
    <2>7. /\ a \in Seq(Cells) /\ b \in Seq(Cells) /\ Len(a) = Len(t) - i + 1
          /\ Len(b) = Len(a) /\ \A j \in 1 .. Len(a) : a[j] = b[j]
      BY <2>2, <2>3, <2>4, <2>5, <2>6
    <2>8. a = b
      BY <2>7, SeqEqual
    <2> QED BY <2>5, <2>6, <2>8
  <1> QED BY <1>1, <1>2, <1>3, <1>4, <1>5

\* A step of the reader is the same when a cell stands before them all.
LEMMA LastStepMoved ==
  ASSUME NEW c \in Cells, NEW t \in Wires, NEW n \in 0 .. Len(t), NEW one, NEW two
  PROVE  LastStep(<<c>> \o t, n, one, two) = LastStep(t, n, one, two)
  <1>1. PICK s : s = <<c>> \o t
    OBVIOUS
  <1>2. PICK i : i = Len(t) - n + 1
    OBVIOUS
  <1>3. /\ Len(s) = Len(t) + 1 /\ Len(t) \in Nat
        /\ \A j \in 1 .. Len(t) : s[j + 1] = t[j]
        /\ \A j \in 1 .. Len(t) + 1 : SubSeq(s, j + 1, Len(t) + 1) = SubSeq(t, j, Len(t))
    BY <1>1, Moved
  <1>4. Len(s) - n + 1 = i + 1
    BY <1>2, <1>3
  <1>5. n # 0 => s[i + 1] = t[i]
    BY <1>2, <1>3
  <1>6. n # 0 /\ n # 1 => s[i + 1 + 1] = t[i + 1]
                          /\ SubSeq(s, i + 1 + 2, Len(s)) = SubSeq(t, i + 2, Len(t))
    <2> SUFFICES ASSUME n # 0, n # 1
                 PROVE  s[i + 1 + 1] = t[i + 1]
                        /\ SubSeq(s, i + 1 + 2, Len(s)) = SubSeq(t, i + 2, Len(t))
      OBVIOUS
    <2>1. i + 1 \in 1 .. Len(t) /\ i + 2 \in 1 .. Len(t) + 1 /\ i + 1 + 2 = (i + 2) + 1
      BY <1>2, <1>3
    <2> QED BY <1>3, <2>1
  <1>7. LastStep(s, n, one, two) =
          LastAt(n, s[i + 1], s[i + 1 + 1], SubSeq(s, i + 1 + 2, Len(s)), one, two)
    BY <1>4 DEF LastStep
  <1>8. LastStep(t, n, one, two) = LastAt(n, t[i], t[i + 1], SubSeq(t, i + 2, Len(t)), one, two)
    BY <1>2 DEF LastStep
  <1>9. LastAt(n, s[i + 1], s[i + 1 + 1], SubSeq(s, i + 1 + 2, Len(s)), one, two)
          = LastAt(n, t[i], t[i + 1], SubSeq(t, i + 2, Len(t)), one, two)
    <2>1. PICK p, q, r : p = s[i + 1] /\ q = s[i + 1 + 1] /\ r = SubSeq(s, i + 1 + 2, Len(s))
      OBVIOUS
    <2>2. PICK p1, q1, r1 : p1 = t[i] /\ q1 = t[i + 1] /\ r1 = SubSeq(t, i + 2, Len(t))
      OBVIOUS
    <2>3. (n # 0 => p = p1) /\ (n # 0 /\ n # 1 => q = q1 /\ r = r1)
      BY <1>5, <1>6, <2>1, <2>2
    <2>4. LastAt(n, p, q, r, one, two) = LastAt(n, p1, q1, r1, one, two)
      BY <2>3, LastAtOf
    <2> QED BY <2>1, <2>2, <2>4
  <1> QED BY <1>1, <1>7, <1>8, <1>9

\* The last cells read the same whatever stands in front.
LEMMA LastMoved ==
  ASSUME NEW c \in Cells, NEW t \in Wires,
         NEW f, IsLast(f, <<c>> \o t, Len(t) + 1), NEW g, IsLast(g, t, Len(t))
  PROVE  \A n \in 0 .. Len(t) : f[n] = g[n]
  <1> DEFINE S == {k \in Nat : \A n \in 0 .. Len(t) : n <= k => f[n] = g[n]}
  <1>1. Len(t) \in Nat
    BY Moved
  <1>2. ASSUME NEW n \in 0 .. Len(t)
        PROVE  /\ f[n] = LastStep(t, n, f[n - 1], f[n - 2])
               /\ g[n] = LastStep(t, n, g[n - 1], g[n - 2])
    <2>1. n \in 0 .. Len(t) + 1
      BY <1>1
    <2>2. f[n] = LastStep(<<c>> \o t, n, f[n - 1], f[n - 2])
      BY <2>1 DEF IsLast
    <2>3. LastStep(<<c>> \o t, n, f[n - 1], f[n - 2]) = LastStep(t, n, f[n - 1], f[n - 2])
      BY LastStepMoved
    <2>4. g[n] = LastStep(t, n, g[n - 1], g[n - 2])
      BY DEF IsLast
    <2> QED BY <2>2, <2>3, <2>4
  <1>3. 0 \in S
    <2>1. ASSUME NEW n \in 0 .. Len(t), n <= 0 PROVE f[n] = g[n]
      <3>1. n = 0
        BY <1>1, <2>1
      <3>2. LastStep(t, n, f[n - 1], f[n - 2]) = LastStep(t, n, g[n - 1], g[n - 2])
        BY <3>1, LastStepOf
      <3> QED BY <1>2, <3>2
    <2> QED BY <2>1
  <1>4. ASSUME NEW k \in Nat, k \in S PROVE k + 1 \in S
    <2>1. ASSUME NEW n \in 0 .. Len(t), n <= k + 1 PROVE f[n] = g[n]
      <3>1. n # 0 => f[n - 1] = g[n - 1]
        BY <1>1, <1>4, <2>1
      <3>2. n # 0 /\ n # 1 => f[n - 2] = g[n - 2]
        BY <1>1, <1>4, <2>1
      <3>3. LastStep(t, n, f[n - 1], f[n - 2]) = LastStep(t, n, g[n - 1], g[n - 2])
        BY <3>1, <3>2, LastStepOf
      <3> QED BY <1>2, <3>3
    <2> QED BY <2>1
  <1> HIDE DEF S
  <1>5. Nat \subseteq S
    BY <1>3, <1>4, SetInduction
  <1>6. Len(t) \in S
    BY <1>1, <1>5
  <1> QED BY <1>1, <1>6 DEF S

\* What escaped bytes read as, by the first cells of them.
LEMMA readVarbytesNone == readVarbytes(<<>>) = Failed
  <1>1. Len(<<>>) \in Nat /\ Len(<<>>) = 0
    BY EmptySeq
  <1>2. PICK f : IsLast(f, <<>>, Len(<<>>)) /\ readVarbytes(<<>>) = f[Len(<<>>)]
    BY <1>1, readVarbytesIs
  <1>3. f[0] = LastStep(<<>>, 0, f[0 - 1], f[0 - 2])
    <2>1. 0 \in 0 .. Len(<<>>)
      BY <1>1
    <2> QED BY <1>2, <2>1 DEF IsLast
  <1>4. LastStep(<<>>, 0, f[0 - 1], f[0 - 2]) = Failed
    BY DEF LastStep, LastAt
  <1> QED BY <1>1, <1>2, <1>3, <1>4

\* The steps behind a cell are those of what follows it.
LEMMA readVarbytesBehind ==
  ASSUME NEW c \in Cells, NEW t \in Wires
  PROVE  \E f, g : /\ IsLast(f, <<c>> \o t, Len(t) + 1) /\ readVarbytes(<<c>> \o t) = f[Len(t) + 1]
                   /\ IsLast(g, t, Len(t)) /\ readVarbytes(t) = g[Len(t)]
                   /\ \A n \in 0 .. Len(t) : f[n] = g[n]
  <1>1. Len(<<c>> \o t) = Len(t) + 1 /\ Len(t) \in Nat
    BY Moved
  <1>2. PICK g : IsLast(g, t, Len(t)) /\ readVarbytes(t) = g[Len(t)]
    BY <1>1, readVarbytesIs
  <1>3. PICK f : IsLast(f, <<c>> \o t, Len(t) + 1) /\ readVarbytes(<<c>> \o t) = f[Len(t) + 1]
    <2>1. PICK s : s = <<c>> \o t
      OBVIOUS
    <2>2. Len(s) \in Nat
      BY <1>1, <2>1
    <2>3. \E f : IsLast(f, s, Len(s)) /\ readVarbytes(s) = f[Len(s)]
      BY <2>2, readVarbytesIs
    <2> QED BY <1>1, <2>1, <2>3
  <1>4. \A n \in 0 .. Len(t) : f[n] = g[n]
    BY <1>2, <1>3, LastMoved
  <1> QED BY <1>2, <1>3, <1>4

\* A cell that is not zero stands for itself.
LEMMA readVarbytesOne ==
  ASSUME NEW c \in Cells, c # 0, NEW t \in Wires
  PROVE  readVarbytes(<<c>> \o t) = As(readVarbytes(t), LAMBDA b : <<c>> \o b)
  <1>1. PICK s : s = <<c>> \o t
    OBVIOUS
  <1>2. PICK n \in Nat : n = Len(t) + 1
    BY Moved
  <1>3. n # 0 /\ n - 1 = Len(t) /\ Len(s) = n /\ s[1] = c /\ Len(s) - n + 1 = 1 /\ Len(t) \in Nat
    BY <1>1, <1>2, Moved
  <1>4. PICK f, g : /\ IsLast(f, s, n) /\ readVarbytes(s) = f[n]
                    /\ readVarbytes(t) = g[Len(t)]
                    /\ \A i \in 0 .. Len(t) : f[i] = g[i]
    <2>1. \E f, g : /\ IsLast(f, <<c>> \o t, Len(t) + 1) /\ readVarbytes(<<c>> \o t) = f[Len(t) + 1]
                    /\ IsLast(g, t, Len(t)) /\ readVarbytes(t) = g[Len(t)]
                    /\ \A i \in 0 .. Len(t) : f[i] = g[i]
      BY readVarbytesBehind
    <2> QED BY <1>1, <1>2, <2>1
  <1>5. f[n] = LastStep(s, n, f[n - 1], f[n - 2])
    <2>1. n \in 0 .. n
      OBVIOUS
    <2> QED BY <1>4, <2>1 DEF IsLast
  <1>6. LastStep(s, n, f[n - 1], f[n - 2])
          = LastAt(n, s[1], s[1 + 1], SubSeq(s, 1 + 2, Len(s)), f[n - 1], f[n - 2])
    BY <1>3 DEF LastStep
  <1>7. LastAt(n, c, s[1 + 1], SubSeq(s, 1 + 2, Len(s)), f[n - 1], f[n - 2])
          = As(f[n - 1], LAMBDA b : <<c>> \o b)
    BY <1>3, Zenon DEF LastAt
  <1>8. f[n - 1] = readVarbytes(t)
    <2>1. Len(t) \in 0 .. Len(t)
      BY <1>3
    <2> QED BY <1>3, <1>4, <2>1
  <1>9. readVarbytes(s) = As(f[n - 1], LAMBDA b : <<c>> \o b)
    BY <1>3, <1>4, <1>5, <1>6, <1>7, Zenon
  <1> QED BY <1>1, <1>8, <1>9, Zenon

\* Behind a zero stands the escape, the mark of the end, or nothing that is
\* accepted.
LEMMA readVarbytesZero ==
  /\ readVarbytes(<<0>>) = Failed
  /\ \A d \in Cells, t \in Wires :
       readVarbytes(<<0>> \o (<<d>> \o t)) =
         IF d = Top THEN As(readVarbytes(t), LAMBDA b : <<0>> \o b)
         ELSE IF d = 1 THEN Got(<<>>, t)
         ELSE Failed
  <1>1. readVarbytes(<<0>>) = Failed
    <2>1. PICK s : s = <<0>>
      OBVIOUS
    <2>2. Len(s) = 1 /\ s[1] = 0 /\ Len(s) \in Nat
      BY <2>1
    <2>3. PICK f : IsLast(f, s, Len(s)) /\ readVarbytes(s) = f[Len(s)]
      BY <2>2, readVarbytesIs
    <2>4. f[1] = LastStep(s, 1, f[1 - 1], f[1 - 2])
      <3>1. 1 \in 0 .. Len(s)
        BY <2>2
      <3> QED BY <2>3, <3>1 DEF IsLast
    <2>5. LastStep(s, 1, f[1 - 1], f[1 - 2])
            = LastAt(1, s[1], s[1 + 1], SubSeq(s, 1 + 2, Len(s)), f[1 - 1], f[1 - 2])
      <3>1. Len(s) - 1 + 1 = 1
        BY <2>2
      <3> QED BY <3>1 DEF LastStep
    <2>6. LastAt(1, s[1], s[1 + 1], SubSeq(s, 1 + 2, Len(s)), f[1 - 1], f[1 - 2]) = Failed
      BY <2>2 DEF LastAt
    <2> QED BY <2>1, <2>2, <2>3, <2>4, <2>5, <2>6
  <1>2. ASSUME NEW d \in Cells, NEW t \in Wires
        PROVE  readVarbytes(<<0>> \o (<<d>> \o t)) =
                 IF d = Top THEN As(readVarbytes(t), LAMBDA b : <<0>> \o b)
                 ELSE IF d = 1 THEN Got(<<>>, t)
                 ELSE Failed
    <2>1. PICK u \in Wires : u = <<d>> \o t
      BY WiresJoin
    <2>2. PICK s : s = <<0>> \o u
      OBVIOUS
    <2>3. PICK n \in Nat : n = Len(u) + 1
      BY <2>1, Moved
    <2>4. /\ Len(u) = Len(t) + 1 /\ Len(t) \in Nat /\ u[1] = d
          /\ SubSeq(u, 1 + 1, Len(t) + 1) = SubSeq(t, 1, Len(t))
      <3>1. 1 \in 1 .. Len(t) + 1
        BY Moved
      <3> QED BY <2>1, <3>1, Moved
    <2>5. /\ Len(s) = n /\ s[1] = 0 /\ s[1 + 1] = d
          /\ SubSeq(s, 2 + 1, n) = SubSeq(u, 2, Len(u))
      <3>1. 0 \in Cells /\ 1 \in 1 .. Len(u) /\ 2 \in 1 .. Len(u) + 1
        BY <2>4, CellsAre
      <3>2. /\ Len(<<0>> \o u) = Len(u) + 1 /\ (<<0>> \o u)[1] = 0
            /\ (<<0>> \o u)[1 + 1] = u[1]
            /\ SubSeq(<<0>> \o u, 2 + 1, Len(u) + 1) = SubSeq(u, 2, Len(u))
        BY <3>1, Moved
      <3> QED BY <2>2, <2>3, <2>4, <3>2
    <2>6. SubSeq(s, 1 + 2, Len(s)) = t
      <3>1. SubSeq(t, 1, Len(t)) = t
        BY SubSeqFull DEF Wires
      <3> QED BY <2>3, <2>4, <2>5, <3>1
    <2>7. n # 0 /\ n # 1 /\ n - 2 = Len(t) /\ Len(s) - n + 1 = 1
      BY <2>3, <2>4, <2>5
    <2>8. PICK f, g : /\ IsLast(f, s, n) /\ readVarbytes(s) = f[n]
                      /\ IsLast(g, u, Len(u))
                      /\ \A i \in 0 .. Len(u) : f[i] = g[i]
      <3>1. 0 \in Cells
        BY CellsAre
      <3>2. \E f, g : /\ IsLast(f, <<0>> \o u, Len(u) + 1) /\ readVarbytes(<<0>> \o u) = f[Len(u) + 1]
                      /\ IsLast(g, u, Len(u)) /\ readVarbytes(u) = g[Len(u)]
                      /\ \A i \in 0 .. Len(u) : f[i] = g[i]
        BY <3>1, readVarbytesBehind
      <3> QED BY <2>2, <2>3, <3>2
    <2>9. PICK h : IsLast(h, t, Len(t)) /\ readVarbytes(t) = h[Len(t)]
      BY <2>4, readVarbytesIs
    <2>10. f[n - 2] = readVarbytes(t)
      <3>1. IsLast(g, <<d>> \o t, Len(t) + 1)
        BY <2>1, <2>4, <2>8
      <3>2. \A i \in 0 .. Len(t) : g[i] = h[i]
        BY <2>9, <3>1, LastMoved
      <3>3. Len(t) \in 0 .. Len(t) /\ Len(t) \in 0 .. Len(u)
        BY <2>4
      <3> QED BY <2>7, <2>8, <2>9, <3>2, <3>3
    <2>11. f[n] = LastStep(s, n, f[n - 1], f[n - 2])
      <3>1. n \in 0 .. n
        OBVIOUS
      <3> QED BY <2>8, <3>1 DEF IsLast
    <2>12. LastStep(s, n, f[n - 1], f[n - 2])
             = LastAt(n, s[1], s[1 + 1], SubSeq(s, 1 + 2, Len(s)), f[n - 1], f[n - 2])
      BY <2>7 DEF LastStep
    <2>13. readVarbytes(s) = LastAt(n, 0, d, t, f[n - 1], readVarbytes(t))
      BY <2>5, <2>6, <2>8, <2>10, <2>11, <2>12
    <2>14. LastAt(n, 0, d, t, f[n - 1], readVarbytes(t)) =
             IF d = Top THEN As(readVarbytes(t), LAMBDA b : <<0>> \o b)
             ELSE IF d = 1 THEN Got(<<>>, t)
             ELSE Failed
      BY <2>7, Zenon DEF LastAt
    <2> QED BY <2>1, <2>2, <2>13, <2>14, Zenon
  <1> QED BY <1>1, <1>2

\* What is read behind a cell is read alike whatever follows.
LEMMA readVarbytesPut ==
  ASSUME NEW f, NEW c \in Cells, NEW s \in Wires, NEW t \in Wires, ReadsOf(f, Wires, t),
         f[s] = As(f[t], LAMBDA b : <<c>> \o b),
         \A x \in Wires : f[s \o x] = As(f[t \o x], LAMBDA b : <<c>> \o b)
  PROVE  ReadsOf(f, Wires, s)
  <1>1. CASE f[t] = Failed
    <2>1. f[s] = Failed
      BY <1>1, GotIs DEF As
    <2> QED BY <2>1 DEF ReadsOf
  <1>2. CASE f[t] # Failed
    <2>1. PICK b \in Wires, rest \in Wires :
            f[t] = Got(b, rest) /\ \A x \in Wires : f[t \o x] = Got(b, rest \o x)
      BY <1>2 DEF ReadsOf
    <2>2. <<c>> \o b \in Wires
      BY WiresJoin
    <2>3. ASSUME NEW r PROVE As(Got(b, r), LAMBDA v : <<c>> \o v) = Got(<<c>> \o b, r)
      BY DEF As, Got
    <2>4. f[s] = Got(<<c>> \o b, rest)
      BY <2>1, <2>3
    <2>5. ASSUME NEW x \in Wires PROVE f[s \o x] = Got(<<c>> \o b, rest \o x)
      BY <2>1, <2>3
    <2> QED BY <2>2, <2>4, <2>5 DEF ReadsOf
  <1> QED BY <1>1, <1>2

\* Escaped bytes are read back (varbytes), and read alike whatever follows
\* their end.
LEMMA readVarbytesReads ==
  /\ Reads([s \in Wires |-> readVarbytes(s)], Wires)
  /\ \A b \in Wires : varbytes(b) \in Wires
                        /\ Back([s \in Wires |-> readVarbytes(s)], b, varbytes(b))
  <1> DEFINE f == [s \in Wires |-> readVarbytes(s)]
             S == {n \in Nat : \A s \in Wires : Len(s) <= n => ReadsOf(f, Wires, s)}
             B == {n \in Nat : \A b \in Wires : Len(b) = n => Back(f, b, varbytes(b))}
  <1>1. \A s \in Wires : f[s] = readVarbytes(s)
    OBVIOUS
  <1> HIDE DEF f
  <1>2. ReadsOf(f, Wires, <<>>)
    BY <1>1, WiresJoin, readVarbytesNone DEF ReadsOf
  <1>3. \A s \in Wires : Len(s) \in Nat /\ (Len(s) = 0 => s = <<>>)
    BY LenProperties, EmptySeq DEF Wires
  <1>4. ASSUME NEW c \in Cells, c # 0, NEW t \in Wires, ReadsOf(f, Wires, t)
        PROVE  ReadsOf(f, Wires, <<c>> \o t)
    <2>1. <<c>> \o t \in Wires
      BY WiresJoin
    <2>2. f[<<c>> \o t] = As(f[t], LAMBDA b : <<c>> \o b)
      BY <1>1, <1>4, <2>1, readVarbytesOne
    <2>3. ASSUME NEW x \in Wires PROVE f[(<<c>> \o t) \o x] = As(f[t \o x], LAMBDA b : <<c>> \o b)
      <3>1. <<c>> \in Wires /\ t \o x \in Wires
        BY WiresJoin
      <3>2. Assoc(<<c>>, t, x) /\ <<c>> \o (t \o x) \in Wires
        BY <3>1, WiresAssocs, WireJoined
      <3>3. (<<c>> \o t) \o x = <<c>> \o (t \o x)
        BY <3>2, Zenon DEF Assoc
      <3> QED BY <1>1, <1>4, <3>1, <3>2, <3>3, readVarbytesOne
    <2> QED BY <1>4, <2>1, <2>2, <2>3, readVarbytesPut
  <1>5. ASSUME NEW d \in Cells, NEW t \in Wires, ReadsOf(f, Wires, t)
        PROVE  ReadsOf(f, Wires, <<0>> \o (<<d>> \o t))
    <2>1. PICK s \in Wires : s = <<0>> \o (<<d>> \o t)
      BY WiresJoin, CellsAre
    <2>2. ASSUME NEW x \in Wires
          PROVE  s \o x \in Wires /\ t \o x \in Wires /\ s \o x = <<0>> \o (<<d>> \o (t \o x))
      <3>1. <<0>> \in Wires /\ <<d>> \in Wires /\ <<d>> \o t \in Wires
        BY WiresJoin, CellsAre
      <3>2. Assoc(<<0>>, <<d>> \o t, x) /\ Assoc(<<d>>, t, x)
        BY <3>1, WiresAssocs
      <3>3. s \o x = <<0>> \o (<<d>> \o (t \o x))
        BY <2>1, <3>2, Zenon DEF Assoc
      <3>4. s \o x \in Wires /\ t \o x \in Wires
        BY WiresJoin
      <3> QED BY <3>3, <3>4
    <2>3. CASE d = Top
      <3>1. f[s] = As(f[t], LAMBDA b : <<0>> \o b)
        <4>1. readVarbytes(<<0>> \o (<<d>> \o t)) = As(readVarbytes(t), LAMBDA b : <<0>> \o b)
          BY <2>3, readVarbytesZero
        <4> QED BY <1>1, <2>1, <4>1
      <3>2. ASSUME NEW x \in Wires PROVE f[s \o x] = As(f[t \o x], LAMBDA b : <<0>> \o b)
        <4>1. s \o x \in Wires /\ t \o x \in Wires /\ s \o x = <<0>> \o (<<d>> \o (t \o x))
          BY <2>2
        <4>2. readVarbytes(<<0>> \o (<<d>> \o (t \o x))) = As(readVarbytes(t \o x), LAMBDA b : <<0>> \o b)
          BY <2>3, <4>1, readVarbytesZero
        <4> QED BY <1>1, <4>1, <4>2
      <3>3. 0 \in Cells
        BY CellsAre
      <3>4. ReadsOf(f, Wires, s)
        BY <1>5, <3>1, <3>2, <3>3, readVarbytesPut
      <3> QED BY <2>1, <3>4
    <2>4. CASE d # Top /\ d = 1
      <3>1. f[s] = Got(<<>>, t)
        BY <1>1, <2>1, <2>4, readVarbytesZero
      <3>2. ASSUME NEW x \in Wires PROVE f[s \o x] = Got(<<>>, t \o x)
        <4>1. s \o x \in Wires /\ t \o x \in Wires /\ s \o x = <<0>> \o (<<d>> \o (t \o x))
          BY <2>2
        <4>2. readVarbytes(<<0>> \o (<<d>> \o (t \o x))) = Got(<<>>, t \o x)
          BY <2>4, <4>1, readVarbytesZero
        <4> QED BY <1>1, <4>1, <4>2
      <3>3. <<>> \in Wires
        BY WiresJoin
      <3> QED BY <2>1, <3>1, <3>2, <3>3 DEF ReadsOf
    <2>5. CASE d # Top /\ d # 1
      <3>1. f[s] = Failed
        BY <1>1, <2>1, <2>5, readVarbytesZero
      <3> QED BY <2>1, <3>1 DEF ReadsOf
    <2> QED BY <2>3, <2>4, <2>5
  <1>6. ReadsOf(f, Wires, <<0>>)
    <2>1. <<0>> \in Wires
      BY WiresJoin, CellsAre
    <2> QED BY <1>1, <2>1, readVarbytesZero DEF ReadsOf
  <1>7. 0 \in S
    BY <1>2, <1>3
  <1>8. ASSUME NEW n \in Nat, n \in S PROVE n + 1 \in S
    <2> SUFFICES ASSUME NEW s \in Wires, Len(s) <= n + 1 PROVE ReadsOf(f, Wires, s)
      OBVIOUS
    <2>1. CASE s = <<>>
      BY <1>2, <2>1
    <2>2. CASE s # <<>>
      <3>1. PICK c \in Cells, t \in Wires : s = <<c>> \o t
        BY <2>2, WireHead
      <3>2. Len(s) = Len(t) + 1 /\ Len(t) \in Nat
        BY <3>1, Moved
      <3>3. ReadsOf(f, Wires, t)
        BY <1>8, <3>2
      <3>4. CASE c # 0
        BY <1>4, <3>1, <3>3, <3>4
      <3>5. CASE c = 0 /\ t = <<>>
        <4>1. s = <<0>>
          <5>1. <<0>> \in Wires
            BY WiresJoin, CellsAre
          <5> QED BY <3>1, <3>5, <5>1, WiresJoin
        <4> QED BY <1>6, <4>1
      <3>6. CASE c = 0 /\ t # <<>>
        <4>1. PICK d \in Cells, u \in Wires : t = <<d>> \o u
          BY <3>6, WireHead
        <4>2. Len(t) = Len(u) + 1 /\ Len(u) \in Nat
          BY <4>1, Moved
        <4>3. ReadsOf(f, Wires, u)
          BY <1>8, <3>2, <4>2
        <4> QED BY <1>5, <3>1, <3>6, <4>1, <4>3
      <3> QED BY <3>4, <3>5, <3>6
    <2> QED BY <2>1, <2>2
  <1>9. Reads(f, Wires)
    <2> HIDE DEF S
    <2>1. Nat \subseteq S
      BY <1>7, <1>8, SetInduction
    <2>2. ASSUME NEW s \in Wires PROVE ReadsOf(f, Wires, s)
      <3>1. Len(s) \in S /\ Len(s) <= Len(s)
        BY <1>3, <2>1
      <3> QED BY <3>1 DEF S
    <2> QED BY <2>2 DEF Reads
  <1>10. <<0, 1>> \in Wires /\ <<0, 1>> = <<0>> \o <<1>> /\ <<0>> \in Wires /\ <<1>> \in Wires
    BY CellsAre DEF Wires
  <1>11. ASSUME NEW b \in Wires PROVE varbytes(b) \in Wires
    BY <1>10, WiresJoin, EscapedJoin DEF varbytes
  <1>12. 0 \in B
    <2> SUFFICES ASSUME NEW rest \in Wires PROVE f[varbytes(<<>>) \o rest] = Got(<<>>, rest)
      BY <1>3 DEF Back
    <2>1. varbytes(<<>>) = <<0>> \o <<1>>
      BY <1>10, EscapedNone, WiresJoin DEF varbytes
    <2>2. (<<0>> \o <<1>>) \o rest = <<0>> \o (<<1>> \o rest) /\ <<0>> \o (<<1>> \o rest) \in Wires
      BY <1>10, WiresJoin
    <2>3. readVarbytes(<<0>> \o (<<1>> \o rest)) = Got(<<>>, rest)
      BY readVarbytesZero, CellsAre
    <2> QED BY <1>1, <2>1, <2>2, <2>3
  <1>13. ASSUME NEW n \in Nat, n \in B PROVE n + 1 \in B
    <2> SUFFICES ASSUME NEW b \in Wires, Len(b) = n + 1, NEW rest \in Wires
                 PROVE  f[varbytes(b) \o rest] = Got(b, rest)
      BY DEF Back
    <2>1. b # <<>>
      BY EmptySeq
    <2>2. PICK c \in Cells, t \in Wires : b = <<c>> \o t
      BY <2>1, WireHead
    <2>3. Len(t) = n
      BY <2>2, Moved
    <2>4. varbytes(t) \o rest \in Wires /\ f[varbytes(t) \o rest] = Got(t, rest)
      <3>1. Back(f, t, varbytes(t))
        BY <1>13, <2>3
      <3> QED BY <1>11, <3>1, WiresJoin DEF Back
    <2>5. varbytes(b) \o rest = Esc(c) \o (varbytes(t) \o rest)
      <3>1. <<c>> \in Wires /\ Esc(c) \in Wires /\ Escaped(t) \in Wires
        BY WiresJoin, EscIs, EscapedJoin
      <3>2. Escaped(b) = Esc(c) \o Escaped(t)
        <4>1. Escaped(<<c>> \o t) = Escaped(<<c>>) \o Escaped(t)
          BY <3>1, EscapedJoin
        <4> QED BY <2>2, <4>1, EscapedOne
      <3>3. varbytes(b) = Esc(c) \o varbytes(t)
        <4>1. (Esc(c) \o Escaped(t)) \o <<0, 1>> = Esc(c) \o (Escaped(t) \o <<0, 1>>)
          <5>1. PICK end \in Wires : end = <<0, 1>>
            BY <1>10
          <5>2. Assoc(Esc(c), Escaped(t), end)
            BY <3>1, <5>1, WiresAssocs
          <5> QED BY <5>1, <5>2, Zenon DEF Assoc
        <4> QED BY <3>2, <4>1, Zenon DEF varbytes
      <3>4. (Esc(c) \o varbytes(t)) \o rest = Esc(c) \o (varbytes(t) \o rest)
        <4>1. varbytes(t) \in Wires
          BY <1>11
        <4>2. Assoc(Esc(c), varbytes(t), rest)
          BY <3>1, <4>1, WiresAssocs
        <4> QED BY <4>2, Zenon DEF Assoc
      <3> QED BY <3>3, <3>4
    <2>6. ASSUME NEW a PROVE As(Got(t, rest), LAMBDA v : <<a>> \o v) = Got(<<a>> \o t, rest)
      BY DEF As, Got
    <2>7. PICK z \in Wires : z = varbytes(t) \o rest
      BY <2>4
    <2>8. readVarbytes(z) = Got(t, rest)
      BY <1>1, <2>4, <2>7
    <2>9. CASE c # 0
      <3>1. f[<<c>> \o z] = As(readVarbytes(z), LAMBDA v : <<c>> \o v)
        BY <1>1, <2>9, WiresJoin, readVarbytesOne
      <3>2. varbytes(b) \o rest = <<c>> \o z
        BY <2>5, <2>7, <2>9 DEF Esc
      <3> QED BY <2>2, <2>6, <2>8, <3>1, <3>2
    <2>10. CASE c = 0
      <3>1. Top \in Cells /\ <<Top>> \in Wires
        BY CellsAre, WiresJoin
      <3>2. <<0, Top>> = <<0>> \o <<Top>>
        OBVIOUS
      <3>3. varbytes(b) \o rest = <<0>> \o (<<Top>> \o z)
        <4>1. (<<0>> \o <<Top>>) \o z = <<0>> \o (<<Top>> \o z)
          <5>1. Assoc(<<0>>, <<Top>>, z)
            BY <1>10, <3>1, WiresAssocs
          <5> QED BY <5>1, Zenon DEF Assoc
        <4>2. Esc(c) = <<0>> \o <<Top>>
          BY <2>10, <3>2 DEF Esc
        <4> QED BY <2>5, <2>7, <4>1, <4>2
      <3>4. <<0>> \o (<<Top>> \o z) \in Wires
        <4>1. <<Top>> \o z \in Wires
          BY <3>1, WireJoined
        <4> QED BY <1>10, <4>1, WireJoined
      <3>5. f[<<0>> \o (<<Top>> \o z)] = As(readVarbytes(z), LAMBDA v : <<0>> \o v)
        BY <1>1, <3>1, <3>4, readVarbytesZero
      <3> QED BY <2>2, <2>6, <2>8, <2>10, <3>3, <3>5
    <2> QED BY <2>9, <2>10
  <1>14. \A b \in Wires : Back(f, b, varbytes(b))
    <2> HIDE DEF B
    <2>1. Nat \subseteq B
      BY <1>12, <1>13, SetInduction
    <2>2. ASSUME NEW b \in Wires PROVE Back(f, b, varbytes(b))
      <3>1. Len(b) \in B
        BY <1>3, <2>1
      <3> QED BY <3>1 DEF B
    <2> QED BY <2>2
  <1> QED BY <1>9, <1>11, <1>14 DEF f

-----------------------------------------------------------------------------
(***************************************************************************)
(* Items behind their count.                                               *)
(***************************************************************************)
\* One item more.
NextRead(r, item) == Then(r, LAMBDA vs, rest : As(item[rest], LAMBDA v : Append(vs, v)))

IsUpto(f, item, n, s) == f = [i \in 0 .. n |-> IF i = 0 THEN Got(<<>>, s) ELSE NextRead(f[i - 1], item)]

\* What the first items are read as exists for each number of them.
LEMMA UptoExists == ASSUME NEW item, NEW s PROVE \A n \in Nat : \E f : IsUpto(f, item, n, s)
  <1> DEFINE S == {n \in Nat : \E f : IsUpto(f, item, n, s)}
  <1>1. 0 \in S
    <2> DEFINE f == [i \in 0 .. 0 |-> Got(<<>>, s)]
    <2>1. IsUpto(f, item, 0, s)
      BY DEF IsUpto
    <2> QED BY <2>1
  <1>2. ASSUME NEW n \in Nat, n \in S PROVE n + 1 \in S
    <2>1. PICK f : IsUpto(f, item, n, s)
      BY <1>2
    <2> DEFINE g == [i \in 0 .. n + 1 |-> IF i = n + 1 THEN NextRead(f[n], item) ELSE f[i]]
    <2>2. ASSUME NEW i \in 0 .. n + 1
          PROVE  g[i] = IF i = 0 THEN Got(<<>>, s) ELSE NextRead(g[i - 1], item)
      <3>1. CASE i = n + 1
        <4>1. g[i - 1] = f[n] /\ i # 0 /\ g[i] = NextRead(f[n], item)
          BY <3>1
        <4> HIDE DEF g
        <4> QED BY <4>1
      <3>2. CASE i # n + 1
        <4>1. g[i] = f[i] /\ i \in 0 .. n
          BY <3>2
        <4>2. i # 0 => g[i - 1] = f[i - 1]
          BY <3>2
        <4>3. f[i] = IF i = 0 THEN Got(<<>>, s) ELSE NextRead(f[i - 1], item)
          BY <2>1, <4>1 DEF IsUpto
        <4> HIDE DEF g
        <4> QED BY <4>1, <4>2, <4>3
      <3> QED BY <3>1, <3>2
    <2>3. IsUpto(g, item, n + 1, s)
      BY <2>2 DEF IsUpto
    <2>4. n + 1 \in Nat
      OBVIOUS
    <2> HIDE DEF g
    <2> QED BY <2>3, <2>4
  <1> HIDE DEF S
  <1>3. Nat \subseteq S
    BY <1>1, <1>2, SetInduction
  <1> QED BY <1>3 DEF S

\* Items read one after another, as the last of the sequence of what is read.
LEMMA RepeatedIs ==
  ASSUME NEW item, NEW s, NEW n \in Nat
  PROVE  \E f : IsUpto(f, item, n, s) /\ Repeated(item, n, s) = f[n]
  <1>1. \E f : IsUpto(f, item, n, s)
    BY UptoExists
  <1> QED BY <1>1, Zenon DEF Repeated, IsUpto, NextRead

\* The first items are read alike however many follow.
LEMMA UptoSame ==
  ASSUME NEW item, NEW s, NEW n \in Nat, NEW m \in Nat, n <= m,
         NEW f, IsUpto(f, item, n, s), NEW g, IsUpto(g, item, m, s)
  PROVE  f[n] = g[n]
  <1> DEFINE S == {i \in Nat : i <= n => f[i] = g[i]}
  <1>1. 0 \in S
    BY DEF IsUpto
  <1>2. ASSUME NEW i \in Nat, i \in S PROVE i + 1 \in S
    <2> SUFFICES ASSUME NEW k \in Nat, k = i + 1, k <= n PROVE f[k] = g[k]
      OBVIOUS
    <2>1. k \in 0 .. n /\ k \in 0 .. m /\ k # 0 /\ k - 1 = i
      OBVIOUS
    <2>2. f[k] = NextRead(f[k - 1], item)
      BY <2>1 DEF IsUpto
    <2>3. g[k] = NextRead(g[k - 1], item)
      BY <2>1 DEF IsUpto
    <2>4. f[k - 1] = g[k - 1]
      BY <1>2, <2>1
    <2> QED BY <2>2, <2>3, <2>4
  <1> HIDE DEF S
  <1>3. Nat \subseteq S
    BY <1>1, <1>2, SetInduction
  <1>4. n \in S
    BY <1>3
  <1> QED BY <1>4 DEF S

\* None is read off anything, and one more is read behind those before it.
LEMMA RepeatedOf ==
  ASSUME NEW item, NEW s, NEW n \in Nat
  PROVE  /\ Repeated(item, 0, s) = Got(<<>>, s)
         /\ Repeated(item, n + 1, s) = NextRead(Repeated(item, n, s), item)
  <1>1. Repeated(item, 0, s) = Got(<<>>, s)
    <2>1. PICK f : IsUpto(f, item, 0, s) /\ Repeated(item, 0, s) = f[0]
      BY RepeatedIs
    <2> QED BY <2>1 DEF IsUpto
  <1>2. Repeated(item, n + 1, s) = NextRead(Repeated(item, n, s), item)
    <2>1. PICK k \in Nat : k = n + 1
      OBVIOUS
    <2>2. PICK f : IsUpto(f, item, k, s) /\ Repeated(item, k, s) = f[k]
      BY RepeatedIs
    <2>3. PICK g : IsUpto(g, item, n, s) /\ Repeated(item, n, s) = g[n]
      BY RepeatedIs
    <2>4. g[n] = f[n]
      BY <2>1, <2>2, <2>3, UptoSame
    <2>5. k \in 0 .. k /\ k # 0 /\ k - 1 = n
      BY <2>1
    <2>6. f[k] = NextRead(f[k - 1], item)
      BY <2>2, <2>5 DEF IsUpto
    <2> QED BY <2>1, <2>2, <2>3, <2>4, <2>5, <2>6
  <1> QED BY <1>1, <1>2

\* A reader of one item more.
GrownBy(item, vs) == [r \in Wires |-> As(item[r], LAMBDA v : Append(vs, v))]

\* What one item more makes of the items before it.
LEMMA GrownMade ==
  ASSUME NEW item, NEW T, NEW vs
  PROVE  MadeOf(GrownBy(item, vs), item, [v \in T |-> Append(vs, v)], T)
  <1>1. ASSUME NEW v, NEW r PROVE As(Got(v, r), LAMBDA u : Append(vs, u)) = Got(Append(vs, v), r)
    BY DEF As, Got
  <1>2. As(Failed, LAMBDA u : Append(vs, u)) = Failed
    BY GotIs DEF As
  <1> QED BY <1>1, <1>2 DEF MadeOf, GrownBy

\* One item more, behind those already read, is read alike whatever follows.
LEMMA GrownReads ==
  ASSUME NEW item, NEW T, Reads(item, T), NEW n \in Nat, NEW vs \in Seq(T), Len(vs) = n
  PROVE  Reads(GrownBy(item, vs), {us \in Seq(T) : Len(us) = n + 1})
  <1> DEFINE m == [v \in T |-> Append(vs, v)]
  <1>1. MadeOf(GrownBy(item, vs), item, m, T)
    BY GrownMade
  <1>2. PICK U : U = {us \in Seq(T) : Len(us) = n + 1}
    OBVIOUS
  <1>3. \A v \in T : m[v] \in U
    BY <1>2, AppendProperties
  <1> HIDE DEF m
  <1>4. Reads(GrownBy(item, vs), U)
    BY <1>1, <1>3, MadeReads
  <1> QED BY <1>2, <1>4

\* And it is read back.
LEMMA GrownBack ==
  ASSUME NEW item, NEW vs, NEW v, NEW w \in Wires, Back(item, v, w)
  PROVE  Back(GrownBy(item, vs), Append(vs, v), w)
  <1> DEFINE m == [u \in {v} |-> Append(vs, u)]
  <1>1. MadeOf(GrownBy(item, vs), item, m, {v})
    BY GrownMade
  <1>2. m[v] = Append(vs, v)
    OBVIOUS
  <1> HIDE DEF m
  <1>3. Back(GrownBy(item, vs), m[v], w)
    BY <1>1, MadeBack
  <1> QED BY <1>2, <1>3

\* A reader of n items.
Repeats(item, n) == [s \in Wires |-> Repeated(item, n, s)]

\* A number of items is read alike whatever follows, if one fewer is.
LEMMA RepeatsNext ==
  ASSUME NEW item, NEW T, NEW n \in Nat
  PROVE  /\ Repeats(item, 0) = [s \in Wires |-> Got(<<>>, s)]
         /\ FollowedBy(Repeats(item, n + 1), Repeats(item, n),
                       [vs \in Seq(T) |-> GrownBy(item, vs)],
                       Seq(T))
  <1>1. Repeats(item, 0) = [s \in Wires |-> Got(<<>>, s)]
    BY RepeatedOf DEF Repeats
  <1> DEFINE h == [vs \in Seq(T) |-> GrownBy(item, vs)]
  <1>2. ASSUME NEW s \in Wires
        PROVE  /\ Repeats(item, n)[s] = Failed => Repeats(item, n + 1)[s] = Failed
               /\ \A vs \in Seq(T), rest \in Wires :
                    Repeats(item, n)[s] = Got(vs, rest) => Repeats(item, n + 1)[s] = h[vs][rest]
    <2>1. Repeats(item, n + 1)[s] = NextRead(Repeats(item, n)[s], item)
      BY RepeatedOf DEF Repeats
    <2>2. NextRead(Failed, item) = Failed
      BY GotIs DEF NextRead, Then
    <2>3. ASSUME NEW vs \in Seq(T), NEW rest \in Wires PROVE NextRead(Got(vs, rest), item) = h[vs][rest]
      <3>1. NextRead(Got(vs, rest), item) = As(item[rest], LAMBDA v : Append(vs, v))
        <4>1. PICK r : r = Got(vs, rest)
          OBVIOUS
        <4>2. r.ok /\ r.value = vs /\ r.rest = rest
          BY <4>1, GotIs
        <4>3. NextRead(r, item) = As(item[r.rest], LAMBDA v : Append(r.value, v))
          BY <4>2, Zenon DEF NextRead, Then
        <4> QED BY <4>1, <4>2, <4>3 DEF As
      <3>2. h[vs][rest] = As(item[rest], LAMBDA v : Append(vs, v))
        BY DEF GrownBy
      <3> QED BY <3>1, <3>2
    <2> HIDE DEF h
    <2> QED BY <2>1, <2>2, <2>3
  <1> QED BY <1>1, <1>2 DEF FollowedBy

\* Any number of items is read alike whatever follows them.
LEMMA RepeatsReads ==
  ASSUME NEW item, NEW T, Reads(item, T)
  PROVE  \A n \in Nat : Reads(Repeats(item, n), {vs \in Seq(T) : Len(vs) = n})
  <1> DEFINE U(n) == {vs \in Seq(T) : Len(vs) = n}
             S == {n \in Nat : Reads(Repeats(item, n), U(n))}
             h == [vs \in Seq(T) |-> GrownBy(item, vs)]
  <1>1. 0 \in S
    <2>1. <<>> \in U(0)
      BY EmptySeq
    <2> HIDE DEF U
    <2>2. Reads(Repeats(item, 0), U(0))
      BY <2>1, RepeatsNext, PutReads
    <2> QED BY <2>2
  <1>2. ASSUME NEW n \in Nat, n \in S PROVE n + 1 \in S
    <2>1. FollowedBy(Repeats(item, n + 1), Repeats(item, n), h, Seq(T))
      BY RepeatsNext
    <2>2. FollowedBy(Repeats(item, n + 1), Repeats(item, n), h, U(n))
      <3>1. U(n) \subseteq Seq(T)
        OBVIOUS
      <3> HIDE DEF h, U
      <3> QED BY <2>1, <3>1 DEF FollowedBy
    <2>3. ASSUME NEW vs \in U(n) PROVE Reads(h[vs], U(n + 1))
      <3>1. vs \in Seq(T) /\ Len(vs) = n
        OBVIOUS
      <3>2. h[vs] = GrownBy(item, vs)
        OBVIOUS
      <3>3. Reads(GrownBy(item, vs), {us \in Seq(T) : Len(us) = n + 1})
        BY <3>1, GrownReads
      <3> QED BY <3>2, <3>3
    <2>4. Reads(Repeats(item, n), U(n))
      BY <1>2
    <2>5. Reads(Repeats(item, n + 1), U(n + 1))
      <3> HIDE DEF h, U, S
      <3> QED BY <2>2, <2>3, <2>4, ThenReads
    <2> QED BY <2>5
  <1> HIDE DEF S
  <1>3. Nat \subseteq S
    BY <1>1, <1>2, SetInduction
  <1> QED BY <1>3 DEF S

\* Items written one after another are read back.
LEMMA RepeatsBack ==
  ASSUME NEW item, NEW T, NEW vs \in Seq(T), NEW ws \in Seq(Wires), Len(ws) = Len(vs),
         \A i \in 1 .. Len(vs) : Back(item, vs[i], ws[i])
  PROVE  FlattenSeq(ws) \in Wires /\ Back(Repeats(item, Len(vs)), vs, FlattenSeq(ws))
  <1> DEFINE S == {n \in Nat : n <= Len(vs) =>
                     /\ FlattenSeq(SubSeq(ws, 1, n)) \in Wires
                     /\ Back(Repeats(item, n), SubSeq(vs, 1, n), FlattenSeq(SubSeq(ws, 1, n)))}
             h == [us \in Seq(T) |-> GrownBy(item, us)]
  <1>1. Len(vs) \in Nat
    BY LenProperties
  <1>2. 0 \in S
    <2>1. SubSeq(vs, 1, 0) = <<>> /\ SubSeq(ws, 1, 0) = <<>>
      BY SubSeqEmpty
    <2>2. Back(Repeats(item, 0), <<>>, <<>>)
      BY RepeatsNext, PutReads
    <2> QED BY <2>1, <2>2, FlattenEmpty, WiresJoin
  <1>3. ASSUME NEW n \in Nat, n \in S PROVE n + 1 \in S
    <2> SUFFICES ASSUME n + 1 <= Len(vs)
                 PROVE  /\ FlattenSeq(SubSeq(ws, 1, n + 1)) \in Wires
                        /\ Back(Repeats(item, n + 1), SubSeq(vs, 1, n + 1),
                                FlattenSeq(SubSeq(ws, 1, n + 1)))
      OBVIOUS
    <2>1. PICK us \in Seq(T) : us = SubSeq(vs, 1, n) /\ Len(us) = n
      BY OneMore
    <2>2. PICK v \in T : v = vs[n + 1] /\ SubSeq(vs, 1, n + 1) = Append(us, v)
      BY <2>1, OneMore
    <2>3. PICK xs \in Seq(Wires) : xs = SubSeq(ws, 1, n)
      BY OneMore
    <2>4. PICK w \in Wires : w = ws[n + 1] /\ SubSeq(ws, 1, n + 1) = Append(xs, w)
      BY <2>3, OneMore
    <2>5. PICK z \in Wires : z = FlattenSeq(xs) /\ Back(Repeats(item, n), us, z)
      <3>1. n <= Len(vs)
        BY <1>1
      <3> QED BY <1>3, <2>1, <2>3, <3>1
    <2>6. FlattenSeq(SubSeq(ws, 1, n + 1)) = z \o w /\ z \o w \in Wires
      <3>1. xs \in Seq(Seq(Cells)) /\ w \in Seq(Cells)
        BY DEF Wires
      <3>2. FlattenSeq(Append(xs, w)) = FlattenSeq(xs) \o w
        BY <3>1, FlattenAppend
      <3> QED BY <2>4, <2>5, <3>2, WiresJoin
    <2>7. Back(item, v, w)
      <3>1. n + 1 \in 1 .. Len(vs)
        BY <1>1
      <3> QED BY <2>2, <2>4, <3>1
    <2>8. FollowedBy(Repeats(item, n + 1), Repeats(item, n), h, Seq(T))
      BY RepeatsNext
    <2>9. Back(h[us], Append(us, v), w)
      <3>1. h[us] = GrownBy(item, us)
        OBVIOUS
      <3>2. Back(GrownBy(item, us), Append(us, v), w)
        BY <2>7, GrownBack
      <3> QED BY <3>1, <3>2
    <2>10. Back(Repeats(item, n + 1), Append(us, v), z \o w)
      <3> HIDE DEF h, S
      <3> QED BY <2>5, <2>8, <2>9, ThenBack
    <2> QED BY <2>2, <2>6, <2>10
  <1> HIDE DEF S
  <1>4. Nat \subseteq S
    BY <1>2, <1>3, SetInduction
  <1>5. Len(vs) \in S
    BY <1>1, <1>4
  <1>6. SubSeq(vs, 1, Len(vs)) = vs /\ SubSeq(ws, 1, Len(vs)) = ws
    BY SubSeqFull
  <1>7. /\ FlattenSeq(SubSeq(ws, 1, Len(vs))) \in Wires
        /\ Back(Repeats(item, Len(vs)), SubSeq(vs, 1, Len(vs)), FlattenSeq(SubSeq(ws, 1, Len(vs))))
    BY <1>1, <1>5 DEF S
  <1> QED BY <1>6, <1>7

\* f reads a count, then as many items.
CountedBy(f, item) ==
  FollowedBy(f, [s \in Wires |-> readCell(s)], [n \in Cells |-> Repeats(item, n)], Cells)

\* The sequences of T that a count in a cell can announce.
Few(T) == {vs \in Seq(T) : Len(vs) \in Cells}

\* A count and as many items are read alike whatever follows them.
LEMMA CountedReads ==
  ASSUME NEW f, NEW item, NEW T, CountedBy(f, item), Reads(item, T)
  PROVE  Reads(f, Few(T))
  <1> DEFINE h == [n \in Cells |-> Repeats(item, n)]
             g == [s \in Wires |-> readCell(s)]
  <1>1. FollowedBy(f, g, h, Cells)
    BY DEF CountedBy
  <1>2. ASSUME NEW n \in Cells PROVE Reads(h[n], Few(T))
    <2>1. n \in Nat
      BY CellsAre
    <2>2. Reads(Repeats(item, n), {vs \in Seq(T) : Len(vs) = n})
      BY <2>1, RepeatsReads
    <2>3. {vs \in Seq(T) : Len(vs) = n} \subseteq Few(T)
      BY DEF Few
    <2>4. Reads(Repeats(item, n), Few(T))
      BY <2>2, <2>3, ReadsMore
    <2> QED BY <2>4
  <1>3. Reads(g, Cells)
    BY readCellReads
  <1> HIDE DEF g, h
  <1> QED BY <1>1, <1>2, <1>3, ThenReads

\* A count and items written one after another are read back.
LEMMA CountedBack ==
  ASSUME NEW f, NEW item, NEW T, CountedBy(f, item),
         NEW vs \in Few(T), NEW ws \in Seq(Wires), Len(ws) = Len(vs),
         \A i \in 1 .. Len(vs) : Back(item, vs[i], ws[i])
  PROVE  /\ <<Len(vs)>> \o FlattenSeq(ws) \in Wires
         /\ Back(f, vs, <<Len(vs)>> \o FlattenSeq(ws))
  <1> DEFINE h == [n \in Cells |-> Repeats(item, n)]
             g == [s \in Wires |-> readCell(s)]
  <1>1. FollowedBy(f, g, h, Cells)
    BY DEF CountedBy
  <1>2. vs \in Seq(T) /\ Len(vs) \in Cells
    BY DEF Few
  <1>3. PICK n \in Cells : n = Len(vs)
    BY <1>2
  <1>4. PICK z \in Wires : z = FlattenSeq(ws) /\ Back(Repeats(item, n), vs, z)
    BY <1>2, <1>3, RepeatsBack
  <1>5. Back(h[n], vs, z)
    BY <1>4
  <1>6. <<n>> \in Wires /\ Back(g, n, <<n>>)
    BY WiresJoin, readCellOf DEF Back
  <1> HIDE DEF g, h
  <1>7. Back(f, vs, <<n>> \o z)
    BY <1>1, <1>4, <1>5, <1>6, ThenBack
  <1> QED BY <1>3, <1>4, <1>6, <1>7, WiresJoin

-----------------------------------------------------------------------------
(***************************************************************************)
(* Readers and writers that belong together.                               *)
(***************************************************************************)
\* What a writer gives, a cell or a number that no cell holds.
Drafts == Seq(Int)

\* f reads back what W writes of X, and whatever it reads W can write.
Undoes(f, X, W) ==
  /\ \A v \in X : W[v] \in Drafts
  /\ Reads(f, {v \in X : W[v] \in Wires})
  /\ \A v \in X : W[v] \in Wires => Back(f, v, W[v])

\* Drafts are closed under joining, and two of them join to a wire only if
\* both are wires.
LEMMA DraftsJoin ==
  /\ Wires \subseteq Drafts
  /\ \A s, t \in Drafts : s \o t \in Drafts /\ (s \o t \in Wires <=> s \in Wires /\ t \in Wires)
  /\ \A n \in Int : <<n>> \in Drafts /\ (<<n>> \in Wires <=> n \in Cells)
  <1>1. Cells \subseteq Int
    BY CellsAre
  <1>2. Wires \subseteq Drafts
    <2>1. ASSUME NEW s \in Seq(Cells) PROVE s \in Seq(Int)
      <3>1. Len(s) \in Nat /\ \A i \in 1 .. Len(s) : s[i] \in Int
        BY <1>1, LenProperties, ElementOfSeq
      <3>2. SubSeq(s, 1, Len(s)) \in Seq(Int)
        BY <3>1, SubSeqProperties
      <3> QED BY <3>2, SubSeqFull
    <2> QED BY <2>1 DEF Wires, Drafts
  <1>3. ASSUME NEW s \in Drafts, NEW t \in Drafts
        PROVE  s \o t \in Drafts /\ (s \o t \in Wires <=> s \in Wires /\ t \in Wires)
    <2>1. s \o t \in Seq(Int)
      BY ConcatProperties DEF Drafts
    <2>2. ASSUME s \o t \in Seq(Cells) PROVE s \in Seq(Cells) /\ t \in Seq(Cells)
      BY <2>2, JoinIn DEF Drafts
    <2>3. ASSUME s \in Seq(Cells), t \in Seq(Cells) PROVE s \o t \in Seq(Cells)
      BY <2>3, ConcatProperties
    <2> QED BY <2>1, <2>2, <2>3 DEF Drafts, Wires
  <1>4. ASSUME NEW n \in Int PROVE <<n>> \in Drafts /\ (<<n>> \in Wires <=> n \in Cells)
    <2>1. <<n>> \in Seq(Int) /\ Len(<<n>>) = 1 /\ <<n>>[1] = n
      OBVIOUS
    <2>2. ASSUME <<n>> \in Seq(Cells) PROVE n \in Cells
      BY <2>1, <2>2, ElementOfSeq
    <2>3. ASSUME n \in Cells PROVE <<n>> \in Seq(Cells)
      BY <2>3
    <2> QED BY <2>1, <2>2, <2>3 DEF Drafts, Wires
  <1> QED BY <1>2, <1>3, <1>4

\* The same values under another name.
Renames(m, X, W, Y, E) ==
  /\ \A x \in X : m[x] \in Y /\ E[m[x]] = W[x]
  /\ \A y \in Y : \E x \in X : y = m[x]

\* A reader that makes values of the fields another reads undoes the writer of
\* the values.
LEMMA MadeUndoes ==
  ASSUME NEW f, NEW g, NEW m, NEW X, NEW W, NEW Y, NEW E,
         MadeOf(f, g, m, X), Undoes(g, X, W), Renames(m, X, W, Y, E)
  PROVE  Undoes(f, Y, E)
  <1> USE DEF Renames
  <1> DEFINE T == {x \in X : W[x] \in Wires}
             U == {y \in Y : E[y] \in Wires}
  <1>1. MadeOf(f, g, m, T)
    BY DEF MadeOf
  <1>2. Reads(g, T)
    BY DEF Undoes
  <1>3. \A x \in T : m[x] \in U
    OBVIOUS
  <1>4. Reads(f, U)
    <2> HIDE DEF T, U
    <2> QED BY <1>1, <1>2, <1>3, MadeReads
  <1>5. ASSUME NEW y \in Y PROVE E[y] \in Drafts /\ (E[y] \in Wires => Back(f, y, E[y]))
    <2>1. PICK x \in X : y = m[x]
      OBVIOUS
    <2>2. E[y] = W[x] /\ W[x] \in Drafts /\ (W[x] \in Wires => Back(g, x, W[x]))
      BY <2>1 DEF Undoes
    <2>3. ASSUME W[x] \in Wires PROVE Back(f, m[x], W[x])
      <3>1. PICK w \in Wires : w = W[x]
        BY <2>3
      <3>2. Back(g, x, w)
        BY <2>2, <3>1
      <3>3. Back(f, m[x], w)
        BY <3>2, MadeBack
      <3> QED BY <3>1, <3>3
    <2> QED BY <2>1, <2>2, <2>3
  <1> QED BY <1>4, <1>5 DEF Undoes

\* f reads with g, then with k, and makes of both what m says.
Both(f, g, k, m, A, B) ==
  \A s \in Wires :
    /\ g[s] = Failed => f[s] = Failed
    /\ \A a \in A, rest \in Wires : g[s] = Got(a, rest) =>
         /\ k[rest] = Failed => f[s] = Failed
         /\ \A b \in B, left \in Wires : k[rest] = Got(b, left) => f[s] = Got(m[a][b], left)

\* The second half of Both.
Half2(f, g, k, m, A, B, a) ==
  [rest \in Wires |-> IF k[rest] = Failed THEN Failed
                      ELSE Got(m[a][k[rest].value], k[rest].rest)]

\* m makes all of Y, and what is written of it is what is written of both.
Combines(m, A, B, Wa, Wb, Y, E) ==
  /\ \A a \in A, b \in B : m[a][b] \in Y /\ E[m[a][b]] = Wa[a] \o Wb[b]
  /\ \A y \in Y : \E a \in A, b \in B : y = m[a][b]

\* Two fields, one written behind the other, are undone one behind the other.
LEMMA BothUndoes ==
  ASSUME NEW f, NEW g, NEW k, NEW m, NEW A, NEW B, NEW Wa, NEW Wb, NEW Y, NEW E,
         Both(f, g, k, m, A, B), Undoes(g, A, Wa), Undoes(k, B, Wb),
         Combines(m, A, B, Wa, Wb, Y, E)
  PROVE  Undoes(f, Y, E)
  <1> USE DEF Combines
  <1> DEFINE S == {a \in A : Wa[a] \in Wires}
             T == {b \in B : Wb[b] \in Wires}
             U == {y \in Y : E[y] \in Wires}
             h == [a \in A |-> Half2(f, g, k, m, A, B, a)]
  <1>1. Reads(g, S) /\ Reads(k, T)
    BY DEF Undoes
  <1>2. ASSUME NEW a \in A PROVE MadeOf(h[a], k, m[a], T)
    <2>1. ASSUME NEW s \in Wires, NEW v \in T, NEW rest \in Wires, k[s] = Got(v, rest)
          PROVE  h[a][s] = Got(m[a][v], rest)
      <3>1. k[s] # Failed /\ k[s].value = v /\ k[s].rest = rest
        BY <2>1, GotIs
      <3> QED BY <3>1 DEF Half2
    <2>2. ASSUME NEW s \in Wires, k[s] = Failed PROVE h[a][s] = Failed
      BY <2>2 DEF Half2
    <2> HIDE DEF h, T
    <2> QED BY <2>1, <2>2 DEF MadeOf
  <1>3. FollowedBy(f, g, h, S)
    <2>1. ASSUME NEW s \in Wires, NEW a \in S, NEW rest \in Wires, g[s] = Got(a, rest)
          PROVE  f[s] = h[a][rest]
      <3>1. a \in A
        OBVIOUS
      <3>2. CASE k[rest] = Failed
        <4>1. f[s] = Failed
          BY <2>1, <3>1, <3>2 DEF Both
        <4> QED BY <3>1, <3>2, <4>1 DEF Half2
      <3>3. CASE k[rest] # Failed
        <4>1. ReadsOf(k, T, rest)
          BY <1>1 DEF Reads
        <4>2. PICK b \in T, left \in Wires : k[rest] = Got(b, left)
          BY <3>3, <4>1 DEF ReadsOf
        <4>3. f[s] = Got(m[a][b], left)
          BY <2>1, <3>1, <4>2 DEF Both
        <4>4. h[a][rest] = Got(m[a][b], left)
          <5> HIDE DEF h, T
          <5> QED BY <1>2, <3>1, <4>2 DEF MadeOf
        <4> QED BY <4>3, <4>4
      <3> QED BY <3>2, <3>3
    <2>2. ASSUME NEW s \in Wires, g[s] = Failed PROVE f[s] = Failed
      BY <2>2 DEF Both
    <2> HIDE DEF h, S
    <2> QED BY <2>1, <2>2 DEF FollowedBy
  <1>4. ASSUME NEW a \in S, NEW b \in T PROVE m[a][b] \in U
    <2>1. m[a][b] \in Y /\ E[m[a][b]] = Wa[a] \o Wb[b] /\ Wa[a] \in Wires /\ Wb[b] \in Wires
      OBVIOUS
    <2>2. Wa[a] \o Wb[b] \in Wires
      BY <2>1, WireJoined
    <2> QED BY <2>1, <2>2
  <1>5. ASSUME NEW a \in S PROVE Reads(h[a], U)
    <2>1. MadeOf(h[a], k, m[a], T)
      BY <1>2
    <2>2. \A b \in T : m[a][b] \in U
      BY <1>4
    <2> HIDE DEF h, T, U
    <2> QED BY <1>1, <2>1, <2>2, MadeReads
  <1>6. Reads(f, U)
    <2> HIDE DEF h, S, U
    <2> QED BY <1>1, <1>3, <1>5, ThenReads
  <1>7. ASSUME NEW y \in Y PROVE E[y] \in Drafts /\ (E[y] \in Wires => Back(f, y, E[y]))
    <2>1. PICK a \in A, b \in B : y = m[a][b]
      OBVIOUS
    <2>2. PICK wa \in Drafts : wa = Wa[a] /\ (wa \in Wires => Back(g, a, wa))
      BY DEF Undoes
    <2>3. PICK wb \in Drafts : wb = Wb[b] /\ (wb \in Wires => Back(k, b, wb))
      BY DEF Undoes
    <2>4. E[y] = wa \o wb
      BY <2>1, <2>2, <2>3
    <2>5. wa \o wb \in Drafts /\ (wa \o wb \in Wires => wa \in Wires /\ wb \in Wires)
      BY DraftsJoin
    <2>6. ASSUME wa \in Wires, wb \in Wires PROVE Back(f, y, wa \o wb)
      <3>1. a \in S /\ b \in T
        BY <2>2, <2>3, <2>6
      <3>2. Back(h[a], m[a][b], wb)
        <4>1. MadeOf(h[a], k, m[a], T)
          BY <1>2
        <4>2. Back(k, b, wb)
          BY <2>3, <2>6
        <4> HIDE DEF h, T
        <4> QED BY <2>6, <3>1, <4>1, <4>2, MadeBack
      <3>3. Back(g, a, wa)
        BY <2>2, <2>6
      <3> HIDE DEF h, S
      <3> QED BY <1>3, <2>1, <2>6, <3>1, <3>2, <3>3, ThenBack
    <2> QED BY <2>4, <2>5, <2>6
  <1> QED BY <1>6, <1>7 DEF Undoes

\* A tag says which of the readers goes on.
Tags(tags, Y, V, Z, E) ==
  /\ \A t \in DOMAIN tags : tags[t] \in Cells
  /\ \A t \in DOMAIN tags : \A y \in Y[t] : y \in Z /\ E[y] = <<tags[t]>> \o V[t][y]
  /\ \A z \in Z : \E t \in DOMAIN tags : z \in Y[t]

\* A tag and what its kind consists of are undone if each kind is.
LEMMA TaggedUndoes ==
  ASSUME NEW f, NEW tags, NEW h, NEW Y, NEW V, NEW Z, NEW E,
         Tagged(f, tags, h), Tags(tags, Y, V, Z, E),
         \A t \in DOMAIN tags : Undoes(h[t], Y[t], V[t])
  PROVE  Undoes(f, Z, E)
  <1> USE DEF Tags
  <1> DEFINE U == {z \in Z : E[z] \in Wires}
  <1>1. ASSUME NEW t \in DOMAIN tags, NEW y \in Y[t]
        PROVE  /\ E[y] \in Drafts
               /\ E[y] \in Wires <=> V[t][y] \in Wires
               /\ E[y] \in Wires => Back(f, y, E[y])
    <2>1. Undoes(h[t], Y[t], V[t]) /\ E[y] = <<tags[t]>> \o V[t][y]
      OBVIOUS
    <2>2. PICK v \in Drafts : v = V[t][y] /\ (v \in Wires => Back(h[t], y, v))
      BY <2>1 DEF Undoes
    <2>3. tags[t] \in Cells /\ <<tags[t]>> \in Wires /\ <<tags[t]>> \in Drafts
      BY WiresJoin, DraftsJoin
    <2>4. <<tags[t]>> \o v \in Drafts /\ (<<tags[t]>> \o v \in Wires <=> v \in Wires)
      BY <2>3, DraftsJoin
    <2>5. ASSUME v \in Wires PROVE Back(f, y, <<tags[t]>> \o v)
      <3>1. Back(h[t], y, v)
        BY <2>2, <2>5
      <3> QED BY <2>3, <2>5, <3>1, TaggedBack
    <2> QED BY <2>1, <2>2, <2>4, <2>5
  <1>2. ASSUME NEW t \in DOMAIN tags PROVE Reads(h[t], U)
    <2>1. Reads(h[t], {y \in Y[t] : V[t][y] \in Wires})
      BY DEF Undoes
    <2>2. {y \in Y[t] : V[t][y] \in Wires} \subseteq U
      BY <1>1
    <2> HIDE DEF U
    <2> QED BY <2>1, <2>2, ReadsMore
  <1>3. Reads(f, U)
    <2> HIDE DEF U
    <2> QED BY <1>2, TaggedReads
  <1>4. ASSUME NEW z \in Z PROVE E[z] \in Drafts /\ (E[z] \in Wires => Back(f, z, E[z]))
    <2>1. PICK t \in DOMAIN tags : z \in Y[t]
      OBVIOUS
    <2> QED BY <1>1, <2>1
  <1> QED BY <1>3, <1>4 DEF Undoes

\* Items behind their count.
Counts(X, W, E) ==
  \A vs \in Seq(X) : E[vs] = <<Len(vs)>> \o FlattenSeq([i \in 1 .. Len(vs) |-> W[vs[i]]])

\* A count and as many items are undone if each item is.
LEMMA CountedUndoes ==
  ASSUME NEW f, NEW item, NEW X, NEW W, NEW E, CountedBy(f, item), Undoes(item, X, W),
         Counts(X, W, E)
  PROVE  Undoes(f, Seq(X), E)
  <1> USE DEF Counts
  <1> DEFINE T == {v \in X : W[v] \in Wires}
             U == {vs \in Seq(X) : E[vs] \in Wires}
  <1>1. Reads(item, T)
    BY DEF Undoes
  <1>2. ASSUME NEW vs \in Seq(X)
        PROVE  E[vs] \in Drafts /\ (E[vs] \in Wires => vs \in Few(T))
    <2>1. Len(vs) \in Nat /\ \A i \in 1 .. Len(vs) : vs[i] \in X
      BY LenProperties, ElementOfSeq
    <2>2. PICK ws : ws = [i \in 1 .. Len(vs) |-> W[vs[i]]]
      OBVIOUS
    <2>3. ws \in Seq(Seq(Int)) /\ Len(ws) = Len(vs)
      <3>1. \A i \in 1 .. Len(vs) : W[vs[i]] \in Seq(Int)
        BY <2>1 DEF Undoes, Drafts
      <3> QED BY <2>1, <2>2, <3>1
    <2>4. FlattenSeq(ws) \in Drafts /\ <<Len(vs)>> \in Drafts
      BY <2>1, <2>3, FlattenType, DraftsJoin DEF Drafts
    <2>5. E[vs] = <<Len(vs)>> \o FlattenSeq(ws)
      BY <2>2
    <2>6. ASSUME E[vs] \in Wires PROVE vs \in Few(T)
      <3>1. Len(vs) \in Cells /\ FlattenSeq(ws) \in Seq(Cells)
        <4>1. <<Len(vs)>> \in Wires /\ FlattenSeq(ws) \in Wires
          BY <2>4, <2>5, <2>6, DraftsJoin
        <4>2. Len(vs) \in Cells
          BY <2>1, <4>1, DraftsJoin
        <4> QED BY <4>1, <4>2 DEF Wires
      <3>2. \A i \in 1 .. Len(vs) : ws[i] \in Seq(Cells)
        BY <2>3, <3>1, FlattenIn
      <3>3. \A i \in 1 .. Len(vs) : vs[i] \in T
        BY <2>1, <2>2, <3>2 DEF Wires
      <3>4. vs = [i \in 1 .. Len(vs) |-> vs[i]]
        BY SubSeqFull
      <3>5. vs \in Seq(T)
        <4> HIDE DEF T
        <4> QED BY <2>1, <3>3, <3>4
      <3> QED BY <3>1, <3>5 DEF Few
    <2> QED BY <2>4, <2>5, <2>6, DraftsJoin
  <1>3. ASSUME NEW vs \in Few(T)
        PROVE  vs \in Seq(X) /\ E[vs] \in Wires /\ Back(f, vs, E[vs])
    <2>1. vs \in Seq(T) /\ vs \in Seq(X) /\ Len(vs) \in Nat
      <3>1. vs \in Seq(T)
        BY DEF Few
      <3>2. T \subseteq X
        OBVIOUS
      <3> HIDE DEF T
      <3> QED BY <3>1, <3>2, LenProperties
    <2>2. \A i \in 1 .. Len(vs) : vs[i] \in T
      <3> HIDE DEF T
      <3> QED BY <2>1, ElementOfSeq
    <2>3. PICK ws : ws = [i \in 1 .. Len(vs) |-> W[vs[i]]]
      OBVIOUS
    <2>4. ws \in Seq(Wires) /\ Len(ws) = Len(vs)
      BY <2>1, <2>2, <2>3
    <2>5. \A i \in 1 .. Len(vs) : Back(item, vs[i], ws[i])
      BY <2>1, <2>2, <2>3 DEF Undoes
    <2>6. E[vs] = <<Len(vs)>> \o FlattenSeq(ws)
      BY <2>1, <2>3
    <2> HIDE DEF T
    <2>7. /\ <<Len(vs)>> \o FlattenSeq(ws) \in Wires
          /\ Back(f, vs, <<Len(vs)>> \o FlattenSeq(ws))
      BY <2>4, <2>5, CountedBack
    <2> QED BY <2>1, <2>6, <2>7
  <1>4. Reads(f, U)
    <2>1. Reads(f, Few(T))
      <3> HIDE DEF T
      <3> QED BY <1>1, CountedReads
    <2>2. Few(T) \subseteq U
      BY <1>3
    <2> HIDE DEF T, U
    <2> QED BY <2>1, <2>2, ReadsMore
  <1> QED BY <1>2, <1>3, <1>4 DEF Undoes

-----------------------------------------------------------------------------
(***************************************************************************)
(* What is defined by how deep a value nests: each is what it is at one    *)
(* depth less, one level more.                                             *)
(***************************************************************************)

ShapeAt(d, inner) ==
  IF d = 0 THEN {}
  ELSE ({"Point"} \X Positions) \cup ({"Line", "MultiPoint"} \X Lines)
         \cup ({"Polygon"} \X Polygons) \cup ({"MultiLine"} \X Seq(Lines))
         \cup ({"MultiPolygon"} \X Seq(Polygons)) \cup ({"Collection"} \X Seq(inner))

\* No shape has depth zero, whatever is inside.
LEMMA ShapeZero == \A a, b : ShapeAt(0, a) = ShapeAt(0, b)
  BY DEF ShapeAt

\* The shapes of each depth, defined by those of one less, exist.
LEMMA ShapeExists == \A n \in Nat : \E f : f = [d \in 0 .. n |-> ShapeAt(d, f[d - 1])]
  <1> DEFINE S == {n \in Nat : \E f : f = [d \in 0 .. n |-> ShapeAt(d, f[d - 1])]}
  <1>1. 0 \in S
    <2> DEFINE f == [d \in 0 .. 0 |-> ShapeAt(0, 0)]
    <2>1. ASSUME NEW d \in 0 .. 0 PROVE ShapeAt(0, 0) = ShapeAt(d, f[d - 1])
      BY ShapeZero
    <2>2. f = [d \in 0 .. 0 |-> ShapeAt(d, f[d - 1])]
      BY <2>1
    <2> QED BY <2>2
  <1>2. ASSUME NEW n \in Nat, n \in S PROVE n + 1 \in S
    <2>1. PICK f : f = [d \in 0 .. n |-> ShapeAt(d, f[d - 1])]
      BY <1>2
    <2> DEFINE g == [d \in 0 .. n + 1 |-> IF d = n + 1 THEN ShapeAt(n + 1, f[n]) ELSE f[d]]
    <2>2. ASSUME NEW d \in 0 .. n + 1 PROVE g[d] = ShapeAt(d, g[d - 1])
      <3>1. CASE d = n + 1
        <4>1. g[d - 1] = f[n] /\ g[d] = ShapeAt(n + 1, f[n])
          BY <3>1
        <4> HIDE DEF g
        <4> QED BY <3>1, <4>1
      <3>2. CASE d # n + 1
        <4>1. g[d] = f[d] /\ d \in 0 .. n
          BY <3>2
        <4>2. f[d] = ShapeAt(d, f[d - 1])
          BY <2>1, <4>1
        <4>3. d # 0 => g[d - 1] = f[d - 1]
          BY <3>2
        <4> HIDE DEF g
        <4>4. CASE d = 0
          <5>1. ShapeAt(0, f[d - 1]) = ShapeAt(0, g[d - 1])
            BY ShapeZero
          <5> QED BY <4>1, <4>2, <4>4, <5>1
        <4> QED BY <4>1, <4>2, <4>3, <4>4
      <3> QED BY <3>1, <3>2
    <2>3. g = [d \in 0 .. n + 1 |-> ShapeAt(d, g[d - 1])]
      BY <2>2
    <2>4. n + 1 \in Nat
      OBVIOUS
    <2> HIDE DEF g
    <2> QED BY <2>3, <2>4
  <1> HIDE DEF S
  <1>3. Nat \subseteq S
    BY <1>1, <1>2, SetInduction
  <1> QED BY <1>3 DEF S

\* The shapes of a depth are made of those of one less.
LEMMA ShapeOf == \A d \in 0 .. Nesting : Shape[d] = ShapeAt(d, Shape[d - 1])
  <1>1. \E f : f = [d \in 0 .. Nesting |-> ShapeAt(d, f[d - 1])]
    BY ShapeExists, ValuesAssumption
  <1>2. Shape = [d \in 0 .. Nesting |-> ShapeAt(d, Shape[d - 1])]
    BY <1>1, Zenon DEF Shape, ShapeAt
  <1> QED BY <1>2

ValueAt(d, inner) ==
  IF d = 0 THEN {}
  ELSE Scalars \cup ({"Array", "Set"} \X Seq(inner)) \cup ({"Object"} \X Objects(inner))
         \cup ({"Range"} \X Bounds(inner) \X Bounds(inner))

\* No value has depth zero, whatever is inside.
LEMMA ValueZero == \A a, b : ValueAt(0, a) = ValueAt(0, b)
  BY DEF ValueAt

\* The values of each depth, defined by those of one less, exist.
LEMMA ValueExists == \A n \in Nat : \E f : f = [d \in 0 .. n |-> ValueAt(d, f[d - 1])]
  <1> DEFINE S == {n \in Nat : \E f : f = [d \in 0 .. n |-> ValueAt(d, f[d - 1])]}
  <1>1. 0 \in S
    <2> DEFINE f == [d \in 0 .. 0 |-> ValueAt(0, 0)]
    <2>1. ASSUME NEW d \in 0 .. 0 PROVE ValueAt(0, 0) = ValueAt(d, f[d - 1])
      BY ValueZero
    <2>2. f = [d \in 0 .. 0 |-> ValueAt(d, f[d - 1])]
      BY <2>1
    <2> QED BY <2>2
  <1>2. ASSUME NEW n \in Nat, n \in S PROVE n + 1 \in S
    <2>1. PICK f : f = [d \in 0 .. n |-> ValueAt(d, f[d - 1])]
      BY <1>2
    <2> DEFINE g == [d \in 0 .. n + 1 |-> IF d = n + 1 THEN ValueAt(n + 1, f[n]) ELSE f[d]]
    <2>2. ASSUME NEW d \in 0 .. n + 1 PROVE g[d] = ValueAt(d, g[d - 1])
      <3>1. CASE d = n + 1
        <4>1. g[d - 1] = f[n] /\ g[d] = ValueAt(n + 1, f[n])
          BY <3>1
        <4> HIDE DEF g
        <4> QED BY <3>1, <4>1
      <3>2. CASE d # n + 1
        <4>1. g[d] = f[d] /\ d \in 0 .. n
          BY <3>2
        <4>2. f[d] = ValueAt(d, f[d - 1])
          BY <2>1, <4>1
        <4>3. d # 0 => g[d - 1] = f[d - 1]
          BY <3>2
        <4> HIDE DEF g
        <4>4. CASE d = 0
          <5>1. ValueAt(0, f[d - 1]) = ValueAt(0, g[d - 1])
            BY ValueZero
          <5> QED BY <4>1, <4>2, <4>4, <5>1
        <4> QED BY <4>1, <4>2, <4>3, <4>4
      <3> QED BY <3>1, <3>2
    <2>3. g = [d \in 0 .. n + 1 |-> ValueAt(d, g[d - 1])]
      BY <2>2
    <2>4. n + 1 \in Nat
      OBVIOUS
    <2> HIDE DEF g
    <2> QED BY <2>3, <2>4
  <1> HIDE DEF S
  <1>3. Nat \subseteq S
    BY <1>1, <1>2, SetInduction
  <1> QED BY <1>3 DEF S

\* The values of a depth are made of those of one less.
LEMMA ValueOf == \A d \in 0 .. Nesting : Value[d] = ValueAt(d, Value[d - 1])
  <1>1. \E f : f = [d \in 0 .. Nesting |-> ValueAt(d, f[d - 1])]
    BY ValueExists, ValuesAssumption
  <1>2. Value = [d \in 0 .. Nesting |-> ValueAt(d, Value[d - 1])]
    BY <1>1, Zenon DEF Value, ValueAt
  <1> QED BY <1>2

readShapesAt(d, inner) == [s \in Wires |-> IF d = 0 THEN Failed ELSE readShape(inner, s)]

\* At depth zero no shape is read, whatever is inside.
LEMMA readShapesZero == \A a, b : readShapesAt(0, a) = readShapesAt(0, b)
  BY DEF readShapesAt

\* The readers of shapes of each depth, defined by those of one less, exist.
LEMMA readShapesExists == \A n \in Nat : \E f : f = [d \in 0 .. n |-> readShapesAt(d, f[d - 1])]
  <1> DEFINE S == {n \in Nat : \E f : f = [d \in 0 .. n |-> readShapesAt(d, f[d - 1])]}
  <1>1. 0 \in S
    <2> DEFINE f == [d \in 0 .. 0 |-> readShapesAt(0, 0)]
    <2>1. ASSUME NEW d \in 0 .. 0 PROVE readShapesAt(0, 0) = readShapesAt(d, f[d - 1])
      BY readShapesZero
    <2>2. f = [d \in 0 .. 0 |-> readShapesAt(d, f[d - 1])]
      BY <2>1
    <2> QED BY <2>2
  <1>2. ASSUME NEW n \in Nat, n \in S PROVE n + 1 \in S
    <2>1. PICK f : f = [d \in 0 .. n |-> readShapesAt(d, f[d - 1])]
      BY <1>2
    <2> DEFINE g == [d \in 0 .. n + 1 |-> IF d = n + 1 THEN readShapesAt(n + 1, f[n]) ELSE f[d]]
    <2>2. ASSUME NEW d \in 0 .. n + 1 PROVE g[d] = readShapesAt(d, g[d - 1])
      <3>1. CASE d = n + 1
        <4>1. g[d - 1] = f[n] /\ g[d] = readShapesAt(n + 1, f[n])
          BY <3>1
        <4> HIDE DEF g
        <4> QED BY <3>1, <4>1
      <3>2. CASE d # n + 1
        <4>1. g[d] = f[d] /\ d \in 0 .. n
          BY <3>2
        <4>2. f[d] = readShapesAt(d, f[d - 1])
          BY <2>1, <4>1
        <4>3. d # 0 => g[d - 1] = f[d - 1]
          BY <3>2
        <4> HIDE DEF g
        <4>4. CASE d = 0
          <5>1. readShapesAt(0, f[d - 1]) = readShapesAt(0, g[d - 1])
            BY readShapesZero
          <5> QED BY <4>1, <4>2, <4>4, <5>1
        <4> QED BY <4>1, <4>2, <4>3, <4>4
      <3> QED BY <3>1, <3>2
    <2>3. g = [d \in 0 .. n + 1 |-> readShapesAt(d, g[d - 1])]
      BY <2>2
    <2>4. n + 1 \in Nat
      OBVIOUS
    <2> HIDE DEF g
    <2> QED BY <2>3, <2>4
  <1> HIDE DEF S
  <1>3. Nat \subseteq S
    BY <1>1, <1>2, SetInduction
  <1> QED BY <1>3 DEF S

\* The reader of shapes of a depth calls that of one less.
LEMMA readShapesOf == \A d \in 0 .. Nesting : readShapes[d] = readShapesAt(d, readShapes[d - 1])
  <1>1. \E f : f = [d \in 0 .. Nesting |-> readShapesAt(d, f[d - 1])]
    BY readShapesExists, ValuesAssumption
  <1>2. readShapes = [d \in 0 .. Nesting |-> readShapesAt(d, readShapes[d - 1])]
    BY <1>1, Zenon DEF readShapes, readShapesAt
  <1> QED BY <1>2

readValuesAt(d, inner) == [s \in Wires |-> IF d = 0 THEN Failed ELSE readValue(inner, s)]

\* At depth zero no value is read, whatever is inside.
LEMMA readValuesZero == \A a, b : readValuesAt(0, a) = readValuesAt(0, b)
  BY DEF readValuesAt

\* The readers of values of each depth, defined by those of one less, exist.
LEMMA readValuesExists == \A n \in Nat : \E f : f = [d \in 0 .. n |-> readValuesAt(d, f[d - 1])]
  <1> DEFINE S == {n \in Nat : \E f : f = [d \in 0 .. n |-> readValuesAt(d, f[d - 1])]}
  <1>1. 0 \in S
    <2> DEFINE f == [d \in 0 .. 0 |-> readValuesAt(0, 0)]
    <2>1. ASSUME NEW d \in 0 .. 0 PROVE readValuesAt(0, 0) = readValuesAt(d, f[d - 1])
      BY readValuesZero
    <2>2. f = [d \in 0 .. 0 |-> readValuesAt(d, f[d - 1])]
      BY <2>1
    <2> QED BY <2>2
  <1>2. ASSUME NEW n \in Nat, n \in S PROVE n + 1 \in S
    <2>1. PICK f : f = [d \in 0 .. n |-> readValuesAt(d, f[d - 1])]
      BY <1>2
    <2> DEFINE g == [d \in 0 .. n + 1 |-> IF d = n + 1 THEN readValuesAt(n + 1, f[n]) ELSE f[d]]
    <2>2. ASSUME NEW d \in 0 .. n + 1 PROVE g[d] = readValuesAt(d, g[d - 1])
      <3>1. CASE d = n + 1
        <4>1. g[d - 1] = f[n] /\ g[d] = readValuesAt(n + 1, f[n])
          BY <3>1
        <4> HIDE DEF g
        <4> QED BY <3>1, <4>1
      <3>2. CASE d # n + 1
        <4>1. g[d] = f[d] /\ d \in 0 .. n
          BY <3>2
        <4>2. f[d] = readValuesAt(d, f[d - 1])
          BY <2>1, <4>1
        <4>3. d # 0 => g[d - 1] = f[d - 1]
          BY <3>2
        <4> HIDE DEF g
        <4>4. CASE d = 0
          <5>1. readValuesAt(0, f[d - 1]) = readValuesAt(0, g[d - 1])
            BY readValuesZero
          <5> QED BY <4>1, <4>2, <4>4, <5>1
        <4> QED BY <4>1, <4>2, <4>3, <4>4
      <3> QED BY <3>1, <3>2
    <2>3. g = [d \in 0 .. n + 1 |-> readValuesAt(d, g[d - 1])]
      BY <2>2
    <2>4. n + 1 \in Nat
      OBVIOUS
    <2> HIDE DEF g
    <2> QED BY <2>3, <2>4
  <1> HIDE DEF S
  <1>3. Nat \subseteq S
    BY <1>1, <1>2, SetInduction
  <1> QED BY <1>3 DEF S

\* The reader of values of a depth calls that of one less.
LEMMA readValuesOf == \A d \in 0 .. Nesting : readValues[d] = readValuesAt(d, readValues[d - 1])
  <1>1. \E f : f = [d \in 0 .. Nesting |-> readValuesAt(d, f[d - 1])]
    BY readValuesExists, ValuesAssumption
  <1>2. readValues = [d \in 0 .. Nesting |-> readValuesAt(d, readValues[d - 1])]
    BY <1>1, Zenon DEF readValues, readValuesAt
  <1> QED BY <1>2

writeShapesAt(d, inner) == [s \in Shape[d] |-> writeShape(inner, s)]

\* At depth zero there is no shape to write.
LEMMA writeShapesZero == \A a, b : writeShapesAt(0, a) = writeShapesAt(0, b)
  <1>1. 0 \in 0 .. Nesting
    BY ValuesAssumption
  <1>2. Shape[0] = {}
    BY <1>1, ShapeOf DEF ShapeAt
  <1> QED BY <1>2 DEF writeShapesAt

\* The writers of shapes of each depth, defined by those of one less, exist.
LEMMA writeShapesExists == \A n \in Nat : \E f : f = [d \in 0 .. n |-> writeShapesAt(d, f[d - 1])]
  <1> DEFINE S == {n \in Nat : \E f : f = [d \in 0 .. n |-> writeShapesAt(d, f[d - 1])]}
  <1>1. 0 \in S
    <2> DEFINE f == [d \in 0 .. 0 |-> writeShapesAt(0, 0)]
    <2>1. ASSUME NEW d \in 0 .. 0 PROVE writeShapesAt(0, 0) = writeShapesAt(d, f[d - 1])
      BY writeShapesZero
    <2>2. f = [d \in 0 .. 0 |-> writeShapesAt(d, f[d - 1])]
      BY <2>1
    <2> QED BY <2>2
  <1>2. ASSUME NEW n \in Nat, n \in S PROVE n + 1 \in S
    <2>1. PICK f : f = [d \in 0 .. n |-> writeShapesAt(d, f[d - 1])]
      BY <1>2
    <2> DEFINE g == [d \in 0 .. n + 1 |-> IF d = n + 1 THEN writeShapesAt(n + 1, f[n]) ELSE f[d]]
    <2>2. ASSUME NEW d \in 0 .. n + 1 PROVE g[d] = writeShapesAt(d, g[d - 1])
      <3>1. CASE d = n + 1
        <4>1. g[d - 1] = f[n] /\ g[d] = writeShapesAt(n + 1, f[n])
          BY <3>1
        <4> HIDE DEF g
        <4> QED BY <3>1, <4>1
      <3>2. CASE d # n + 1
        <4>1. g[d] = f[d] /\ d \in 0 .. n
          BY <3>2
        <4>2. f[d] = writeShapesAt(d, f[d - 1])
          BY <2>1, <4>1
        <4>3. d # 0 => g[d - 1] = f[d - 1]
          BY <3>2
        <4> HIDE DEF g
        <4>4. CASE d = 0
          <5>1. writeShapesAt(0, f[d - 1]) = writeShapesAt(0, g[d - 1])
            BY writeShapesZero
          <5> QED BY <4>1, <4>2, <4>4, <5>1
        <4> QED BY <4>1, <4>2, <4>3, <4>4
      <3> QED BY <3>1, <3>2
    <2>3. g = [d \in 0 .. n + 1 |-> writeShapesAt(d, g[d - 1])]
      BY <2>2
    <2>4. n + 1 \in Nat
      OBVIOUS
    <2> HIDE DEF g
    <2> QED BY <2>3, <2>4
  <1> HIDE DEF S
  <1>3. Nat \subseteq S
    BY <1>1, <1>2, SetInduction
  <1> QED BY <1>3 DEF S

\* The writer of shapes of a depth calls that of one less.
LEMMA writeShapesOf == \A d \in 0 .. Nesting : writeShapes[d] = writeShapesAt(d, writeShapes[d - 1])
  <1>1. \E f : f = [d \in 0 .. Nesting |-> writeShapesAt(d, f[d - 1])]
    BY writeShapesExists, ValuesAssumption
  <1>2. writeShapes = [d \in 0 .. Nesting |-> writeShapesAt(d, writeShapes[d - 1])]
    BY <1>1, Zenon DEF writeShapes, writeShapesAt
  <1> QED BY <1>2

writeValuesAt(d, inner) == [v \in Value[d] |-> writeValue(inner, v)]

\* At depth zero there is no value to write.
LEMMA writeValuesZero == \A a, b : writeValuesAt(0, a) = writeValuesAt(0, b)
  <1>1. 0 \in 0 .. Nesting
    BY ValuesAssumption
  <1>2. Value[0] = {}
    BY <1>1, ValueOf DEF ValueAt
  <1> QED BY <1>2 DEF writeValuesAt

\* The writers of values of each depth, defined by those of one less, exist.
LEMMA writeValuesExists == \A n \in Nat : \E f : f = [d \in 0 .. n |-> writeValuesAt(d, f[d - 1])]
  <1> DEFINE S == {n \in Nat : \E f : f = [d \in 0 .. n |-> writeValuesAt(d, f[d - 1])]}
  <1>1. 0 \in S
    <2> DEFINE f == [d \in 0 .. 0 |-> writeValuesAt(0, 0)]
    <2>1. ASSUME NEW d \in 0 .. 0 PROVE writeValuesAt(0, 0) = writeValuesAt(d, f[d - 1])
      BY writeValuesZero
    <2>2. f = [d \in 0 .. 0 |-> writeValuesAt(d, f[d - 1])]
      BY <2>1
    <2> QED BY <2>2
  <1>2. ASSUME NEW n \in Nat, n \in S PROVE n + 1 \in S
    <2>1. PICK f : f = [d \in 0 .. n |-> writeValuesAt(d, f[d - 1])]
      BY <1>2
    <2> DEFINE g == [d \in 0 .. n + 1 |-> IF d = n + 1 THEN writeValuesAt(n + 1, f[n]) ELSE f[d]]
    <2>2. ASSUME NEW d \in 0 .. n + 1 PROVE g[d] = writeValuesAt(d, g[d - 1])
      <3>1. CASE d = n + 1
        <4>1. g[d - 1] = f[n] /\ g[d] = writeValuesAt(n + 1, f[n])
          BY <3>1
        <4> HIDE DEF g
        <4> QED BY <3>1, <4>1
      <3>2. CASE d # n + 1
        <4>1. g[d] = f[d] /\ d \in 0 .. n
          BY <3>2
        <4>2. f[d] = writeValuesAt(d, f[d - 1])
          BY <2>1, <4>1
        <4>3. d # 0 => g[d - 1] = f[d - 1]
          BY <3>2
        <4> HIDE DEF g
        <4>4. CASE d = 0
          <5>1. writeValuesAt(0, f[d - 1]) = writeValuesAt(0, g[d - 1])
            BY writeValuesZero
          <5> QED BY <4>1, <4>2, <4>4, <5>1
        <4> QED BY <4>1, <4>2, <4>3, <4>4
      <3> QED BY <3>1, <3>2
    <2>3. g = [d \in 0 .. n + 1 |-> writeValuesAt(d, g[d - 1])]
      BY <2>2
    <2>4. n + 1 \in Nat
      OBVIOUS
    <2> HIDE DEF g
    <2> QED BY <2>3, <2>4
  <1> HIDE DEF S
  <1>3. Nat \subseteq S
    BY <1>1, <1>2, SetInduction
  <1> QED BY <1>3 DEF S

\* The writer of values of a depth calls that of one less.
LEMMA writeValuesOf == \A d \in 0 .. Nesting : writeValues[d] = writeValuesAt(d, writeValues[d - 1])
  <1>1. \E f : f = [d \in 0 .. Nesting |-> writeValuesAt(d, f[d - 1])]
    BY writeValuesExists, ValuesAssumption
  <1>2. writeValues = [d \in 0 .. Nesting |-> writeValuesAt(d, writeValues[d - 1])]
    BY <1>1, Zenon DEF writeValues, writeValuesAt
  <1> QED BY <1>2

-----------------------------------------------------------------------------
(***************************************************************************)
(* Cells, texts and bytes.                                                 *)
(***************************************************************************)
RCell == [s \in Wires |-> readCell(s)]
WCell == [c \in Cells |-> <<c>>]

\* Fixed fields are undone.
LEMMA CellUndoes == Undoes(RCell, Cells, WCell)
  <1>1. \A c \in Cells : WCell[c] = <<c>> /\ <<c>> \in Wires /\ <<c>> \in Drafts
    BY WiresJoin, DraftsJoin DEF WCell
  <1>2. Reads(RCell, Cells)
    BY readCellReads DEF RCell
  <1>3. \A c \in Cells : Back(RCell, c, <<c>>)
    BY <1>1, WiresJoin, readCellOf DEF Back, RCell
  <1>4. {c \in Cells : WCell[c] \in Wires} = Cells
    BY <1>1
  <1> QED BY <1>1, <1>2, <1>3, <1>4 DEF Undoes

\* A reader of what can always be written.
LEMMA AlwaysUndoes ==
  ASSUME NEW f, NEW X, NEW W, Reads(f, X), \A v \in X : W[v] \in Wires /\ Back(f, v, W[v])
  PROVE  Undoes(f, X, W)
  <1>1. {v \in X : W[v] \in Wires} = X
    OBVIOUS
  <1>2. \A v \in X : W[v] \in Drafts
    BY DraftsJoin
  <1> QED BY <1>1, <1>2 DEF Undoes

RSigned == [s \in Wires |-> readSigned(s)]
WSigned == [n \in Signed |-> <<i64Inverted(n)>>]

\* Signed fields are undone.
LEMMA SignedUndoes == Undoes(RSigned, Signed, WSigned)
  BY readSignedReads, AlwaysUndoes DEF RSigned, WSigned

RMantissa == [s \in Wires |-> readMantissa(s)]
WMantissa == [n \in Signed |-> <<i128(n)>>]

\* Mantissas are undone.
LEMMA MantissaUndoes == Undoes(RMantissa, Signed, WMantissa)
  BY readMantissaReads, AlwaysUndoes DEF RMantissa, WMantissa

RVarbytes == [s \in Wires |-> readVarbytes(s)]
WVarbytes == [b \in Wires |-> varbytes(b)]

\* Escaped bytes are undone.
LEMMA VarbytesUndoes == Undoes(RVarbytes, Wires, WVarbytes)
  BY readVarbytesReads, AlwaysUndoes DEF RVarbytes, WVarbytes

\* Bytes behind their length are a wire if a cell can hold it.
LEMMA lenbytesIn ==
  ASSUME NEW b \in Wires
  PROVE  lenbytes(b) \in Drafts /\ (lenbytes(b) \in Wires <=> Len(b) \in Cells)
  <1>1. Len(b) \in Int /\ b \in Drafts
    BY LenProperties, DraftsJoin DEF Wires
  <1>2. <<Len(b)>> \in Drafts /\ (<<Len(b)>> \in Wires <=> Len(b) \in Cells)
    BY <1>1, DraftsJoin
  <1>3. PICK n : n = <<Len(b)>>
    OBVIOUS
  <1>4. n \o b \in Drafts /\ (n \o b \in Wires <=> n \in Wires /\ b \in Wires)
    BY <1>1, <1>2, <1>3, DraftsJoin
  <1> QED BY <1>2, <1>3, <1>4 DEF lenbytes

RLenbytes == [s \in Wires |-> readLenbytes(s)]
WLenbytes == [b \in Wires |-> lenbytes(b)]

\* Bytes behind a length are undone: one that no cell holds makes a draft that
\* is no wire.
LEMMA LenbytesUndoes == Undoes(RLenbytes, Wires, WLenbytes)
  <1>1. \A b \in Wires : WLenbytes[b] = lenbytes(b)
    BY DEF WLenbytes
  <1>2. {b \in Wires : WLenbytes[b] \in Wires} = {b \in Wires : Len(b) \in Cells}
    BY <1>1, lenbytesIn
  <1>3. Reads(RLenbytes, {b \in Wires : WLenbytes[b] \in Wires})
    BY <1>2, readLenbytesReads DEF RLenbytes
  <1>4. \A b \in Wires : WLenbytes[b] \in Drafts
    BY <1>1, lenbytesIn
  <1>5. \A b \in Wires : WLenbytes[b] \in Wires => Back(RLenbytes, b, WLenbytes[b])
    BY <1>1, lenbytesIn, readLenbytesReads DEF RLenbytes
  <1> QED BY <1>3, <1>4, <1>5 DEF Undoes

RText == [s \in Wires |-> readText(s)]
WText == [b \in Texts |-> lenbytes(b)]

\* Texts are undone.
LEMMA TextUndoes == Undoes(RText, Texts, WText)
  <1>1. \A b \in Texts : b \in Wires /\ WText[b] = lenbytes(b)
    BY DEF WText, Texts
  <1>2. {b \in Texts : WText[b] \in Wires} = ShortTexts
    BY <1>1, lenbytesIn DEF ShortTexts
  <1>3. Reads(RText, {b \in Texts : WText[b] \in Wires})
    BY <1>2, readTextReads DEF RText
  <1>4. \A b \in Texts : WText[b] \in Drafts
    BY <1>1, lenbytesIn
  <1>5. ASSUME NEW b \in Texts, WText[b] \in Wires PROVE Back(RText, b, WText[b])
    <2>1. b \in ShortTexts
      BY <1>2, <1>5
    <2> QED BY <1>1, <2>1, readTextReads DEF RText
  <1> QED BY <1>3, <1>4, <1>5 DEF Undoes

-----------------------------------------------------------------------------
(***************************************************************************)
(* Shapes.                                                                 *)
(***************************************************************************)
RPosition == [s \in Wires |-> readPosition(s)]
WPosition == [p \in Positions |-> writePosition(p)]

\* Two cells are one behind the other.
LEMMA TwoCells == \A a, b : <<a, b>> = <<a>> \o <<b>>
  <1> SUFFICES ASSUME NEW a, NEW b PROVE <<a, b>> = <<a>> \o <<b>>
    OBVIOUS
  <1> DEFINE S == {a, b}
  <1>1. <<a>> \in Seq(S) /\ b \in S
    OBVIOUS
  <1>2. Append(<<a>>, b) = <<a>> \o <<b>>
    <2> HIDE DEF S
    <2> QED BY <1>1, AppendIsConcat
  <1>3. Append(<<a>>, b) = <<a, b>>
    <2>1. <<a, b>> \in Seq(S) /\ Len(<<a, b>>) = 2 /\ <<a, b>>[1] = a /\ <<a, b>>[2] = b
      OBVIOUS
    <2>2. Len(<<a>>) = 1 /\ <<a>>[1] = a
      OBVIOUS
    <2>3. PICK t : t = <<a>>
      OBVIOUS
    <2>4. PICK u : u = <<a, b>>
      OBVIOUS
    <2> HIDE DEF S
    <2>5. /\ Append(t, b) \in Seq(S) /\ Len(Append(t, b)) = 2
          /\ Append(t, b)[1] = a /\ Append(t, b)[2] = b
      BY <1>1, <2>2, <2>3, AppendProperties
    <2>6. \A i \in 1 .. 2 : Append(t, b)[i] = u[i]
      BY <2>1, <2>4, <2>5
    <2>7. PICK w : w = Append(t, b)
      OBVIOUS
    <2>8. w = u
      BY <2>1, <2>4, <2>5, <2>6, <2>7, SeqEqual
    <2> QED BY <2>3, <2>4, <2>7, <2>8
  <1> QED BY <1>2, <1>3

\* Positions are undone (writePosition, readPosition).
LEMMA PositionUndoes == Undoes(RPosition, Positions, WPosition)
  <1> DEFINE m == [x \in Cells |-> [y \in Cells |-> [lon |-> x, lat |-> y]]]
  <1>1. Both(RPosition, RCell, RCell, m, Cells, Cells)
    <2>1. ASSUME NEW s \in Wires, readCell(s) = Failed PROVE RPosition[s] = Failed
      BY <2>1, GotIs DEF RPosition, readPosition, Then
    <2>2. ASSUME NEW s \in Wires, NEW a \in Cells, NEW rest \in Wires, readCell(s) = Got(a, rest)
          PROVE  /\ readCell(rest) = Failed => RPosition[s] = Failed
                 /\ \A b \in Cells, left \in Wires :
                      readCell(rest) = Got(b, left) => RPosition[s] = Got(m[a][b], left)
      <3>1. readCell(s).ok /\ readCell(s).value = a /\ readCell(s).rest = rest
        BY <2>2, GotIs
      <3>2. RPosition[s] = IF readCell(rest).ok
                             THEN Got([lon |-> a, lat |-> readCell(rest).value], readCell(rest).rest)
                             ELSE Failed
        BY <3>1 DEF RPosition, readPosition, Then, As
      <3>3. ASSUME NEW b \in Cells, NEW left \in Wires, readCell(rest) = Got(b, left)
            PROVE  RPosition[s] = Got(m[a][b], left)
        <4>1. readCell(rest).ok /\ readCell(rest).value = b /\ readCell(rest).rest = left
          BY <3>3, GotIs
        <4> QED BY <3>2, <4>1
      <3> QED BY <3>2, <3>3, GotIs
    <2> HIDE DEF m
    <2> QED BY <2>1, <2>2 DEF Both, RCell
  <1>2. \A a \in Cells, b \in Cells : m[a][b] \in Positions /\ WPosition[m[a][b]] = WCell[a] \o WCell[b]
    <2>1. ASSUME NEW a \in Cells, NEW b \in Cells
          PROVE  m[a][b] \in Positions /\ WPosition[m[a][b]] = WCell[a] \o WCell[b]
      <3>1. m[a][b] = [lon |-> a, lat |-> b] /\ m[a][b] \in Positions
        BY DEF Positions
      <3>2. <<a, b>> = <<a>> \o <<b>>
        BY TwoCells
      <3> HIDE DEF m
      <3> QED BY <3>1, <3>2 DEF WPosition, WCell, writePosition
    <2> QED BY <2>1
  <1>3. ASSUME NEW p \in Positions PROVE \E a \in Cells, b \in Cells : p = m[a][b]
    <2>1. p.lon \in Cells /\ p.lat \in Cells /\ p = [lon |-> p.lon, lat |-> p.lat]
      BY DEF Positions
    <2>2. p = m[p.lon][p.lat]
      BY <2>1
    <2> QED BY <2>1, <2>2
  <1> HIDE DEF m
  <1>4. Combines(m, Cells, Cells, WCell, WCell, Positions, WPosition)
    BY <1>2, <1>3 DEF Combines
  <1> QED BY <1>1, <1>4, CellUndoes, BothUndoes


RPositions == [s \in Wires |-> readPositions(s)]
WPositions == [ps \in Lines |-> writePositions(ps)]

\* Lists of positions are undone (writePositions, readPositions).
LEMMA PositionsUndoes == Undoes(RPositions, Lines, WPositions)
  <1>1. CountedBy(RPositions, RPosition)
    <2>1. ASSUME NEW s \in Wires, readCell(s) = Failed PROVE RPositions[s] = Failed
      BY <2>1, GotIs DEF RPositions, readPositions, Counted, Then
    <2>2. ASSUME NEW s \in Wires, NEW n \in Cells, NEW rest \in Wires, readCell(s) = Got(n, rest)
          PROVE  RPositions[s] = Repeated(RPosition, n, rest)
      <3>1. readCell(s).ok /\ readCell(s).value = n /\ readCell(s).rest = rest
        BY <2>2, GotIs
      <3> QED BY <3>1 DEF RPositions, readPositions, Counted, Then, RPosition
    <2> QED BY <2>1, <2>2 DEF CountedBy, FollowedBy, Repeats
  <1>2. ASSUME NEW vs \in Seq(Positions)
        PROVE  WPositions[vs] = <<Len(vs)>> \o FlattenSeq([i \in 1 .. Len(vs) |-> WPosition[vs[i]]])
    <2>1. [i \in 1 .. Len(vs) |-> writePosition(vs[i])] = [i \in 1 .. Len(vs) |-> WPosition[vs[i]]]
      BY ElementOfSeq DEF WPosition
    <2>2. WPositions[vs] = <<Len(vs)>> \o FlattenSeq([i \in 1 .. Len(vs) |-> writePosition(vs[i])])
      BY DEF WPositions, Lines, writePositions, Each
    <2> QED BY <2>1, <2>2
  <1> QED BY <1>1, <1>2, PositionUndoes, CountedUndoes DEF Lines, Counts

RLines == [s \in Wires |-> Counted(readPositions, s)]
WLines == [ls \in Seq(Lines) |-> Each(writePositions, ls)]

\* Lists of lines are undone.
LEMMA LinesUndoes == Undoes(RLines, Seq(Lines), WLines)
  <1>1. CountedBy(RLines, RPositions)
    <2>1. ASSUME NEW s \in Wires, readCell(s) = Failed PROVE RLines[s] = Failed
      BY <2>1, GotIs DEF RLines, Counted, Then
    <2>2. ASSUME NEW s \in Wires, NEW n \in Cells, NEW rest \in Wires, readCell(s) = Got(n, rest)
          PROVE  RLines[s] = Repeated(RPositions, n, rest)
      <3>1. readCell(s).ok /\ readCell(s).value = n /\ readCell(s).rest = rest
        BY <2>2, GotIs
      <3> QED BY <3>1 DEF RLines, Counted, Then, RPositions
    <2> QED BY <2>1, <2>2 DEF CountedBy, FollowedBy, Repeats
  <1>2. ASSUME NEW vs \in Seq(Lines)
        PROVE  WLines[vs] = <<Len(vs)>> \o FlattenSeq([i \in 1 .. Len(vs) |-> WPositions[vs[i]]])
    <2>1. [i \in 1 .. Len(vs) |-> writePositions(vs[i])] = [i \in 1 .. Len(vs) |-> WPositions[vs[i]]]
      BY ElementOfSeq DEF WPositions
    <2>2. WLines[vs] = <<Len(vs)>> \o FlattenSeq([i \in 1 .. Len(vs) |-> writePositions(vs[i])])
      BY DEF WLines, Each
    <2> QED BY <2>1, <2>2
  <1> QED BY <1>1, <1>2, PositionsUndoes, CountedUndoes DEF Counts

RPolygon == [s \in Wires |-> readPolygon(s)]
WPolygon == [p \in Polygons |-> writePolygon(p)]

\* Polygons are undone (writePolygon, readPolygon).
LEMMA PolygonUndoes == Undoes(RPolygon, Polygons, WPolygon)
  <1> DEFINE m == [x \in Lines |-> [y \in Seq(Lines) |-> [exterior |-> x, interiors |-> y]]]
  <1>1. Both(RPolygon, RPositions, RLines, m, Lines, Seq(Lines))
    <2>1. ASSUME NEW s \in Wires, readPositions(s) = Failed PROVE RPolygon[s] = Failed
      BY <2>1, GotIs DEF RPolygon, readPolygon, Then
    <2>2. ASSUME NEW s \in Wires, NEW a \in Lines, NEW rest \in Wires, readPositions(s) = Got(a, rest)
          PROVE  /\ RLines[rest] = Failed => RPolygon[s] = Failed
                 /\ \A b \in Seq(Lines), left \in Wires :
                      RLines[rest] = Got(b, left) => RPolygon[s] = Got(m[a][b], left)
      <3>1. readPositions(s).ok /\ readPositions(s).value = a /\ readPositions(s).rest = rest
        BY <2>2, GotIs
      <3>2. PICK r : r = Counted(readPositions, rest)
        OBVIOUS
      <3>3. RLines[rest] = r
        BY <3>2 DEF RLines
      <3>4. RPolygon[s] = IF r.ok THEN Got([exterior |-> a, interiors |-> r.value], r.rest)
                                  ELSE Failed
        BY <3>1, <3>2 DEF RPolygon, readPolygon, Then, As
      <3>5. ASSUME NEW b \in Seq(Lines), NEW left \in Wires, r = Got(b, left)
            PROVE  RPolygon[s] = Got(m[a][b], left)
        <4>1. r.ok /\ r.value = b /\ r.rest = left
          BY <3>5, GotIs
        <4> QED BY <3>4, <4>1
      <3> QED BY <3>3, <3>4, <3>5, GotIs
    <2> HIDE DEF m
    <2> QED BY <2>1, <2>2 DEF Both, RPositions
  <1>2. ASSUME NEW a \in Lines, NEW b \in Seq(Lines)
        PROVE  m[a][b] \in Polygons /\ WPolygon[m[a][b]] = WPositions[a] \o WLines[b]
    <2>1. m[a][b] = [exterior |-> a, interiors |-> b] /\ m[a][b] \in Polygons
      BY DEF Polygons
    <2>2. PICK p \in Polygons : p = m[a][b]
      BY <2>1
    <2>3. p.exterior = a /\ p.interiors = b
      BY <2>1, <2>2
    <2>4. WPolygon[p] = writePositions(p.exterior) \o Each(writePositions, p.interiors)
      BY DEF WPolygon, writePolygon
    <2>5. WPositions[a] = writePositions(a) /\ WLines[b] = Each(writePositions, b)
      BY DEF WPositions, WLines
    <2> HIDE DEF m
    <2> QED BY <2>2, <2>3, <2>4, <2>5
  <1>3. ASSUME NEW p \in Polygons PROVE \E a \in Lines, b \in Seq(Lines) : p = m[a][b]
    <2>1. /\ p.exterior \in Lines /\ p.interiors \in Seq(Lines)
          /\ p = [exterior |-> p.exterior, interiors |-> p.interiors]
      BY DEF Polygons
    <2>2. p = m[p.exterior][p.interiors]
      BY <2>1
    <2> QED BY <2>1, <2>2
  <1> HIDE DEF m
  <1>4. Combines(m, Lines, Seq(Lines), WPositions, WLines, Polygons, WPolygon)
    BY <1>2, <1>3 DEF Combines
  <1> QED BY <1>1, <1>4, PositionsUndoes, LinesUndoes, BothUndoes

RPolygons == [s \in Wires |-> Counted(readPolygon, s)]
WPolygons == [ps \in Seq(Polygons) |-> Each(writePolygon, ps)]

\* Lists of polygons are undone.
LEMMA PolygonsUndoes == Undoes(RPolygons, Seq(Polygons), WPolygons)
  <1>1. CountedBy(RPolygons, RPolygon)
    <2>1. ASSUME NEW s \in Wires, readCell(s) = Failed PROVE RPolygons[s] = Failed
      BY <2>1, GotIs DEF RPolygons, Counted, Then
    <2>2. ASSUME NEW s \in Wires, NEW n \in Cells, NEW rest \in Wires, readCell(s) = Got(n, rest)
          PROVE  RPolygons[s] = Repeated(RPolygon, n, rest)
      <3>1. readCell(s).ok /\ readCell(s).value = n /\ readCell(s).rest = rest
        BY <2>2, GotIs
      <3> QED BY <3>1 DEF RPolygons, Counted, Then, RPolygon
    <2> QED BY <2>1, <2>2 DEF CountedBy, FollowedBy, Repeats
  <1>2. ASSUME NEW vs \in Seq(Polygons)
        PROVE  WPolygons[vs] = <<Len(vs)>> \o FlattenSeq([i \in 1 .. Len(vs) |-> WPolygon[vs[i]]])
    <2>1. [i \in 1 .. Len(vs) |-> writePolygon(vs[i])] = [i \in 1 .. Len(vs) |-> WPolygon[vs[i]]]
      BY ElementOfSeq DEF WPolygon
    <2>2. WPolygons[vs] = <<Len(vs)>> \o FlattenSeq([i \in 1 .. Len(vs) |-> writePolygon(vs[i])])
      BY DEF WPolygons, Each
    <2> QED BY <2>1, <2>2
  <1> QED BY <1>1, <1>2, PolygonUndoes, CountedUndoes DEF Counts

\* What g reads, under its tag.
Marked(t, g) == [r \in Wires |-> As(g[r], LAMBDA v : <<t, v>>)]

\* What is read under the name of its kind is undone if it is without.
LEMMA MarkedUndoes ==
  ASSUME NEW t, NEW g, NEW X, NEW W, NEW E, Undoes(g, X, W), \A x \in X : E[<<t, x>>] = W[x]
  PROVE  Undoes(Marked(t, g), {t} \X X, E)
  <1> DEFINE m == [x \in X |-> <<t, x>>]
  <1>1. MadeOf(Marked(t, g), g, m, X)
    <2>1. ASSUME NEW s \in Wires, g[s] = Failed PROVE Marked(t, g)[s] = Failed
      BY <2>1, GotIs DEF Marked, As
    <2>2. ASSUME NEW s \in Wires, NEW v \in X, NEW rest \in Wires, g[s] = Got(v, rest)
          PROVE  Marked(t, g)[s] = Got(m[v], rest)
      <3>1. g[s].ok /\ g[s].value = v /\ g[s].rest = rest
        BY <2>2, GotIs
      <3>2. Marked(t, g)[s] = Got(<<t, v>>, rest)
        BY <3>1 DEF Marked, As
      <3> QED BY <3>2
    <2> HIDE DEF m
    <2> QED BY <2>1, <2>2 DEF MadeOf
  <1>2. Renames(m, X, W, {t} \X X, E)
    BY DEF Renames
  <1> HIDE DEF m
  <1> QED BY <1>1, <1>2, MadeUndoes

\* What reads alike undoes alike.
LEMMA SameUndoes ==
  ASSUME NEW f, NEW g, NEW X, NEW W, Undoes(g, X, W), \A s \in Wires : f[s] = g[s]
  PROVE  Undoes(f, X, W)
  <1>1. \A s, x \in Wires : s \o x \in Wires
    BY WiresJoin
  <1>2. Reads(f, {v \in X : W[v] \in Wires})
    <2>1. Reads(g, {v \in X : W[v] \in Wires})
      BY DEF Undoes
    <2>2. PICK T : T = {v \in X : W[v] \in Wires}
      OBVIOUS
    <2>3. ASSUME NEW s \in Wires PROVE ReadsOf(f, T, s)
      <3>1. ReadsOf(g, T, s)
        BY <2>1, <2>2 DEF Reads
      <3> QED BY <1>1, <3>1 DEF ReadsOf
    <2> QED BY <2>2, <2>3 DEF Reads
  <1>3. ASSUME NEW v \in X, W[v] \in Wires PROVE Back(f, v, W[v])
    <2>1. PICK w \in Wires : w = W[v]
      BY <1>3
    <2>2. Back(g, v, w)
      BY <1>3, <2>1 DEF Undoes
    <2> QED BY <1>1, <2>1, <2>2 DEF Back
  <1> QED BY <1>2, <1>3 DEF Undoes

\* The items that inner reads and writes, behind their count.
RItems(inner) == [s \in Wires |-> Counted(LAMBDA r : inner[r], s)]
WItems(X, inner) == [vs \in Seq(X) |-> Each(LAMBDA v : inner[v], vs)]

\* Lists of what nests inside are undone if each is (writeItems, readItems).
LEMMA ItemsUndoes ==
  ASSUME NEW inner, NEW X, NEW W, Undoes(inner, X, W)
  PROVE  Undoes(RItems(inner), Seq(X), WItems(X, W))
  <1> DEFINE item == [r \in Wires |-> inner[r]]
  <1>1. Undoes(item, X, W)
    <2>1. \A s \in Wires : item[s] = inner[s]
      OBVIOUS
    <2> HIDE DEF item
    <2> QED BY <2>1, SameUndoes
  <1>2. CountedBy(RItems(inner), item)
    <2>1. ASSUME NEW s \in Wires, readCell(s) = Failed PROVE RItems(inner)[s] = Failed
      BY <2>1, GotIs DEF RItems, Counted, Then
    <2>2. ASSUME NEW s \in Wires, NEW n \in Cells, NEW rest \in Wires, readCell(s) = Got(n, rest)
          PROVE  RItems(inner)[s] = Repeated(item, n, rest)
      <3>1. readCell(s).ok /\ readCell(s).value = n /\ readCell(s).rest = rest
        BY <2>2, GotIs
      <3> QED BY <3>1 DEF RItems, Counted, Then
    <2> HIDE DEF item
    <2> QED BY <2>1, <2>2 DEF CountedBy, FollowedBy, Repeats
  <1>3. Counts(X, W, WItems(X, W))
    BY DEF Counts, WItems, Each
  <1> HIDE DEF item
  <1> QED BY <1>1, <1>2, <1>3, CountedUndoes

\* Of what a shape of a tag consists, and what reads and writes that.
ShapeParts(t, X) ==
  CASE t = "Point"                   -> Positions
    [] t \in {"Line", "MultiPoint"}  -> Lines
    [] t = "Polygon"                 -> Polygons
    [] t = "MultiLine"               -> Seq(Lines)
    [] t = "MultiPolygon"            -> Seq(Polygons)
    [] t = "Collection"              -> Seq(X)

ShapeReader(t, inner) ==
  CASE t = "Point"                   -> RPosition
    [] t \in {"Line", "MultiPoint"}  -> RPositions
    [] t = "Polygon"                 -> RPolygon
    [] t = "MultiLine"               -> RLines
    [] t = "MultiPolygon"            -> RPolygons
    [] t = "Collection"              -> RItems(inner)

ShapeWriter(t, X, inner) ==
  CASE t = "Point"                   -> WPosition
    [] t \in {"Line", "MultiPoint"}  -> WPositions
    [] t = "Polygon"                 -> WPolygon
    [] t = "MultiLine"               -> WLines
    [] t = "MultiPolygon"            -> WPolygons
    [] t = "Collection"              -> WItems(X, inner)

\* The tags of shapes are cells of their own.
LEMMA ShapeTags ==
  /\ DOMAIN ShapeTag = {"Point", "Line", "Polygon", "MultiPoint", "MultiLine", "MultiPolygon", "Collection"}
  /\ \A t \in DOMAIN ShapeTag : ShapeTag[t] \in Cells
  /\ \A t, u \in DOMAIN ShapeTag : ShapeTag[t] = ShapeTag[u] => t = u
  <1>1. {1, 2, 3, 4, 5, 6, 7} \subseteq Cells
    BY ValuesAssumption, CellsAre
  <1> QED BY <1>1 DEF ShapeTag

\* What each kind of shape consists of is undone if the shapes inside are.
LEMMA ShapePartsUndo ==
  ASSUME NEW inner, NEW X, NEW W, Undoes(inner, X, W), NEW t \in DOMAIN ShapeTag
  PROVE  Undoes(ShapeReader(t, inner), ShapeParts(t, X), ShapeWriter(t, X, W))
  <1>1. CASE t = "Point"
    BY <1>1, PositionUndoes DEF ShapeReader, ShapeParts, ShapeWriter
  <1>2. CASE t \in {"Line", "MultiPoint"}
    BY <1>2, PositionsUndoes DEF ShapeReader, ShapeParts, ShapeWriter
  <1>3. CASE t = "Polygon"
    BY <1>3, PolygonUndoes DEF ShapeReader, ShapeParts, ShapeWriter
  <1>4. CASE t = "MultiLine"
    BY <1>4, LinesUndoes DEF ShapeReader, ShapeParts, ShapeWriter
  <1>5. CASE t = "MultiPolygon"
    BY <1>5, PolygonsUndoes DEF ShapeReader, ShapeParts, ShapeWriter
  <1>6. CASE t = "Collection"
    BY <1>6, ItemsUndoes DEF ShapeReader, ShapeParts, ShapeWriter
  <1> QED BY <1>1, <1>2, <1>3, <1>4, <1>5, <1>6, ShapeTags

\* readShape goes by the tag.
LEMMA readShapeTagged ==
  ASSUME NEW inner
  PROVE  Tagged([s \in Wires |-> readShape(inner, s)], ShapeTag,
                [t \in DOMAIN ShapeTag |-> Marked(t, ShapeReader(t, inner))])
  <1> DEFINE f == [s \in Wires |-> readShape(inner, s)]
             Body(t, rest) ==
               CASE t = "Point"                  -> As(readPosition(rest), LAMBDA v : <<t, v>>)
                 [] t \in {"Line", "MultiPoint"} -> As(readPositions(rest), LAMBDA v : <<t, v>>)
                 [] t = "Polygon"                -> As(readPolygon(rest), LAMBDA v : <<t, v>>)
                 [] t = "MultiLine"              -> As(Counted(readPositions, rest), LAMBDA v : <<t, v>>)
                 [] t = "MultiPolygon"           -> As(Counted(readPolygon, rest), LAMBDA v : <<t, v>>)
                 [] t = "Collection" -> As(Counted(LAMBDA r : inner[r], rest), LAMBDA v : <<t, v>>)
             chosen(c) == CHOOSE t \in DOMAIN ShapeTag : ShapeTag[t] = c
  <1>1. ASSUME NEW c \in Cells, NEW rest \in Wires
        PROVE  f[<<c>> \o rest] = IF \E t \in DOMAIN ShapeTag : ShapeTag[t] = c
                                    THEN Body(chosen(c), rest) ELSE Failed
    <2>1. PICK s \in Wires : s = <<c>> \o rest
      BY WiresJoin
    <2>2. readCell(s).ok /\ readCell(s).value = c /\ readCell(s).rest = rest
      BY <2>1, readCellOf, GotIs
    <2>3. readShape(inner, s) =
            IF \E t \in DOMAIN ShapeTag : ShapeTag[t] = readCell(s).value
              THEN Body(chosen(readCell(s).value), readCell(s).rest) ELSE Failed
      BY <2>2, Zenon DEF readShape, Then, Named
    <2> HIDE DEF Body, chosen
    <2> QED BY <2>1, <2>2, <2>3
  <1>2. ASSUME NEW t \in DOMAIN ShapeTag PROVE chosen(ShapeTag[t]) = t
    BY ShapeTags
  <1>3. ASSUME NEW t \in DOMAIN ShapeTag, NEW rest \in Wires
        PROVE  Body(t, rest) = Marked(t, ShapeReader(t, inner))[rest]
    <2>1. CASE t = "Point"
      BY <2>1 DEF Marked, ShapeReader, RPosition, As
    <2>2. CASE t \in {"Line", "MultiPoint"}
      BY <2>2 DEF Marked, ShapeReader, RPositions, As
    <2>3. CASE t = "Polygon"
      BY <2>3 DEF Marked, ShapeReader, RPolygon, As
    <2>4. CASE t = "MultiLine"
      BY <2>4 DEF Marked, ShapeReader, RLines, As
    <2>5. CASE t = "MultiPolygon"
      BY <2>5 DEF Marked, ShapeReader, RPolygons, As
    <2>6. CASE t = "Collection"
      BY <2>6 DEF Marked, ShapeReader, RItems, As
    <2> QED BY <2>1, <2>2, <2>3, <2>4, <2>5, <2>6, ShapeTags
  <1>4. f[<<>>] = Failed
    BY readCellOf, GotIs, WiresJoin DEF readShape, Then
  <1> HIDE DEF f, Body, chosen
  <1>5. Tagged(f, ShapeTag, [t \in DOMAIN ShapeTag |-> Marked(t, ShapeReader(t, inner))])
    BY <1>1, <1>2, <1>3, <1>4 DEF Tagged
  <1> QED BY <1>5 DEF f

\* writeShape writes the tag and what the kind consists of.
LEMMA writeShapeIs ==
  ASSUME NEW W, NEW X, NEW t \in DOMAIN ShapeTag, NEW x \in ShapeParts(t, X)
  PROVE  writeShape(W, <<t, x>>) = <<ShapeTag[t]>> \o ShapeWriter(t, X, W)[x]
  <1>1. <<t, x>>[1] = t /\ <<t, x>>[2] = x
    OBVIOUS
  <1>3. CASE t = "Point"
    BY <1>1, <1>3 DEF writeShape, ShapeWriter, ShapeParts, WPosition
  <1>4. CASE t \in {"Line", "MultiPoint"}
    BY <1>1, <1>4 DEF writeShape, ShapeWriter, ShapeParts, WPositions
  <1>5. CASE t = "Polygon"
    BY <1>1, <1>5 DEF writeShape, ShapeWriter, ShapeParts, WPolygon
  <1>6. CASE t = "MultiLine"
    BY <1>1, <1>6 DEF writeShape, ShapeWriter, ShapeParts, WLines
  <1>7. CASE t = "MultiPolygon"
    BY <1>1, <1>7 DEF writeShape, ShapeWriter, ShapeParts, WPolygons
  <1>8. CASE t = "Collection"
    BY <1>1, <1>8 DEF writeShape, ShapeWriter, ShapeParts, WItems
  <1> QED BY <1>3, <1>4, <1>5, <1>6, <1>7, <1>8, ShapeTags

\* A shape is a tag and what a shape of that tag consists of.
LEMMA ShapeIs ==
  ASSUME NEW d, d # 0, NEW X
  PROVE  /\ \A t \in DOMAIN ShapeTag : {t} \X ShapeParts(t, X) \subseteq ShapeAt(d, X)
         /\ \A s \in ShapeAt(d, X) : \E t \in DOMAIN ShapeTag : s \in {t} \X ShapeParts(t, X)
  <1>1. ASSUME NEW t \in DOMAIN ShapeTag PROVE {t} \X ShapeParts(t, X) \subseteq ShapeAt(d, X)
    <2>1. CASE t = "Point"
      BY <2>1 DEF ShapeAt, ShapeParts
    <2>2. CASE t \in {"Line", "MultiPoint"}
      BY <2>2 DEF ShapeAt, ShapeParts
    <2>3. CASE t = "Polygon"
      BY <2>3 DEF ShapeAt, ShapeParts
    <2>4. CASE t = "MultiLine"
      BY <2>4 DEF ShapeAt, ShapeParts
    <2>5. CASE t = "MultiPolygon"
      BY <2>5 DEF ShapeAt, ShapeParts
    <2>6. CASE t = "Collection"
      BY <2>6 DEF ShapeAt, ShapeParts
    <2> QED BY <2>1, <2>2, <2>3, <2>4, <2>5, <2>6, ShapeTags
  <1>2. ASSUME NEW s \in ShapeAt(d, X)
        PROVE  \E t \in DOMAIN ShapeTag : s \in {t} \X ShapeParts(t, X)
    <2>1. CASE s \in {"Point"} \X Positions
      BY <2>1, ShapeTags DEF ShapeParts
    <2>2. CASE s \in {"Line", "MultiPoint"} \X Lines
      <3>1. PICK t \in {"Line", "MultiPoint"} : s \in {t} \X Lines
        BY <2>2
      <3>2. t \in DOMAIN ShapeTag /\ ShapeParts(t, X) = Lines
        BY <3>1, ShapeTags DEF ShapeParts
      <3> QED BY <3>1, <3>2
    <2>3. CASE s \in {"Polygon"} \X Polygons
      BY <2>3, ShapeTags DEF ShapeParts
    <2>4. CASE s \in {"MultiLine"} \X Seq(Lines)
      BY <2>4, ShapeTags DEF ShapeParts
    <2>5. CASE s \in {"MultiPolygon"} \X Seq(Polygons)
      BY <2>5, ShapeTags DEF ShapeParts
    <2>6. CASE s \in {"Collection"} \X Seq(X)
      BY <2>6, ShapeTags DEF ShapeParts
    <2> QED BY <2>1, <2>2, <2>3, <2>4, <2>5, <2>6 DEF ShapeAt
  <1> QED BY <1>1, <1>2

\* Shapes of a depth are undone if those of one less are.
LEMMA ShapeStepUndoes ==
  ASSUME NEW inner, NEW X, NEW W, Undoes(inner, X, W), NEW d, d # 0
  PROVE  Undoes([s \in Wires |-> readShape(inner, s)], ShapeAt(d, X),
                [s \in ShapeAt(d, X) |-> writeShape(W, s)])
  <1> DEFINE f == [s \in Wires |-> readShape(inner, s)]
             Z == ShapeAt(d, X)
             E == [s \in Z |-> writeShape(W, s)]
             h == [t \in DOMAIN ShapeTag |-> Marked(t, ShapeReader(t, inner))]
             Y == [t \in DOMAIN ShapeTag |-> {t} \X ShapeParts(t, X)]
             V == [t \in DOMAIN ShapeTag |-> [y \in Y[t] |-> ShapeWriter(t, X, W)[y[2]]]]
  <1>1. Tagged(f, ShapeTag, h)
    BY readShapeTagged
  <1>2. ASSUME NEW t \in DOMAIN ShapeTag PROVE Undoes(h[t], Y[t], V[t])
    <2>1. PICK g : g = ShapeReader(t, inner)
      OBVIOUS
    <2>2. PICK P : P = ShapeParts(t, X)
      OBVIOUS
    <2>3. PICK w : w = ShapeWriter(t, X, W)
      OBVIOUS
    <2>4. Undoes(g, P, w)
      BY <2>1, <2>2, <2>3, ShapePartsUndo
    <2>5. PICK v : v = V[t]
      OBVIOUS
    <2>6. \A x \in P : v[<<t, x>>] = w[x]
      BY <2>2, <2>3, <2>5
    <2>7. Undoes(Marked(t, g), {t} \X P, v)
      BY <2>4, <2>6, MarkedUndoes
    <2>8. h[t] = Marked(t, g) /\ Y[t] = {t} \X P
      BY <2>1, <2>2
    <2> HIDE DEF h, Y, V
    <2> QED BY <2>5, <2>7, <2>8
  <1>3. Tags(ShapeTag, Y, V, Z, E)
    <2>1. \A t \in DOMAIN ShapeTag : ShapeTag[t] \in Cells
      BY ShapeTags
    <2>2. ASSUME NEW t \in DOMAIN ShapeTag, NEW y \in Y[t]
          PROVE  y \in Z /\ E[y] = <<ShapeTag[t]>> \o V[t][y]
      <3>1. PICK x \in ShapeParts(t, X) : y = <<t, x>>
        OBVIOUS
      <3>2. y \in Z
        BY ShapeIs
      <3>3. E[y] = writeShape(W, <<t, x>>)
        BY <3>1, <3>2
      <3>4. V[t][y] = ShapeWriter(t, X, W)[x]
        BY <3>1
      <3>5. writeShape(W, <<t, x>>) = <<ShapeTag[t]>> \o ShapeWriter(t, X, W)[x]
        BY writeShapeIs
      <3> HIDE DEF E, V, Y, Z
      <3> QED BY <3>2, <3>3, <3>4, <3>5
    <2>3. \A z \in Z : \E t \in DOMAIN ShapeTag : z \in Y[t]
      BY ShapeIs
    <2> HIDE DEF E, V, Y, Z
    <2> QED BY <2>1, <2>2, <2>3 DEF Tags
  <1> HIDE DEF f, h, Y, V, Z, E
  <1>4. Undoes(f, Z, E)
    BY <1>1, <1>2, <1>3, TaggedUndoes
  <1> QED BY <1>4 DEF f, Z, E

\* Shapes are read back, however deep they nest.
LEMMA ShapesUndo ==
  \A d \in 0 .. Nesting : Undoes(readShapes[d], Shape[d], writeShapes[d])
  <1> DEFINE S == {d \in Nat : d <= Nesting => Undoes(readShapes[d], Shape[d], writeShapes[d])}
  <1>1. 0 \in S
    <2> SUFFICES Undoes(readShapes[0], Shape[0], writeShapes[0])
      OBVIOUS
    <2>1. 0 \in 0 .. Nesting
      BY ValuesAssumption
    <2>2. Shape[0] = {}
      BY <2>1, ShapeOf DEF ShapeAt
    <2>3. readShapes[0] = [s \in Wires |-> Failed]
      BY <2>1, readShapesOf DEF readShapesAt
    <2>4. Reads(readShapes[0], {v \in Shape[0] : writeShapes[0][v] \in Wires})
      BY <2>3, FailReads
    <2> QED BY <2>2, <2>4 DEF Undoes
  <1>2. ASSUME NEW d \in Nat, d \in S PROVE d + 1 \in S
    <2> SUFFICES ASSUME NEW k \in Nat, k = d + 1, k <= Nesting
                 PROVE  Undoes(readShapes[k], Shape[k], writeShapes[k])
      OBVIOUS
    <2>1. k \in 0 .. Nesting /\ k # 0 /\ k - 1 = d /\ d <= Nesting
      BY ValuesAssumption
    <2>2. Undoes(readShapes[d], Shape[d], writeShapes[d])
      BY <1>2, <2>1
    <2>3. Shape[k] = ShapeAt(k, Shape[d])
      BY <2>1, ShapeOf
    <2>4. readShapes[k] = [s \in Wires |-> readShape(readShapes[d], s)]
      <3>1. readShapes[k] = readShapesAt(k, readShapes[d])
        BY <2>1, readShapesOf
      <3> QED BY <2>1, <3>1 DEF readShapesAt
    <2>5. writeShapes[k] = [s \in ShapeAt(k, Shape[d]) |-> writeShape(writeShapes[d], s)]
      <3>1. writeShapes[k] = writeShapesAt(k, writeShapes[d])
        BY <2>1, writeShapesOf
      <3> QED BY <2>3, <3>1 DEF writeShapesAt
    <2>6. Undoes([s \in Wires |-> readShape(readShapes[d], s)], ShapeAt(k, Shape[d]),
                 [s \in ShapeAt(k, Shape[d]) |-> writeShape(writeShapes[d], s)])
      BY <2>1, <2>2, ShapeStepUndoes
    <2> QED BY <2>3, <2>4, <2>5, <2>6
  <1> HIDE DEF S
  <1>3. Nat \subseteq S
    BY <1>1, <1>2, SetInduction
  <1> QED BY <1>3 DEF S

-----------------------------------------------------------------------------
(***************************************************************************)
(* The order of sequences of cells.                                        *)
(***************************************************************************)
\* What stands at i, less than any cell where nothing does.
At(s, i) == IF i <= Len(s) THEN s[i] ELSE -1

\* They differ at i first, and a has the less there.
LessAt(a, b, i) == (\A j \in 1 .. i - 1 : At(a, j) = At(b, j)) /\ At(a, i) < At(b, i)

Numbers == Nat \ {0}

\* What stands at a place of a wire, and that nothing stands behind its end.
LEMMA AtIs ==
  ASSUME NEW s \in Wires
  PROVE  /\ Len(s) \in Nat
         /\ \A i \in Numbers : At(s, i) \in Int
         /\ \A i \in Numbers : i <= Len(s) <=> At(s, i) # -1
         /\ \A i \in Numbers : i <= Len(s) => At(s, i) = s[i] /\ s[i] \in Nat
         /\ \A i \in Numbers : ~(i <= Len(s)) => At(s, i) = -1
  <1>1. Len(s) \in Nat /\ \A i \in 1 .. Len(s) : s[i] \in Nat
    BY LenProperties, ElementOfSeq, CellsAre DEF Wires
  <1>2. \A i \in Numbers : i <= Len(s) => i \in 1 .. Len(s)
    BY <1>1 DEF Numbers
  <1> QED BY <1>1, <1>2 DEF At

\* Two sequences start alike if they have the same at each place.
LEMMA StartAlike ==
  ASSUME NEW a \in Wires, NEW b \in Wires, NEW n \in Nat, n <= Len(a), n <= Len(b)
  PROVE  SubSeq(a, 1, n) = SubSeq(b, 1, n) <=> \A j \in 1 .. n : At(a, j) = At(b, j)
  <1>1. a \in Seq(Cells) /\ b \in Seq(Cells) /\ Len(a) \in Nat /\ Len(b) \in Nat
    BY AtIs DEF Wires
  <1>2. PICK p : p = SubSeq(a, 1, n)
    OBVIOUS
  <1>3. PICK q : q = SubSeq(b, 1, n)
    OBVIOUS
  <1>4. p \in Seq(Cells) /\ Len(p) = n /\ \A j \in 1 .. n : p[j] = a[j]
    <2>1. \A i \in 1 .. n : a[i] \in Cells
      BY <1>1, ElementOfSeq
    <2> QED BY <1>1, <1>2, <2>1, SubSeqProperties
  <1>5. q \in Seq(Cells) /\ Len(q) = n /\ \A j \in 1 .. n : q[j] = b[j]
    <2>1. \A i \in 1 .. n : b[i] \in Cells
      BY <1>1, ElementOfSeq
    <2> QED BY <1>1, <1>3, <2>1, SubSeqProperties
  <1>6. ASSUME NEW j \in 1 .. n PROVE At(a, j) = p[j] /\ At(b, j) = q[j]
    <2>1. j <= Len(a) /\ j <= Len(b)
      BY <1>1
    <2> QED BY <1>4, <1>5, <2>1 DEF At
  <1>7. (\A j \in 1 .. n : p[j] = q[j]) => p = q
    BY <1>4, <1>5, SeqEqual
  <1> QED BY <1>2, <1>3, <1>6, <1>7

\* One wire is before another if it has less, or nothing, where they differ
\* first.
LEMMA BeforeIs ==
  ASSUME NEW a \in Wires, NEW b \in Wires
  PROVE  Before(a, b) <=> \E i \in Numbers : LessAt(a, b, i)
  <1>1. Len(a) \in Nat /\ Len(b) \in Nat
    BY AtIs
  <1>2. ASSUME IsStrictPrefix(a, b) PROVE \E i \in Numbers : LessAt(a, b, i)
    <2>1. Len(a) <= Len(b) /\ SubSeq(a, 1, Len(a)) = SubSeq(b, 1, Len(a)) /\ a # b
      BY <1>2 DEF IsStrictPrefix, IsPrefix
    <2>2. Len(a) # Len(b)
      <3>1. SubSeq(a, 1, Len(a)) = a /\ SubSeq(b, 1, Len(b)) = b
        BY SubSeqFull DEF Wires
      <3> QED BY <2>1, <3>1
    <2>3. PICK i \in Numbers : i = Len(a) + 1
      BY <1>1 DEF Numbers
    <2>4. \A j \in 1 .. i - 1 : At(a, j) = At(b, j)
      <3>1. \A j \in 1 .. Len(a) : At(a, j) = At(b, j)
        BY <1>1, <2>1, StartAlike
      <3>2. i - 1 = Len(a)
        BY <1>1, <2>3
      <3> QED BY <3>1, <3>2
    <2>5. At(a, i) < At(b, i)
      <3>1. ~(i <= Len(a)) /\ i <= Len(b)
        BY <1>1, <2>1, <2>2, <2>3
      <3>2. At(a, i) = -1 /\ At(b, i) \in Nat
        BY <3>1, AtIs
      <3> QED BY <3>2
    <2> QED BY <2>4, <2>5 DEF LessAt
  <1>3. ASSUME NEW i \in 1 .. Len(a) \cap 1 .. Len(b),
               SubSeq(a, 1, i - 1) = SubSeq(b, 1, i - 1), a[i] < b[i]
        PROVE  \E k \in Numbers : LessAt(a, b, k)
    <2>1. i \in Numbers /\ i <= Len(a) /\ i <= Len(b) /\ i - 1 \in Nat /\ i - 1 <= Len(a) /\ i - 1 <= Len(b)
      BY <1>1 DEF Numbers
    <2>2. \A j \in 1 .. i - 1 : At(a, j) = At(b, j)
      BY <1>3, <2>1, StartAlike
    <2>3. At(a, i) < At(b, i)
      BY <1>3, <2>1, AtIs
    <2> QED BY <2>1, <2>2, <2>3 DEF LessAt
  <1>4. ASSUME NEW i \in Numbers, LessAt(a, b, i) PROVE Before(a, b)
    <2>1. At(a, i) < At(b, i) /\ \A j \in 1 .. i - 1 : At(a, j) = At(b, j)
      BY <1>4 DEF LessAt
    <2>2. i <= Len(b)
      <3>1. ~(i <= Len(b)) => At(b, i) = -1
        BY AtIs
      <3>2. i <= Len(a) => At(a, i) \in Nat
        BY AtIs
      <3>3. ~(i <= Len(a)) => At(a, i) = -1
        BY AtIs
      <3> QED BY <2>1, <3>1, <3>2, <3>3
    <2>3. i - 1 \in Nat /\ i - 1 <= Len(b)
      BY <1>1, <2>2 DEF Numbers
    <2>4. CASE i <= Len(a)
      <3>1. SubSeq(a, 1, i - 1) = SubSeq(b, 1, i - 1)
        <4>1. PICK n \in Nat : n = i - 1
          BY <2>3
        <4>2. n <= Len(a) /\ n <= Len(b)
          BY <1>1, <2>3, <2>4, <4>1 DEF Numbers
        <4>3. SubSeq(a, 1, n) = SubSeq(b, 1, n)
          BY <2>1, <4>1, <4>2, StartAlike
        <4> QED BY <4>1, <4>3
      <3>2. a[i] < b[i]
        BY <2>1, <2>2, <2>4, AtIs
      <3>3. i \in 1 .. Len(a) \cap 1 .. Len(b)
        BY <1>1, <2>2, <2>4 DEF Numbers
      <3> QED BY <3>1, <3>2, <3>3 DEF Before
    <2>5. CASE ~(i <= Len(a))
      <3>1. i = Len(a) + 1
        <4> SUFFICES ASSUME i # Len(a) + 1 PROVE FALSE
          OBVIOUS
        <4>1. PICK j \in Numbers : j = Len(a) + 1
          BY <1>1 DEF Numbers
        <4>2. j \in 1 .. i - 1 /\ ~(j <= Len(a)) /\ j <= Len(b)
          BY <1>1, <2>2, <2>5, <4>1 DEF Numbers
        <4>3. At(a, j) = -1 /\ At(b, j) # -1
          BY <4>2, AtIs
        <4> QED BY <2>1, <4>2, <4>3
      <3>2. Len(a) <= Len(b) /\ Len(a) # Len(b) /\ i - 1 = Len(a)
        BY <1>1, <2>2, <3>1
      <3>3. SubSeq(a, 1, Len(a)) = SubSeq(b, 1, Len(a))
        BY <1>1, <2>1, <3>2, StartAlike
      <3> QED BY <3>2, <3>3 DEF Before, IsStrictPrefix, IsPrefix
    <2> QED BY <2>4, <2>5
  <1> QED BY <1>2, <1>3, <1>4 DEF Before

\* It is an order, and a total one.
LEMMA BeforeOrders ==
  /\ \A a \in Wires : ~Before(a, a)
  /\ \A a, b, c \in Wires : Before(a, b) /\ Before(b, c) => Before(a, c)
  /\ \A a, b \in Wires : a = b \/ Before(a, b) \/ Before(b, a)
  <1>1. ASSUME NEW a \in Wires PROVE ~Before(a, a)
    <2>1. ASSUME NEW i \in Numbers PROVE ~LessAt(a, a, i)
      BY AtIs DEF LessAt
    <2> QED BY <2>1, BeforeIs
  <1>2. ASSUME NEW a \in Wires, NEW b \in Wires, NEW c \in Wires, Before(a, b), Before(b, c)
        PROVE  Before(a, c)
    <2>1. PICK i \in Numbers : LessAt(a, b, i)
      BY <1>2, BeforeIs
    <2>2. PICK j \in Numbers : LessAt(b, c, j)
      BY <1>2, BeforeIs
    <2>3. /\ At(a, i) \in Int /\ At(b, i) \in Int /\ At(c, i) \in Int
          /\ At(a, j) \in Int /\ At(b, j) \in Int /\ At(c, j) \in Int
      BY AtIs
    <2>4. /\ At(a, i) < At(b, i) /\ \A k \in 1 .. i - 1 : At(a, k) = At(b, k)
          /\ At(b, j) < At(c, j) /\ \A k \in 1 .. j - 1 : At(b, k) = At(c, k)
      BY <2>1, <2>2 DEF LessAt
    <2>5. CASE i < j
      <3>1. i \in 1 .. j - 1 /\ 1 .. i - 1 \subseteq 1 .. j - 1
        BY <2>5 DEF Numbers
      <3>2. LessAt(a, c, i)
        BY <2>3, <2>4, <3>1 DEF LessAt
      <3> QED BY <3>2, BeforeIs
    <2>6. CASE i = j
      <3>1. LessAt(a, c, i)
        BY <2>3, <2>4, <2>6 DEF LessAt
      <3> QED BY <3>1, BeforeIs
    <2>7. CASE j < i
      <3>1. j \in 1 .. i - 1 /\ 1 .. j - 1 \subseteq 1 .. i - 1
        BY <2>7 DEF Numbers
      <3>2. LessAt(a, c, j)
        BY <2>3, <2>4, <3>1 DEF LessAt
      <3> QED BY <3>2, BeforeIs
    <2> QED BY <2>5, <2>6, <2>7 DEF Numbers
  <1>3. ASSUME NEW a \in Wires, NEW b \in Wires, a # b PROVE Before(a, b) \/ Before(b, a)
    <2> DEFINE D == {i \in Numbers : At(a, i) # At(b, i)}
    <2>1. \E i \in Numbers : At(a, i) # At(b, i)
      <3> SUFFICES ASSUME \A i \in Numbers : At(a, i) = At(b, i) PROVE a = b
        BY <1>3
      <3>1. Len(a) = Len(b)
        <4>1. CASE Len(a) < Len(b)
          <5>1. PICK j \in Numbers : j = Len(a) + 1
            BY AtIs DEF Numbers
          <5>2. ~(j <= Len(a)) /\ j <= Len(b)
            BY <4>1, <5>1, AtIs
          <5> QED BY <5>2, AtIs
        <4>2. CASE Len(b) < Len(a)
          <5>1. PICK j \in Numbers : j = Len(b) + 1
            BY AtIs DEF Numbers
          <5>2. ~(j <= Len(b)) /\ j <= Len(a)
            BY <4>2, <5>1, AtIs
          <5> QED BY <5>2, AtIs
        <4> QED BY <4>1, <4>2, AtIs
      <3>2. SubSeq(a, 1, Len(a)) = SubSeq(b, 1, Len(a))
        <4>1. \A j \in 1 .. Len(a) : j \in Numbers
          BY AtIs DEF Numbers
        <4> QED BY <3>1, <4>1, AtIs, StartAlike
      <3> QED BY <3>1, <3>2, SubSeqFull DEF Wires
    <2>2. PICK n \in D : \A i \in D : n <= i
      <3>1. D \in SUBSET Nat
        BY DEF Numbers
      <3> HIDE DEF D
      <3> QED BY <2>1, <3>1, FirstOne DEF D
    <2>3. ASSUME NEW j \in 1 .. n - 1 PROVE At(a, j) = At(b, j)
      <3>1. j \in Numbers /\ ~(n <= j)
        BY DEF Numbers
      <3> QED BY <2>2, <3>1
    <2>4. n \in Numbers /\ At(a, n) # At(b, n) /\ At(a, n) \in Int /\ At(b, n) \in Int
      BY AtIs
    <2>5. LessAt(a, b, n) \/ LessAt(b, a, n)
      BY <2>3, <2>4 DEF LessAt
    <2> QED BY <2>4, <2>5, BeforeIs
  <1> QED BY <1>1, <1>2, <1>3

-----------------------------------------------------------------------------
(***************************************************************************)
(* The fields of objects.                                                  *)
(***************************************************************************)
LEMMA ObjectIs ==
  ASSUME NEW X, NEW o \in Objects(X)
  PROVE  /\ IsFiniteSet(o) /\ Cardinality(o) \in Nat
         /\ \A f \in o : f \in Texts \X X /\ f[1] \in Wires
         /\ \A f, g \in o : f[1] = g[1] => f = g
  <1>1. IsFiniteSet(o) /\ o \in SUBSET (Texts \X X) /\ \A f, g \in o : f[1] = g[1] => f = g
    BY DEF Objects
  <1>2. \A f \in o : f[1] \in Wires
    BY <1>1 DEF Texts
  <1> QED BY <1>1, <1>2, FS_CardinalityType

\* The fields whose name is before that of f.
Lower(o, f) == {g \in o : Before(g[1], f[1])}

\* The names below a field's are fewer than the fields, and fewer for a lower
\* field.
LEMMA LowerIs ==
  ASSUME NEW X, NEW o \in Objects(X)
  PROVE  /\ \A f \in o : Cardinality(Lower(o, f)) \in 0 .. Cardinality(o) - 1
         /\ \A f, g \in o : Cardinality(Lower(o, f)) = Cardinality(Lower(o, g)) => f = g
  <1>1. ASSUME NEW f \in o
        PROVE  /\ Lower(o, f) \in SUBSET o /\ f \notin Lower(o, f) /\ IsFiniteSet(Lower(o, f))
               /\ Cardinality(Lower(o, f)) \in 0 .. Cardinality(o) - 1
    <2>1. Lower(o, f) \in SUBSET o
      BY DEF Lower
    <2>2. f \notin Lower(o, f)
      BY ObjectIs, BeforeOrders DEF Lower
    <2>3. IsFiniteSet(Lower(o, f)) /\ Cardinality(Lower(o, f)) <= Cardinality(o)
          /\ Cardinality(o) # Cardinality(Lower(o, f))
      BY <2>1, <2>2, ObjectIs, FS_Subset
    <2>4. Cardinality(Lower(o, f)) \in Nat /\ Cardinality(o) \in Nat
      BY <2>3, ObjectIs, FS_CardinalityType
    <2> QED BY <2>1, <2>2, <2>3, <2>4
  <1>2. ASSUME NEW f \in o, NEW g \in o, Before(f[1], g[1])
        PROVE  Cardinality(Lower(o, f)) < Cardinality(Lower(o, g))
    <2>1. Lower(o, f) \in SUBSET Lower(o, g)
      BY <1>2, ObjectIs, BeforeOrders DEF Lower
    <2>2. f \in Lower(o, g) /\ f \notin Lower(o, f)
      BY <1>1, <1>2 DEF Lower
    <2>3. /\ Cardinality(Lower(o, f)) <= Cardinality(Lower(o, g))
          /\ Cardinality(Lower(o, f)) # Cardinality(Lower(o, g))
      BY <1>1, <2>1, <2>2, FS_Subset
    <2>4. Cardinality(Lower(o, f)) \in Nat /\ Cardinality(Lower(o, g)) \in Nat
      BY <1>1
    <2> QED BY <2>3, <2>4
  <1>3. ASSUME NEW f \in o, NEW g \in o, f # g
        PROVE  Cardinality(Lower(o, f)) # Cardinality(Lower(o, g))
    <2>1. f[1] \in Wires /\ g[1] \in Wires /\ f[1] # g[1]
      BY <1>3, ObjectIs
    <2>2. Before(f[1], g[1]) \/ Before(g[1], f[1])
      BY <2>1, BeforeOrders
    <2>3. Cardinality(Lower(o, f)) \in Nat /\ Cardinality(Lower(o, g)) \in Nat
      BY <1>1
    <2> QED BY <1>2, <2>2, <2>3
  <1> QED BY <1>1, <1>3

\* Every place is taken by one field.
LEMMA SortedIs ==
  ASSUME NEW X, NEW o \in Objects(X)
  PROVE  /\ Sorted(o) \in Seq(Texts \X X) /\ Len(Sorted(o)) = Cardinality(o)
         /\ \A i \in 1 .. Len(Sorted(o)) : Sorted(o)[i] \in o
         /\ \A f \in o : \E i \in 1 .. Len(Sorted(o)) : Sorted(o)[i] = f
         /\ \A i, j \in 1 .. Len(Sorted(o)) : Sorted(o)[i] = Sorted(o)[j] => i = j
  <1>1. PICK n \in Nat : n = Cardinality(o)
    BY ObjectIs
  <1> DEFINE r == [f \in o |-> Cardinality(Lower(o, f))]
             s == Sorted(o)
  <1>2. s = [i \in 1 .. n |-> CHOOSE f \in o : Cardinality(Lower(o, f)) = i - 1]
    BY <1>1, Zenon DEF Sorted, Lower
  <1>3. r \in Injection(o, 0 .. n - 1)
    <2>1. r \in [o -> 0 .. n - 1]
      BY <1>1, LowerIs
    <2>2. \A f, g \in o : r[f] = r[g] => f = g
      BY LowerIs
    <2> HIDE DEF r
    <2> QED BY <2>1, <2>2 DEF Injection, IsInjective
  <1>4. r \in Surjection(o, 0 .. n - 1)
    <2>1. IsFiniteSet(0 .. n - 1) /\ Cardinality(0 .. n - 1) = n
      BY FS_Interval
    <2> HIDE DEF r
    <2> QED BY <1>1, <1>3, <2>1, FS_Injection
  <1>5. ASSUME NEW i \in 1 .. n PROVE s[i] \in o /\ Cardinality(Lower(o, s[i])) = i - 1
    <2>1. i - 1 \in 0 .. n - 1
      OBVIOUS
    <2>2. \E f \in o : r[f] = i - 1
      <3> HIDE DEF r
      <3> QED BY <1>4, <2>1 DEF Surjection
    <2>3. \E f \in o : Cardinality(Lower(o, f)) = i - 1
      BY <2>2
    <2>4. s[i] = CHOOSE f \in o : Cardinality(Lower(o, f)) = i - 1
      <3> HIDE DEF s
      <3> QED BY <1>2
    <2> HIDE DEF s
    <2> QED BY <2>3, <2>4
  <1>6. s \in Seq(Texts \X X) /\ Len(s) = n
    <2>1. \A i \in 1 .. n : s[i] \in Texts \X X
      BY <1>5, ObjectIs
    <2> HIDE DEF s
    <2> QED BY <1>2, <2>1
  <1>7. ASSUME NEW f \in o PROVE \E i \in 1 .. n : s[i] = f
    <2>1. PICK k \in 0 .. n - 1 : k = Cardinality(Lower(o, f))
      BY <1>1, LowerIs
    <2>2. PICK i \in 1 .. n : i = k + 1
      OBVIOUS
    <2>3. s[i] \in o /\ Cardinality(Lower(o, s[i])) = Cardinality(Lower(o, f))
      BY <1>5, <2>1, <2>2
    <2>4. s[i] = f
      <3> HIDE DEF s
      <3> QED BY <2>3, LowerIs
    <2> QED BY <2>4
  <1>8. ASSUME NEW i \in 1 .. n, NEW j \in 1 .. n, s[i] = s[j] PROVE i = j
    BY <1>5, <1>8
  <1> HIDE DEF s
  <1>9. /\ \A i \in 1 .. Len(s) : s[i] \in o
        /\ \A f \in o : \E i \in 1 .. Len(s) : s[i] = f
        /\ \A i, j \in 1 .. Len(s) : s[i] = s[j] => i = j
    BY <1>5, <1>6, <1>7, <1>8
  <1> QED BY <1>1, <1>6, <1>9 DEF s

\* What is read as an object is one, of no more fields than were read.
LEMMA FieldsIs ==
  ASSUME NEW X, NEW ps \in Seq(Texts \X X)
  PROVE  /\ Fields(ps) \in Objects(X)
         /\ Cardinality(Fields(ps)) <= Len(ps)
         /\ \A f \in Fields(ps) : \E i \in 1 .. Len(ps) : f = ps[i]
  <1> DEFINE D == {j \in 1 .. Len(ps) : \A k \in j + 1 .. Len(ps) : ps[k][1] # ps[j][1]}
             m == [i \in D |-> ps[i]]
  <1>1. Len(ps) \in Nat /\ \A i \in 1 .. Len(ps) : ps[i] \in Texts \X X
    BY LenProperties, ElementOfSeq
  <1>2. Fields(ps) = {ps[i] : i \in D}
    BY DEF Fields
  <1>3. IsFiniteSet(D) /\ Cardinality(D) <= Len(ps) /\ Cardinality(D) \in Nat
    <2>1. IsFiniteSet(1 .. Len(ps)) /\ Cardinality(1 .. Len(ps)) = Len(ps)
      <3>1. PICK n \in Nat : n = Len(ps)
        BY <1>1
      <3>2. IsFiniteSet(1 .. n) /\ Cardinality(1 .. n) = IF 1 > n THEN 0 ELSE n - 1 + 1
        BY FS_Interval
      <3>3. Cardinality(1 .. n) = n
        BY <3>2
      <3> QED BY <3>1, <3>2, <3>3
    <2>2. D \in SUBSET (1 .. Len(ps))
      OBVIOUS
    <2> HIDE DEF D
    <2> QED BY <2>1, <2>2, FS_Subset, FS_CardinalityType
  <1>4. IsFiniteSet(Fields(ps)) /\ Cardinality(Fields(ps)) <= Cardinality(D)
    <2>1. m \in Surjection(D, Fields(ps))
      <3>1. m \in [D -> Fields(ps)] /\ \A t \in Fields(ps) : \E i \in D : m[i] = t
        <4> HIDE DEF D
        <4> QED BY <1>2
      <3> HIDE DEF m, D
      <3> QED BY <3>1 DEF Surjection
    <2> HIDE DEF m, D
    <2> QED BY <1>3, <2>1, FS_Surjection
  <1>5. ASSUME NEW f \in Fields(ps), NEW g \in Fields(ps), f[1] = g[1] PROVE f = g
    <2>1. PICK i \in D : f = ps[i]
      <3> HIDE DEF D
      <3> QED BY <1>2
    <2>2. PICK j \in D : g = ps[j]
      <3> HIDE DEF D
      <3> QED BY <1>2
    <2>3. i = j
      <3>1. i \in 1 .. Len(ps) /\ j \in 1 .. Len(ps) /\ ps[i][1] = ps[j][1]
        BY <1>5, <2>1, <2>2
      <3>2. ~(i < j) /\ ~(j < i)
        BY <1>1, <2>1, <2>2, <3>1
      <3> QED BY <1>1, <3>1, <3>2
    <2> QED BY <2>1, <2>2, <2>3
  <1>6. ASSUME NEW f \in Fields(ps) PROVE \E i \in 1 .. Len(ps) : f = ps[i]
    <2>1. D \subseteq 1 .. Len(ps)
      OBVIOUS
    <2> HIDE DEF D
    <2> QED BY <1>2, <2>1
  <1>7. Fields(ps) \in Objects(X)
    <2>1. Fields(ps) \in SUBSET (Texts \X X)
      BY <1>1, <1>6
    <2> QED BY <1>4, <1>5, <2>1 DEF Objects
  <1>8. Cardinality(Fields(ps)) <= Len(ps)
    <2>1. Cardinality(Fields(ps)) \in Nat
      BY <1>4, FS_CardinalityType
    <2> HIDE DEF D
    <2> QED BY <1>1, <1>3, <1>4, <2>1
  <1> QED BY <1>6, <1>7, <1>8

\* An object's fields, sorted, are its fields.
LEMMA FieldsSorted ==
  ASSUME NEW X, NEW o \in Objects(X)
  PROVE  Fields(Sorted(o)) = o
  <1>1. PICK s : s = Sorted(o)
    OBVIOUS
  <1>2. /\ Len(s) \in Nat
        /\ \A i \in 1 .. Len(s) : s[i] \in o
        /\ \A f \in o : \E i \in 1 .. Len(s) : s[i] = f
        /\ \A i, j \in 1 .. Len(s) : s[i] = s[j] => i = j
    <2>1. Sorted(o) \in Seq(Texts \X X)
      BY SortedIs
    <2>2. Len(Sorted(o)) \in Nat
      BY <2>1, LenProperties
    <2>3. /\ \A i \in 1 .. Len(Sorted(o)) : Sorted(o)[i] \in o
          /\ \A f \in o : \E i \in 1 .. Len(Sorted(o)) : Sorted(o)[i] = f
          /\ \A i, j \in 1 .. Len(Sorted(o)) : Sorted(o)[i] = Sorted(o)[j] => i = j
      BY SortedIs, Zenon
    <2> QED BY <1>1, <2>2, <2>3, Zenon
  <1>3. \A f, g \in o : f[1] = g[1] => f = g
    BY ObjectIs
  <1>4. ASSUME NEW j \in 1 .. Len(s), NEW k \in j + 1 .. Len(s) PROVE s[k][1] # s[j][1]
    <2>1. k \in 1 .. Len(s) /\ k # j
      BY <1>2
    <2>2. s[k] \in o /\ s[j] \in o /\ s[k] # s[j]
      BY <1>2, <2>1
    <2> QED BY <1>3, <2>2
  <1>5. Fields(s) = {s[i] : i \in 1 .. Len(s)}
    BY <1>4 DEF Fields
  <1>6. {s[i] : i \in 1 .. Len(s)} = o
    BY <1>2
  <1> QED BY <1>1, <1>5, <1>6

-----------------------------------------------------------------------------
(***************************************************************************)
(* What the values consist of.                                             *)
(***************************************************************************)
\* A tag and two parts, read one after the other.
Paired(t, g, k) ==
  [s \in Wires |-> Then(g[s], LAMBDA a, rest : As(k[rest], LAMBDA b : <<t, a, b>>))]

\* Both parts are written behind each other.
Joins(t, A, B, Wa, Wb, E) == \A a \in A, b \in B : E[<<t, a, b>>] = Wa[a] \o Wb[b]

\* Two fields under the name of their kind are undone.
LEMMA PairedUndoes ==
  ASSUME NEW t, NEW g, NEW k, NEW A, NEW B, NEW Wa, NEW Wb, NEW E,
         Undoes(g, A, Wa), Undoes(k, B, Wb), Joins(t, A, B, Wa, Wb, E)
  PROVE  Undoes(Paired(t, g, k), {t} \X A \X B, E)
  <1> DEFINE m == [a \in A |-> [b \in B |-> <<t, a, b>>]]
  <1>1. Both(Paired(t, g, k), g, k, m, A, B)
    <2>1. ASSUME NEW s \in Wires, g[s] = Failed PROVE Paired(t, g, k)[s] = Failed
      BY <2>1, GotIs DEF Paired, Then
    <2>2. ASSUME NEW s \in Wires, NEW a \in A, NEW rest \in Wires, g[s] = Got(a, rest)
          PROVE  /\ k[rest] = Failed => Paired(t, g, k)[s] = Failed
                 /\ \A b \in B, left \in Wires :
                      k[rest] = Got(b, left) => Paired(t, g, k)[s] = Got(m[a][b], left)
      <3>1. g[s].ok /\ g[s].value = a /\ g[s].rest = rest
        BY <2>2, GotIs
      <3>2. Paired(t, g, k)[s] = IF k[rest].ok THEN Got(<<t, a, k[rest].value>>, k[rest].rest)
                                               ELSE Failed
        BY <3>1 DEF Paired, Then, As
      <3>3. ASSUME NEW b \in B, NEW left \in Wires, k[rest] = Got(b, left)
            PROVE  Paired(t, g, k)[s] = Got(m[a][b], left)
        <4>1. k[rest].ok /\ k[rest].value = b /\ k[rest].rest = left
          BY <3>3, GotIs
        <4> QED BY <3>2, <4>1
      <3> QED BY <3>2, <3>3, GotIs
    <2> HIDE DEF m
    <2> QED BY <2>1, <2>2 DEF Both
  <1>2. Combines(m, A, B, Wa, Wb, {t} \X A \X B, E)
    <2>1. ASSUME NEW a \in A, NEW b \in B
          PROVE  m[a][b] \in {t} \X A \X B /\ E[m[a][b]] = Wa[a] \o Wb[b]
      BY DEF Joins
    <2>2. ASSUME NEW y \in {t} \X A \X B PROVE \E a \in A, b \in B : y = m[a][b]
      <3>1. PICK a \in A, b \in B : y = <<t, a, b>>
        OBVIOUS
      <3>2. m[a][b] = <<t, a, b>>
        OBVIOUS
      <3> QED BY <3>1, <3>2
    <2> HIDE DEF m
    <2> QED BY <2>1, <2>2 DEF Combines
  <1> HIDE DEF m
  <1> QED BY <1>1, <1>2, BothUndoes

\* A name and a value, read one after the other.
FieldOf(g, k) ==
  [s \in Wires |-> Then(g[s], LAMBDA a, rest : As(k[rest], LAMBDA b : <<a, b>>))]

JoinsField(A, B, Wa, Wb, E) == \A a \in A, b \in B : E[<<a, b>>] = Wa[a] \o Wb[b]

\* A name and its value are undone.
LEMMA FieldUndoes ==
  ASSUME NEW g, NEW k, NEW A, NEW B, NEW Wa, NEW Wb, NEW E,
         Undoes(g, A, Wa), Undoes(k, B, Wb), JoinsField(A, B, Wa, Wb, E)
  PROVE  Undoes(FieldOf(g, k), A \X B, E)
  <1> DEFINE m == [a \in A |-> [b \in B |-> <<a, b>>]]
  <1>1. Both(FieldOf(g, k), g, k, m, A, B)
    <2>1. ASSUME NEW s \in Wires, g[s] = Failed PROVE FieldOf(g, k)[s] = Failed
      BY <2>1, GotIs DEF FieldOf, Then
    <2>2. ASSUME NEW s \in Wires, NEW a \in A, NEW rest \in Wires, g[s] = Got(a, rest)
          PROVE  /\ k[rest] = Failed => FieldOf(g, k)[s] = Failed
                 /\ \A b \in B, left \in Wires :
                      k[rest] = Got(b, left) => FieldOf(g, k)[s] = Got(m[a][b], left)
      <3>1. g[s].ok /\ g[s].value = a /\ g[s].rest = rest
        BY <2>2, GotIs
      <3>2. FieldOf(g, k)[s] = IF k[rest].ok THEN Got(<<a, k[rest].value>>, k[rest].rest)
                                             ELSE Failed
        BY <3>1 DEF FieldOf, Then, As
      <3>3. ASSUME NEW b \in B, NEW left \in Wires, k[rest] = Got(b, left)
            PROVE  FieldOf(g, k)[s] = Got(m[a][b], left)
        <4>1. k[rest].ok /\ k[rest].value = b /\ k[rest].rest = left
          BY <3>3, GotIs
        <4> QED BY <3>2, <4>1
      <3> QED BY <3>2, <3>3, GotIs
    <2> HIDE DEF m
    <2> QED BY <2>1, <2>2 DEF Both
  <1>2. Combines(m, A, B, Wa, Wb, A \X B, E)
    <2>1. ASSUME NEW a \in A, NEW b \in B
          PROVE  m[a][b] \in A \X B /\ E[m[a][b]] = Wa[a] \o Wb[b]
      BY DEF JoinsField
    <2>2. ASSUME NEW y \in A \X B PROVE \E a \in A, b \in B : y = m[a][b]
      <3>1. PICK a \in A, b \in B : y = <<a, b>>
        OBVIOUS
      <3>2. m[a][b] = <<a, b>>
        OBVIOUS
      <3> QED BY <3>1, <3>2
    <2> HIDE DEF m
    <2> QED BY <2>1, <2>2 DEF Combines
  <1> HIDE DEF m
  <1> QED BY <1>1, <1>2, BothUndoes

\* What cannot be written is never read, so more of it changes nothing.
LEMMA RefusedUndoes ==
  ASSUME NEW f, NEW X, NEW W, NEW Y, NEW E, Undoes(f, X, W), X \subseteq Y,
         \A x \in X : E[x] = W[x], \A y \in Y \ X : E[y] \in Drafts /\ E[y] \notin Wires
  PROVE  Undoes(f, Y, E)
  <1>1. {v \in X : W[v] \in Wires} = {y \in Y : E[y] \in Wires}
    OBVIOUS
  <1>2. Reads(f, {y \in Y : E[y] \in Wires})
    BY <1>1 DEF Undoes
  <1>3. ASSUME NEW y \in Y PROVE E[y] \in Drafts /\ (E[y] \in Wires => Back(f, y, E[y]))
    BY DEF Undoes
  <1> QED BY <1>2, <1>3 DEF Undoes

\* Nothing is left to read of a value that its tag says.
LEMMA PutUndoes ==
  ASSUME NEW u, NEW W, W[u] = <<>>
  PROVE  Undoes([s \in Wires |-> Got(u, s)], {u}, W)
  <1> DEFINE f == [s \in Wires |-> Got(u, s)]
  <1>1. Reads(f, {u}) /\ Back(f, u, <<>>)
    BY PutReads
  <1> HIDE DEF f
  <1>2. \A v \in {u} : W[v] \in Wires /\ Back(f, v, W[v])
    BY <1>1, WiresJoin
  <1>3. Undoes(f, {u}, W)
    BY <1>1, <1>2, AlwaysUndoes
  <1> QED BY <1>3 DEF f

\* Seconds and the nanoseconds within one, of a duration or a datetime.
Nanos == {n \in Cells : n < NanosCeiling}

RNanos == [s \in Wires |-> Then(readCell(s), LAMBDA n, left :
                             IF n >= NanosCeiling THEN Failed ELSE Got(n, left))]
WNanos == [n \in Nanos |-> <<n>>]

\* Nanoseconds are undone: those outside the second are neither written nor
\* read.
LEMMA NanosUndoes == Undoes(RNanos, Nanos, WNanos)
  <1> DEFINE g == [s \in Wires |-> readCell(s)]
             h == [n \in Cells |-> [s \in Wires |-> IF n >= NanosCeiling THEN Failed ELSE Got(n, s)]]
  <1>1. FollowedBy(RNanos, g, h, Cells)
    BY GotIs DEF FollowedBy, RNanos, Then
  <1>2. Reads(g, Cells)
    BY readCellReads
  <1>3. ASSUME NEW n \in Cells PROVE Reads(h[n], Nanos)
    <2>1. CASE n < NanosCeiling
      <3>1. n \in Nanos /\ ~(n >= NanosCeiling)
        BY <2>1, CellsAre, ValuesAssumption DEF Nanos
      <3>2. h[n] = [s \in Wires |-> Got(n, s)]
        BY <3>1
      <3> HIDE DEF h
      <3> QED BY <3>1, <3>2, PutReads
    <2>2. CASE ~(n < NanosCeiling)
      <3>1. n >= NanosCeiling
        BY <2>2, CellsAre, ValuesAssumption
      <3>2. h[n] = [s \in Wires |-> Failed]
        BY <3>1
      <3> HIDE DEF h
      <3> QED BY <3>2, FailReads
    <2> QED BY <2>1, <2>2
  <1>4. ASSUME NEW n \in Nanos PROVE WNanos[n] \in Wires /\ Back(RNanos, n, WNanos[n])
    <2>1. n \in Cells /\ ~(n >= NanosCeiling) /\ WNanos[n] = <<n>> /\ <<n>> \in Wires
      BY WiresJoin, CellsAre, ValuesAssumption DEF Nanos, WNanos
    <2>2. h[n] = [s \in Wires |-> Got(n, s)]
      BY <2>1
    <2>3. Back(g, n, <<n>>)
      BY <2>1, readCellOf, WiresJoin DEF Back
    <2> HIDE DEF g, h
    <2>4. Back(h[n], n, <<>>)
      BY <2>2, PutReads
    <2>5. Back(RNanos, n, <<n>> \o <<>>)
      BY <1>1, <2>1, <2>3, <2>4, WiresJoin, ThenBack
    <2> QED BY <2>1, <2>5, WiresJoin
  <1>5. Reads(RNanos, Nanos)
    <2> HIDE DEF g, h
    <2> QED BY <1>1, <1>2, <1>3, ThenReads
  <1> QED BY <1>4, <1>5, AlwaysUndoes

RSeconds(t) == [s \in Wires |-> readSecondsAndNanos(t, s)]
WSeconds(t) == [v \in {t} \X Signed \X Cells |-> writeSecondsAndNanos(v)]

\* Durations and datetimes are undone.
LEMMA SecondsUndoes ==
  ASSUME NEW t
  PROVE  Undoes(RSeconds(t), {t} \X Signed \X Cells, WSeconds(t))
  <1>1. ASSUME NEW a \in Signed, NEW b \in Nanos
        PROVE  WSeconds(t)[<<t, a, b>>] = WSigned[a] \o WNanos[b]
    <2>1. b \in Cells /\ ~(b >= NanosCeiling)
      BY CellsAre, ValuesAssumption DEF Nanos
    <2>2. WSeconds(t)[<<t, a, b>>] = <<i64Inverted(a), b>>
      BY <2>1 DEF WSeconds, writeSecondsAndNanos
    <2>3. <<i64Inverted(a), b>> = <<i64Inverted(a)>> \o <<b>>
      BY TwoCells
    <2> QED BY <2>2, <2>3 DEF WSigned, WNanos
  <1>2. Undoes(Paired(t, RSigned, RNanos), {t} \X Signed \X Nanos, WSeconds(t))
    <2>1. Joins(t, Signed, Nanos, WSigned, WNanos, WSeconds(t))
      BY <1>1 DEF Joins
    <2> QED BY <2>1, SignedUndoes, NanosUndoes, PairedUndoes
  <1>3. ASSUME NEW s \in Wires PROVE RSeconds(t)[s] = Paired(t, RSigned, RNanos)[s]
    <2>1. PICK r : r = readSigned(s)
      OBVIOUS
    <2>2. PICK q : q = readCell(r.rest)
      OBVIOUS
    <2>3. RSeconds(t)[s] = IF ~r.ok THEN Failed
                           ELSE IF ~q.ok THEN Failed
                           ELSE IF q.value >= NanosCeiling THEN Failed
                           ELSE Got(<<t, r.value, q.value>>, q.rest)
      BY <2>1, <2>2 DEF RSeconds, readSecondsAndNanos, Then
    <2>4. PICK p : p = RNanos[r.rest]
      OBVIOUS
    <2>5. Paired(t, RSigned, RNanos)[s] = IF ~r.ok THEN Failed
                                          ELSE IF ~p.ok THEN Failed
                                          ELSE Got(<<t, r.value, p.value>>, p.rest)
      BY <2>1, <2>4 DEF Paired, RSigned, Then, As
    <2>6. ASSUME r.ok
          PROVE  p = IF ~q.ok THEN Failed
                     ELSE IF q.value >= NanosCeiling THEN Failed ELSE Got(q.value, q.rest)
      <3>1. r.rest \in Wires
        <4>1. ReadsOf(RSigned, {n \in Signed : WSigned[n] \in Wires}, s)
          BY SignedUndoes DEF Undoes, Reads
        <4>2. RSigned[s] = r
          BY <2>1 DEF RSigned
        <4> QED BY <2>6, <4>1, <4>2, GotIs DEF ReadsOf
      <3> QED BY <2>2, <2>4, <3>1 DEF RNanos, Then
    <2> QED BY <2>3, <2>5, <2>6, GotIs
  <1>4. Undoes(RSeconds(t), {t} \X Signed \X Nanos, WSeconds(t))
    BY <1>2, <1>3, SameUndoes
  <1>5. ASSUME NEW v \in ({t} \X Signed \X Cells) \ ({t} \X Signed \X Nanos)
        PROVE  WSeconds(t)[v] \in Drafts /\ WSeconds(t)[v] \notin Wires
    <2>1. v \in {t} \X Signed \X Cells /\ v[3] \in Cells /\ v[3] >= NanosCeiling
      BY CellsAre, ValuesAssumption DEF Nanos
    <2>2. WSeconds(t)[v] = <<Refuse>>
      BY <2>1 DEF WSeconds, writeSecondsAndNanos
    <2>3. Refuse \in Int /\ Refuse \notin Cells
      BY CellsAre DEF Refuse
    <2> QED BY <2>2, <2>3, DraftsJoin
  <1>6. {t} \X Signed \X Nanos \subseteq {t} \X Signed \X Cells
    BY DEF Nanos
  <1> QED BY <1>4, <1>5, <1>6, RefusedUndoes

-----------------------------------------------------------------------------
(***************************************************************************)
(* Record ids, numbers and the ends of ranges: a tag, and what it says.    *)
(***************************************************************************)
RRecordID == [s \in Wires |-> readRecordID(s)]
WRecordID == [id \in Ids |-> writeRecordID(id)]

\* The tags of record ids are cells of their own.
LEMMA IdTags ==
  /\ DOMAIN IdTag = {"IntegerID", "TextID", "UUIDID", "BytesID"}
  /\ \A t \in DOMAIN IdTag : IdTag[t] \in Cells
  /\ \A t, u \in DOMAIN IdTag : IdTag[t] = IdTag[u] => t = u
  <1>1. {1, 2, 3, 4} \subseteq Cells
    BY ValuesAssumption, CellsAre
  <1> QED BY <1>1 DEF IdTag

IdReader(t) ==
  CASE t = "IntegerID"             -> RSigned
    [] t \in {"TextID", "BytesID"} -> RVarbytes
    [] t = "UUIDID"                -> RCell

IdParts(t) ==
  CASE t = "IntegerID"             -> Signed
    [] t \in {"TextID", "BytesID"} -> Wires
    [] t = "UUIDID"                -> Cells

IdWriter(t) ==
  CASE t = "IntegerID"             -> WSigned
    [] t \in {"TextID", "BytesID"} -> WVarbytes
    [] t = "UUIDID"                -> WCell

\* What each kind of id consists of is undone.
LEMMA IdPartsUndo ==
  ASSUME NEW t \in DOMAIN IdTag
  PROVE  Undoes(IdReader(t), IdParts(t), IdWriter(t))
  <1>1. CASE t = "IntegerID"
    BY <1>1, SignedUndoes DEF IdReader, IdParts, IdWriter
  <1>2. CASE t \in {"TextID", "BytesID"}
    BY <1>2, VarbytesUndoes DEF IdReader, IdParts, IdWriter
  <1>3. CASE t = "UUIDID"
    BY <1>3, CellUndoes DEF IdReader, IdParts, IdWriter
  <1> QED BY <1>1, <1>2, <1>3, IdTags

\* readRecordID goes by the tag.
LEMMA readRecordIDTagged ==
  Tagged(RRecordID, IdTag, [t \in DOMAIN IdTag |-> Marked(t, IdReader(t))])
  <1> DEFINE Body(t, rest) ==
               CASE t = "IntegerID"             -> As(readSigned(rest), LAMBDA n : <<t, n>>)
                 [] t \in {"TextID", "BytesID"} -> As(readVarbytes(rest), LAMBDA b : <<t, b>>)
                 [] t = "UUIDID"                -> As(readCell(rest), LAMBDA u : <<t, u>>)
             chosen(c) == CHOOSE t \in DOMAIN IdTag : IdTag[t] = c
  <1>1. ASSUME NEW c \in Cells, NEW rest \in Wires
        PROVE  RRecordID[<<c>> \o rest] = IF \E t \in DOMAIN IdTag : IdTag[t] = c
                                            THEN Body(chosen(c), rest) ELSE Failed
    <2>1. PICK s \in Wires : s = <<c>> \o rest
      BY WiresJoin
    <2>2. readCell(s).ok /\ readCell(s).value = c /\ readCell(s).rest = rest
      BY <2>1, readCellOf, GotIs
    <2>3. readRecordID(s) =
            IF \E t \in DOMAIN IdTag : IdTag[t] = readCell(s).value
              THEN Body(chosen(readCell(s).value), readCell(s).rest) ELSE Failed
      BY <2>2, Zenon DEF readRecordID, Then, Named
    <2> HIDE DEF Body, chosen
    <2> QED BY <2>1, <2>2, <2>3 DEF RRecordID
  <1>2. ASSUME NEW t \in DOMAIN IdTag PROVE chosen(IdTag[t]) = t
    BY IdTags
  <1>3. ASSUME NEW t \in DOMAIN IdTag, NEW rest \in Wires
        PROVE  Body(t, rest) = Marked(t, IdReader(t))[rest]
    <2>1. CASE t = "IntegerID"
      BY <2>1 DEF Marked, IdReader, RSigned, As
    <2>2. CASE t \in {"TextID", "BytesID"}
      BY <2>2 DEF Marked, IdReader, RVarbytes, As
    <2>3. CASE t = "UUIDID"
      BY <2>3 DEF Marked, IdReader, RCell, As
    <2> QED BY <2>1, <2>2, <2>3, IdTags
  <1>4. RRecordID[<<>>] = Failed
    BY readCellOf, GotIs, WiresJoin DEF RRecordID, readRecordID, Then
  <1> HIDE DEF Body, chosen
  <1> QED BY <1>1, <1>2, <1>3, <1>4 DEF Tagged

\* An id is a tag and what an id of that tag consists of.
LEMMA IdIs ==
  /\ \A t \in DOMAIN IdTag : \A x \in IdParts(t) :
       <<t, x>> \in Ids /\ writeRecordID(<<t, x>>) = <<IdTag[t]>> \o IdWriter(t)[x]
  /\ \A z \in Ids : \E t \in DOMAIN IdTag : z \in {t} \X IdParts(t)
  <1>1. ASSUME NEW t \in DOMAIN IdTag, NEW x \in IdParts(t)
        PROVE  <<t, x>> \in Ids /\ writeRecordID(<<t, x>>) = <<IdTag[t]>> \o IdWriter(t)[x]
    <2>1. <<t, x>>[1] = t /\ <<t, x>>[2] = x
      OBVIOUS
    <2>2. CASE t = "IntegerID"
      BY <2>1, <2>2 DEF Ids, IdParts, IdWriter, writeRecordID, WSigned
    <2>3. CASE t \in {"TextID", "BytesID"}
      BY <2>1, <2>3 DEF Ids, IdParts, IdWriter, writeRecordID, WVarbytes
    <2>4. CASE t = "UUIDID"
      BY <2>1, <2>4 DEF Ids, IdParts, IdWriter, writeRecordID, WCell
    <2> QED BY <2>2, <2>3, <2>4, IdTags
  <1>2. ASSUME NEW z \in Ids PROVE \E t \in DOMAIN IdTag : z \in {t} \X IdParts(t)
    <2>1. CASE z \in {"IntegerID"} \X Signed
      BY <2>1, IdTags DEF IdParts
    <2>2. CASE z \in {"TextID", "BytesID"} \X Wires
      <3>1. PICK t \in {"TextID", "BytesID"} : z \in {t} \X Wires
        BY <2>2
      <3>2. t \in DOMAIN IdTag /\ IdParts(t) = Wires
        BY <3>1, IdTags DEF IdParts
      <3> QED BY <3>1, <3>2
    <2>3. CASE z \in {"UUIDID"} \X Cells
      BY <2>3, IdTags DEF IdParts
    <2> QED BY <2>1, <2>2, <2>3 DEF Ids
  <1> QED BY <1>1, <1>2

\* Record ids are undone (writeRecordID, readRecordID).
LEMMA RecordIDUndoes == Undoes(RRecordID, Ids, WRecordID)
  <1> DEFINE h == [t \in DOMAIN IdTag |-> Marked(t, IdReader(t))]
             Y == [t \in DOMAIN IdTag |-> {t} \X IdParts(t)]
             V == [t \in DOMAIN IdTag |-> [y \in Y[t] |-> IdWriter(t)[y[2]]]]
  <1>1. Tagged(RRecordID, IdTag, h)
    BY readRecordIDTagged
  <1>2. ASSUME NEW t \in DOMAIN IdTag PROVE Undoes(h[t], Y[t], V[t])
    <2>1. PICK g : g = IdReader(t)
      OBVIOUS
    <2>2. PICK P : P = IdParts(t)
      OBVIOUS
    <2>3. PICK w : w = IdWriter(t)
      OBVIOUS
    <2>4. Undoes(g, P, w)
      BY <2>1, <2>2, <2>3, IdPartsUndo
    <2>5. PICK v : v = V[t]
      OBVIOUS
    <2>6. \A x \in P : v[<<t, x>>] = w[x]
      BY <2>2, <2>3, <2>5
    <2>7. Undoes(Marked(t, g), {t} \X P, v)
      BY <2>4, <2>6, MarkedUndoes
    <2>8. h[t] = Marked(t, g) /\ Y[t] = {t} \X P
      BY <2>1, <2>2
    <2> HIDE DEF h, Y, V
    <2> QED BY <2>5, <2>7, <2>8
  <1>3. Tags(IdTag, Y, V, Ids, WRecordID)
    <2>1. \A t \in DOMAIN IdTag : IdTag[t] \in Cells
      BY IdTags
    <2>2. ASSUME NEW t \in DOMAIN IdTag, NEW y \in Y[t]
          PROVE  y \in Ids /\ WRecordID[y] = <<IdTag[t]>> \o V[t][y]
      <3>1. PICK x \in IdParts(t) : y = <<t, x>>
        OBVIOUS
      <3>2. V[t][y] = IdWriter(t)[x]
        BY <3>1
      <3> HIDE DEF V, Y
      <3> QED BY <3>1, <3>2, IdIs DEF WRecordID
    <2>3. \A z \in Ids : \E t \in DOMAIN IdTag : z \in Y[t]
      BY IdIs
    <2> HIDE DEF V, Y
    <2> QED BY <2>1, <2>2, <2>3 DEF Tags
  <1> HIDE DEF h, Y, V
  <1> QED BY <1>1, <1>2, <1>3, TaggedUndoes

\* What a reader leaves is a wire.
LEMMA RestIn ==
  ASSUME NEW g, NEW X, NEW W, Undoes(g, X, W), NEW s \in Wires, g[s].ok
  PROVE  g[s].rest \in Wires
  <1>1. ReadsOf(g, {v \in X : W[v] \in Wires}, s)
    BY DEF Undoes, Reads
  <1> QED BY <1>1, GotIs DEF ReadsOf

\* The tags of numbers are cells of their own.
LEMMA NumberTags ==
  /\ DOMAIN NumberTag = {"Integer", "Float", "Decimal"}
  /\ \A t \in DOMAIN NumberTag : NumberTag[t] \in Cells
  /\ \A t, u \in DOMAIN NumberTag : NumberTag[t] = NumberTag[u] => t = u
  <1>1. {1, 2, 3} \subseteq Cells
    BY ValuesAssumption, CellsAre
  <1> QED BY <1>1 DEF NumberTag

NumberReader(t) ==
  CASE t = "Integer" -> Marked(t, RSigned)
    [] t = "Float"   -> Marked(t, RCell)
    [] t = "Decimal" -> Paired(t, RMantissa, RCell)

NumberParts(t) ==
  CASE t = "Integer" -> {t} \X Signed
    [] t = "Float"   -> {t} \X Cells
    [] t = "Decimal" -> {t} \X Signed \X Cells

\* What is written of a number behind its tag.
NumberRest(v) ==
  CASE v[1] = "Integer" -> <<i64Inverted(v[2])>>
    [] v[1] = "Float"   -> <<v[2]>>
    [] v[1] = "Decimal" -> <<i128(v[2]), v[3]>>

NumberValues == ({"Integer"} \X Signed) \cup ({"Float"} \X Cells) \cup ({"Decimal"} \X Signed \X Cells)

RNumber == [s \in Wires |-> readNumber(s)]
WNumber == [v \in NumberValues |-> <<NumberTag[v[1]]>> \o NumberRest(v)]

\* Each of the three kinds of number is undone by its own convention.
LEMMA NumberPartsUndo ==
  ASSUME NEW t \in DOMAIN NumberTag
  PROVE  Undoes(NumberReader(t), NumberParts(t), [v \in NumberParts(t) |-> NumberRest(v)])
  <1>1. PICK w : w = [v \in NumberParts(t) |-> NumberRest(v)]
    OBVIOUS
  <1>2. CASE t = "Integer"
    <2>1. \A x \in Signed : w[<<t, x>>] = WSigned[x]
      BY <1>1, <1>2 DEF NumberParts, NumberRest, WSigned
    <2>2. Undoes(Marked(t, RSigned), {t} \X Signed, w)
      BY <2>1, SignedUndoes, MarkedUndoes
    <2> QED BY <1>1, <1>2, <2>2 DEF NumberReader, NumberParts
  <1>3. CASE t = "Float"
    <2>1. \A x \in Cells : w[<<t, x>>] = WCell[x]
      BY <1>1, <1>3 DEF NumberParts, NumberRest, WCell
    <2>2. Undoes(Marked(t, RCell), {t} \X Cells, w)
      BY <2>1, CellUndoes, MarkedUndoes
    <2> QED BY <1>1, <1>3, <2>2 DEF NumberReader, NumberParts
  <1>4. CASE t = "Decimal"
    <2>1. ASSUME NEW a \in Signed, NEW b \in Cells PROVE w[<<t, a, b>>] = WMantissa[a] \o WCell[b]
      <3>1. w[<<t, a, b>>] = <<i128(a), b>>
        BY <1>1, <1>4 DEF NumberParts, NumberRest
      <3> QED BY <3>1, TwoCells DEF WMantissa, WCell
    <2>2. Joins(t, Signed, Cells, WMantissa, WCell, w)
      BY <2>1 DEF Joins
    <2>3. Undoes(Paired(t, RMantissa, RCell), {t} \X Signed \X Cells, w)
      BY <2>2, MantissaUndoes, CellUndoes, PairedUndoes
    <2> QED BY <1>1, <1>4, <2>3 DEF NumberReader, NumberParts
  <1> QED BY <1>2, <1>3, <1>4, NumberTags

\* A decimal is a mantissa and a scale.
LEMMA readDecimal ==
  ASSUME NEW t, NEW rest \in Wires
  PROVE  Then(readMantissa(rest), LAMBDA m, left :
           As(readCell(left), LAMBDA scale : <<t, m, scale>>))
         = Paired(t, RMantissa, RCell)[rest]
  <1>1. PICK r : r = readMantissa(rest)
    OBVIOUS
  <1>2. PICK q : q = readCell(r.rest)
    OBVIOUS
  <1>3. PICK p : p = RCell[r.rest]
    OBVIOUS
  <1>4. Then(readMantissa(rest), LAMBDA m, left :
          As(readCell(left), LAMBDA scale : <<t, m, scale>>))
        = IF ~r.ok THEN Failed
          ELSE IF ~q.ok THEN Failed ELSE Got(<<t, r.value, q.value>>, q.rest)
    BY <1>1, <1>2 DEF Then, As
  <1>5. Paired(t, RMantissa, RCell)[rest] =
          IF ~r.ok THEN Failed
          ELSE IF ~p.ok THEN Failed ELSE Got(<<t, r.value, p.value>>, p.rest)
    BY <1>1, <1>3 DEF Paired, RMantissa, Then, As
  <1>6. ASSUME r.ok PROVE p = q
    <2>1. RMantissa[rest] = r
      BY <1>1 DEF RMantissa
    <2>2. r.rest \in Wires
      BY <1>6, <2>1, MantissaUndoes, RestIn
    <2> QED BY <1>2, <1>3, <2>2 DEF RCell
  <1> QED BY <1>4, <1>5, <1>6

\* readNumber goes by the tag.
LEMMA readNumberTagged ==
  Tagged(RNumber, NumberTag, [t \in DOMAIN NumberTag |-> NumberReader(t)])
  <1> DEFINE Body(t, rest) ==
               CASE t = "Integer" -> As(readSigned(rest), LAMBDA n : <<t, n>>)
                 [] t = "Float"   -> As(readCell(rest), LAMBDA f : <<t, f>>)
                 [] t = "Decimal" ->
                      Then(readMantissa(rest), LAMBDA m, left :
                        As(readCell(left), LAMBDA scale : <<t, m, scale>>))
             chosen(c) == CHOOSE t \in DOMAIN NumberTag : NumberTag[t] = c
  <1>1. ASSUME NEW c \in Cells, NEW rest \in Wires
        PROVE  RNumber[<<c>> \o rest] = IF \E t \in DOMAIN NumberTag : NumberTag[t] = c
                                          THEN Body(chosen(c), rest) ELSE Failed
    <2>1. PICK s \in Wires : s = <<c>> \o rest
      BY WiresJoin
    <2>2. readCell(s).ok /\ readCell(s).value = c /\ readCell(s).rest = rest
      BY <2>1, readCellOf, GotIs
    <2>3. readNumber(s) =
            IF \E t \in DOMAIN NumberTag : NumberTag[t] = readCell(s).value
              THEN Body(chosen(readCell(s).value), readCell(s).rest) ELSE Failed
      BY <2>2, Zenon DEF readNumber, Then, Named
    <2> HIDE DEF Body, chosen
    <2> QED BY <2>1, <2>2, <2>3 DEF RNumber
  <1>2. ASSUME NEW t \in DOMAIN NumberTag PROVE chosen(NumberTag[t]) = t
    BY NumberTags
  <1>3. ASSUME NEW t \in DOMAIN NumberTag, NEW rest \in Wires
        PROVE  Body(t, rest) = NumberReader(t)[rest]
    <2>1. CASE t = "Integer"
      BY <2>1 DEF Marked, NumberReader, RSigned, As
    <2>2. CASE t = "Float"
      BY <2>2 DEF Marked, NumberReader, RCell, As
    <2>3. CASE t = "Decimal"
      <3>1. Body(t, rest) = Then(readMantissa(rest), LAMBDA m, left :
                              As(readCell(left), LAMBDA scale : <<t, m, scale>>))
        BY <2>3
      <3>2. NumberReader(t) = Paired(t, RMantissa, RCell)
        BY <2>3 DEF NumberReader
      <3>3. Then(readMantissa(rest), LAMBDA m, left :
              As(readCell(left), LAMBDA scale : <<t, m, scale>>))
            = Paired(t, RMantissa, RCell)[rest]
        BY readDecimal
      <3> HIDE DEF Body
      <3> QED BY <3>1, <3>2, <3>3, Zenon
    <2> QED BY <2>1, <2>2, <2>3, NumberTags
  <1>4. RNumber[<<>>] = Failed
    BY readCellOf, GotIs, WiresJoin DEF RNumber, readNumber, Then
  <1> HIDE DEF Body, chosen
  <1> QED BY <1>1, <1>2, <1>3, <1>4 DEF Tagged

\* Numbers are undone (readNumber).
LEMMA NumberUndoes == Undoes(RNumber, NumberValues, WNumber)
  <1> DEFINE h == [t \in DOMAIN NumberTag |-> NumberReader(t)]
             Y == [t \in DOMAIN NumberTag |-> NumberParts(t)]
             V == [t \in DOMAIN NumberTag |-> [v \in NumberParts(t) |-> NumberRest(v)]]
  <1>1. Tagged(RNumber, NumberTag, h)
    BY readNumberTagged
  <1>2. ASSUME NEW t \in DOMAIN NumberTag PROVE Undoes(h[t], Y[t], V[t])
    BY NumberPartsUndo
  <1>3. Tags(NumberTag, Y, V, NumberValues, WNumber)
    <2>1. \A t \in DOMAIN NumberTag : NumberTag[t] \in Cells
      BY NumberTags
    <2>2. ASSUME NEW t \in DOMAIN NumberTag, NEW y \in Y[t]
          PROVE  y \in NumberValues /\ WNumber[y] = <<NumberTag[t]>> \o V[t][y]
      <3>1. y \in NumberParts(t) /\ V[t][y] = NumberRest(y)
        OBVIOUS
      <3>2. y \in NumberValues /\ y[1] = t
        BY <3>1, NumberTags DEF NumberParts, NumberValues
      <3> HIDE DEF V, Y
      <3> QED BY <3>1, <3>2 DEF WNumber
    <2>3. ASSUME NEW z \in NumberValues PROVE \E t \in DOMAIN NumberTag : z \in Y[t]
      <3>1. CASE z \in {"Integer"} \X Signed
        BY <3>1, NumberTags DEF NumberParts
      <3>2. CASE z \in {"Float"} \X Cells
        BY <3>2, NumberTags DEF NumberParts
      <3>3. CASE z \in {"Decimal"} \X Signed \X Cells
        BY <3>3, NumberTags DEF NumberParts
      <3> QED BY <3>1, <3>2, <3>3 DEF NumberValues
    <2> HIDE DEF V, Y
    <2> QED BY <2>1, <2>2, <2>3 DEF Tags
  <1> HIDE DEF h, Y, V
  <1> QED BY <1>1, <1>2, <1>3, TaggedUndoes

-----------------------------------------------------------------------------
\* The tags of a range's ends are cells of their own.
LEMMA BoundTags ==
  /\ DOMAIN BoundTag = {"Unbounded", "Included", "Excluded"}
  /\ \A t \in DOMAIN BoundTag : BoundTag[t] \in Cells
  /\ \A t, u \in DOMAIN BoundTag : BoundTag[t] = BoundTag[u] => t = u
  <1>1. {1, 2, 3} \subseteq Cells
    BY ValuesAssumption, CellsAre
  <1> QED BY <1>1 DEF BoundTag

BoundReader(t, inner) ==
  IF t = "Unbounded" THEN [s \in Wires |-> Got(<<t>>, s)] ELSE Marked(t, inner)

BoundParts(t, X) == IF t = "Unbounded" THEN {<<t>>} ELSE {t} \X X

\* What is written of the end of a range behind its tag.
BoundRest(W, b) == IF b[1] = "Unbounded" THEN <<>> ELSE W[b[2]]

RBound(inner) == [s \in Wires |-> readBound(inner, s)]
WBound(X, W) == [b \in Bounds(X) |-> writeBound(W, b)]

\* What each kind of end consists of is undone if the values inside are.
LEMMA BoundPartsUndo ==
  ASSUME NEW inner, NEW X, NEW W, Undoes(inner, X, W), NEW t \in DOMAIN BoundTag
  PROVE  Undoes(BoundReader(t, inner), BoundParts(t, X), [b \in BoundParts(t, X) |-> BoundRest(W, b)])
  <1>1. PICK w : w = [b \in BoundParts(t, X) |-> BoundRest(W, b)]
    OBVIOUS
  <1>2. CASE t = "Unbounded"
    <2>1. w[<<t>>] = <<>>
      BY <1>1, <1>2 DEF BoundParts, BoundRest
    <2>2. Undoes([s \in Wires |-> Got(<<t>>, s)], {<<t>>}, w)
      BY <2>1, PutUndoes
    <2> QED BY <1>1, <1>2, <2>2 DEF BoundReader, BoundParts
  <1>3. CASE t # "Unbounded"
    <2>1. \A x \in X : w[<<t, x>>] = W[x]
      BY <1>1, <1>3 DEF BoundParts, BoundRest
    <2>2. Undoes(Marked(t, inner), {t} \X X, w)
      BY <2>1, MarkedUndoes
    <2> QED BY <1>1, <1>3, <2>2 DEF BoundReader, BoundParts
  <1> QED BY <1>2, <1>3

\* readBound goes by the tag.
LEMMA readBoundTagged ==
  ASSUME NEW inner
  PROVE  Tagged(RBound(inner), BoundTag, [t \in DOMAIN BoundTag |-> BoundReader(t, inner)])
  <1> DEFINE Body(t, rest) == IF t = "Unbounded" THEN Got(<<t>>, rest)
                              ELSE As(inner[rest], LAMBDA v : <<t, v>>)
             chosen(c) == CHOOSE t \in DOMAIN BoundTag : BoundTag[t] = c
  <1>1. ASSUME NEW c \in Cells, NEW rest \in Wires
        PROVE  RBound(inner)[<<c>> \o rest] = IF \E t \in DOMAIN BoundTag : BoundTag[t] = c
                                                THEN Body(chosen(c), rest) ELSE Failed
    <2>1. PICK s \in Wires : s = <<c>> \o rest
      BY WiresJoin
    <2>2. readCell(s).ok /\ readCell(s).value = c /\ readCell(s).rest = rest
      BY <2>1, readCellOf, GotIs
    <2>3. readBound(inner, s) =
            IF \E t \in DOMAIN BoundTag : BoundTag[t] = readCell(s).value
              THEN Body(chosen(readCell(s).value), readCell(s).rest) ELSE Failed
      BY <2>2, Zenon DEF readBound, Then, Named
    <2> HIDE DEF Body, chosen
    <2> QED BY <2>1, <2>2, <2>3 DEF RBound
  <1>2. ASSUME NEW t \in DOMAIN BoundTag PROVE chosen(BoundTag[t]) = t
    BY BoundTags
  <1>3. ASSUME NEW t \in DOMAIN BoundTag, NEW rest \in Wires
        PROVE  Body(t, rest) = BoundReader(t, inner)[rest]
    BY DEF BoundReader, Marked, As
  <1>4. RBound(inner)[<<>>] = Failed
    BY readCellOf, GotIs, WiresJoin DEF RBound, readBound, Then
  <1> HIDE DEF Body, chosen
  <1> QED BY <1>1, <1>2, <1>3, <1>4 DEF Tagged

\* Ends of ranges are undone (writeBound, readBound).
LEMMA BoundUndoes ==
  ASSUME NEW inner, NEW X, NEW W, Undoes(inner, X, W)
  PROVE  Undoes(RBound(inner), Bounds(X), WBound(X, W))
  <1> DEFINE h == [t \in DOMAIN BoundTag |-> BoundReader(t, inner)]
             Y == [t \in DOMAIN BoundTag |-> BoundParts(t, X)]
             V == [t \in DOMAIN BoundTag |-> [b \in BoundParts(t, X) |-> BoundRest(W, b)]]
  <1>1. Tagged(RBound(inner), BoundTag, h)
    BY readBoundTagged
  <1>2. ASSUME NEW t \in DOMAIN BoundTag PROVE Undoes(h[t], Y[t], V[t])
    BY BoundPartsUndo
  <1>3. Tags(BoundTag, Y, V, Bounds(X), WBound(X, W))
    <2>1. \A t \in DOMAIN BoundTag : BoundTag[t] \in Cells
      BY BoundTags
    <2>2. ASSUME NEW t \in DOMAIN BoundTag, NEW y \in Y[t]
          PROVE  y \in Bounds(X) /\ WBound(X, W)[y] = <<BoundTag[t]>> \o V[t][y]
      <3>1. y \in BoundParts(t, X) /\ V[t][y] = BoundRest(W, y)
        OBVIOUS
      <3>2. y \in Bounds(X) /\ y[1] = t
        BY <3>1, BoundTags DEF BoundParts, Bounds
      <3> HIDE DEF V, Y
      <3> QED BY <3>1, <3>2 DEF WBound, writeBound, BoundRest
    <2>3. ASSUME NEW z \in Bounds(X) PROVE \E t \in DOMAIN BoundTag : z \in Y[t]
      BY BoundTags DEF BoundParts, Bounds
    <2> HIDE DEF V, Y
    <2> QED BY <2>1, <2>2, <2>3 DEF Tags
  <1> HIDE DEF h, Y, V
  <1> QED BY <1>1, <1>2, <1>3, TaggedUndoes

-----------------------------------------------------------------------------
(***************************************************************************)
(* Objects.                                                                *)
(***************************************************************************)
RField(inner) == [s \in Wires |-> readField(inner, s)]
WField(X, W) == [f \in Texts \X X |-> lenbytes(f[1]) \o W[f[2]]]

\* A field of an object is undone if the values inside are.
LEMMA readFieldUndoes ==
  ASSUME NEW inner, NEW X, NEW W, Undoes(inner, X, W)
  PROVE  Undoes(RField(inner), Texts \X X, WField(X, W))
  <1>1. JoinsField(Texts, X, WText, W, WField(X, W))
    BY DEF JoinsField, WText, WField
  <1>2. Undoes(FieldOf(RText, inner), Texts \X X, WField(X, W))
    BY <1>1, TextUndoes, FieldUndoes
  <1>3. ASSUME NEW s \in Wires PROVE RField(inner)[s] = FieldOf(RText, inner)[s]
    <2>1. PICK r : r = readText(s)
      OBVIOUS
    <2>2. PICK p : p = inner[r.rest]
      OBVIOUS
    <2>3. RField(inner)[s] = IF ~r.ok THEN Failed
                             ELSE IF ~p.ok THEN Failed ELSE Got(<<r.value, p.value>>, p.rest)
      BY <2>1, <2>2 DEF RField, readField, Then, As
    <2>4. FieldOf(RText, inner)[s] = IF ~r.ok THEN Failed
                                     ELSE IF ~p.ok THEN Failed ELSE Got(<<r.value, p.value>>, p.rest)
      BY <2>1, <2>2 DEF FieldOf, RText, Then, As
    <2> QED BY <2>3, <2>4
  <1> QED BY <1>2, <1>3, SameUndoes

\* The fields in the order they come.
RPairs(inner) == [s \in Wires |-> Counted(LAMBDA r : readField(inner, r), s)]
WPairs(X, W) ==
  [ps \in Seq(Texts \X X) |-> <<Len(ps)>> \o FlattenSeq([i \in 1 .. Len(ps) |-> WField(X, W)[ps[i]]])]

\* The fields of an object, as a sequence, are undone.
LEMMA PairsUndoes ==
  ASSUME NEW inner, NEW X, NEW W, Undoes(inner, X, W)
  PROVE  Undoes(RPairs(inner), Seq(Texts \X X), WPairs(X, W))
  <1>1. CountedBy(RPairs(inner), RField(inner))
    <2>1. ASSUME NEW s \in Wires, readCell(s) = Failed PROVE RPairs(inner)[s] = Failed
      BY <2>1, GotIs DEF RPairs, Counted, Then
    <2>2. ASSUME NEW s \in Wires, NEW n \in Cells, NEW rest \in Wires, readCell(s) = Got(n, rest)
          PROVE  RPairs(inner)[s] = Repeated(RField(inner), n, rest)
      <3>1. readCell(s).ok /\ readCell(s).value = n /\ readCell(s).rest = rest
        BY <2>2, GotIs
      <3> QED BY <3>1 DEF RPairs, RField, Counted, Then
    <2> QED BY <2>1, <2>2 DEF CountedBy, FollowedBy, Repeats
  <1>2. Counts(Texts \X X, WField(X, W), WPairs(X, W))
    BY DEF Counts, WPairs
  <1> QED BY <1>1, <1>2, readFieldUndoes, CountedUndoes

\* Items can be written if their count and each of them can.
LEMMA CountsIn ==
  ASSUME NEW X, NEW W, NEW E, Counts(X, W, E), \A v \in X : W[v] \in Drafts, NEW vs \in Seq(X)
  PROVE  E[vs] \in Wires <=> Len(vs) \in Cells /\ \A i \in 1 .. Len(vs) : W[vs[i]] \in Wires
  <1>1. Len(vs) \in Nat /\ \A i \in 1 .. Len(vs) : vs[i] \in X
    BY LenProperties, ElementOfSeq
  <1>2. PICK ws : ws = [i \in 1 .. Len(vs) |-> W[vs[i]]]
    OBVIOUS
  <1>3. ws \in Seq(Seq(Int)) /\ Len(ws) = Len(vs) /\ \A i \in 1 .. Len(vs) : ws[i] = W[vs[i]]
    <2>1. \A i \in 1 .. Len(vs) : W[vs[i]] \in Seq(Int)
      BY <1>1 DEF Drafts
    <2> QED BY <1>1, <1>2, <2>1
  <1>4. FlattenSeq(ws) \in Drafts /\ <<Len(vs)>> \in Drafts
    BY <1>1, <1>3, FlattenType, DraftsJoin DEF Drafts
  <1>5. E[vs] = <<Len(vs)>> \o FlattenSeq(ws)
    BY <1>2 DEF Counts
  <1>6. PICK n \in Drafts : n = <<Len(vs)>>
    BY <1>4
  <1>7. E[vs] \in Wires <=> n \in Wires /\ FlattenSeq(ws) \in Wires
    BY <1>4, <1>5, <1>6, DraftsJoin
  <1>8. n \in Wires <=> Len(vs) \in Cells
    BY <1>1, <1>6, DraftsJoin
  <1>9. ASSUME FlattenSeq(ws) \in Wires PROVE \A i \in 1 .. Len(vs) : W[vs[i]] \in Wires
    <2>1. FlattenSeq(ws) \in Seq(Cells)
      BY <1>9 DEF Wires
    <2>2. \A i \in 1 .. Len(ws) : ws[i] \in Seq(Cells)
      BY <1>3, <2>1, FlattenIn
    <2> QED BY <1>3, <2>2 DEF Wires
  <1>10. ASSUME \A i \in 1 .. Len(vs) : W[vs[i]] \in Wires PROVE FlattenSeq(ws) \in Wires
    <2>1. ws \in Seq(Seq(Cells))
      BY <1>1, <1>2, <1>10 DEF Wires
    <2> QED BY <2>1, FlattenType DEF Wires
  <1> QED BY <1>7, <1>8, <1>9, <1>10

RObject(t, inner) == [s \in Wires |-> As(RPairs(inner)[s], LAMBDA ps : <<t, Fields(ps)>>)]
WObject(t, X, W) ==
  [v \in {t} \X Objects(X) |-> Each(LAMBDA f : lenbytes(f[1]) \o W[f[2]], Sorted(v[2]))]

\* Objects are undone: fields written by name are read back, and of two with
\* one name the last stays.
LEMMA ObjectUndoes ==
  ASSUME NEW t, NEW inner, NEW X, NEW W, Undoes(inner, X, W)
  PROVE  Undoes(RObject(t, inner), {t} \X Objects(X), WObject(t, X, W))
  <1> DEFINE F == RObject(t, inner)
             G == RPairs(inner)
             P == Seq(Texts \X X)
             w == WPairs(X, W)
             e == WObject(t, X, W)
             m == [ps \in P |-> <<t, Fields(ps)>>]
             T == {ps \in P : w[ps] \in Wires}
             U == {v \in {t} \X Objects(X) : e[v] \in Wires}
  <1>1. Undoes(G, P, w)
    BY PairsUndoes
  <1>2. ASSUME NEW o \in Objects(X) PROVE Sorted(o) \in P /\ e[<<t, o>>] = w[Sorted(o)]
    <2>1. PICK q \in P : q = Sorted(o)
      BY SortedIs
    <2>2. \A i \in 1 .. Len(q) : q[i] \in Texts \X X
      BY ElementOfSeq
    <2>3. [i \in 1 .. Len(q) |-> lenbytes(q[i][1]) \o W[q[i][2]]]
          = [i \in 1 .. Len(q) |-> WField(X, W)[q[i]]]
      BY <2>2 DEF WField
    <2>4. e[<<t, o>>] = <<Len(q)>> \o FlattenSeq([i \in 1 .. Len(q) |-> lenbytes(q[i][1]) \o W[q[i][2]]])
      BY <2>1 DEF WObject, Each
    <2>5. w[q] = <<Len(q)>> \o FlattenSeq([i \in 1 .. Len(q) |-> WField(X, W)[q[i]]])
      BY DEF WPairs
    <2> QED BY <2>1, <2>3, <2>4, <2>5
  <1>3. MadeOf(F, G, m, P)
    <2>1. ASSUME NEW s \in Wires, G[s] = Failed PROVE F[s] = Failed
      BY <2>1, GotIs DEF RObject, As
    <2>2. ASSUME NEW s \in Wires, NEW v \in P, NEW rest \in Wires, G[s] = Got(v, rest)
          PROVE  F[s] = Got(m[v], rest)
      <3>1. G[s].ok /\ G[s].value = v /\ G[s].rest = rest
        BY <2>2, GotIs
      <3>2. F[s] = Got(<<t, Fields(v)>>, rest)
        BY <3>1 DEF RObject, As
      <3> QED BY <3>2
    <2> HIDE DEF F, G, m, P
    <2> QED BY <2>1, <2>2 DEF MadeOf
  <1>4. /\ Counts(Texts \X X, WField(X, W), w)
        /\ \A f \in Texts \X X : WField(X, W)[f] \in Drafts
    BY readFieldUndoes DEF Counts, WPairs, Undoes
  <1>5. ASSUME NEW ps \in T PROVE m[ps] \in U
    <2>1. PICK o \in Objects(X) :
            /\ o = Fields(ps) /\ Cardinality(o) <= Len(ps)
            /\ \A f \in o : \E i \in 1 .. Len(ps) : f = ps[i]
      <3>1. ps \in Seq(Texts \X X)
        OBVIOUS
      <3>2. /\ Fields(ps) \in Objects(X) /\ Cardinality(Fields(ps)) <= Len(ps)
            /\ \A f \in Fields(ps) : \E i \in 1 .. Len(ps) : f = ps[i]
        BY <3>1, FieldsIs
      <3> QED BY <3>2
    <2>2. PICK q \in P : q = Sorted(o)
      BY <1>2
    <2>3. Len(ps) \in Cells /\ \A i \in 1 .. Len(ps) : WField(X, W)[ps[i]] \in Wires
      <3>1. ps \in Seq(Texts \X X) /\ w[ps] \in Wires
        OBVIOUS
      <3> HIDE DEF w, T
      <3> QED BY <1>4, <3>1, CountsIn
    <2>4. Len(q) = Cardinality(o) /\ \A i \in 1 .. Len(q) : q[i] \in o
      BY <2>2, SortedIs
    <2>5. Len(q) \in Cells
      <3>1. Len(q) \in Nat /\ Len(q) <= Len(ps)
        BY <2>1, <2>4, LenProperties
      <3> QED BY <2>3, <3>1, CellsAre
    <2>6. \A i \in 1 .. Len(q) : WField(X, W)[q[i]] \in Wires
      BY <2>1, <2>3, <2>4
    <2>7. w[q] \in Wires
      <3> HIDE DEF w
      <3> QED BY <1>4, <2>5, <2>6, CountsIn
    <2>8. e[<<t, o>>] \in Wires
      BY <1>2, <2>2, <2>7
    <2>9. m[ps] = <<t, o>>
      BY <2>1
    <2> HIDE DEF e, m
    <2> QED BY <2>8, <2>9
  <1>6. Reads(G, T)
    <2> HIDE DEF G, w, P
    <2> QED BY <1>1 DEF Undoes
  <1>7. MadeOf(F, G, m, T)
    <2>1. T \subseteq P
      OBVIOUS
    <2> HIDE DEF F, G, m, T, P
    <2> QED BY <1>3, <2>1 DEF MadeOf
  <1>8. Reads(F, U)
    <2> HIDE DEF F, G, m, T, U
    <2> QED BY <1>5, <1>6, <1>7, MadeReads
  <1>9. ASSUME NEW v \in {t} \X Objects(X)
        PROVE  e[v] \in Drafts /\ (e[v] \in Wires => Back(F, v, e[v]))
    <2>1. PICK o \in Objects(X) : v = <<t, o>>
      OBVIOUS
    <2>2. PICK q \in P : q = Sorted(o)
      BY <1>2
    <2>3. e[v] = w[q]
      BY <1>2, <2>1, <2>2
    <2>4. w[q] \in Drafts /\ (w[q] \in Wires => Back(G, q, w[q]))
      <3> HIDE DEF G, P, w
      <3> QED BY <1>1 DEF Undoes
    <2>5. m[q] = v
      <3>1. Fields(q) = o
        BY <2>2, FieldsSorted
      <3> QED BY <2>1, <3>1
    <2>6. ASSUME w[q] \in Wires PROVE Back(F, v, w[q])
      <3> HIDE DEF F, G, m, P, w
      <3>1. PICK x \in Wires : x = w[q]
        BY <2>6
      <3>2. Back(F, m[q], x)
        BY <1>3, <2>4, <2>6, <3>1, MadeBack
      <3> QED BY <2>5, <3>1, <3>2
    <2> HIDE DEF e, w, F
    <2> QED BY <2>3, <2>4, <2>6
  <1>10. /\ \A v \in {t} \X Objects(X) : e[v] \in Drafts
         /\ Reads(F, {v \in {t} \X Objects(X) : e[v] \in Wires})
         /\ \A v \in {t} \X Objects(X) : e[v] \in Wires => Back(F, v, e[v])
    <2>1. Reads(F, {v \in {t} \X Objects(X) : e[v] \in Wires})
      BY <1>8
    <2> HIDE DEF e, F
    <2> QED BY <1>9, <2>1
  <1> QED BY <1>10 DEF Undoes

-----------------------------------------------------------------------------
(***************************************************************************)
(* Values.                                                                 *)
(***************************************************************************)
LEMMA ValueTags ==
  /\ DOMAIN Tag = {"None", "Null", "Bool", "Number", "Text", "Bytes", "Duration", "Datetime",
                   "UUID", "Table", "Record", "Array", "Object", "Range", "Set", "Geometry", "Regex"}
  /\ \A t \in DOMAIN Tag : Tag[t] \in Cells
  /\ \A t, u \in DOMAIN Tag : Tag[t] = Tag[u] => t = u
  /\ Tag.Number = Tag["Number"]
  <1>1. 1 .. 17 \subseteq Cells
    BY ValuesAssumption, CellsAre
  <1>2. \A t \in DOMAIN Tag : Tag[t] \in 1 .. 17
    BY DEF Tag
  <1> QED BY <1>1, <1>2 DEF Tag

\* Every cell but zero is read as true.
RBool(t) == [s \in Wires |-> As(readCell(s), LAMBDA b : <<t, b # 0>>)]
WBool(t) == [v \in {t} \X BOOLEAN |-> <<IF v[2] THEN 1 ELSE 0>>]

\* Booleans are undone, and every cell but zero is read as true.
LEMMA BoolUndoes ==
  ASSUME NEW t
  PROVE  Undoes(RBool(t), {t} \X BOOLEAN, WBool(t))
  <1> DEFINE g == [s \in Wires |-> readCell(s)]
             m == [c \in Cells |-> <<t, c # 0>>]
  <1>1. MadeOf(RBool(t), g, m, Cells)
    BY GotIs DEF MadeOf, RBool, As
  <1>2. Reads(g, Cells)
    BY readCellReads
  <1>3. \A c \in Cells : m[c] \in {t} \X BOOLEAN
    OBVIOUS
  <1>4. ASSUME NEW c \in Cells PROVE <<c>> \in Wires /\ Back(g, c, <<c>>)
    BY WiresJoin, readCellOf DEF Back
  <1>5. m[1] = <<t, TRUE>> /\ m[0] = <<t, FALSE>> /\ 0 \in Cells /\ 1 \in Cells
    <2>1. 0 \in Cells /\ 1 \in Cells
      BY CellsAre
    <2>2. m[1] = <<t, 1 # 0>> /\ m[0] = <<t, 0 # 0>>
      BY <2>1
    <2>3. (1 # 0) = TRUE /\ (0 # 0) = FALSE
      OBVIOUS
    <2> HIDE DEF m
    <2> QED BY <2>1, <2>2, <2>3, Zenon
  <1> HIDE DEF g, m
  <1>6. Reads(RBool(t), {t} \X BOOLEAN)
    BY <1>1, <1>2, <1>3, MadeReads
  <1>7. ASSUME NEW c \in Cells PROVE Back(RBool(t), m[c], <<c>>)
    BY <1>1, <1>4, MadeBack
  <1>8. ASSUME NEW v \in {t} \X BOOLEAN PROVE WBool(t)[v] \in Wires /\ Back(RBool(t), v, WBool(t)[v])
    <2>1. CASE v = <<t, TRUE>>
      <3>1. WBool(t)[v] = <<1>>
        BY <2>1 DEF WBool
      <3> QED BY <1>4, <1>5, <1>7, <2>1, <3>1
    <2>2. CASE v = <<t, FALSE>>
      <3>1. WBool(t)[v] = <<0>>
        BY <2>2 DEF WBool
      <3> QED BY <1>4, <1>5, <1>7, <2>2, <3>1
    <2>3. PICK b \in BOOLEAN : v = <<t, b>>
      OBVIOUS
    <2>4. b = TRUE \/ b = FALSE
      BY Zenon
    <2> QED BY <2>1, <2>2, <2>3, <2>4, Zenon
  <1> QED BY <1>6, <1>8, AlwaysUndoes

ValueReader(t, inner) ==
  CASE t \in {"None", "Null"}         -> [s \in Wires |-> Got(<<t>>, s)]
    [] t = "Bool"                     -> RBool(t)
    [] t = "Number"                   -> RNumber
    [] t \in {"Text", "Regex"}        -> Marked(t, RText)
    [] t = "Bytes"                    -> Marked(t, RLenbytes)
    [] t \in {"Duration", "Datetime"} -> RSeconds(t)
    [] t \in {"UUID", "Table"}        -> Marked(t, RCell)
    [] t = "Record"                   -> Paired(t, RCell, RRecordID)
    [] t \in {"Array", "Set"}         -> Marked(t, RItems(inner))
    [] t = "Object"                   -> RObject(t, inner)
    [] t = "Range"                    -> Paired(t, RBound(inner), RBound(inner))
    [] t = "Geometry"                 -> Marked(t, readShapes[Nesting])

\* The values of a tag.
ValueParts(t, X) ==
  CASE t \in {"None", "Null"}         -> {<<t>>}
    [] t = "Bool"                     -> {t} \X BOOLEAN
    [] t = "Number"                   -> NumberValues
    [] t \in {"Text", "Regex"}        -> {t} \X Texts
    [] t = "Bytes"                    -> {t} \X Wires
    [] t \in {"Duration", "Datetime"} -> {t} \X Signed \X Cells
    [] t \in {"UUID", "Table"}        -> {t} \X Cells
    [] t = "Record"                   -> {t} \X Cells \X Ids
    [] t \in {"Array", "Set"}         -> {t} \X Seq(X)
    [] t = "Object"                   -> {t} \X Objects(X)
    [] t = "Range"                    -> {t} \X Bounds(X) \X Bounds(X)
    [] t = "Geometry"                 -> {t} \X Shape[Nesting]

\* What is written of a value behind its tag.
ValueRest(t, W, v) ==
  CASE t \in {"None", "Null"}          -> <<>>
    [] t = "Bool"                      -> <<IF v[2] THEN 1 ELSE 0>>
    [] t = "Number"                    -> WNumber[v]
    [] t \in {"Text", "Bytes", "Regex"} -> lenbytes(v[2])
    [] t \in {"Duration", "Datetime"}  -> writeSecondsAndNanos(v)
    [] t \in {"UUID", "Table"}         -> <<v[2]>>
    [] t = "Record"                    -> <<v[2]>> \o writeRecordID(v[3])
    [] t \in {"Array", "Set"}          -> Each(LAMBDA i : W[i], v[2])
    [] t = "Object"                    -> Each(LAMBDA f : lenbytes(f[1]) \o W[f[2]], Sorted(v[2]))
    [] t = "Range"                     -> writeBound(W, v[2]) \o writeBound(W, v[3])
    [] t = "Geometry"                  -> writeShapes[Nesting][v[2]]

\* What each kind of value consists of is undone if the values inside are.
LEMMA ValuePartsUndo ==
  ASSUME NEW inner, NEW X, NEW W, Undoes(inner, X, W), NEW t \in DOMAIN Tag
  PROVE  Undoes(ValueReader(t, inner), ValueParts(t, X),
                [v \in ValueParts(t, X) |-> ValueRest(t, W, v)])
  <1>1. PICK w : w = [v \in ValueParts(t, X) |-> ValueRest(t, W, v)]
    OBVIOUS
  <1>2. CASE t \in {"None", "Null"}
    <2>1. ValueParts(t, X) = {<<t>>}
      BY <1>2 DEF ValueParts
    <2>2. ValueRest(t, W, <<t>>) = <<>>
      BY <1>2 DEF ValueRest
    <2>3. w[<<t>>] = <<>>
      BY <1>1, <2>1, <2>2
    <2>4. Undoes([s \in Wires |-> Got(<<t>>, s)], {<<t>>}, w)
      BY <2>3, PutUndoes
    <2>5. ValueReader(t, inner) = [s \in Wires |-> Got(<<t>>, s)]
      BY <1>2 DEF ValueReader
    <2> QED BY <1>1, <2>1, <2>4, <2>5
  <1>3. CASE t = "Bool"
    <2>1. ValueParts(t, X) = {t} \X BOOLEAN /\ ValueReader(t, inner) = RBool(t)
      BY <1>3 DEF ValueParts, ValueReader
    <2>2. \A v : ValueRest(t, W, v) = <<IF v[2] THEN 1 ELSE 0>>
      BY <1>3 DEF ValueRest
    <2>3. w = WBool(t)
      BY <1>1, <2>1, <2>2 DEF WBool
    <2> QED BY <1>1, <2>1, <2>3, BoolUndoes
  <1>4. CASE t = "Number"
    <2>1. ValueParts(t, X) = NumberValues /\ ValueReader(t, inner) = RNumber
      BY <1>4 DEF ValueParts, ValueReader
    <2>2. \A v : ValueRest(t, W, v) = WNumber[v]
      BY <1>4 DEF ValueRest
    <2>3. w = WNumber
      BY <1>1, <2>1, <2>2 DEF WNumber
    <2> QED BY <1>1, <2>1, <2>3, NumberUndoes
  <1>5. CASE t \in {"Text", "Regex"}
    <2>1. ValueParts(t, X) = {t} \X Texts /\ ValueReader(t, inner) = Marked(t, RText)
      BY <1>5 DEF ValueParts, ValueReader
    <2>2. \A v : ValueRest(t, W, v) = lenbytes(v[2])
      BY <1>5 DEF ValueRest
    <2>3. \A x \in Texts : w[<<t, x>>] = WText[x]
      BY <1>1, <2>1, <2>2 DEF WText
    <2>4. Undoes(Marked(t, RText), {t} \X Texts, w)
      BY <2>3, TextUndoes, MarkedUndoes
    <2> QED BY <1>1, <2>1, <2>4
  <1>6. CASE t = "Bytes"
    <2>1. ValueParts(t, X) = {t} \X Wires /\ ValueReader(t, inner) = Marked(t, RLenbytes)
      BY <1>6 DEF ValueParts, ValueReader
    <2>2. \A v : ValueRest(t, W, v) = lenbytes(v[2])
      BY <1>6 DEF ValueRest
    <2>3. \A x \in Wires : w[<<t, x>>] = WLenbytes[x]
      BY <1>1, <2>1, <2>2 DEF WLenbytes
    <2>4. Undoes(Marked(t, RLenbytes), {t} \X Wires, w)
      BY <2>3, LenbytesUndoes, MarkedUndoes
    <2> QED BY <1>1, <2>1, <2>4
  <1>7. CASE t \in {"Duration", "Datetime"}
    <2>1. ValueParts(t, X) = {t} \X Signed \X Cells /\ ValueReader(t, inner) = RSeconds(t)
      BY <1>7 DEF ValueParts, ValueReader
    <2>2. \A v : ValueRest(t, W, v) = writeSecondsAndNanos(v)
      BY <1>7 DEF ValueRest
    <2>3. w = WSeconds(t)
      BY <1>1, <2>1, <2>2 DEF WSeconds
    <2> QED BY <1>1, <2>1, <2>3, SecondsUndoes
  <1>8. CASE t \in {"UUID", "Table"}
    <2>1. ValueParts(t, X) = {t} \X Cells /\ ValueReader(t, inner) = Marked(t, RCell)
      BY <1>8 DEF ValueParts, ValueReader
    <2>2. \A v : ValueRest(t, W, v) = <<v[2]>>
      BY <1>8 DEF ValueRest
    <2>3. \A x \in Cells : w[<<t, x>>] = WCell[x]
      BY <1>1, <2>1, <2>2 DEF WCell
    <2>4. Undoes(Marked(t, RCell), {t} \X Cells, w)
      BY <2>3, CellUndoes, MarkedUndoes
    <2> QED BY <1>1, <2>1, <2>4
  <1>9. CASE t = "Record"
    <2>1. /\ ValueParts(t, X) = {t} \X Cells \X Ids
          /\ ValueReader(t, inner) = Paired(t, RCell, RRecordID)
      BY <1>9 DEF ValueParts, ValueReader
    <2>2. \A v : ValueRest(t, W, v) = <<v[2]>> \o writeRecordID(v[3])
      BY <1>9 DEF ValueRest
    <2>3. ASSUME NEW a \in Cells, NEW b \in Ids PROVE w[<<t, a, b>>] = WCell[a] \o WRecordID[b]
      BY <1>1, <2>1, <2>2 DEF WCell, WRecordID
    <2>4. Joins(t, Cells, Ids, WCell, WRecordID, w)
      BY <2>3 DEF Joins
    <2>5. Undoes(Paired(t, RCell, RRecordID), {t} \X Cells \X Ids, w)
      BY <2>4, CellUndoes, RecordIDUndoes, PairedUndoes
    <2> QED BY <1>1, <2>1, <2>5
  <1>10. CASE t \in {"Array", "Set"}
    <2>1. ValueParts(t, X) = {t} \X Seq(X) /\ ValueReader(t, inner) = Marked(t, RItems(inner))
      BY <1>10 DEF ValueParts, ValueReader
    <2>2. \A v : ValueRest(t, W, v) = Each(LAMBDA i : W[i], v[2])
      BY <1>10 DEF ValueRest
    <2>3. ASSUME NEW x \in Seq(X) PROVE w[<<t, x>>] = WItems(X, W)[x]
      <3>1. w[<<t, x>>] = ValueRest(t, W, <<t, x>>)
        BY <1>1, <2>1
      <3>2. <<t, x>>[2] = x
        OBVIOUS
      <3>3. ValueRest(t, W, <<t, x>>) = <<Len(x)>> \o FlattenSeq([i \in 1 .. Len(x) |-> W[x[i]]])
        BY <2>2, <3>2 DEF Each
      <3>4. WItems(X, W)[x] = <<Len(x)>> \o FlattenSeq([i \in 1 .. Len(x) |-> W[x[i]]])
        BY DEF WItems, Each
      <3> QED BY <3>1, <3>3, <3>4
    <2>4. Undoes(RItems(inner), Seq(X), WItems(X, W))
      BY ItemsUndoes
    <2>5. Undoes(Marked(t, RItems(inner)), {t} \X Seq(X), w)
      BY <2>3, <2>4, MarkedUndoes
    <2> QED BY <1>1, <2>1, <2>5
  <1>11. CASE t = "Object"
    <2>1. ValueParts(t, X) = {t} \X Objects(X) /\ ValueReader(t, inner) = RObject(t, inner)
      BY <1>11 DEF ValueParts, ValueReader
    <2>2. \A v : ValueRest(t, W, v) = Each(LAMBDA f : lenbytes(f[1]) \o W[f[2]], Sorted(v[2]))
      BY <1>11 DEF ValueRest
    <2>3. w = WObject(t, X, W)
      BY <1>1, <2>1, <2>2 DEF WObject
    <2> QED BY <1>1, <2>1, <2>3, ObjectUndoes
  <1>12. CASE t = "Range"
    <2>1. /\ ValueParts(t, X) = {t} \X Bounds(X) \X Bounds(X)
          /\ ValueReader(t, inner) = Paired(t, RBound(inner), RBound(inner))
      BY <1>12 DEF ValueParts, ValueReader
    <2>2. \A v : ValueRest(t, W, v) = writeBound(W, v[2]) \o writeBound(W, v[3])
      BY <1>12 DEF ValueRest
    <2>3. ASSUME NEW a \in Bounds(X), NEW b \in Bounds(X)
          PROVE  w[<<t, a, b>>] = WBound(X, W)[a] \o WBound(X, W)[b]
      <3>1. w[<<t, a, b>>] = writeBound(W, a) \o writeBound(W, b)
        <4>1. <<t, a, b>> \in ValueParts(t, X) /\ <<t, a, b>>[2] = a /\ <<t, a, b>>[3] = b
          BY <2>1
        <4>2. w[<<t, a, b>>] = ValueRest(t, W, <<t, a, b>>)
          BY <1>1, <4>1
        <4> QED BY <2>2, <4>1, <4>2
      <3>2. WBound(X, W)[a] = writeBound(W, a) /\ WBound(X, W)[b] = writeBound(W, b)
        BY DEF WBound
      <3> QED BY <3>1, <3>2
    <2>4. Joins(t, Bounds(X), Bounds(X), WBound(X, W), WBound(X, W), w)
      BY <2>3 DEF Joins
    <2>5. Undoes(Paired(t, RBound(inner), RBound(inner)), {t} \X Bounds(X) \X Bounds(X), w)
      BY <2>4, BoundUndoes, PairedUndoes
    <2> QED BY <1>1, <2>1, <2>5
  <1>13. CASE t = "Geometry"
    <2>1. /\ ValueParts(t, X) = {t} \X Shape[Nesting]
          /\ ValueReader(t, inner) = Marked(t, readShapes[Nesting])
      BY <1>13 DEF ValueParts, ValueReader
    <2>2. \A v : ValueRest(t, W, v) = writeShapes[Nesting][v[2]]
      BY <1>13 DEF ValueRest
    <2>3. \A x \in Shape[Nesting] : w[<<t, x>>] = writeShapes[Nesting][x]
      BY <1>1, <2>1, <2>2
    <2>4. Undoes(readShapes[Nesting], Shape[Nesting], writeShapes[Nesting])
      BY ShapesUndo, ValuesAssumption
    <2>5. Undoes(Marked(t, readShapes[Nesting]), {t} \X Shape[Nesting], w)
      BY <2>3, <2>4, MarkedUndoes
    <2> QED BY <1>1, <2>1, <2>5
  <1> QED BY <1>2, <1>3, <1>4, <1>5, <1>6, <1>7, <1>8, <1>9, <1>10, <1>11, <1>12, <1>13, ValueTags

\* A record is a table and an id.
LEMMA readRecordIs ==
  ASSUME NEW t, NEW rest \in Wires
  PROVE  Then(readCell(rest), LAMBDA table, left :
           As(readRecordID(left), LAMBDA id : <<t, table, id>>))
         = Paired(t, RCell, RRecordID)[rest]
  <1>1. PICK r : r = readCell(rest)
    OBVIOUS
  <1>2. PICK q : q = readRecordID(r.rest)
    OBVIOUS
  <1>3. PICK p : p = RRecordID[r.rest]
    OBVIOUS
  <1>4. Then(readCell(rest), LAMBDA table, left :
          As(readRecordID(left), LAMBDA id : <<t, table, id>>))
        = IF ~r.ok THEN Failed
          ELSE IF ~q.ok THEN Failed ELSE Got(<<t, r.value, q.value>>, q.rest)
    BY <1>1, <1>2 DEF Then, As
  <1>5. Paired(t, RCell, RRecordID)[rest] =
          IF ~r.ok THEN Failed
          ELSE IF ~p.ok THEN Failed ELSE Got(<<t, r.value, p.value>>, p.rest)
    BY <1>1, <1>3 DEF Paired, RCell, Then, As
  <1>6. ASSUME r.ok PROVE p = q
    <2>1. RCell[rest] = r
      BY <1>1 DEF RCell
    <2>2. r.rest \in Wires
      BY <1>6, <2>1, CellUndoes, RestIn
    <2> QED BY <1>2, <1>3, <2>2 DEF RRecordID
  <1> QED BY <1>4, <1>5, <1>6

\* A range is two ends.
LEMMA readRangeIs ==
  ASSUME NEW inner, NEW X, NEW W, Undoes(inner, X, W), NEW t, NEW rest \in Wires
  PROVE  Then(readBound(inner, rest), LAMBDA start, left :
           As(readBound(inner, left), LAMBDA end : <<t, start, end>>))
         = Paired(t, RBound(inner), RBound(inner))[rest]
  <1>1. PICK r : r = readBound(inner, rest)
    OBVIOUS
  <1>2. PICK q : q = readBound(inner, r.rest)
    OBVIOUS
  <1>3. PICK p : p = RBound(inner)[r.rest]
    OBVIOUS
  <1>4. Then(readBound(inner, rest), LAMBDA start, left :
          As(readBound(inner, left), LAMBDA end : <<t, start, end>>))
        = IF ~r.ok THEN Failed
          ELSE IF ~q.ok THEN Failed ELSE Got(<<t, r.value, q.value>>, q.rest)
    BY <1>1, <1>2 DEF Then, As
  <1>5. RBound(inner)[rest] = r
    BY <1>1 DEF RBound
  <1>6. Paired(t, RBound(inner), RBound(inner))[rest] =
          IF ~r.ok THEN Failed
          ELSE IF ~p.ok THEN Failed ELSE Got(<<t, r.value, p.value>>, p.rest)
    <2>1. PICK g : g = RBound(inner)
      OBVIOUS
    <2>2. Paired(t, g, g)[rest] =
            IF ~r.ok THEN Failed
            ELSE IF ~p.ok THEN Failed ELSE Got(<<t, r.value, p.value>>, p.rest)
      BY <1>3, <1>5, <2>1 DEF Paired, Then, As
    <2> QED BY <2>1, <2>2
  <1>7. ASSUME r.ok PROVE p = q
    <2>1. Undoes(RBound(inner), Bounds(X), WBound(X, W))
      BY BoundUndoes
    <2>2. r.rest \in Wires
      BY <1>5, <1>7, <2>1, RestIn
    <2> QED BY <1>2, <1>3, <2>2 DEF RBound
  <1> QED BY <1>4, <1>6, <1>7

\* readValue goes by the tag.
LEMMA readValueTagged ==
  ASSUME NEW inner, NEW X, NEW W, Undoes(inner, X, W)
  PROVE  Tagged([s \in Wires |-> readValue(inner, s)], Tag,
                [t \in DOMAIN Tag |-> ValueReader(t, inner)])
  <1> DEFINE f == [s \in Wires |-> readValue(inner, s)]
             Body(t, rest) ==
               CASE t \in {"None", "Null"}         -> Got(<<t>>, rest)
                 [] t = "Bool"                     -> As(readCell(rest), LAMBDA b : <<t, b # 0>>)
                 [] t = "Number"                   -> readNumber(rest)
                 [] t \in {"Text", "Regex"}        -> As(readText(rest), LAMBDA v : <<t, v>>)
                 [] t = "Bytes"                    -> As(readLenbytes(rest), LAMBDA v : <<t, v>>)
                 [] t \in {"Duration", "Datetime"} -> readSecondsAndNanos(t, rest)
                 [] t \in {"UUID", "Table"}        -> As(readCell(rest), LAMBDA v : <<t, v>>)
                 [] t = "Record" ->
                      Then(readCell(rest), LAMBDA table, left :
                        As(readRecordID(left), LAMBDA id : <<t, table, id>>))
                 [] t \in {"Array", "Set"} ->
                      As(Counted(LAMBDA r : inner[r], rest), LAMBDA v : <<t, v>>)
                 [] t = "Object" ->
                      As(Counted(LAMBDA r : readField(inner, r), rest), LAMBDA ps : <<t, Fields(ps)>>)
                 [] t = "Range" ->
                      Then(readBound(inner, rest), LAMBDA start, left :
                        As(readBound(inner, left), LAMBDA end : <<t, start, end>>))
                 [] t = "Geometry" -> As(readShapes[Nesting][rest], LAMBDA v : <<t, v>>)
             chosen(c) == CHOOSE t \in DOMAIN Tag : Tag[t] = c
  <1>1. ASSUME NEW c \in Cells, NEW rest \in Wires
        PROVE  f[<<c>> \o rest] = IF \E t \in DOMAIN Tag : Tag[t] = c
                                    THEN Body(chosen(c), rest) ELSE Failed
    <2>1. PICK s \in Wires : s = <<c>> \o rest
      BY WiresJoin
    <2>2. readCell(s).ok /\ readCell(s).value = c /\ readCell(s).rest = rest
      BY <2>1, readCellOf, GotIs
    <2>3. readValue(inner, s) =
            IF \E t \in DOMAIN Tag : Tag[t] = readCell(s).value
              THEN Body(chosen(readCell(s).value), readCell(s).rest) ELSE Failed
      BY <2>2, Zenon DEF readValue, Then, Named
    <2> HIDE DEF Body, chosen
    <2> QED BY <2>1, <2>2, <2>3
  <1>2. ASSUME NEW t \in DOMAIN Tag PROVE chosen(Tag[t]) = t
    BY ValueTags
  <1>3. ASSUME NEW t \in DOMAIN Tag, NEW rest \in Wires
        PROVE  Body(t, rest) = ValueReader(t, inner)[rest]
    <2>1. CASE t \in {"None", "Null"}
      BY <2>1 DEF ValueReader
    <2>2. CASE t = "Bool"
      BY <2>2 DEF ValueReader, RBool
    <2>3. CASE t = "Number"
      BY <2>3 DEF ValueReader, RNumber
    <2>4. CASE t \in {"Text", "Regex"}
      BY <2>4 DEF ValueReader, Marked, RText, As
    <2>5. CASE t = "Bytes"
      BY <2>5 DEF ValueReader, Marked, RLenbytes, As
    <2>6. CASE t \in {"Duration", "Datetime"}
      BY <2>6 DEF ValueReader, RSeconds
    <2>7. CASE t \in {"UUID", "Table"}
      BY <2>7 DEF ValueReader, Marked, RCell, As
    <2>8. CASE t = "Record"
      <3>1. Body(t, rest) = Then(readCell(rest), LAMBDA table, left :
                              As(readRecordID(left), LAMBDA id : <<t, table, id>>))
        BY <2>8
      <3>2. ValueReader(t, inner) = Paired(t, RCell, RRecordID)
        BY <2>8 DEF ValueReader
      <3>3. Then(readCell(rest), LAMBDA table, left :
              As(readRecordID(left), LAMBDA id : <<t, table, id>>))
            = Paired(t, RCell, RRecordID)[rest]
        BY readRecordIs
      <3> HIDE DEF Body
      <3> QED BY <3>1, <3>2, <3>3, Zenon
    <2>9. CASE t \in {"Array", "Set"}
      BY <2>9 DEF ValueReader, Marked, RItems, As
    <2>10. CASE t = "Object"
      BY <2>10 DEF ValueReader, RObject, RPairs, As
    <2>11. CASE t = "Range"
      <3>1. Body(t, rest) = Then(readBound(inner, rest), LAMBDA start, left :
                              As(readBound(inner, left), LAMBDA end : <<t, start, end>>))
        BY <2>11
      <3>2. ValueReader(t, inner) = Paired(t, RBound(inner), RBound(inner))
        BY <2>11 DEF ValueReader
      <3>3. Then(readBound(inner, rest), LAMBDA start, left :
              As(readBound(inner, left), LAMBDA end : <<t, start, end>>))
            = Paired(t, RBound(inner), RBound(inner))[rest]
        BY readRangeIs
      <3> HIDE DEF Body
      <3> QED BY <3>1, <3>2, <3>3, Zenon
    <2>12. CASE t = "Geometry"
      BY <2>12 DEF ValueReader, Marked, As
    <2> HIDE DEF Body
    <2> QED BY <2>1, <2>2, <2>3, <2>4, <2>5, <2>6, <2>7, <2>8, <2>9, <2>10, <2>11, <2>12, ValueTags
  <1>4. f[<<>>] = Failed
    BY readCellOf, GotIs, WiresJoin DEF readValue, Then
  <1> HIDE DEF f, Body, chosen
  <1>5. Tagged(f, Tag, [t \in DOMAIN Tag |-> ValueReader(t, inner)])
    BY <1>1, <1>2, <1>3, <1>4 DEF Tagged
  <1> QED BY <1>5 DEF f

\* A number is written as its kind's tag behind the tag of numbers.
LEMMA writeNumberIs ==
  ASSUME NEW v \in NumberValues
  PROVE  writeNumber(v) = <<Tag["Number"]>> \o WNumber[v]
  <1>1. PICK a \in Wires : a = <<Tag["Number"]>>
    BY ValueTags, WiresJoin
  <1>2. v[1] \in DOMAIN NumberTag
    BY NumberTags DEF NumberValues
  <1>3. PICK b \in Wires : b = <<NumberTag[v[1]]>>
    BY <1>2, NumberTags, WiresJoin
  <1>4. PICK c \in Wires : c = NumberRest(v)
    <2>1. \A n \in Signed : <<i64Inverted(n)>> \in Wires /\ <<i128(n)>> \in Wires
      BY readSignedReads, readMantissaReads
    <2>2. CASE v \in {"Integer"} \X Signed
      BY <2>1, <2>2 DEF NumberRest
    <2>3. CASE v \in {"Float"} \X Cells
      BY <2>3, WiresJoin DEF NumberRest
    <2>4. CASE v \in {"Decimal"} \X Signed \X Cells
      <3>1. PICK m \in Signed, k \in Cells : v = <<"Decimal", m, k>>
        BY <2>4
      <3>2. NumberRest(v) = <<i128(m), k>>
        BY <3>1 DEF NumberRest
      <3>3. <<i128(m), k>> = <<i128(m)>> \o <<k>>
        BY TwoCells
      <3>4. <<i128(m)>> \in Wires /\ <<k>> \in Wires
        BY <2>1, WiresJoin
      <3>5. <<i128(m)>> \o <<k>> \in Wires
        BY <3>4, WiresJoin
      <3> QED BY <3>2, <3>3, <3>5
    <2> QED BY <2>2, <2>3, <2>4 DEF NumberValues
  <1>5. WNumber[v] = b \o c
    BY <1>3, <1>4 DEF WNumber
  <1>6. writeNumber(v) = <<Tag["Number"], NumberTag[v[1]]>> \o c
    BY <1>4, ValueTags, Zenon DEF writeNumber, NumberRest
  <1>7. <<Tag["Number"], NumberTag[v[1]]>> = a \o b
    BY <1>1, <1>3, TwoCells
  <1>8. (a \o b) \o c = a \o (b \o c)
    BY WiresJoin
  <1> QED BY <1>1, <1>5, <1>6, <1>7, <1>8

\* writeValue writes the tag and what the kind consists of.
LEMMA writeValueIs ==
  ASSUME NEW W, NEW X, NEW t \in DOMAIN Tag, NEW v \in ValueParts(t, X)
  PROVE  writeValue(W, v) = <<Tag[t]>> \o ValueRest(t, W, v)
  <1>1. CASE t = "Number"
    <2>1. v \in NumberValues
      BY <1>1 DEF ValueParts
    <2>2. v[1] \in DOMAIN NumberTag
      BY <2>1, NumberTags DEF NumberValues
    <2>3. writeValue(W, v) = writeNumber(v)
      BY <2>2 DEF writeValue
    <2>4. ValueRest(t, W, v) = WNumber[v]
      BY <1>1 DEF ValueRest
    <2> QED BY <1>1, <2>1, <2>3, <2>4, writeNumberIs
  <1>2. ASSUME t # "Number"
        PROVE  /\ v[1] = t /\ v[1] \notin DOMAIN NumberTag
               /\ t \in DOMAIN Tag \ {"Number"}
    BY <1>2, ValueTags, NumberTags DEF ValueParts
  <1>3. CASE t \in {"None", "Null"}
    BY <1>2, <1>3 DEF writeValue, ValueRest
  <1>4. CASE t = "Bool"
    BY <1>2, <1>4 DEF writeValue, ValueRest
  <1>5. CASE t \in {"Text", "Bytes", "Regex"}
    BY <1>2, <1>5 DEF writeValue, ValueRest
  <1>6. CASE t \in {"Duration", "Datetime"}
    BY <1>2, <1>6 DEF writeValue, ValueRest
  <1>7. CASE t \in {"UUID", "Table"}
    BY <1>2, <1>7 DEF writeValue, ValueRest
  <1>8. CASE t = "Record"
    BY <1>2, <1>8 DEF writeValue, ValueRest
  <1>9. CASE t \in {"Array", "Set"}
    <2>1. writeValue(W, v) = <<Tag[t]>> \o Each(LAMBDA i : W[i], v[2])
      BY <1>2, <1>9 DEF writeValue
    <2>2. ValueRest(t, W, v) = Each(LAMBDA i : W[i], v[2])
      BY <1>9 DEF ValueRest
    <2> QED BY <2>1, <2>2 DEF Each
  <1>10. CASE t = "Object"
    <2>1. writeValue(W, v) = <<Tag[t]>> \o Each(LAMBDA f : lenbytes(f[1]) \o W[f[2]], Sorted(v[2]))
      BY <1>2, <1>10 DEF writeValue
    <2>2. ValueRest(t, W, v) = Each(LAMBDA f : lenbytes(f[1]) \o W[f[2]], Sorted(v[2]))
      BY <1>10 DEF ValueRest
    <2> QED BY <2>1, <2>2 DEF Each
  <1>11. CASE t = "Range"
    BY <1>2, <1>11 DEF writeValue, ValueRest
  <1>12. CASE t = "Geometry"
    BY <1>2, <1>12 DEF writeValue, ValueRest
  <1> QED BY <1>1, <1>3, <1>4, <1>5, <1>6, <1>7, <1>8, <1>9, <1>10, <1>11, <1>12, ValueTags

\* A value is a tag and what a value of that tag consists of.
LEMMA ValueIs ==
  ASSUME NEW d, d # 0, NEW X
  PROVE  /\ \A t \in DOMAIN Tag : ValueParts(t, X) \subseteq ValueAt(d, X)
         /\ \A v \in ValueAt(d, X) : \E t \in DOMAIN Tag : v \in ValueParts(t, X)
  <1>1. ASSUME NEW t \in DOMAIN Tag PROVE ValueParts(t, X) \subseteq ValueAt(d, X)
    <2>1. CASE t \in {"None", "Null"}
      BY <2>1 DEF ValueAt, ValueParts, Scalars
    <2>2. CASE t = "Bool"
      BY <2>2 DEF ValueAt, ValueParts, Scalars
    <2>3. CASE t = "Number"
      BY <2>3 DEF ValueAt, ValueParts, Scalars, NumberValues
    <2>4. CASE t \in {"Text", "Regex"}
      BY <2>4 DEF ValueAt, ValueParts, Scalars
    <2>5. CASE t = "Bytes"
      BY <2>5 DEF ValueAt, ValueParts, Scalars
    <2>6. CASE t \in {"Duration", "Datetime"}
      BY <2>6 DEF ValueAt, ValueParts, Scalars
    <2>7. CASE t \in {"UUID", "Table"}
      BY <2>7 DEF ValueAt, ValueParts, Scalars
    <2>8. CASE t = "Record"
      BY <2>8 DEF ValueAt, ValueParts, Scalars
    <2>9. CASE t \in {"Array", "Set"}
      BY <2>9 DEF ValueAt, ValueParts
    <2>10. CASE t = "Object"
      BY <2>10 DEF ValueAt, ValueParts
    <2>11. CASE t = "Range"
      BY <2>11 DEF ValueAt, ValueParts
    <2>12. CASE t = "Geometry"
      BY <2>12 DEF ValueAt, ValueParts, Scalars
    <2> QED BY <2>1, <2>2, <2>3, <2>4, <2>5, <2>6, <2>7, <2>8, <2>9, <2>10, <2>11, <2>12, ValueTags
  <1>2. ASSUME NEW v \in ValueAt(d, X)
        PROVE  \E t \in DOMAIN Tag : v \in ValueParts(t, X)
    <2>1. CASE v \in {<<"None">>, <<"Null">>}
      BY <2>1, ValueTags DEF ValueParts
    <2>2. CASE v \in {"Bool"} \X BOOLEAN
      BY <2>2, ValueTags DEF ValueParts
    <2>3. CASE v \in NumberValues
      BY <2>3, ValueTags DEF ValueParts
    <2>4. CASE v \in {"UUID", "Table"} \X Cells
      <3>1. PICK t \in {"UUID", "Table"} : v \in {t} \X Cells
        BY <2>4
      <3>2. t \in DOMAIN Tag /\ ValueParts(t, X) = {t} \X Cells
        BY <3>1, ValueTags DEF ValueParts
      <3> QED BY <3>1, <3>2
    <2>5. CASE v \in {"Text", "Regex"} \X Texts
      <3>1. PICK t \in {"Text", "Regex"} : v \in {t} \X Texts
        BY <2>5
      <3>2. t \in DOMAIN Tag /\ ValueParts(t, X) = {t} \X Texts
        BY <3>1, ValueTags DEF ValueParts
      <3> QED BY <3>1, <3>2
    <2>6. CASE v \in {"Bytes"} \X Wires
      BY <2>6, ValueTags DEF ValueParts
    <2>7. CASE v \in {"Duration", "Datetime"} \X Signed \X Cells
      <3>1. PICK t \in {"Duration", "Datetime"} : v \in {t} \X Signed \X Cells
        BY <2>7
      <3>2. t \in DOMAIN Tag /\ ValueParts(t, X) = {t} \X Signed \X Cells
        BY <3>1, ValueTags DEF ValueParts
      <3> QED BY <3>1, <3>2
    <2>8. CASE v \in {"Record"} \X Cells \X Ids
      BY <2>8, ValueTags DEF ValueParts
    <2>9. CASE v \in {"Geometry"} \X Shape[Nesting]
      BY <2>9, ValueTags DEF ValueParts
    <2>10. CASE v \in {"Array", "Set"} \X Seq(X)
      <3>1. PICK t \in {"Array", "Set"} : v \in {t} \X Seq(X)
        BY <2>10
      <3>2. t \in DOMAIN Tag /\ ValueParts(t, X) = {t} \X Seq(X)
        BY <3>1, ValueTags DEF ValueParts
      <3> QED BY <3>1, <3>2
    <2>11. CASE v \in {"Object"} \X Objects(X)
      BY <2>11, ValueTags DEF ValueParts
    <2>12. CASE v \in {"Range"} \X Bounds(X) \X Bounds(X)
      BY <2>12, ValueTags DEF ValueParts
    <2>13. CASE v \in {"Integer"} \X Signed
      BY <2>3, <2>13 DEF NumberValues
    <2>14. CASE v \in {"Float"} \X Cells
      BY <2>3, <2>14 DEF NumberValues
    <2>15. CASE v \in {"Decimal"} \X Signed \X Cells
      BY <2>3, <2>15 DEF NumberValues
    <2>16. {"Float", "UUID", "Table"} \X Cells = ({"Float"} \X Cells) \cup ({"UUID", "Table"} \X Cells)
      OBVIOUS
    <2> QED BY <2>1, <2>2, <2>4, <2>5, <2>6, <2>7, <2>8, <2>9, <2>10, <2>11, <2>12, <2>13,
               <2>14, <2>15, <2>16 DEF ValueAt, Scalars
  <1> QED BY <1>1, <1>2

\* Values of a depth are undone if those of one less are.
LEMMA ValueStepUndoes ==
  ASSUME NEW inner, NEW X, NEW W, Undoes(inner, X, W), NEW d, d # 0
  PROVE  Undoes([s \in Wires |-> readValue(inner, s)], ValueAt(d, X),
                [v \in ValueAt(d, X) |-> writeValue(W, v)])
  <1> DEFINE f == [s \in Wires |-> readValue(inner, s)]
             Z == ValueAt(d, X)
             E == [v \in Z |-> writeValue(W, v)]
             h == [t \in DOMAIN Tag |-> ValueReader(t, inner)]
             Y == [t \in DOMAIN Tag |-> ValueParts(t, X)]
             V == [t \in DOMAIN Tag |-> [v \in ValueParts(t, X) |-> ValueRest(t, W, v)]]
  <1>1. Tagged(f, Tag, h)
    BY readValueTagged
  <1>2. ASSUME NEW t \in DOMAIN Tag PROVE Undoes(h[t], Y[t], V[t])
    BY ValuePartsUndo
  <1>3. Tags(Tag, Y, V, Z, E)
    <2>1. \A t \in DOMAIN Tag : Tag[t] \in Cells
      BY ValueTags
    <2>2. ASSUME NEW t \in DOMAIN Tag, NEW y \in Y[t]
          PROVE  y \in Z /\ E[y] = <<Tag[t]>> \o V[t][y]
      <3>1. y \in ValueParts(t, X)
        OBVIOUS
      <3>2. y \in Z
        BY <3>1, ValueIs
      <3>3. E[y] = writeValue(W, y)
        BY <3>2
      <3>4. V[t][y] = ValueRest(t, W, y)
        BY <3>1
      <3>5. writeValue(W, y) = <<Tag[t]>> \o ValueRest(t, W, y)
        BY <3>1, writeValueIs
      <3> HIDE DEF E, V, Y, Z
      <3> QED BY <3>2, <3>3, <3>4, <3>5
    <2>3. \A z \in Z : \E t \in DOMAIN Tag : z \in Y[t]
      BY ValueIs
    <2> HIDE DEF E, V, Y, Z
    <2> QED BY <2>1, <2>2, <2>3 DEF Tags
  <1> HIDE DEF f, h, Y, V, Z, E
  <1>4. Undoes(f, Z, E)
    BY <1>1, <1>2, <1>3, TaggedUndoes
  <1> QED BY <1>4 DEF f, Z, E

\* Values are read back, however deep they nest.
THEOREM ValuesUndo ==
  \A d \in 0 .. Nesting : Undoes(readValues[d], Value[d], writeValues[d])
  <1> DEFINE S == {d \in Nat : d <= Nesting => Undoes(readValues[d], Value[d], writeValues[d])}
  <1>1. 0 \in S
    <2> SUFFICES Undoes(readValues[0], Value[0], writeValues[0])
      OBVIOUS
    <2>1. 0 \in 0 .. Nesting
      BY ValuesAssumption
    <2>2. Value[0] = {}
      BY <2>1, ValueOf DEF ValueAt
    <2>3. readValues[0] = [s \in Wires |-> Failed]
      BY <2>1, readValuesOf DEF readValuesAt
    <2>4. Reads(readValues[0], {v \in Value[0] : writeValues[0][v] \in Wires})
      BY <2>3, FailReads
    <2> QED BY <2>2, <2>4 DEF Undoes
  <1>2. ASSUME NEW d \in Nat, d \in S PROVE d + 1 \in S
    <2> SUFFICES ASSUME NEW k \in Nat, k = d + 1, k <= Nesting
                 PROVE  Undoes(readValues[k], Value[k], writeValues[k])
      OBVIOUS
    <2>1. k \in 0 .. Nesting /\ k # 0 /\ k - 1 = d /\ d <= Nesting
      BY ValuesAssumption
    <2>2. Undoes(readValues[d], Value[d], writeValues[d])
      BY <1>2, <2>1
    <2>3. Value[k] = ValueAt(k, Value[d])
      BY <2>1, ValueOf
    <2>4. readValues[k] = [s \in Wires |-> readValue(readValues[d], s)]
      <3>1. readValues[k] = readValuesAt(k, readValues[d])
        BY <2>1, readValuesOf
      <3> QED BY <2>1, <3>1 DEF readValuesAt
    <2>5. writeValues[k] = [v \in ValueAt(k, Value[d]) |-> writeValue(writeValues[d], v)]
      <3>1. writeValues[k] = writeValuesAt(k, writeValues[d])
        BY <2>1, writeValuesOf
      <3> QED BY <2>3, <3>1 DEF writeValuesAt
    <2>6. Undoes([s \in Wires |-> readValue(readValues[d], s)], ValueAt(k, Value[d]),
                 [v \in ValueAt(k, Value[d]) |-> writeValue(writeValues[d], v)])
      BY <2>1, <2>2, ValueStepUndoes
    <2> QED BY <2>3, <2>4, <2>5, <2>6
  <1> HIDE DEF S
  <1>3. Nat \subseteq S
    BY <1>1, <1>2, SetInduction
  <1> QED BY <1>3 DEF S

-----------------------------------------------------------------------------
(***************************************************************************)
(* Encode and Decode.                                                      *)
(***************************************************************************)
LEMMA EncodeIs ==
  ASSUME NEW v \in Value[Nesting]
  PROVE  /\ Encode(v).ok <=> writeValues[Nesting][v] \in Wires
         /\ Encode(v).ok => Encode(v) = Got(writeValues[Nesting][v], <<>>)
         /\ Encode(v).ok => Encode(v).value = writeValues[Nesting][v]
  <1>1. Undoes(readValues[Nesting], Value[Nesting], writeValues[Nesting])
    BY ValuesUndo, ValuesAssumption
  <1>2. PICK w \in Drafts : w = writeValues[Nesting][v]
    BY <1>1 DEF Undoes
  <1>3. Len(w) \in Nat /\ \A i \in 1 .. Len(w) : w[i] \in Int
    BY LenProperties, ElementOfSeq DEF Drafts
  <1>4. ASSUME \A i \in 1 .. Len(w) : w[i] \in Cells PROVE w \in Wires
    <2>1. SubSeq(w, 1, Len(w)) \in Seq(Cells)
      BY <1>3, <1>4, SubSeqProperties DEF Drafts
    <2>2. SubSeq(w, 1, Len(w)) = w
      BY SubSeqFull DEF Drafts
    <2> QED BY <2>1, <2>2 DEF Wires
  <1>5. ASSUME w \in Wires PROVE \A i \in 1 .. Len(w) : w[i] \in Cells
    BY <1>5, ElementOfSeq DEF Wires
  <1>6. Encode(v) = IF \E i \in 1 .. Len(w) : w[i] \notin Cells THEN Failed ELSE Got(w, <<>>)
    BY <1>2 DEF Encode
  <1>7. CASE \E i \in 1 .. Len(w) : w[i] \notin Cells
    <2>1. Encode(v) = Failed /\ w \notin Wires
      BY <1>5, <1>6, <1>7
    <2> QED BY <1>2, <2>1, GotIs
  <1>8. CASE ~ \E i \in 1 .. Len(w) : w[i] \notin Cells
    <2>1. Encode(v) = Got(w, <<>>) /\ w \in Wires
      BY <1>4, <1>6, <1>8
    <2> QED BY <1>2, <2>1, GotIs
  <1> QED BY <1>7, <1>8

\* What is read of a value's wire, and of more than that.
LEMMA DecodeWritten ==
  ASSUME NEW v \in Value[Nesting], NEW w \in Wires, w = writeValues[Nesting][v], NEW x \in Wires
  PROVE  /\ readValues[Nesting][w \o x] = Got(v, x)
         /\ x = <<>> => Decode(w) = Got(v, <<>>)
         /\ x # <<>> => Decode(w \o x) = Failed
  <1>1. Undoes(readValues[Nesting], Value[Nesting], writeValues[Nesting])
    BY ValuesUndo, ValuesAssumption
  <1>2. Back(readValues[Nesting], v, w)
    BY <1>1 DEF Undoes
  <1>3. readValues[Nesting][w \o x] = Got(v, x)
    BY <1>2 DEF Back
  <1>4. PICK r : r = readValues[Nesting][w \o x]
    OBVIOUS
  <1>5. r.ok /\ r.value = v /\ r.rest = x
    BY <1>3, <1>4, GotIs
  <1>6. Decode(w \o x) = IF x = <<>> THEN Got(v, x) ELSE Failed
    BY <1>4, <1>5 DEF Decode, Then
  <1>7. x = <<>> => w \o x = w
    BY WiresJoin
  <1> QED BY <1>3, <1>6, <1>7

\* What is accepted can be written, and is read the same again.
LEMMA DecodeAccepts ==
  ASSUME NEW w \in Wires, Decode(w).ok
  PROVE  \E v \in Value[Nesting] :
           /\ Decode(w) = Got(v, <<>>)
           /\ writeValues[Nesting][v] \in Wires
           /\ \A x \in Wires : readValues[Nesting][w \o x] = Got(v, x)
  <1>1. Undoes(readValues[Nesting], Value[Nesting], writeValues[Nesting])
    BY ValuesUndo, ValuesAssumption
  <1>2. PICK r : r = readValues[Nesting][w]
    OBVIOUS
  <1>3. Decode(w) = IF ~r.ok THEN Failed ELSE IF r.rest = <<>> THEN Got(r.value, r.rest) ELSE Failed
    BY <1>2 DEF Decode, Then
  <1>4. r.ok /\ r.rest = <<>> /\ Decode(w) = Got(r.value, <<>>)
    BY <1>3, GotIs
  <1>5. PICK T : T = {v \in Value[Nesting] : writeValues[Nesting][v] \in Wires}
    OBVIOUS
  <1>6. ReadsOf(readValues[Nesting], T, w)
    BY <1>1, <1>5 DEF Undoes, Reads
  <1>7. PICK v \in T, rest \in Wires :
          r = Got(v, rest) /\ \A x \in Wires : readValues[Nesting][w \o x] = Got(v, rest \o x)
    BY <1>2, <1>4, <1>6, GotIs DEF ReadsOf
  <1>8. r.value = v /\ r.rest = rest
    BY <1>7, GotIs
  <1>9. \A x \in Wires : rest \o x = x
    BY <1>4, <1>8, WiresJoin
  <1> QED BY <1>4, <1>5, <1>7, <1>8, <1>9

-----------------------------------------------------------------------------
(***************************************************************************)
(* The wire of a value, and what may have become of it: another of the     *)
(* same length, one cut short, or one with more behind it.                 *)
(***************************************************************************)
Origin(enc) ==
  \/ Len(wire) = Len(enc)
  \/ \E z \in Wires : z # <<>> /\ enc = wire \o z
  \/ \E z \in Wires : z # <<>> /\ wire = enc \o z

IInv ==
  /\ value \in Value[Nesting] /\ value \in Samples
  /\ wire \in Wires
  /\ state \notin {"new", "refused"} =>
       Encode(value).ok /\ Origin(writeValues[Nesting][value])
  /\ state = "written" => wire = writeValues[Nesting][value]
  /\ state = "read" => got = Decode(wire)

\* What arrives of a wire that is cut short is not all of it.
LEMMA CutIs ==
  ASSUME wire \in Wires, CutShort
  PROVE  wire' \in Wires /\ \E z \in Wires : z # <<>> /\ wire = wire' \o z
  <1>1. PICK n \in 0 .. Len(wire) - 1 : wire' = SubSeq(wire, 1, n)
    BY DEF CutShort
  <1>2. wire \in Seq(Cells) /\ Len(wire) \in Nat
    BY LenProperties DEF Wires
  <1>3. n \in Nat /\ n <= Len(wire) /\ n # Len(wire)
    BY <1>1, <1>2
  <1>4. PICK z : z = SubSeq(wire, n + 1, Len(wire))
    OBVIOUS
  <1>5. wire' \in Seq(Cells) /\ Len(wire') = n /\ z \in Seq(Cells) /\ wire = wire' \o z
    BY <1>1, <1>2, <1>3, <1>4, SplitAt
  <1>6. z # <<>>
    <2> SUFFICES ASSUME z = <<>> PROVE FALSE
      OBVIOUS
    <2>1. wire = wire'
      BY <1>5, ConcatEmptySeq
    <2> QED BY <1>3, <1>5, <2>1
  <1> QED BY <1>5, <1>6 DEF Wires

\* A wire with another cell is as long.
LEMMA AlteredIs ==
  ASSUME wire \in Wires, CellAltered
  PROVE  wire' \in Wires /\ Len(wire') = Len(wire)
  <1>1. PICK i \in 1 .. Len(wire), c \in Cells : wire' = [wire EXCEPT ![i] = c]
    BY DEF CellAltered
  <1>2. wire \in Seq(Cells)
    BY DEF Wires
  <1> QED BY <1>1, <1>2, ExceptSeq DEF Wires

\* Nothing was written to begin with.
LEMMA InitIInv == Init => IInv
  <1> SUFFICES ASSUME Init PROVE IInv
    OBVIOUS
  <1>1. wire \in Wires
    BY WiresJoin DEF Init
  <1> QED BY <1>1, CodecAssumption DEF Init, IInv

\* No step writes anything but the value, or makes of its wire anything but
\* what Origin allows.
LEMMA StepIInv == IInv /\ [Next]_vars => IInv'
  <1> SUFFICES ASSUME IInv, [Next]_vars PROVE IInv'
    OBVIOUS
  <1> DEFINE enc == writeValues[Nesting][value]
  <1>1. value \in Value[Nesting] /\ value \in Samples /\ wire \in Wires
    BY DEF IInv
  <1>2. CASE Write
    <2>1. state = "new" /\ value' = value /\ got' = got
      BY <1>2 DEF Write
    <2>2. CASE Encode(value).ok
      <3>1. wire' = enc /\ state' = "written" /\ enc \in Wires
        BY <1>1, <1>2, <2>2, EncodeIs DEF Write
      <3>2. Len(wire') = Len(enc)
        BY <3>1
      <3> QED BY <1>1, <2>1, <2>2, <3>1, <3>2 DEF IInv, Origin
    <2>3. CASE ~Encode(value).ok
      <3>1. wire' = wire /\ state' = "refused"
        BY <1>2, <2>3 DEF Write
      <3> QED BY <1>1, <2>1, <3>1 DEF IInv
    <2> QED BY <2>2, <2>3
  <1>3. CASE Cut
    <2>1. state = "written" /\ state' = "cut" /\ value' = value /\ got' = got
      BY <1>3 DEF Cut, CutShort
    <2>2. Encode(value).ok /\ wire = enc
      BY <2>1 DEF IInv
    <2>3. wire' \in Wires /\ \E z \in Wires : z # <<>> /\ wire = wire' \o z
      BY <1>1, <1>3, CutIs DEF Cut
    <2> QED BY <1>1, <2>1, <2>2, <2>3 DEF IInv, Origin
  <1>4. CASE Grow
    <2>1. state = "written" /\ state' = "grown" /\ value' = value /\ got' = got
      BY <1>4 DEF Grow
    <2>2. Encode(value).ok /\ wire = enc
      BY <2>1 DEF IInv
    <2>3. PICK c \in Cells : wire' = Append(wire, c)
      BY <1>4 DEF Grow
    <2>4. wire' = wire \o <<c>>
      BY <1>1, <2>3, AppendIsConcat DEF Wires
    <2>5. <<c>> \in Wires /\ <<c>> # <<>> /\ wire \o <<c>> \in Wires
      BY <1>1, WiresJoin
    <2>6. \E z \in Wires : z # <<>> /\ wire' = enc \o z
      BY <2>2, <2>4, <2>5
    <2>7. wire' \in Wires
      BY <2>4, <2>5
    <2> QED BY <1>1, <2>1, <2>2, <2>6, <2>7 DEF IInv, Origin
  <1>5. CASE Alter
    <2>1. state = "written" /\ state' = "altered" /\ value' = value /\ got' = got
      BY <1>5 DEF Alter, CellAltered
    <2>2. Encode(value).ok /\ wire = enc
      BY <2>1 DEF IInv
    <2>3. wire' \in Wires /\ Len(wire') = Len(enc)
      BY <1>1, <1>5, <2>2, AlteredIs DEF Alter
    <2> QED BY <1>1, <2>1, <2>2, <2>3 DEF IInv, Origin
  <1>6. CASE Read
    <2>1. /\ state \in {"written", "cut", "grown", "altered"} /\ state' = "read"
          /\ value' = value /\ wire' = wire /\ got' = Decode(wire)
      BY <1>6 DEF Read
    <2>2. Encode(value).ok /\ Origin(enc)
      BY <2>1 DEF IInv
    <2>3. Encode(value').ok /\ Origin(enc)'
      BY <2>1, <2>2 DEF Origin
    <2>4. got' = Decode(wire')
      BY <2>1
    <2> QED BY <1>1, <2>1, <2>3, <2>4 DEF IInv
  <1>7. CASE UNCHANGED vars
    <2>1. value' = value /\ wire' = wire /\ state' = state /\ got' = got
      BY <1>7 DEF vars
    <2> QED BY <2>1 DEF IInv, Origin
  <1> QED BY <1>2, <1>3, <1>4, <1>5, <1>6, <1>7 DEF Next

\* What is intact reads back, and what is accepted can be written and is read
\* the same again.
LEMMA ReadsBackHolds == IInv => ReadsBack
  <1> SUFFICES ASSUME IInv, state = "read"
               PROVE  /\ Encode(value).ok /\ wire = Encode(value).value => got = Got(value, <<>>)
                      /\ got.ok => /\ Encode(got.value).ok
                                   /\ Decode(Encode(got.value).value) = Got(got.value, <<>>)
    BY DEF ReadsBack
  <1>1. value \in Value[Nesting] /\ wire \in Wires /\ got = Decode(wire)
    BY DEF IInv
  <1>2. ASSUME Encode(value).ok, wire = Encode(value).value PROVE got = Got(value, <<>>)
    <2>1. wire = writeValues[Nesting][value]
      BY <1>1, <1>2, EncodeIs
    <2> QED BY <1>1, <2>1, DecodeWritten, WiresJoin
  <1>3. ASSUME got.ok
        PROVE  Encode(got.value).ok /\ Decode(Encode(got.value).value) = Got(got.value, <<>>)
    <2>1. PICK v \in Value[Nesting] : got = Got(v, <<>>) /\ writeValues[Nesting][v] \in Wires
      BY <1>1, <1>3, DecodeAccepts
    <2>2. got.value = v
      BY <2>1, GotIs
    <2>3. PICK w \in Wires : w = writeValues[Nesting][v]
      BY <2>1
    <2>4. Encode(v).ok /\ Encode(v).value = w
      BY <2>3, EncodeIs
    <2>5. Decode(w) = Got(v, <<>>)
      BY <2>3, DecodeWritten, WiresJoin
    <2> QED BY <2>2, <2>4, <2>5
  <1> QED BY <1>2, <1>3

\* A cut wire that were accepted would be so with the rest behind it, which
\* then would stay over.
LEMMA NoPrefixHolds == IInv => NoPrefixIsAValue
  <1> SUFFICES ASSUME IInv, state = "read", Encode(value).ok,
                      Len(wire) # Len(Encode(value).value), Decode(wire).ok
               PROVE  FALSE
    BY DEF NoPrefixIsAValue, IInv
  <1>1. value \in Value[Nesting] /\ wire \in Wires
    BY DEF IInv
  <1>2. PICK enc \in Wires : enc = writeValues[Nesting][value] /\ Encode(value).value = enc
    BY <1>1, EncodeIs
  <1>3. Origin(enc) /\ Len(wire) # Len(enc)
    BY <1>2 DEF IInv
  <1>4. ASSUME NEW z \in Wires, z # <<>>, enc = wire \o z PROVE FALSE
    <2>1. PICK v \in Value[Nesting] : \A x \in Wires : readValues[Nesting][wire \o x] = Got(v, x)
      BY <1>1, DecodeAccepts
    <2>2. readValues[Nesting][enc] = Got(v, z)
      BY <1>4, <2>1
    <2>3. readValues[Nesting][enc] = Got(value, <<>>)
      <3>1. readValues[Nesting][enc \o <<>>] = Got(value, <<>>)
        BY <1>1, <1>2, DecodeWritten, WiresJoin
      <3> QED BY <3>1, WiresJoin
    <2>4. z = <<>>
      <3>1. PICK r : r = readValues[Nesting][enc]
        OBVIOUS
      <3>2. r.rest = z
        BY <2>2, <3>1, GotIs
      <3>3. r.rest = <<>>
        BY <2>3, <3>1, GotIs
      <3> QED BY <3>2, <3>3
    <2> QED BY <1>4, <2>4
  <1>5. ASSUME NEW z \in Wires, z # <<>>, wire = enc \o z PROVE FALSE
    <2>1. Decode(wire) = Failed
      BY <1>1, <1>2, <1>5, DecodeWritten
    <2> QED BY <2>1, GotIs
  <1> QED BY <1>3, <1>4, <1>5 DEF Origin

\* Bytes come from Encode alone, cut, grown or altered once, and Decode is all
\* that reads them.
THEOREM InvariantHolds == Spec => []IInv
  BY InitIInv, StepIInv, PTL DEF Spec

\* What Encode writes Decode reads as the same value, for every value of any
\* size and nesting; and whatever Decode accepts, Encode can write, and it is
\* read as the same value again.
THEOREM ReadsBackAlways == Spec => []ReadsBack
  BY InitIInv, StepIInv, ReadsBackHolds, PTL DEF Spec

\* Bytes of a value that were cut short anywhere, or have more behind them,
\* are never accepted as a value.
THEOREM NoPrefixIsAValueEver == Spec => []NoPrefixIsAValue
  BY InitIInv, StepIInv, NoPrefixHolds, PTL DEF Spec

-----------------------------------------------------------------------------
(***************************************************************************)
(* The order of wires.                                                     *)
(***************************************************************************)
\* The first cells differ.
LEMMA BeforeHead ==
  ASSUME NEW x \in Cells, NEW y \in Cells, x < y, NEW s \in Wires, NEW t \in Wires
  PROVE  Before(<<x>> \o s, <<y>> \o t)
  <1>1. PICK a \in Wires : a = <<x>> \o s
    BY WiresJoin
  <1>2. PICK b \in Wires : b = <<y>> \o t
    BY WiresJoin
  <1>3. Len(a) = Len(s) + 1 /\ a[1] = x /\ Len(s) \in Nat
    BY <1>1, ConsParts, LenProperties DEF Wires
  <1>4. Len(b) = Len(t) + 1 /\ b[1] = y /\ Len(t) \in Nat
    BY <1>2, ConsParts, LenProperties DEF Wires
  <1>5. 1 \in Numbers
    BY DEF Numbers
  <1>6. At(a, 1) = x /\ At(b, 1) = y
    BY <1>3, <1>4 DEF At
  <1>7. LessAt(a, b, 1)
    BY <1>6 DEF LessAt
  <1> QED BY <1>1, <1>2, <1>5, <1>7, BeforeIs

\* What stands before both changes nothing.
LEMMA BeforeBehind ==
  ASSUME NEW p \in Wires, NEW s \in Wires, NEW t \in Wires, Before(s, t)
  PROVE  Before(p \o s, p \o t)
  <1>1. PICK i \in Numbers : LessAt(s, t, i)
    BY BeforeIs
  <1>2. Len(p) \in Nat /\ Len(s) \in Nat /\ Len(t) \in Nat
    BY AtIs
  <1>3. PICK k \in Numbers : k = Len(p) + i
    BY <1>2 DEF Numbers
  <1>4. ASSUME NEW u \in Wires, NEW j \in Numbers
        PROVE  At(p \o u, j) = IF j <= Len(p) THEN p[j] ELSE At(u, j - Len(p))
    <2>1. PICK w : w = p \o u
      OBVIOUS
    <2>2. /\ Len(w) = Len(p) + Len(u) /\ Len(u) \in Nat
          /\ \A n \in 1 .. Len(p) + Len(u) : w[n] = IF n <= Len(p) THEN p[n] ELSE u[n - Len(p)]
      BY <2>1, ConcatProperties, LenProperties DEF Wires
    <2>3. CASE j <= Len(p) + Len(u)
      <3>1. j \in 1 .. Len(p) + Len(u)
        BY <1>2, <2>2, <2>3 DEF Numbers
      <3>2. At(w, j) = w[j]
        BY <2>2, <2>3 DEF At
      <3>3. CASE j <= Len(p)
        BY <2>1, <2>2, <3>1, <3>2, <3>3
      <3>4. CASE ~(j <= Len(p))
        <4>1. j - Len(p) <= Len(u)
          BY <1>2, <2>2, <2>3 DEF Numbers
        <4>2. At(u, j - Len(p)) = u[j - Len(p)]
          BY <4>1 DEF At
        <4> QED BY <2>1, <2>2, <3>1, <3>2, <3>4, <4>2
      <3> QED BY <3>3, <3>4
    <2>4. CASE ~(j <= Len(p) + Len(u))
      <3>1. ~(j <= Len(p)) /\ ~(j - Len(p) <= Len(u))
        BY <1>2, <2>2, <2>4 DEF Numbers
      <3>2. At(w, j) = -1 /\ At(u, j - Len(p)) = -1
        BY <2>2, <2>4, <3>1 DEF At
      <3> QED BY <2>1, <3>1, <3>2
    <2> QED BY <2>3, <2>4
  <1>5. PICK a \in Wires : a = p \o s
    BY WiresJoin
  <1>6. PICK b \in Wires : b = p \o t
    BY WiresJoin
  <1>7. ASSUME NEW j \in 1 .. k - 1 PROVE At(a, j) = At(b, j)
    <2>1. j \in Numbers
      BY DEF Numbers
    <2>2. CASE j <= Len(p)
      BY <1>4, <1>5, <1>6, <2>1, <2>2
    <2>3. CASE ~(j <= Len(p))
      <3>1. PICK m \in 1 .. i - 1 : m = j - Len(p)
        BY <1>2, <1>3, <2>3 DEF Numbers
      <3>2. At(s, m) = At(t, m)
        BY <1>1 DEF LessAt
      <3> QED BY <1>4, <1>5, <1>6, <2>1, <2>3, <3>1, <3>2
    <2> QED BY <2>2, <2>3
  <1>8. At(a, k) < At(b, k)
    <2>1. ~(k <= Len(p)) /\ k - Len(p) = i
      BY <1>2, <1>3 DEF Numbers
    <2>2. At(a, k) = At(s, i) /\ At(b, k) = At(t, i)
      BY <1>4, <1>5, <1>6, <2>1
    <2> QED BY <1>1, <2>2 DEF LessAt
  <1>9. LessAt(a, b, k)
    BY <1>7, <1>8 DEF LessAt
  <1> QED BY <1>5, <1>6, <1>9, BeforeIs

\* Bytes cut behind their first n, and the cell that stands there.
CutBehind(s, n, p, r) ==
  /\ p = SubSeq(s, 1, n) /\ s = p \o r
  /\ n < Len(s) => \E q \in Wires : s[n + 1] \in Cells /\ r = <<s[n + 1]>> \o q

\* The one goes on where the other ends, or they differ after a common start.
LEMMA BeforeCases ==
  ASSUME NEW a \in Wires, NEW b \in Wires, Before(a, b)
  PROVE  \/ \E c \in Cells, q \in Wires : b = a \o (<<c>> \o q)
         \/ \E p \in Wires, x \in Cells, y \in Cells, r \in Wires, q \in Wires :
              x < y /\ a = p \o (<<x>> \o r) /\ b = p \o (<<y>> \o q)
  <1>1. a \in Seq(Cells) /\ b \in Seq(Cells) /\ Len(a) \in Nat /\ Len(b) \in Nat
    BY LenProperties DEF Wires
  <1>2. ASSUME NEW s \in Wires, NEW n \in Nat, n <= Len(s)
        PROVE  \E p \in Wires, r \in Wires : CutBehind(s, n, p, r)
    <2>1. PICK p : p = SubSeq(s, 1, n)
      OBVIOUS
    <2>2. PICK r : r = SubSeq(s, n + 1, Len(s))
      OBVIOUS
    <2>3. p \in Seq(Cells) /\ Len(p) = n /\ r \in Seq(Cells) /\ s = p \o r
      BY <1>2, <2>1, <2>2, SplitAt DEF Wires
    <2>4. ASSUME n < Len(s) PROVE \E q \in Wires : s[n + 1] \in Cells /\ r = <<s[n + 1]>> \o q
      <3>1. Len(s) \in Nat /\ Len(r) \in Nat /\ Len(s) = n + Len(r)
        BY <2>3, ConcatProperties, LenProperties DEF Wires
      <3>2. r # <<>>
        BY <2>4, <3>1, EmptySeq
      <3>3. r = <<Head(r)>> \o Tail(r) /\ Head(r) \in Cells /\ Tail(r) \in Seq(Cells)
        BY <2>3, <3>2, HeadFirst
      <3>4. (p \o r)[n + 1] = r[1]
        <4>1. \A i \in 1 .. n + Len(r) : (p \o r)[i] = IF i <= n THEN p[i] ELSE r[i - n]
          BY <2>3, ConcatProperties
        <4>2. n + 1 \in 1 .. n + Len(r) /\ ~(n + 1 <= n) /\ (n + 1) - n = 1
          BY <2>4, <3>1
        <4> QED BY <4>1, <4>2
      <3>5. Head(r) = r[1]
        BY <2>3, <3>2, HeadTailProperties
      <3>6. s[n + 1] = Head(r)
        <4>1. s[n + 1] = r[1]
          <5>1. s = p \o r
            BY <2>3
          <5> QED BY <3>4, <5>1, Zenon
        <4> QED BY <3>5, <4>1, Zenon
      <3> QED BY <3>3, <3>6 DEF Wires
    <2> QED BY <2>1, <2>3, <2>4 DEF Wires, CutBehind
  <1>3. CASE IsStrictPrefix(a, b)
    <2>1. Len(a) <= Len(b) /\ SubSeq(a, 1, Len(a)) = SubSeq(b, 1, Len(a)) /\ a # b
      BY <1>3 DEF IsStrictPrefix, IsPrefix
    <2>2. SubSeq(b, 1, Len(a)) = a
      BY <1>1, <2>1, SubSeqFull
    <2>3. Len(a) # Len(b)
      BY <1>1, <2>1, <2>2, SubSeqFull
    <2>4. PICK p \in Wires, r \in Wires : CutBehind(b, Len(a), p, r)
      BY <1>1, <1>2, <2>1
    <2>5. Len(a) < Len(b)
      BY <1>1, <2>1, <2>3
    <2>6. PICK q \in Wires : b[Len(a) + 1] \in Cells /\ r = <<b[Len(a) + 1]>> \o q
      BY <2>4, <2>5, Zenon DEF CutBehind
    <2>7. p = SubSeq(b, 1, Len(a)) /\ b = p \o r
      BY <2>4, Zenon DEF CutBehind
    <2> QED BY <2>2, <2>6, <2>7
  <1>4. ASSUME NEW i \in 1 .. Len(a) \cap 1 .. Len(b),
               SubSeq(a, 1, i - 1) = SubSeq(b, 1, i - 1), a[i] < b[i]
        PROVE  \E p \in Wires, x \in Cells, y \in Cells, r \in Wires, q \in Wires :
                 x < y /\ a = p \o (<<x>> \o r) /\ b = p \o (<<y>> \o q)
    <2>1. PICK n \in Nat : n = i - 1 /\ n + 1 = i /\ n < Len(a) /\ n < Len(b) /\ n <= Len(a) /\ n <= Len(b)
      BY <1>1
    <2>2. PICK p \in Wires, r \in Wires : CutBehind(a, n, p, r)
      BY <1>2, <2>1
    <2>3. PICK u \in Wires, v \in Wires : CutBehind(b, n, u, v)
      BY <1>2, <2>1
    <2>4. u = p /\ a = p \o r /\ b = u \o v
      <3>1. p = SubSeq(a, 1, n) /\ a = p \o r /\ u = SubSeq(b, 1, n) /\ b = u \o v
        BY <2>2, <2>3, Zenon DEF CutBehind
      <3> QED BY <1>4, <2>1, <3>1, Zenon
    <2>5. PICK q \in Wires : a[i] \in Cells /\ r = <<a[i]>> \o q
      BY <2>1, <2>2, Zenon DEF CutBehind
    <2>6. PICK z \in Wires : b[i] \in Cells /\ v = <<b[i]>> \o z
      BY <2>1, <2>3, Zenon DEF CutBehind
    <2>7. a = p \o (<<a[i]>> \o q) /\ b = p \o (<<b[i]>> \o z)
      BY <2>4, <2>5, <2>6, Zenon
    <2> QED BY <1>4, <2>5, <2>6, <2>7
  <1> QED BY <1>3, <1>4 DEF Before

\* An escaped zero is before any other cell, and the mark of the end before both.
LEMMA EscOrder ==
  /\ \A c \in Cells, s, t \in Wires : Before(<<0, 1>> \o s, Esc(c) \o t)
  /\ \A x, y \in Cells, s, t \in Wires : x < y => Before(Esc(x) \o s, Esc(y) \o t)
  <1>1. <<0>> \in Wires /\ <<1>> \in Wires /\ <<Top>> \in Wires /\ 0 \in Cells /\ 1 \in Cells /\ Top \in Cells
    BY CellsAre, WiresJoin
  <1>2. ASSUME NEW c \in Cells, NEW s \in Wires PROVE <<0, c>> \o s = <<0>> \o (<<c>> \o s)
    <2>1. <<0, c>> = <<0>> \o <<c>>
      BY TwoCells
    <2>2. <<c>> \in Wires
      BY WiresJoin
    <2>3. (<<0>> \o <<c>>) \o s = <<0>> \o (<<c>> \o s)
      BY <1>1, <2>2, WiresJoin
    <2> QED BY <2>1, <2>3
  <1>3. ASSUME NEW c \in Cells, NEW s \in Wires, NEW t \in Wires
        PROVE  Before(<<0, 1>> \o s, Esc(c) \o t)
    <2>1. <<0, 1>> \o s = <<0>> \o (<<1>> \o s)
      BY <1>1, <1>2
    <2>2. CASE c = 0
      <3>1. Esc(c) \o t = <<0>> \o (<<Top>> \o t)
        BY <1>1, <1>2, <2>2 DEF Esc
      <3>2. 1 < Top
        BY CellsAre
      <3>3. Before(<<1>> \o s, <<Top>> \o t)
        BY <1>1, <3>2, BeforeHead
      <3>4. <<1>> \o s \in Wires /\ <<Top>> \o t \in Wires
        BY <1>1, WiresJoin
      <3>5. Before(<<0>> \o (<<1>> \o s), <<0>> \o (<<Top>> \o t))
        BY <1>1, <3>3, <3>4, BeforeBehind
      <3> QED BY <2>1, <3>1, <3>5
    <2>3. CASE c # 0
      <3>1. Esc(c) = <<c>> /\ 0 < c
        BY <2>3, CellsAre DEF Esc
      <3>2. <<1>> \o s \in Wires
        BY <1>1, WiresJoin
      <3>3. Before(<<0>> \o (<<1>> \o s), <<c>> \o t)
        BY <1>1, <3>1, <3>2, BeforeHead
      <3> QED BY <2>1, <3>1, <3>3
    <2> QED BY <2>2, <2>3
  <1>4. ASSUME NEW x \in Cells, NEW y \in Cells, NEW s \in Wires, NEW t \in Wires, x < y
        PROVE  Before(Esc(x) \o s, Esc(y) \o t)
    <2>1. Esc(y) = <<y>> /\ 0 < y
      BY <1>4, CellsAre DEF Esc
    <2>2. CASE x = 0
      <3>1. Esc(x) \o s = <<0>> \o (<<Top>> \o s)
        BY <1>1, <1>2, <2>2 DEF Esc
      <3>2. <<Top>> \o s \in Wires
        BY <1>1, WiresJoin
      <3>3. Before(<<0>> \o (<<Top>> \o s), <<y>> \o t)
        BY <1>1, <2>1, <3>2, BeforeHead
      <3> QED BY <2>1, <3>1, <3>3
    <2>3. CASE x # 0
      <3>1. Esc(x) = <<x>>
        BY <2>3 DEF Esc
      <3> QED BY <1>4, <2>1, <3>1, BeforeHead
    <2> QED BY <2>2, <2>3
  <1> QED BY <1>3, <1>4

Regroups(s, t, u, v) == (s \o (t \o u)) \o v = s \o (t \o (u \o v))

\* Four wires joined one after the other.
LEMMA WiresRegroup ==
  ASSUME NEW s \in Wires, NEW t \in Wires, NEW u \in Wires, NEW v \in Wires
  PROVE  Regroups(s, t, u, v)
  <1>1. PICK x \in Wires : x = t \o u
    BY WireJoined
  <1>2. Assoc(s, x, v) /\ Assoc(t, u, v)
    BY WiresAssocs
  <1> QED BY <1>1, <1>2, Zenon DEF Regroups, Assoc

\* What follows the escaped form of what stands before a cell.
Around(p, c, q, e) ==
  \E s \in Wires : Escaped(p \o (<<c>> \o q)) \o e = Escaped(p) \o (Esc(c) \o s)

\* Where the escaped form of a cell stands in the escaped form of bytes.
LEMMA EscapedAround ==
  ASSUME NEW p \in Wires, NEW c \in Cells, NEW q \in Wires, NEW e \in Wires
  PROVE  Around(p, c, q, e)
  <1>1. PICK k \in Wires : k = <<c>>
    BY WiresJoin
  <1>2. PICK m \in Wires : m = k \o q
    BY WireJoined
  <1>3. Escaped(p \o m) = Escaped(p) \o Escaped(m)
    BY EscapedJoin
  <1>4. Escaped(k \o q) = Escaped(k) \o Escaped(q)
    BY EscapedJoin
  <1>5. Escaped(k) = Esc(c)
    BY <1>1, EscapedOne
  <1>6. PICK x \in Wires : x = Escaped(p)
    BY EscapedJoin
  <1>7. PICK y \in Wires : y = Esc(c)
    BY EscIs
  <1>8. PICK z \in Wires : z = Escaped(q)
    BY EscapedJoin
  <1>9. (x \o (y \o z)) \o e = x \o (y \o (z \o e))
    <2>1. Regroups(x, y, z, e)
      BY WiresRegroup
    <2> QED BY <2>1 DEF Regroups
  <1>10. PICK s \in Wires : s = z \o e
    BY WireJoined
  <1>11. Escaped(p \o (<<c>> \o q)) = x \o (y \o z)
    BY <1>1, <1>2, <1>3, <1>4, <1>5, <1>6, <1>7, <1>8
  <1> QED BY <1>6, <1>7, <1>9, <1>10, <1>11 DEF Around

\* Escaped, bytes keep their order: the mark of the end is before every cell.
LEMMA varbytesOrder ==
  ASSUME NEW a \in Wires, NEW b \in Wires, Before(a, b)
  PROVE  Before(varbytes(a), varbytes(b))
  <1>1. PICK e \in Wires : e = <<0, 1>>
    <2>1. <<0, 1>> = <<0>> \o <<1>>
      BY TwoCells
    <2>2. <<0>> \in Wires /\ <<1>> \in Wires
      BY CellsAre, WiresJoin
    <2>3. <<0>> \o <<1>> \in Wires
      BY <2>2, WireJoined
    <2> QED BY <2>1, <2>3
  <1>2. ASSUME NEW s \in Wires PROVE Escaped(s) \in Wires /\ varbytes(s) = Escaped(s) \o e
    BY <1>1, EscapedJoin DEF varbytes
  <1>3. ASSUME NEW c \in Cells, NEW q \in Wires, b = a \o (<<c>> \o q)
        PROVE  Before(varbytes(a), varbytes(b))
    <2>1. PICK s \in Wires : Escaped(a \o (<<c>> \o q)) \o e = Escaped(a) \o (Esc(c) \o s)
      <3>1. Around(a, c, q, e)
        BY EscapedAround
      <3> QED BY <3>1 DEF Around
    <2>2. PICK x \in Wires : x = Escaped(a)
      BY <1>2
    <2>3. Esc(c) \in Wires
      BY EscIs
    <2>4. PICK y \in Wires : y = Esc(c) \o s
      BY <2>3, WireJoined
    <2>5. <<>> \in Wires /\ e \o <<>> = e
      BY WiresJoin
    <2>6. Before(e \o <<>>, y)
      BY <1>1, <2>4, <2>5, EscOrder
    <2>7. Before(e, y)
      BY <2>5, <2>6
    <2>8. Before(x \o e, x \o y)
      BY <2>7, BeforeBehind
    <2>9. varbytes(a) = x \o e
      BY <1>2, <2>2
    <2>10. varbytes(b) = x \o y
      BY <1>2, <1>3, <2>1, <2>2, <2>4
    <2> QED BY <2>8, <2>9, <2>10
  <1>4. ASSUME NEW p \in Wires, NEW x \in Cells, NEW y \in Cells, NEW r \in Wires, NEW q \in Wires,
               x < y, a = p \o (<<x>> \o r), b = p \o (<<y>> \o q)
        PROVE  Before(varbytes(a), varbytes(b))
    <2>1. PICK s \in Wires : Escaped(p \o (<<x>> \o r)) \o e = Escaped(p) \o (Esc(x) \o s)
      <3>1. Around(p, x, r, e)
        BY EscapedAround
      <3> QED BY <3>1 DEF Around
    <2>2. PICK t \in Wires : Escaped(p \o (<<y>> \o q)) \o e = Escaped(p) \o (Esc(y) \o t)
      <3>1. Around(p, y, q, e)
        BY EscapedAround
      <3> QED BY <3>1 DEF Around
    <2>3. PICK u \in Wires : u = Escaped(p)
      BY <1>2
    <2>4. Esc(x) \in Wires /\ Esc(y) \in Wires
      BY EscIs
    <2>5. PICK v \in Wires : v = Esc(x) \o s
      BY <2>4, WireJoined
    <2>6. PICK w \in Wires : w = Esc(y) \o t
      BY <2>4, WireJoined
    <2>7. Before(v, w)
      BY <1>4, <2>5, <2>6, EscOrder
    <2>8. Before(u \o v, u \o w)
      BY <2>7, BeforeBehind
    <2>9. varbytes(a) = u \o v
      BY <1>2, <1>4, <2>1, <2>3, <2>5
    <2>10. varbytes(b) = u \o w
      BY <1>2, <1>4, <2>2, <2>3, <2>6
    <2> QED BY <2>8, <2>9, <2>10
  <1>5. CASE \E c \in Cells, q \in Wires : b = a \o (<<c>> \o q)
    <2>1. PICK c \in Cells, q \in Wires : b = a \o (<<c>> \o q)
      BY <1>5
    <2> QED BY <1>3, <2>1
  <1>6. CASE \E p \in Wires, x \in Cells, y \in Cells, r \in Wires, q \in Wires :
               x < y /\ a = p \o (<<x>> \o r) /\ b = p \o (<<y>> \o q)
    <2>1. PICK p \in Wires, x \in Cells, y \in Cells, r \in Wires, q \in Wires :
            x < y /\ a = p \o (<<x>> \o r) /\ b = p \o (<<y>> \o q)
      BY <1>6
    <2> QED BY <1>4, <2>1
  <1>7. \/ \E c \in Cells, q \in Wires : b = a \o (<<c>> \o q)
        \/ \E p \in Wires, x \in Cells, y \in Cells, r \in Wires, q \in Wires :
             x < y /\ a = p \o (<<x>> \o r) /\ b = p \o (<<y>> \o q)
    BY BeforeCases
  <1> QED BY <1>5, <1>6, <1>7

\* What is written of an integer, and of a record.
LEMMA writeValuesAre ==
  ASSUME NEW v \in Value[Nesting]
  PROVE  writeValues[Nesting][v] = writeValue(writeValues[Nesting - 1], v) /\ Nesting # 0
  <1>1. Nesting \in 0 .. Nesting
    BY ValuesAssumption
  <1>2. writeValues[Nesting] = writeValuesAt(Nesting, writeValues[Nesting - 1])
    BY <1>1, writeValuesOf
  <1>3. writeValues[Nesting][v] = writeValue(writeValues[Nesting - 1], v)
    BY <1>2 DEF writeValuesAt
  <1>4. Nesting # 0
    <2>1. Value[Nesting] = ValueAt(Nesting, Value[Nesting - 1])
      BY <1>1, ValueOf
    <2> QED BY <2>1 DEF ValueAt
  <1> QED BY <1>3, <1>4

\* The values of a type.
LEMMA TypedValues ==
  ASSUME NEW v \in Value[Nesting]
  PROVE  /\ v[1] = "Integer" => v \in {"Integer"} \X Signed
         /\ v[1] = "Record" => v \in {"Record"} \X Cells \X Ids
  <1>1. Nesting \in 0 .. Nesting
    BY ValuesAssumption
  <1>2. v \in ValueAt(Nesting, Value[Nesting - 1])
    BY <1>1, ValueOf
  <1>3. Nesting # 0
    BY writeValuesAre
  <1>4. PICK t \in DOMAIN Tag : v \in ValueParts(t, Value[Nesting - 1])
    BY <1>2, <1>3, ValueIs
  <1>5. CASE t = "Number"
    <2>1. v \in NumberValues
      BY <1>4, <1>5 DEF ValueParts
    <2> QED BY <2>1 DEF NumberValues
  <1>6. CASE t = "Record"
    BY <1>4, <1>6 DEF ValueParts
  <1>7. CASE t # "Number" /\ t # "Record"
    <2>1. v[1] = t
      BY <1>4, <1>7, ValueTags DEF ValueParts
    <2>2. t # "Integer"
      BY ValueTags
    <2> QED BY <1>7, <2>1, <2>2
  <1> QED BY <1>5, <1>6, <1>7

-----------------------------------------------------------------------------
(***************************************************************************)
(* The order of the wires of integers and of record ids.                   *)
(***************************************************************************)
\* Behind a cell that both start with, the order is that of what follows it.
LEMMA BeforeMarked ==
  ASSUME NEW k \in Cells, NEW s \in Wires, NEW t \in Wires, Before(s, t)
  PROVE  Before(<<k>> \o s, <<k>> \o t)
  <1>1. PICK p \in Wires : p = <<k>>
    BY WiresJoin
  <1>2. Before(p \o s, p \o t)
    BY BeforeBehind
  <1> QED BY <1>1, <1>2

\* One cell is before another that is greater.
LEMMA BeforeOne ==
  ASSUME NEW x \in Cells, NEW y \in Cells, x < y
  PROVE  Before(<<x>>, <<y>>)
  <1>1. <<>> \in Wires /\ <<x>> \o <<>> = <<x>> /\ <<y>> \o <<>> = <<y>>
    BY WiresJoin
  <1>2. Before(<<x>> \o <<>>, <<y>> \o <<>>)
    BY <1>1, BeforeHead
  <1> QED BY <1>1, <1>2

\* With the top bit inverted, the cells of signed numbers are in their order.
LEMMA SignedOrder ==
  ASSUME NEW m \in Signed, NEW n \in Signed, m < n
  PROVE  /\ <<i64Inverted(m)>> \in Wires /\ <<i64Inverted(n)>> \in Wires
         /\ Before(<<i64Inverted(m)>>, <<i64Inverted(n)>>)
  <1>1. PICK x \in Cells : x = i64Inverted(m) /\ x = m + Half
    BY WireAssumption DEF Signed, Cells, i64Inverted, Width
  <1>2. PICK y \in Cells : y = i64Inverted(n) /\ y = n + Half
    BY WireAssumption DEF Signed, Cells, i64Inverted, Width
  <1>3. x < y
    BY <1>1, <1>2, WireAssumption DEF Signed
  <1>4. Before(<<x>>, <<y>>)
    BY <1>3, BeforeOne
  <1>5. <<x>> \in Wires /\ <<y>> \in Wires
    BY WiresJoin
  <1> QED BY <1>1, <1>2, <1>4, <1>5

\* The wires of two integers are in the order of the integers.
LEMMA IntegersOrder ==
  ASSUME NEW W, NEW v \in {"Integer"} \X Signed, NEW o \in {"Integer"} \X Signed, v[2] < o[2]
  PROVE  writeValue(W, o) \in Wires /\ Before(writeValue(W, v), writeValue(W, o))
  <1>1. PICK k \in Cells : k = Tag["Number"]
    BY ValueTags
  <1>2. PICK l \in Cells : l = NumberTag["Integer"]
    BY NumberTags
  <1>3. ASSUME NEW u \in {"Integer"} \X Signed
        PROVE  u[2] \in Signed /\ writeValue(W, u) = <<k>> \o (<<l>> \o <<i64Inverted(u[2])>>)
    <2>1. u[1] = "Integer" /\ u[2] \in Signed /\ u \in NumberValues
      BY DEF NumberValues
    <2>2. writeValue(W, u) = writeNumber(u)
      <3>1. u[1] \in DOMAIN NumberTag
        BY <2>1, NumberTags
      <3> QED BY <3>1 DEF writeValue
    <2>3. WNumber[u] = <<NumberTag["Integer"]>> \o NumberRest(u)
      BY <2>1 DEF WNumber
    <2>4. NumberRest(u) = <<i64Inverted(u[2])>>
      BY <2>1 DEF NumberRest
    <2>5. writeNumber(u) = <<Tag["Number"]>> \o WNumber[u]
      BY <2>1, writeNumberIs
    <2> QED BY <1>1, <1>2, <2>1, <2>2, <2>3, <2>4, <2>5
  <1>4. PICK s \in Wires : s = <<i64Inverted(v[2])>>
    BY <1>3, SignedOrder
  <1>5. PICK t \in Wires : t = <<i64Inverted(o[2])>>
    BY <1>3, SignedOrder
  <1>6. Before(s, t)
    BY <1>3, <1>4, <1>5, SignedOrder
  <1>7. PICK p \in Wires : p = <<l>> \o s
    BY WiresJoin
  <1>8. PICK q \in Wires : q = <<l>> \o t
    BY WiresJoin
  <1>9. Before(p, q)
    BY <1>6, <1>7, <1>8, BeforeMarked
  <1>10. Before(<<k>> \o p, <<k>> \o q)
    BY <1>9, BeforeMarked
  <1>11. writeValue(W, v) = <<k>> \o p
    BY <1>3, <1>4, <1>7
  <1>12. writeValue(W, o) = <<k>> \o q
    BY <1>3, <1>5, <1>8
  <1>13. <<k>> \o q \in Wires
    BY WireJoined, WiresJoin
  <1> QED BY <1>10, <1>11, <1>12, <1>13

\* Two ids of a kind are in order: of the bytes, or of the number.
IdOrder(x, y) ==
  /\ x[1] = y[1]
  /\ IF x[1] \in {"TextID", "BytesID"} THEN Before(x[2], y[2]) ELSE x[2] < y[2]

\* What is written of two ids of a kind is in their order.
LEMMA IdsOrder ==
  ASSUME NEW x \in Ids, NEW y \in Ids, IdOrder(x, y)
  PROVE  /\ writeRecordID(x) \in Wires /\ writeRecordID(y) \in Wires
         /\ Before(writeRecordID(x), writeRecordID(y))
  <1>1. x[1] = y[1] /\ IF x[1] \in {"TextID", "BytesID"} THEN Before(x[2], y[2]) ELSE x[2] < y[2]
    BY DEF IdOrder
  <1>2. PICK t \in DOMAIN IdTag : x \in {t} \X IdParts(t)
    BY IdIs
  <1>3. PICK u \in DOMAIN IdTag : y \in {u} \X IdParts(u)
    BY IdIs
  <1>4. x[1] = t /\ y[1] = u /\ u = t
    BY <1>1, <1>2, <1>3
  <1>5. PICK a \in IdParts(t) : x = <<t, a>> /\ x[2] = a
    BY <1>2
  <1>6. PICK b \in IdParts(t) : y = <<t, b>> /\ y[2] = b
    BY <1>3, <1>4
  <1>7. writeRecordID(x) = <<IdTag[t]>> \o IdWriter(t)[a]
    BY <1>5, IdIs
  <1>8. writeRecordID(y) = <<IdTag[t]>> \o IdWriter(t)[b]
    BY <1>6, IdIs
  <1>9. /\ IdWriter(t)[a] \in Wires /\ IdWriter(t)[b] \in Wires
        /\ Before(IdWriter(t)[a], IdWriter(t)[b])
    <2>1. CASE t = "IntegerID"
      <3>1. IdWriter(t) = WSigned /\ IdParts(t) = Signed
        BY <2>1 DEF IdWriter, IdParts
      <3>2. a \in Signed /\ b \in Signed /\ a < b
        BY <1>1, <1>4, <1>5, <1>6, <2>1, <3>1
      <3>3. WSigned[a] = <<i64Inverted(a)>> /\ WSigned[b] = <<i64Inverted(b)>>
        BY <3>2 DEF WSigned
      <3> QED BY <3>1, <3>2, <3>3, SignedOrder
    <2>2. CASE t \in {"TextID", "BytesID"}
      <3>1. IdWriter(t) = WVarbytes /\ IdParts(t) = Wires
        BY <2>2 DEF IdWriter, IdParts
      <3>2. a \in Wires /\ b \in Wires /\ Before(a, b)
        BY <1>1, <1>4, <1>5, <1>6, <2>2, <3>1
      <3>3. WVarbytes[a] = varbytes(a) /\ WVarbytes[b] = varbytes(b)
        BY <3>2 DEF WVarbytes
      <3>4. varbytes(a) \in Wires /\ varbytes(b) \in Wires
        BY <3>2, readVarbytesReads
      <3> QED BY <3>1, <3>2, <3>3, <3>4, varbytesOrder
    <2>3. CASE t = "UUIDID"
      <3>1. IdWriter(t) = WCell /\ IdParts(t) = Cells
        BY <2>3 DEF IdWriter, IdParts
      <3>2. a \in Cells /\ b \in Cells /\ a < b
        BY <1>1, <1>4, <1>5, <1>6, <2>3, <3>1
      <3>3. WCell[a] = <<a>> /\ WCell[b] = <<b>>
        BY <3>2 DEF WCell
      <3>4. <<a>> \in Wires /\ <<b>> \in Wires
        BY <3>2, WiresJoin
      <3> QED BY <3>1, <3>2, <3>3, <3>4, BeforeOne
    <2> QED BY <2>1, <2>2, <2>3, IdTags
  <1>10. PICK p \in Wires : p = IdWriter(t)[a]
    BY <1>9
  <1>11. PICK q \in Wires : q = IdWriter(t)[b]
    BY <1>9
  <1>12. PICK k \in Cells : k = IdTag[t]
    BY IdTags
  <1>13. Before(<<k>> \o p, <<k>> \o q)
    BY <1>9, <1>10, <1>11, BeforeMarked
  <1>14. <<k>> \o p \in Wires /\ <<k>> \o q \in Wires
    BY WiresJoin
  <1> QED BY <1>7, <1>8, <1>10, <1>11, <1>12, <1>13, <1>14

\* The wires of two records of a table are in the order of their ids.
LEMMA RecordsOrder ==
  ASSUME NEW W, NEW v \in {"Record"} \X Cells \X Ids, NEW o \in {"Record"} \X Cells \X Ids,
         v[2] = o[2], IdOrder(v[3], o[3])
  PROVE  writeValue(W, o) \in Wires /\ Before(writeValue(W, v), writeValue(W, o))
  <1>1. PICK k \in Cells : k = Tag["Record"]
    BY ValueTags
  <1>2. ASSUME NEW u \in {"Record"} \X Cells \X Ids
        PROVE  u[2] \in Cells /\ u[3] \in Ids
               /\ writeValue(W, u) = <<k>> \o (<<u[2]>> \o writeRecordID(u[3]))
    <2>1. u[1] = "Record" /\ u[2] \in Cells /\ u[3] \in Ids
      OBVIOUS
    <2>2. u[1] \notin DOMAIN NumberTag
      BY <2>1, NumberTags
    <2>3. writeValue(W, u) = <<Tag["Record"]>> \o (<<u[2]>> \o writeRecordID(u[3]))
      BY <2>1, <2>2 DEF writeValue
    <2> QED BY <1>1, <2>1, <2>3
  <1>3. PICK x \in Ids : x = v[3]
    BY <1>2
  <1>4. PICK y \in Ids : y = o[3]
    BY <1>2
  <1>5. PICK s \in Wires : s = writeRecordID(x)
    BY <1>3, <1>4, IdsOrder
  <1>6. PICK t \in Wires : t = writeRecordID(y)
    BY <1>3, <1>4, IdsOrder
  <1>7. Before(s, t)
    BY <1>3, <1>4, <1>5, <1>6, IdsOrder
  <1>8. PICK l \in Cells : l = v[2]
    BY <1>2
  <1>9. PICK p \in Wires : p = <<l>> \o s
    BY WiresJoin
  <1>10. PICK q \in Wires : q = <<l>> \o t
    BY WiresJoin
  <1>11. Before(p, q)
    BY <1>7, <1>9, <1>10, BeforeMarked
  <1>12. Before(<<k>> \o p, <<k>> \o q)
    BY <1>11, BeforeMarked
  <1>13. writeValue(W, v) = <<k>> \o p
    BY <1>2, <1>3, <1>5, <1>8, <1>9
  <1>14. writeValue(W, o) = <<k>> \o q
    BY <1>2, <1>4, <1>6, <1>8, <1>10
  <1>15. <<k>> \o q \in Wires
    BY WireJoined, WiresJoin
  <1> QED BY <1>12, <1>13, <1>14, <1>15

\* What was written is before what is written of any sample that is greater.
LEMMA OrderKeptHolds == IInv => OrderKept
  <1> SUFFICES ASSUME IInv, state = "written", NEW o \in Samples, SameOrder(value, o)
               PROVE  Before(wire, Encode(o).value)
    BY DEF OrderKept
  <1>1. value \in Value[Nesting] /\ wire = writeValues[Nesting][value] /\ o \in Value[Nesting]
    BY CodecAssumption DEF IInv
  <1>2. PICK W : W = writeValues[Nesting - 1]
    OBVIOUS
  <1>3. writeValues[Nesting][value] = writeValue(W, value)
    BY <1>1, <1>2, writeValuesAre
  <1>4. writeValues[Nesting][o] = writeValue(W, o)
    BY <1>1, <1>2, writeValuesAre
  <1>5. Before(writeValue(W, value), writeValue(W, o)) /\ writeValue(W, o) \in Wires
    <2>1. CASE value[1] = "Integer" /\ o[1] = "Integer" /\ value[2] < o[2]
      <3>1. value \in {"Integer"} \X Signed /\ o \in {"Integer"} \X Signed
        BY <1>1, <2>1, TypedValues
      <3> QED BY <2>1, <3>1, IntegersOrder
    <2>2. CASE /\ value[1] = "Record" /\ o[1] = "Record"
               /\ value[2] = o[2] /\ value[3][1] = o[3][1]
               /\ IF value[3][1] \in {"TextID", "BytesID"} THEN Before(value[3][2], o[3][2])
                                                            ELSE value[3][2] < o[3][2]
      <3>1. value \in {"Record"} \X Cells \X Ids /\ o \in {"Record"} \X Cells \X Ids
        BY <1>1, <2>2, TypedValues
      <3>2. IdOrder(value[3], o[3])
        BY <2>2 DEF IdOrder
      <3> QED BY <2>2, <3>1, <3>2, RecordsOrder
    <2> QED BY <2>1, <2>2 DEF SameOrder
  <1>6. Encode(o).value = writeValues[Nesting][o]
    BY <1>1, <1>4, <1>5, EncodeIs
  <1> QED BY <1>1, <1>3, <1>4, <1>5, <1>6

\* While a client holds what it has written, its order among the wires is that
\* of the values.
THEOREM OrderKeptAlways == Spec => []OrderKept
  BY InitIInv, StepIInv, OrderKeptHolds, PTL DEF Spec

-----------------------------------------------------------------------------
(***************************************************************************)
(* The parts of an answer: what a node writes of them is read back, and    *)
(* no more is needed, since nothing of an answer is written again.         *)
(***************************************************************************)
Recalls(f, X, W) ==
  \A v \in X : W[v] \in Drafts /\ (W[v] \in Wires => Back(f, v, W[v]))

\* What is undone is read back.
LEMMA UndoesRecalls ==
  ASSUME NEW f, NEW X, NEW W, Undoes(f, X, W)
  PROVE  Recalls(f, X, W)
  BY DEF Undoes, Recalls

\* Each of Y is made of something, and written like it.
Spells(m, X, W, Y, E) == \A y \in Y : \E x \in X : y = m[x] /\ E[y] = W[x]

\* What is made of a field is read back if the field is.
LEMMA MadeRecalls ==
  ASSUME NEW f, NEW g, NEW m, NEW X, NEW W, NEW Y, NEW E,
         MadeOf(f, g, m, X), Recalls(g, X, W), Spells(m, X, W, Y, E)
  PROVE  Recalls(f, Y, E)
  <1> SUFFICES ASSUME NEW y \in Y PROVE E[y] \in Drafts /\ (E[y] \in Wires => Back(f, y, E[y]))
    BY DEF Recalls
  <1>1. PICK x \in X : y = m[x] /\ E[y] = W[x]
    BY DEF Spells
  <1>2. W[x] \in Drafts /\ (W[x] \in Wires => Back(g, x, W[x]))
    BY DEF Recalls
  <1>3. ASSUME W[x] \in Wires PROVE Back(f, m[x], W[x])
    <2>1. PICK w \in Wires : w = W[x]
      BY <1>3
    <2>2. Back(g, x, w)
      BY <1>2, <2>1
    <2>3. Back(f, m[x], w)
      BY <2>2, MadeBack
    <2> QED BY <2>1, <2>3
  <1> QED BY <1>1, <1>2, <1>3

\* Each of Y is made of two things, and written like one behind the other.
Splits(m, A, B, Wa, Wb, Y, E) ==
  \A y \in Y : \E a \in A, b \in B : y = m[a][b] /\ E[y] = Wa[a] \o Wb[b]

\* What is made of two fields, read one after the other, is read back if both
\* are.
LEMMA BothRecalls ==
  ASSUME NEW f, NEW g, NEW k, NEW m, NEW A, NEW B, NEW Wa, NEW Wb, NEW Y, NEW E,
         Both(f, g, k, m, A, B), Recalls(g, A, Wa), Recalls(k, B, Wb),
         Splits(m, A, B, Wa, Wb, Y, E)
  PROVE  Recalls(f, Y, E)
  <1> SUFFICES ASSUME NEW y \in Y PROVE E[y] \in Drafts /\ (E[y] \in Wires => Back(f, y, E[y]))
    BY DEF Recalls
  <1>1. PICK a \in A, b \in B : y = m[a][b] /\ E[y] = Wa[a] \o Wb[b]
    BY DEF Splits
  <1>2. PICK wa \in Drafts : wa = Wa[a] /\ (wa \in Wires => Back(g, a, wa))
    BY DEF Recalls
  <1>3. PICK wb \in Drafts : wb = Wb[b] /\ (wb \in Wires => Back(k, b, wb))
    BY DEF Recalls
  <1>4. wa \o wb \in Drafts /\ (wa \o wb \in Wires => wa \in Wires /\ wb \in Wires)
    BY DraftsJoin
  <1>5. ASSUME wa \in Wires, wb \in Wires PROVE Back(f, y, wa \o wb)
    <2> SUFFICES ASSUME NEW rest \in Wires
                 PROVE  f[(wa \o wb) \o rest] = Got(m[a][b], rest)
      BY <1>1 DEF Back
    <2>1. PICK z \in Wires : z = wb \o rest
      BY <1>5, WiresJoin
    <2>2. PICK x \in Wires : x = wa \o z
      BY <1>5, WiresJoin
    <2>3. (wa \o wb) \o rest = x
      BY <1>5, <2>1, <2>2, WiresJoin
    <2>4. g[x] = Got(a, z)
      BY <1>2, <1>5, <2>2 DEF Back
    <2>5. k[z] = Got(b, rest)
      BY <1>3, <1>5, <2>1 DEF Back
    <2> QED BY <2>3, <2>4, <2>5 DEF Both
  <1> QED BY <1>1, <1>2, <1>3, <1>4, <1>5

\* Items behind their count are read back if each is.
LEMMA CountedRecalls ==
  ASSUME NEW f, NEW item, NEW X, NEW W, NEW E, CountedBy(f, item), Recalls(item, X, W),
         Counts(X, W, E)
  PROVE  Recalls(f, Seq(X), E)
  <1> SUFFICES ASSUME NEW vs \in Seq(X)
               PROVE  E[vs] \in Drafts /\ (E[vs] \in Wires => Back(f, vs, E[vs]))
    BY DEF Recalls
  <1>1. Len(vs) \in Nat /\ \A i \in 1 .. Len(vs) : vs[i] \in X
    BY LenProperties, ElementOfSeq
  <1>2. PICK ws : ws = [i \in 1 .. Len(vs) |-> W[vs[i]]]
    OBVIOUS
  <1>3. E[vs] = <<Len(vs)>> \o FlattenSeq(ws)
    BY <1>2 DEF Counts
  <1>4. ws \in Seq(Seq(Int)) /\ Len(ws) = Len(vs)
    <2>1. \A i \in 1 .. Len(vs) : W[vs[i]] \in Seq(Int)
      BY <1>1 DEF Recalls, Drafts
    <2> QED BY <1>1, <1>2, <2>1
  <1>5. FlattenSeq(ws) \in Drafts /\ <<Len(vs)>> \in Drafts
    BY <1>1, <1>4, FlattenType, DraftsJoin DEF Drafts
  <1>6. ASSUME E[vs] \in Wires PROVE Back(f, vs, E[vs])
    <2>1. \A v \in X : W[v] \in Drafts
      BY DEF Recalls
    <2>2. Len(vs) \in Cells /\ \A i \in 1 .. Len(vs) : W[vs[i]] \in Wires
      BY <1>6, <2>1, CountsIn
    <2>3. ws \in Seq(Wires)
      BY <1>1, <1>2, <2>2
    <2>4. \A i \in 1 .. Len(vs) : Back(item, vs[i], ws[i])
      BY <1>1, <1>2, <2>2 DEF Recalls
    <2>5. vs \in Few(X)
      BY <2>2 DEF Few
    <2>6. Back(f, vs, <<Len(vs)>> \o FlattenSeq(ws))
      BY <1>4, <2>3, <2>4, <2>5, CountedBack
    <2> QED BY <1>3, <2>6
  <1> QED BY <1>3, <1>5, <1>6, DraftsJoin

-----------------------------------------------------------------------------
(***************************************************************************)
(* The names of columns, and pairs of texts.                               *)
(***************************************************************************)
RName == [s \in Wires |-> readName(s)]
WName == [n \in Cells \X Texts |-> <<n[1]>> \o Text(n[2])]

\* A column's id and name are read back.
LEMMA NameRecalls == Recalls(RName, Cells \X Texts, WName)
  <1> DEFINE m == [a \in Cells |-> [b \in Texts |-> <<a, b>>]]
  <1>1. Both(RName, RCell, RText, m, Cells, Texts)
    <2>1. ASSUME NEW s \in Wires, RCell[s] = Failed PROVE RName[s] = Failed
      BY <2>1, GotIs DEF RName, RCell, readName, Then
    <2>2. ASSUME NEW s \in Wires, NEW a \in Cells, NEW rest \in Wires, RCell[s] = Got(a, rest)
          PROVE  /\ RText[rest] = Failed => RName[s] = Failed
                 /\ \A b \in Texts, left \in Wires :
                      RText[rest] = Got(b, left) => RName[s] = Got(m[a][b], left)
      <3>1. RCell[s].ok /\ RCell[s].value = a /\ RCell[s].rest = rest
        BY <2>2, GotIs
      <3>2. RName[s] = IF RText[rest].ok THEN Got(<<a, RText[rest].value>>, RText[rest].rest)
                                         ELSE Failed
        BY <3>1 DEF RName, RCell, RText, readName, Then, As
      <3>3. ASSUME NEW b \in Texts, NEW left \in Wires, RText[rest] = Got(b, left)
            PROVE  RName[s] = Got(m[a][b], left)
        <4>1. RText[rest].ok /\ RText[rest].value = b /\ RText[rest].rest = left
          BY <3>3, GotIs
        <4> QED BY <3>2, <4>1
      <3> QED BY <3>2, <3>3, GotIs
    <2> HIDE DEF m
    <2> QED BY <2>1, <2>2 DEF Both
  <1>2. Splits(m, Cells, Texts, WCell, WText, Cells \X Texts, WName)
    <2> SUFFICES ASSUME NEW y \in Cells \X Texts
                 PROVE  \E a \in Cells, b \in Texts : y = m[a][b] /\ WName[y] = WCell[a] \o WText[b]
      BY DEF Splits
    <2>1. PICK a \in Cells, b \in Texts : y = <<a, b>>
      OBVIOUS
    <2>2. y = m[a][b] /\ WName[y] = WCell[a] \o WText[b]
      BY <2>1 DEF WName, WCell, WText, Text
    <2> HIDE DEF m
    <2> QED BY <2>2
  <1> HIDE DEF m
  <1> QED BY <1>1, <1>2, CellUndoes, TextUndoes, UndoesRecalls, BothRecalls

RPair == [s \in Wires |-> readPair(s)]
WPair == [p \in Texts \X Texts |-> Text(p[1]) \o Text(p[2])]

\* A note, or what was asked for and what was meant, is read back.
LEMMA PairRecalls == Recalls(RPair, Texts \X Texts, WPair)
  <1> DEFINE m == [a \in Texts |-> [b \in Texts |-> <<a, b>>]]
  <1>1. Both(RPair, RText, RText, m, Texts, Texts)
    <2>1. ASSUME NEW s \in Wires, RText[s] = Failed PROVE RPair[s] = Failed
      BY <2>1, GotIs DEF RPair, RText, readPair, Then
    <2>2. ASSUME NEW s \in Wires, NEW a \in Texts, NEW rest \in Wires, RText[s] = Got(a, rest)
          PROVE  /\ RText[rest] = Failed => RPair[s] = Failed
                 /\ \A b \in Texts, left \in Wires :
                      RText[rest] = Got(b, left) => RPair[s] = Got(m[a][b], left)
      <3>1. RText[s].ok /\ RText[s].value = a /\ RText[s].rest = rest
        BY <2>2, GotIs
      <3>2. RPair[s] = IF RText[rest].ok THEN Got(<<a, RText[rest].value>>, RText[rest].rest)
                                         ELSE Failed
        BY <3>1 DEF RPair, RText, readPair, Then, As
      <3>3. ASSUME NEW b \in Texts, NEW left \in Wires, RText[rest] = Got(b, left)
            PROVE  RPair[s] = Got(m[a][b], left)
        <4>1. RText[rest].ok /\ RText[rest].value = b /\ RText[rest].rest = left
          BY <3>3, GotIs
        <4> QED BY <3>2, <4>1
      <3> QED BY <3>2, <3>3, GotIs
    <2> HIDE DEF m
    <2> QED BY <2>1, <2>2 DEF Both
  <1>2. Splits(m, Texts, Texts, WText, WText, Texts \X Texts, WPair)
    <2> SUFFICES ASSUME NEW y \in Texts \X Texts
                 PROVE  \E a \in Texts, b \in Texts : y = m[a][b] /\ WPair[y] = WText[a] \o WText[b]
      BY DEF Splits
    <2>1. PICK a \in Texts, b \in Texts : y = <<a, b>>
      OBVIOUS
    <2>2. y = m[a][b] /\ WPair[y] = WText[a] \o WText[b]
      BY <2>1 DEF WPair, WText, Text
    <2> HIDE DEF m
    <2> QED BY <2>2
  <1> HIDE DEF m
  <1> QED BY <1>1, <1>2, TextUndoes, UndoesRecalls, BothRecalls

RPairsList == [s \in Wires |-> Counted(readPair, s)]
WPairsList == [ps \in Pairs |-> writePairs(ps)]

\* Notes and corrections are read back.
LEMMA PairsRecalls == Recalls(RPairsList, Pairs, WPairsList)
  <1>1. CountedBy(RPairsList, RPair)
    <2>1. ASSUME NEW s \in Wires, readCell(s) = Failed PROVE RPairsList[s] = Failed
      BY <2>1, GotIs DEF RPairsList, Counted, Then
    <2>2. ASSUME NEW s \in Wires, NEW n \in Cells, NEW rest \in Wires, readCell(s) = Got(n, rest)
          PROVE  RPairsList[s] = Repeated(RPair, n, rest)
      <3>1. readCell(s).ok /\ readCell(s).value = n /\ readCell(s).rest = rest
        BY <2>2, GotIs
      <3> QED BY <3>1 DEF RPairsList, RPair, Counted, Then
    <2> QED BY <2>1, <2>2 DEF CountedBy, FollowedBy, Repeats
  <1>2. Counts(Texts \X Texts, WPair, WPairsList)
    <2>1. ASSUME NEW ps \in Seq(Texts \X Texts)
          PROVE  WPairsList[ps] = <<Len(ps)>> \o FlattenSeq([i \in 1 .. Len(ps) |-> WPair[ps[i]]])
      <3>1. \A i \in 1 .. Len(ps) : ps[i] \in Texts \X Texts
        BY ElementOfSeq
      <3>2. [i \in 1 .. Len(ps) |-> WPair[ps[i]]]
            = [i \in 1 .. Len(ps) |-> Text(ps[i][1]) \o Text(ps[i][2])]
        BY <3>1 DEF WPair
      <3>3. ps \in Pairs
        BY DEF Pairs
      <3> QED BY <3>2, <3>3 DEF WPairsList, writePairs, Each
    <2> QED BY <2>1 DEF Counts
  <1> QED BY <1>1, <1>2, PairRecalls, CountedRecalls DEF Pairs

RNameList == [s \in Wires |-> Counted(readName, s)]
WNameList == [ns \in Seq(Cells \X Texts) |-> Each(LAMBDA n : <<n[1]>> \o Text(n[2]), ns)]

\* Names, as a sequence, are read back.
LEMMA NameListRecalls == Recalls(RNameList, Seq(Cells \X Texts), WNameList)
  <1>1. CountedBy(RNameList, RName)
    <2>1. ASSUME NEW s \in Wires, readCell(s) = Failed PROVE RNameList[s] = Failed
      BY <2>1, GotIs DEF RNameList, Counted, Then
    <2>2. ASSUME NEW s \in Wires, NEW n \in Cells, NEW rest \in Wires, readCell(s) = Got(n, rest)
          PROVE  RNameList[s] = Repeated(RName, n, rest)
      <3>1. readCell(s).ok /\ readCell(s).value = n /\ readCell(s).rest = rest
        BY <2>2, GotIs
      <3> QED BY <3>1 DEF RNameList, RName, Counted, Then
    <2> QED BY <2>1, <2>2 DEF CountedBy, FollowedBy, Repeats
  <1>2. Counts(Cells \X Texts, WName, WNameList)
    <2>1. ASSUME NEW ns \in Seq(Cells \X Texts)
          PROVE  WNameList[ns] = <<Len(ns)>> \o FlattenSeq([i \in 1 .. Len(ns) |-> WName[ns[i]]])
      <3>1. \A i \in 1 .. Len(ns) : ns[i] \in Cells \X Texts
        BY ElementOfSeq
      <3>2. [i \in 1 .. Len(ns) |-> WName[ns[i]]]
            = [i \in 1 .. Len(ns) |-> <<ns[i][1]>> \o Text(ns[i][2])]
        BY <3>1 DEF WName
      <3> QED BY <3>2 DEF WNameList, Each
    <2> QED BY <2>1 DEF Counts
  <1> QED BY <1>1, <1>2, NameRecalls, CountedRecalls

\* A finite set has its elements in a row, each once.
LEMMA SetToSeqIs ==
  ASSUME NEW X, NEW S \in SUBSET X, IsFiniteSet(S)
  PROVE  /\ SetToSeq(S) \in Seq(X)
         /\ \A i \in 1 .. Len(SetToSeq(S)) : SetToSeq(S)[i] \in S
         /\ \A e \in S : \E i \in 1 .. Len(SetToSeq(S)) : SetToSeq(S)[i] = e
         /\ \A i, j \in 1 .. Len(SetToSeq(S)) : SetToSeq(S)[i] = SetToSeq(S)[j] => i = j
  <1>1. PICK n \in Nat : n = Cardinality(S)
    BY FS_CardinalityType
  <1>2. PICK f \in Bijection(1 .. n, S) : TRUE
    BY <1>1, FS_CardinalityType DEF ExistsBijection
  <1>3. f \in [1 .. n -> S] /\ IsInjective(f)
    BY <1>2 DEF Bijection, Injection
  <1>4. PICK s : s = SetToSeq(S)
    OBVIOUS
  <1>5. s \in [1 .. n -> S] /\ IsInjective(s)
    BY <1>1, <1>3, <1>4, Zenon DEF SetToSeq
  <1>6. s \in Injection(1 .. n, S)
    BY <1>5 DEF Injection
  <1>7. Cardinality(1 .. n) = n
    <2>1. Cardinality(1 .. n) = IF 1 > n THEN 0 ELSE n - 1 + 1
      BY FS_Interval
    <2> QED BY <2>1
  <1>8. s \in Surjection(1 .. n, S)
    BY <1>1, <1>6, <1>7, FS_Injection
  <1>9. s \in Seq(X) /\ Len(s) = n
    <2>1. s = [i \in 1 .. n |-> s[i]] /\ \A i \in 1 .. n : s[i] \in X
      BY <1>5
    <2> QED BY <2>1
  <1>10. \A i \in 1 .. n : s[i] \in S
    BY <1>5
  <1>11. \A e \in S : \E i \in 1 .. n : s[i] = e
    BY <1>8 DEF Surjection
  <1>12. \A i, j \in 1 .. n : s[i] = s[j] => i = j
    BY <1>5 DEF IsInjective
  <1> QED BY <1>4, <1>9, <1>10, <1>11, <1>12

\* Of names in a row, each id once, the last of each id are all.
LEMMA FieldsOfNames ==
  ASSUME NEW o \in Names
  PROVE  SetToSeq(o) \in Seq(Cells \X Texts) /\ Fields(SetToSeq(o)) = o
  <1>1. /\ o \in SUBSET (Cells \X Texts) /\ IsFiniteSet(o)
        /\ \A f, g \in o : f[1] = g[1] => f = g
    BY DEF Names
  <1>2. PICK s : s = SetToSeq(o)
    OBVIOUS
  <1>3. /\ s \in Seq(Cells \X Texts) /\ Len(s) \in Nat
        /\ \A i \in 1 .. Len(s) : s[i] \in o
        /\ \A f \in o : \E i \in 1 .. Len(s) : s[i] = f
        /\ \A i, j \in 1 .. Len(s) : s[i] = s[j] => i = j
    <2>1. PICK X : X = Cells \X Texts
      OBVIOUS
    <2>2. o \in SUBSET X
      BY <1>1, <2>1
    <2>3. /\ s \in Seq(X)
          /\ \A i \in 1 .. Len(s) : s[i] \in o
          /\ \A f \in o : \E i \in 1 .. Len(s) : s[i] = f
          /\ \A i, j \in 1 .. Len(s) : s[i] = s[j] => i = j
      BY <1>1, <1>2, <2>2, SetToSeqIs
    <2> QED BY <2>1, <2>3, LenProperties
  <1>4. ASSUME NEW j \in 1 .. Len(s), NEW k \in j + 1 .. Len(s) PROVE s[k][1] # s[j][1]
    <2>1. k \in 1 .. Len(s) /\ k # j
      BY <1>3
    <2>2. s[k] \in o /\ s[j] \in o /\ s[k] # s[j]
      BY <1>3, <2>1
    <2> QED BY <1>1, <2>2
  <1>5. Fields(s) = {s[i] : i \in 1 .. Len(s)}
    BY <1>4 DEF Fields
  <1>6. {s[i] : i \in 1 .. Len(s)} = o
    BY <1>3
  <1> QED BY <1>2, <1>3, <1>5, <1>6

RNames == [s \in Wires |-> readNames(s)]
WNames == [n \in Names |-> writeNames(n)]

\* Names are read back, in whatever order they were written.
LEMMA NamesRecalls == Recalls(RNames, Names, WNames)
  <1> DEFINE X == Seq(Cells \X Texts)
             m == [ns \in X |-> Fields(ns)]
  <1>1. MadeOf(RNames, RNameList, m, X)
    <2>1. ASSUME NEW s \in Wires, RNameList[s] = Failed PROVE RNames[s] = Failed
      BY <2>1, GotIs DEF RNames, RNameList, readNames, As
    <2>2. ASSUME NEW s \in Wires, NEW v \in X, NEW rest \in Wires, RNameList[s] = Got(v, rest)
          PROVE  RNames[s] = Got(m[v], rest)
      <3>1. RNameList[s].ok /\ RNameList[s].value = v /\ RNameList[s].rest = rest
        BY <2>2, GotIs
      <3>2. RNames[s] = Got(Fields(v), rest)
        BY <3>1 DEF RNames, RNameList, readNames, As
      <3> QED BY <3>2
    <2> HIDE DEF m, X
    <2> QED BY <2>1, <2>2 DEF MadeOf
  <1>2. Spells(m, X, WNameList, Names, WNames)
    <2> SUFFICES ASSUME NEW o \in Names
                 PROVE  \E ns \in X : o = m[ns] /\ WNames[o] = WNameList[ns]
      BY DEF Spells
    <2>1. PICK ns \in X : ns = SetToSeq(o) /\ Fields(ns) = o
      BY FieldsOfNames
    <2>2. WNames[o] = WNameList[ns]
      BY <2>1 DEF WNames, WNameList, writeNames
    <2>3. m[ns] = o
      BY <2>1
    <2> HIDE DEF m, X
    <2> QED BY <2>2, <2>3
  <1>3. Recalls(RNameList, X, WNameList)
    BY NameListRecalls
  <1> HIDE DEF m, X
  <1> QED BY <1>1, <1>2, <1>3, MadeRecalls

-----------------------------------------------------------------------------
(***************************************************************************)
(* Rows, keys and the fields added to records.                             *)
(***************************************************************************)
RPayload == [s \in Wires |-> readPayload(s)]
WPayload == [v \in Value[Nesting] |-> Payload(v)]

\* A value behind its length is read back.
LEMMA PayloadRecalls == Recalls(RPayload, Value[Nesting], WPayload)
  <1> SUFFICES ASSUME NEW v \in Value[Nesting]
               PROVE  WPayload[v] \in Drafts /\ (WPayload[v] \in Wires => Back(RPayload, v, WPayload[v]))
    BY DEF Recalls
  <1>1. PICK w \in Drafts : w = writeValues[Nesting][v]
    <2>1. Undoes(readValues[Nesting], Value[Nesting], writeValues[Nesting])
      BY ValuesUndo, ValuesAssumption
    <2> QED BY <2>1 DEF Undoes
  <1>2. WPayload[v] = <<Len(w)>> \o w
    BY <1>1 DEF WPayload, Payload, lenbytes
  <1>3. PICK n \in Drafts : n = <<Len(w)>>
    <2>1. Len(w) \in Int
      BY LenProperties DEF Drafts
    <2> QED BY <2>1, DraftsJoin
  <1>4. n \o w \in Drafts /\ (n \o w \in Wires => w \in Wires)
    BY DraftsJoin
  <1>5. ASSUME w \in Wires, lenbytes(w) \in Wires PROVE Back(RPayload, v, lenbytes(w))
    <2> SUFFICES ASSUME NEW rest \in Wires PROVE RPayload[lenbytes(w) \o rest] = Got(v, rest)
      BY DEF Back
    <2>1. PICK s \in Wires : s = lenbytes(w) \o rest
      BY <1>5, WiresJoin
    <2>2. Back(RLenbytes, w, lenbytes(w))
      <3>1. WLenbytes[w] = lenbytes(w)
        BY <1>5 DEF WLenbytes
      <3> QED BY <1>5, <3>1, LenbytesUndoes DEF Undoes
    <2>3. readLenbytes(s) = Got(w, rest)
      BY <2>1, <2>2 DEF Back, RLenbytes
    <2>4. Decode(w) = Got(v, <<>>)
      <3>1. <<>> \in Wires
        BY WiresJoin
      <3> QED BY <1>1, <1>5, <3>1, DecodeWritten
    <2>5. PICK r : r = readLenbytes(s)
      OBVIOUS
    <2>6. r.ok /\ r.value = w /\ r.rest = rest
      BY <2>3, <2>5, GotIs
    <2>7. PICK d : d = Decode(w)
      OBVIOUS
    <2>8. d.ok /\ d.value = v
      BY <2>4, <2>7, GotIs
    <2>9. readPayload(s) = Got(v, rest)
      BY <2>5, <2>6, <2>7, <2>8 DEF readPayload, Then
    <2> QED BY <2>1, <2>9 DEF RPayload
  <1> QED BY <1>2, <1>3, <1>4, <1>5 DEF lenbytes

RowsOf == [identity : Texts, value : Value[Nesting]]
RRow == [s \in Wires |-> readRow(s)]
WRow == [r \in RowsOf |-> Text(r.identity) \o Payload(r.value)]

\* A row is read back.
LEMMA RowRecalls == Recalls(RRow, RowsOf, WRow)
  <1> DEFINE V == Value[Nesting]
             m == [a \in Texts |-> [b \in V |-> [identity |-> a, value |-> b]]]
  <1>1. Both(RRow, RText, RPayload, m, Texts, V)
    <2>1. ASSUME NEW s \in Wires, RText[s] = Failed PROVE RRow[s] = Failed
      BY <2>1, GotIs DEF RRow, RText, readRow, Then
    <2>2. ASSUME NEW s \in Wires, NEW a \in Texts, NEW rest \in Wires, RText[s] = Got(a, rest)
          PROVE  /\ RPayload[rest] = Failed => RRow[s] = Failed
                 /\ \A b \in V, left \in Wires :
                      RPayload[rest] = Got(b, left) => RRow[s] = Got(m[a][b], left)
      <3>1. RText[s].ok /\ RText[s].value = a /\ RText[s].rest = rest
        BY <2>2, GotIs
      <3>2. RRow[s] = IF RPayload[rest].ok
                        THEN Got([identity |-> a, value |-> RPayload[rest].value], RPayload[rest].rest)
                        ELSE Failed
        BY <3>1 DEF RRow, RText, RPayload, readRow, Then, As
      <3>3. ASSUME NEW b \in V, NEW left \in Wires, RPayload[rest] = Got(b, left)
            PROVE  RRow[s] = Got(m[a][b], left)
        <4>1. RPayload[rest].ok /\ RPayload[rest].value = b /\ RPayload[rest].rest = left
          BY <3>3, GotIs
        <4>2. m[a][b] = [identity |-> a, value |-> b]
          OBVIOUS
        <4> HIDE DEF m
        <4> QED BY <3>2, <4>1, <4>2
      <3> QED BY <3>2, <3>3, GotIs
    <2> HIDE DEF m, V
    <2> QED BY <2>1, <2>2 DEF Both
  <1>2. Splits(m, Texts, V, WText, WPayload, RowsOf, WRow)
    <2> SUFFICES ASSUME NEW y \in RowsOf
                 PROVE  \E a \in Texts, b \in V : y = m[a][b] /\ WRow[y] = WText[a] \o WPayload[b]
      BY DEF Splits
    <2>1. PICK a \in Texts, b \in V : a = y.identity /\ b = y.value
      BY DEF RowsOf
    <2>2. y = m[a][b]
      <3>1. y = [identity |-> a, value |-> b]
        BY <2>1 DEF RowsOf
      <3> QED BY <3>1
    <2>3. WRow[y] = WText[a] \o WPayload[b]
      BY <2>1 DEF WRow, WText, WPayload, Text
    <2> HIDE DEF m, V
    <2> QED BY <2>2, <2>3
  <1>3. Recalls(RText, Texts, WText) /\ Recalls(RPayload, V, WPayload)
    BY TextUndoes, UndoesRecalls, PayloadRecalls
  <1> HIDE DEF m, V
  <1> QED BY <1>1, <1>2, <1>3, BothRecalls

RRows == [s \in Wires |-> Counted(readRow, s)]
WRows == [rs \in Seq(RowsOf) |-> writeRows(rs)]

\* Rows are read back.
LEMMA RowsRecalls == Recalls(RRows, Seq(RowsOf), WRows)
  <1>1. CountedBy(RRows, RRow)
    <2>1. ASSUME NEW s \in Wires, readCell(s) = Failed PROVE RRows[s] = Failed
      BY <2>1, GotIs DEF RRows, Counted, Then
    <2>2. ASSUME NEW s \in Wires, NEW n \in Cells, NEW rest \in Wires, readCell(s) = Got(n, rest)
          PROVE  RRows[s] = Repeated(RRow, n, rest)
      <3>1. readCell(s).ok /\ readCell(s).value = n /\ readCell(s).rest = rest
        BY <2>2, GotIs
      <3> QED BY <3>1 DEF RRows, RRow, Counted, Then
    <2> QED BY <2>1, <2>2 DEF CountedBy, FollowedBy, Repeats
  <1>2. Counts(RowsOf, WRow, WRows)
    <2>1. ASSUME NEW rs \in Seq(RowsOf)
          PROVE  WRows[rs] = <<Len(rs)>> \o FlattenSeq([i \in 1 .. Len(rs) |-> WRow[rs[i]]])
      <3>1. \A i \in 1 .. Len(rs) : rs[i] \in RowsOf
        BY ElementOfSeq
      <3>2. [i \in 1 .. Len(rs) |-> WRow[rs[i]]]
            = [i \in 1 .. Len(rs) |-> Text(rs[i].identity) \o Payload(rs[i].value)]
        BY <3>1 DEF WRow
      <3> QED BY <3>2 DEF WRows, writeRows, Each
    <2> QED BY <2>1 DEF Counts
  <1> QED BY <1>1, <1>2, RowRecalls, CountedRecalls

RKeys == [s \in Wires |-> Counted(readText, s)]
WKeys == [ks \in Seq(Texts) |-> Each(Text, ks)]

\* Keys are read back.
LEMMA KeysRecalls == Recalls(RKeys, Seq(Texts), WKeys)
  <1>1. CountedBy(RKeys, RText)
    <2>1. ASSUME NEW s \in Wires, readCell(s) = Failed PROVE RKeys[s] = Failed
      BY <2>1, GotIs DEF RKeys, Counted, Then
    <2>2. ASSUME NEW s \in Wires, NEW n \in Cells, NEW rest \in Wires, readCell(s) = Got(n, rest)
          PROVE  RKeys[s] = Repeated(RText, n, rest)
      <3>1. readCell(s).ok /\ readCell(s).value = n /\ readCell(s).rest = rest
        BY <2>2, GotIs
      <3> QED BY <3>1 DEF RKeys, RText, Counted, Then
    <2> QED BY <2>1, <2>2 DEF CountedBy, FollowedBy, Repeats
  <1>2. Counts(Texts, WText, WKeys)
    <2>1. ASSUME NEW ks \in Seq(Texts)
          PROVE  WKeys[ks] = <<Len(ks)>> \o FlattenSeq([i \in 1 .. Len(ks) |-> WText[ks[i]]])
      <3>1. \A i \in 1 .. Len(ks) : ks[i] \in Texts
        BY ElementOfSeq
      <3>2. [i \in 1 .. Len(ks) |-> WText[ks[i]]] = [i \in 1 .. Len(ks) |-> Text(ks[i])]
        BY <3>1 DEF WText, Text
      <3> QED BY <3>2 DEF WKeys, Each
    <2> QED BY <2>1 DEF Counts
  <1>3. Recalls(RText, Texts, WText)
    BY TextUndoes, UndoesRecalls
  <1> QED BY <1>1, <1>2, <1>3, CountedRecalls

ROnly == [s \in Wires |-> readOnly(s)]
WOnly == [b \in BOOLEAN |-> <<IF b THEN 1 ELSE 0>>]

\* Whether the record is all there is to it is read back.
LEMMA OnlyRecalls == Recalls(ROnly, BOOLEAN, WOnly)
  <1> DEFINE m == [n \in Cells |-> n # 0]
  <1>1. MadeOf(ROnly, RCell, m, Cells)
    <2>1. ASSUME NEW s \in Wires, RCell[s] = Failed PROVE ROnly[s] = Failed
      BY <2>1, GotIs DEF ROnly, RCell, readOnly, As
    <2>2. ASSUME NEW s \in Wires, NEW v \in Cells, NEW rest \in Wires, RCell[s] = Got(v, rest)
          PROVE  ROnly[s] = Got(m[v], rest)
      <3>1. RCell[s].ok /\ RCell[s].value = v /\ RCell[s].rest = rest
        BY <2>2, GotIs
      <3>2. ROnly[s] = Got(v # 0, rest)
        BY <3>1, Zenon DEF ROnly, RCell, readOnly, As
      <3>3. m[v] = (v # 0)
        BY Zenon
      <3> QED BY <3>2, <3>3, Zenon
    <2> HIDE DEF m
    <2> QED BY <2>1, <2>2 DEF MadeOf
  <1>2. Spells(m, Cells, WCell, BOOLEAN, WOnly)
    <2>1. 0 \in Cells /\ 1 \in Cells
      BY CellsAre
    <2>2. m[1] = (1 # 0) /\ m[0] = (0 # 0)
      BY <2>1
    <2>3. (1 # 0) = TRUE /\ (0 # 0) = FALSE
      OBVIOUS
    <2>4. WOnly[TRUE] = WCell[1] /\ WOnly[FALSE] = WCell[0]
      BY <2>1 DEF WOnly, WCell
    <2> HIDE DEF m
    <2>5. \A b \in BOOLEAN : b = TRUE \/ b = FALSE
      BY Zenon
    <2>6. ASSUME NEW b \in BOOLEAN PROVE \E n \in Cells : b = m[n] /\ WOnly[b] = WCell[n]
      BY <2>1, <2>2, <2>3, <2>4, <2>5, Zenon
    <2> QED BY <2>6 DEF Spells
  <1>3. Recalls(RCell, Cells, WCell)
    BY CellUndoes, UndoesRecalls
  <1> HIDE DEF m
  <1> QED BY <1>1, <1>2, <1>3, MadeRecalls

Exactnesses == {<<"exact">>} \cup ({"inexact"} \X Texts)
RExactness == [s \in Wires |-> readExactness(s)]
WExactness == [e \in Exactnesses |-> writeExactness(e)]

\* Exactness is read back, with the reason there is for inexactness.
LEMMA ExactnessRecalls == Recalls(RExactness, Exactnesses, WExactness)
  <1> DEFINE m == [a \in Cells |-> [b \in Texts |-> IF a = 0 THEN <<"exact">> ELSE <<"inexact", b>>]]
  <1>1. Both(RExactness, RCell, RText, m, Cells, Texts)
    <2>1. ASSUME NEW s \in Wires, RCell[s] = Failed PROVE RExactness[s] = Failed
      BY <2>1, GotIs DEF RExactness, RCell, readExactness, Then
    <2>2. ASSUME NEW s \in Wires, NEW a \in Cells, NEW rest \in Wires, RCell[s] = Got(a, rest)
          PROVE  /\ RText[rest] = Failed => RExactness[s] = Failed
                 /\ \A b \in Texts, left \in Wires :
                      RText[rest] = Got(b, left) => RExactness[s] = Got(m[a][b], left)
      <3>1. RCell[s].ok /\ RCell[s].value = a /\ RCell[s].rest = rest
        BY <2>2, GotIs
      <3>2. RExactness[s]
            = IF RText[rest].ok
                THEN Got(IF a = 0 THEN <<"exact">> ELSE <<"inexact", RText[rest].value>>, RText[rest].rest)
                ELSE Failed
        BY <3>1 DEF RExactness, RCell, RText, readExactness, Then, As
      <3>3. ASSUME NEW b \in Texts, NEW left \in Wires, RText[rest] = Got(b, left)
            PROVE  RExactness[s] = Got(m[a][b], left)
        <4>1. RText[rest].ok /\ RText[rest].value = b /\ RText[rest].rest = left
          BY <3>3, GotIs
        <4>2. m[a][b] = IF a = 0 THEN <<"exact">> ELSE <<"inexact", b>>
          OBVIOUS
        <4> HIDE DEF m
        <4> QED BY <3>2, <4>1, <4>2
      <3> QED BY <3>2, <3>3, GotIs
    <2> HIDE DEF m
    <2> QED BY <2>1, <2>2 DEF Both
  <1>2. Splits(m, Cells, Texts, WCell, WText, Exactnesses, WExactness)
    <2>1. 0 \in Cells /\ 1 \in Cells /\ <<>> \in Texts
      <3>1. <<>> \in Wires /\ Utf8(<<>>)
        BY WiresJoin DEF Utf8
      <3> QED BY <3>1, CellsAre DEF Texts
    <2>2. <<"exact">> = m[0][<<>>] /\ WExactness[<<"exact">>] = WCell[0] \o WText[<<>>]
      <3>1. <<"exact">> = m[0][<<>>]
        BY <2>1
      <3>2. WExactness[<<"exact">>] = <<0, 0>>
        BY DEF WExactness, writeExactness, Exactnesses
      <3>3. WText[<<>>] = <<0>>
        <4>1. <<0>> \o <<>> = <<0>>
          BY <2>1, WiresJoin
        <4>2. Len(<<>>) = 0
          OBVIOUS
        <4> QED BY <2>1, <4>1, <4>2 DEF WText, lenbytes
      <3>4. WCell[0] = <<0>>
        BY <2>1 DEF WCell
      <3>5. <<0, 0>> = <<0>> \o <<0>>
        BY TwoCells
      <3> QED BY <3>1, <3>2, <3>3, <3>4, <3>5
    <2>3. ASSUME NEW b \in Texts
          PROVE  <<"inexact", b>> = m[1][b] /\ WExactness[<<"inexact", b>>] = WCell[1] \o WText[b]
      <3>1. <<"inexact", b>> = m[1][b]
        BY <2>1
      <3>2. <<"inexact", b>> \in Exactnesses /\ <<"inexact", b>>[1] # "exact"
        BY DEF Exactnesses
      <3>3. WExactness[<<"inexact", b>>] = <<1>> \o Text(b)
        BY <3>2 DEF WExactness, writeExactness
      <3> QED BY <2>1, <3>1, <3>3 DEF WCell, WText, Text
    <2>4. ASSUME NEW y \in Exactnesses
          PROVE  \E a \in Cells, b \in Texts : y = m[a][b] /\ WExactness[y] = WCell[a] \o WText[b]
      <3>1. y = <<"exact">> \/ \E b \in Texts : y = <<"inexact", b>>
        BY DEF Exactnesses
      <3> HIDE DEF m
      <3>2. CASE y = <<"exact">>
        <4>1. y = m[0][<<>>] /\ WExactness[y] = WCell[0] \o WText[<<>>]
          <5>1. WExactness[y] = WExactness[<<"exact">>]
            BY <3>2, Zenon
          <5> QED BY <2>2, <3>2, <5>1, Zenon
        <4> QED BY <2>1, <4>1
      <3>3. CASE \E b \in Texts : y = <<"inexact", b>>
        <4>1. PICK b \in Texts : y = <<"inexact", b>>
          BY <3>3
        <4>2. y = m[1][b] /\ WExactness[y] = WCell[1] \o WText[b]
          <5>1. WExactness[y] = WExactness[<<"inexact", b>>]
            BY <4>1, Zenon
          <5> QED BY <2>3, <4>1, <5>1, Zenon
        <4> QED BY <2>1, <4>2
      <3> QED BY <3>1, <3>2, <3>3
    <2> HIDE DEF m
    <2> QED BY <2>4 DEF Splits
  <1>3. Recalls(RCell, Cells, WCell) /\ Recalls(RText, Texts, WText)
    BY CellUndoes, TextUndoes, UndoesRecalls
  <1> HIDE DEF m
  <1> QED BY <1>1, <1>2, <1>3, BothRecalls

Suggestions == {<<"not consulted">>, <<"complete">>} \cup ({"corrections"} \X Pairs)
RSuggestion == [s \in Wires |-> readSuggestion(s)]
WSuggestion == [g \in Suggestions |-> writeSuggestion(g)]

\* Suggestions are read back.
LEMMA SuggestionRecalls == Recalls(RSuggestion, Suggestions, WSuggestion)
  <1>1. 0 \in Cells /\ 1 \in Cells /\ 2 \in Cells
    BY CellsAre
  <1>2. ASSUME NEW g, g \in {<<"not consulted">>, <<"complete">>}
        PROVE  WSuggestion[g] \in Drafts /\ (WSuggestion[g] \in Wires => Back(RSuggestion, g, WSuggestion[g]))
    <2>1. PICK n \in Cells : /\ WSuggestion[g] = <<n>>
                             /\ n # 2
                             /\ n = 1 <=> g = <<"complete">>
      <3>1. g \in Suggestions
        BY <1>2 DEF Suggestions
      <3>2. WSuggestion[g] = writeSuggestion(g)
        BY <3>1 DEF WSuggestion
      <3>3. CASE g = <<"complete">>
        <4>1. writeSuggestion(g) = <<1>>
          BY <3>3 DEF writeSuggestion
        <4> QED BY <1>1, <3>2, <3>3, <4>1
      <3>4. CASE g = <<"not consulted">>
        <4>1. writeSuggestion(g) = <<0>>
          BY <3>4 DEF writeSuggestion
        <4>2. g # <<"complete">>
          BY <3>4
        <4> QED BY <1>1, <3>2, <4>1, <4>2
      <3> QED BY <1>2, <3>3, <3>4
    <2>2. <<n>> \in Wires /\ <<n>> \in Drafts
      BY WiresJoin, DraftsJoin
    <2>3. ASSUME NEW rest \in Wires PROVE RSuggestion[<<n>> \o rest] = Got(g, rest)
      <3>1. PICK s \in Wires : s = <<n>> \o rest
        BY <2>2, WiresJoin
      <3>2. readCell(s).ok /\ readCell(s).value = n /\ readCell(s).rest = rest
        BY <3>1, readCellOf, GotIs
      <3>3. readSuggestion(s) = Got(IF n = 1 THEN <<"complete">> ELSE <<"not consulted">>, rest)
        BY <2>1, <3>2 DEF readSuggestion, Then
      <3> QED BY <1>2, <2>1, <3>1, <3>3 DEF RSuggestion
    <2> QED BY <2>1, <2>2, <2>3 DEF Back
  <1>3. ASSUME NEW ps \in Pairs, NEW g, g = <<"corrections", ps>>
        PROVE  WSuggestion[g] \in Drafts /\ (WSuggestion[g] \in Wires => Back(RSuggestion, g, WSuggestion[g]))
    <2>1. PICK w \in Drafts : w = WPairsList[ps] /\ (w \in Wires => Back(RPairsList, ps, w))
      BY PairsRecalls DEF Recalls
    <2>2. WSuggestion[g] = <<2>> \o w
      <3>1. g \in Suggestions /\ g[1] = "corrections" /\ g[2] = ps
        BY <1>3 DEF Suggestions
      <3>2. writeSuggestion(g) = <<2>> \o writePairs(ps)
        BY <3>1 DEF writeSuggestion
      <3> QED BY <2>1, <3>1, <3>2 DEF WSuggestion, WPairsList
    <2>3. PICK t \in Wires : t = <<2>>
      BY <1>1, WiresJoin
    <2>4. t \in Drafts /\ t \o w \in Drafts /\ (t \o w \in Wires => w \in Wires)
      BY DraftsJoin
    <2>5. ASSUME w \in Wires, NEW rest \in Wires PROVE RSuggestion[(t \o w) \o rest] = Got(g, rest)
      <3>1. PICK z \in Wires : z = w \o rest
        BY <2>5, WiresJoin
      <3>2. PICK s \in Wires : s = t \o z
        BY WiresJoin
      <3>3. (t \o w) \o rest = s
        BY <2>5, <3>1, <3>2, WiresAssoc
      <3>4. readCell(s).ok /\ readCell(s).value = 2 /\ readCell(s).rest = z
        BY <1>1, <2>3, <3>2, readCellOf, GotIs
      <3>5. Counted(readPair, z) = Got(ps, rest)
        BY <2>1, <2>5, <3>1 DEF Back, RPairsList
      <3>6. PICK r : r = Counted(readPair, z)
        OBVIOUS
      <3>7. r.ok /\ r.value = ps /\ r.rest = rest
        BY <3>5, <3>6, GotIs
      <3>8. readSuggestion(s) = IF r.ok THEN Got(<<"corrections", r.value>>, r.rest) ELSE Failed
        <4>1. PICK k : k = readCell(s)
          OBVIOUS
        <4>2. readSuggestion(s)
              = CASE k.value = 1 -> Got(<<"complete">>, k.rest)
                  [] k.value = 2 -> As(Counted(readPair, k.rest), LAMBDA c : <<"corrections", c>>)
                  [] OTHER       -> Got(<<"not consulted">>, k.rest)
          BY <3>4, <4>1, Zenon DEF readSuggestion, Then
        <4> QED BY <3>4, <3>6, <4>1, <4>2 DEF As
      <3>9. readSuggestion(s) = Got(g, rest)
        BY <1>3, <3>7, <3>8
      <3> QED BY <3>3, <3>9 DEF RSuggestion
    <2> QED BY <2>2, <2>3, <2>4, <2>5 DEF Back
  <1>4. ASSUME NEW g \in Suggestions
        PROVE  g \in {<<"not consulted">>, <<"complete">>} \/ \E ps \in Pairs : g = <<"corrections", ps>>
    <2>1. CASE g \in {"corrections"} \X Pairs
      <3>1. PICK ps \in Pairs : g = <<"corrections", ps>>
        BY <2>1
      <3> QED BY <3>1
    <2> QED BY <2>1 DEF Suggestions
  <1> QED BY <1>2, <1>3, <1>4 DEF Recalls

-----------------------------------------------------------------------------
(***************************************************************************)
(* Records, and the fields that a later build added to them.               *)
(***************************************************************************)
\* A field is read off the front of what was written of it, which is not nothing.
LEMMA FieldBack ==
  ASSUME NEW f, NEW X, NEW W, Recalls(f, X, W), f[<<>>] = Failed, NEW v \in X, NEW w \in Wires,
         w = W[v], NEW q \in Wires
  PROVE  w \o q \in Wires /\ w \o q # <<>> /\ f[w \o q] = Got(v, q)
  <1>1. f[w \o q] = Got(v, q)
    BY DEF Recalls, Back
  <1>2. w \o q # <<>>
    BY <1>1, GotIs
  <1> QED BY <1>1, <1>2, WiresJoin

\* Nothing is read off no bytes.
LEMMA NothingRead ==
  /\ RPairsList[<<>>] = Failed
  /\ ROnly[<<>>] = Failed
  /\ RExactness[<<>>] = Failed
  /\ RSuggestion[<<>>] = Failed
  <1>1. <<>> \in Wires /\ ~readCell(<<>>).ok
    BY WiresJoin, readCellOf, GotIs
  <1>2. RPairsList[<<>>] = Failed
    BY <1>1 DEF RPairsList, Counted, Then
  <1>3. ROnly[<<>>] = Failed
    BY <1>1 DEF ROnly, readOnly, As
  <1>4. RExactness[<<>>] = Failed
    BY <1>1 DEF RExactness, readExactness, Then
  <1>5. RSuggestion[<<>>] = Failed
    <2>1. readSuggestion(<<>>) = Failed
      BY <1>1, Zenon DEF readSuggestion, Then
    <2> QED BY <1>1, <2>1 DEF RSuggestion
  <1> QED BY <1>2, <1>3, <1>4, <1>5

\* A record of an answer with its fields.
RecordOf(path, names, rows, notes, only, exact, suggest) ==
  [path |-> path, names |-> names, rows |-> rows, notes |-> notes, only |-> only,
   exact |-> exact, suggest |-> suggest]

\* The parts of what a build writes.
Part(b, first, w) == IF b >= first THEN w ELSE <<>>

\* One field more.
AddNotes(r) == Added(r, readNotes, LAMBDA o, v : [o EXCEPT !.notes = v])
AddOnly(r) == Added(r, readOnly, LAMBDA o, v : [o EXCEPT !.only = v])
AddExactness(r) == Added(r, readExactness, LAMBDA o, v : [o EXCEPT !.exact = v])
AddSuggestion(r) == Added(r, readSuggestion, LAMBDA o, v : [o EXCEPT !.suggest = v])

NotesCome(p, n, rs, no, on, ex, su, b, v, f, q) ==
  AddNotes(Got(RecordOf(p, n, rs, no, on, ex, su), f \o q))
  = Got(RecordOf(p, n, rs, IF b >= 1 THEN v ELSE no, on, ex, su), q)

\* The notes, if they were written.
LEMMA NotesAdded ==
  ASSUME NEW p, NEW n, NEW rs, NEW no, NEW on, NEW ex, NEW su,
         NEW b \in Nat, NEW v \in Pairs, NEW f \in Wires, NEW q \in Wires,
         f = Part(b, 1, WPairsList[v]), b < 1 => q = <<>>
  PROVE  NotesCome(p, n, rs, no, on, ex, su, b, v, f, q)
  <1>1. PICK r : r = Got(RecordOf(p, n, rs, no, on, ex, su), f \o q)
    OBVIOUS
  <1>2. r.ok /\ r.value = RecordOf(p, n, rs, no, on, ex, su) /\ r.rest = f \o q
    BY <1>1, GotIs
  <1>3. CASE b >= 1
    <2>1. f = WPairsList[v]
      BY <1>3 DEF Part
    <2>2. f \o q \in Wires /\ f \o q # <<>> /\ RPairsList[f \o q] = Got(v, q)
      BY <2>1, PairsRecalls, NothingRead, FieldBack
    <2>3. PICK k : k = readNotes(f \o q)
      OBVIOUS
    <2>4. k.ok /\ k.value = v /\ k.rest = q
      BY <2>2, <2>3, GotIs DEF RPairsList, readNotes
    <2>5. AddNotes(r)
          = Got([r.value EXCEPT !.notes = v], q)
      BY <1>2, <2>2, <2>3, <2>4 DEF AddNotes, Added, As
    <2>6. [RecordOf(p, n, rs, no, on, ex, su) EXCEPT !.notes = v] = RecordOf(p, n, rs, v, on, ex, su)
      BY DEF RecordOf
    <2> QED BY <1>1, <1>2, <1>3, <2>5, <2>6 DEF NotesCome
  <1>4. CASE ~(b >= 1)
    <2>1. f = <<>> /\ q = <<>> /\ f \o q = <<>>
      BY <1>4, WiresJoin DEF Part
    <2>2. AddNotes(r) = r
      BY <1>2, <2>1 DEF AddNotes, Added
    <2> QED BY <1>1, <1>4, <2>1, <2>2 DEF NotesCome
  <1> QED BY <1>3, <1>4

OnlyCome(p, n, rs, no, on, ex, su, b, v, f, q) ==
  AddOnly(Got(RecordOf(p, n, rs, no, on, ex, su), f \o q))
  = Got(RecordOf(p, n, rs, no, IF b >= 2 THEN v ELSE on, ex, su), q)

\* Whether the record is all there is to it, if that was.
LEMMA OnlyAdded ==
  ASSUME NEW p, NEW n, NEW rs, NEW no, NEW on, NEW ex, NEW su,
         NEW b \in Nat, NEW v \in BOOLEAN, NEW f \in Wires, NEW q \in Wires,
         f = Part(b, 2, WOnly[v]), b < 2 => q = <<>>
  PROVE  OnlyCome(p, n, rs, no, on, ex, su, b, v, f, q)
  <1>1. PICK r : r = Got(RecordOf(p, n, rs, no, on, ex, su), f \o q)
    OBVIOUS
  <1>2. r.ok /\ r.value = RecordOf(p, n, rs, no, on, ex, su) /\ r.rest = f \o q
    BY <1>1, GotIs
  <1>3. CASE b >= 2
    <2>1. f = WOnly[v]
      BY <1>3 DEF Part
    <2>2. f \o q \in Wires /\ f \o q # <<>> /\ ROnly[f \o q] = Got(v, q)
      BY <2>1, OnlyRecalls, NothingRead, FieldBack
    <2>3. PICK k : k = readOnly(f \o q)
      OBVIOUS
    <2>4. k.ok /\ k.value = v /\ k.rest = q
      BY <2>2, <2>3, GotIs DEF ROnly
    <2>5. AddOnly(r)
          = Got([r.value EXCEPT !.only = v], q)
      BY <1>2, <2>2, <2>3, <2>4 DEF AddOnly, Added, As
    <2>6. [RecordOf(p, n, rs, no, on, ex, su) EXCEPT !.only = v] = RecordOf(p, n, rs, no, v, ex, su)
      BY DEF RecordOf
    <2> QED BY <1>1, <1>2, <1>3, <2>5, <2>6 DEF OnlyCome
  <1>4. CASE ~(b >= 2)
    <2>1. f = <<>> /\ q = <<>> /\ f \o q = <<>>
      BY <1>4, WiresJoin DEF Part
    <2>2. AddOnly(r) = r
      BY <1>2, <2>1 DEF AddOnly, Added
    <2> QED BY <1>1, <1>4, <2>1, <2>2 DEF OnlyCome
  <1> QED BY <1>3, <1>4

ExactnessCome(p, n, rs, no, on, ex, su, b, v, f, q) ==
  AddExactness(Got(RecordOf(p, n, rs, no, on, ex, su), f \o q))
  = Got(RecordOf(p, n, rs, no, on, IF b >= 3 THEN v ELSE ex, su), q)

\* Whether the answer is exact and why not, if that was.
LEMMA ExactnessAdded ==
  ASSUME NEW p, NEW n, NEW rs, NEW no, NEW on, NEW ex, NEW su,
         NEW b \in Nat, NEW v \in Exactnesses, NEW f \in Wires, NEW q \in Wires,
         f = Part(b, 3, WExactness[v]), b < 3 => q = <<>>
  PROVE  ExactnessCome(p, n, rs, no, on, ex, su, b, v, f, q)
  <1>1. PICK r : r = Got(RecordOf(p, n, rs, no, on, ex, su), f \o q)
    OBVIOUS
  <1>2. r.ok /\ r.value = RecordOf(p, n, rs, no, on, ex, su) /\ r.rest = f \o q
    BY <1>1, GotIs
  <1>3. CASE b >= 3
    <2>1. f = WExactness[v]
      BY <1>3 DEF Part
    <2>2. f \o q \in Wires /\ f \o q # <<>> /\ RExactness[f \o q] = Got(v, q)
      BY <2>1, ExactnessRecalls, NothingRead, FieldBack
    <2>3. PICK k : k = readExactness(f \o q)
      OBVIOUS
    <2>4. k.ok /\ k.value = v /\ k.rest = q
      BY <2>2, <2>3, GotIs DEF RExactness
    <2>5. AddExactness(r)
          = Got([r.value EXCEPT !.exact = v], q)
      BY <1>2, <2>2, <2>3, <2>4 DEF AddExactness, Added, As
    <2>6. [RecordOf(p, n, rs, no, on, ex, su) EXCEPT !.exact = v] = RecordOf(p, n, rs, no, on, v, su)
      BY DEF RecordOf
    <2> QED BY <1>1, <1>2, <1>3, <2>5, <2>6 DEF ExactnessCome
  <1>4. CASE ~(b >= 3)
    <2>1. f = <<>> /\ q = <<>> /\ f \o q = <<>>
      BY <1>4, WiresJoin DEF Part
    <2>2. AddExactness(r) = r
      BY <1>2, <2>1 DEF AddExactness, Added
    <2> QED BY <1>1, <1>4, <2>1, <2>2 DEF ExactnessCome
  <1> QED BY <1>3, <1>4

SuggestionCome(p, n, rs, no, on, ex, su, b, v, f, q) ==
  AddSuggestion(Got(RecordOf(p, n, rs, no, on, ex, su), f \o q))
  = Got(RecordOf(p, n, rs, no, on, ex, IF b >= 4 THEN v ELSE su), q)

\* What is suggested, if that was.
LEMMA SuggestionAdded ==
  ASSUME NEW p, NEW n, NEW rs, NEW no, NEW on, NEW ex, NEW su,
         NEW b \in Nat, NEW v \in Suggestions, NEW f \in Wires, NEW q \in Wires,
         f = Part(b, 4, WSuggestion[v]), b < 4 => q = <<>>
  PROVE  SuggestionCome(p, n, rs, no, on, ex, su, b, v, f, q)
  <1>1. PICK r : r = Got(RecordOf(p, n, rs, no, on, ex, su), f \o q)
    OBVIOUS
  <1>2. r.ok /\ r.value = RecordOf(p, n, rs, no, on, ex, su) /\ r.rest = f \o q
    BY <1>1, GotIs
  <1>3. CASE b >= 4
    <2>1. f = WSuggestion[v]
      BY <1>3 DEF Part
    <2>2. f \o q \in Wires /\ f \o q # <<>> /\ RSuggestion[f \o q] = Got(v, q)
      BY <2>1, SuggestionRecalls, NothingRead, FieldBack
    <2>3. PICK k : k = readSuggestion(f \o q)
      OBVIOUS
    <2>4. k.ok /\ k.value = v /\ k.rest = q
      BY <2>2, <2>3, GotIs DEF RSuggestion
    <2>5. AddSuggestion(r)
          = Got([r.value EXCEPT !.suggest = v], q)
      BY <1>2, <2>2, <2>3, <2>4 DEF AddSuggestion, Added, As
    <2>6. [RecordOf(p, n, rs, no, on, ex, su) EXCEPT !.suggest = v] = RecordOf(p, n, rs, no, on, ex, v)
      BY DEF RecordOf
    <2> QED BY <1>1, <1>2, <1>3, <2>5, <2>6 DEF SuggestionCome
  <1>4. CASE ~(b >= 4)
    <2>1. f = <<>> /\ q = <<>> /\ f \o q = <<>>
      BY <1>4, WiresJoin DEF Part
    <2>2. AddSuggestion(r) = r
      BY <1>2, <2>1 DEF AddSuggestion, Added
    <2> QED BY <1>1, <1>4, <2>1, <2>2 DEF SuggestionCome
  <1> QED BY <1>3, <1>4

Fives(s, t, u, v, w) == (((s \o t) \o u) \o v) \o w = s \o (t \o (u \o (v \o w)))

\* Five wires joined one after the other.
LEMMA WiresFive ==
  ASSUME NEW s \in Wires, NEW t \in Wires, NEW u \in Wires, NEW v \in Wires, NEW w \in Wires
  PROVE  Fives(s, t, u, v, w)
  <1>1. PICK st \in Wires : st = s \o t
    BY WireJoined
  <1>2. PICK vw \in Wires : vw = v \o w
    BY WireJoined
  <1>3. PICK stu \in Wires : stu = st \o u
    BY WireJoined
  <1>4. Assoc(stu, v, w) /\ Assoc(st, u, vw)
    BY WiresAssocs
  <1>5. PICK uvw \in Wires : uvw = u \o vw
    BY WireJoined
  <1>6. Assoc(s, t, uvw)
    BY WiresAssocs
  <1> QED BY <1>1, <1>2, <1>3, <1>4, <1>5, <1>6 DEF Assoc, Fives

\* The records a build may write, and what is written of a field.
LEMMA RecordsAre ==
  ASSUME NEW r \in Records
  PROVE  /\ r.path \in Cells /\ r.names \in Names /\ r.rows \in Seq(RowsOf)
         /\ r.notes \in Pairs /\ r.only \in BOOLEAN /\ r.exact \in Exactnesses
         /\ r.suggest \in Suggestions
         /\ r = RecordOf(r.path, r.names, r.rows, r.notes, r.only, r.exact, r.suggest)
  <1>1. /\ r.path \in Cells /\ r.names \in Names /\ r.rows \in Seq(RowsOf)
        /\ r.notes \in Pairs /\ r.exact \in Exactnesses /\ r.suggest \in Suggestions
    BY DEF Records, RowsOf, Exactnesses, Suggestions
  <1>2. r.only \in BOOLEAN
    BY DEF Records
  <1>3. r = RecordOf(r.path, r.names, r.rows, r.notes, r.only, r.exact, r.suggest)
    BY DEF Records, RecordOf
  <1> QED BY <1>1, <1>2, <1>3

\* A build writes nothing of what a later one added.
LEMMA PartNone ==
  ASSUME NEW b \in Nat, NEW first \in Nat, b < first, NEW w
  PROVE  Part(b, first, w) = <<>>
  BY DEF Part

\* The parts of a tail.
TailIs(r, b, f1, f2, f3, f4, f5) ==
  /\ f1 = Part(b, 1, WPairsList[r.notes])
  /\ f2 = Part(b, 2, WOnly[r.only])
  /\ f3 = Part(b, 3, WExactness[r.exact])
  /\ f4 = Part(b, 4, WSuggestion[r.suggest])
  /\ f5 = Part(b, 5, <<7>>)

\* What is written of a tail, part by part.
LEMMA TailParts ==
  ASSUME NEW r \in Records, NEW b \in Builds
  PROVE  \E f1 \in Drafts, f2 \in Drafts, f3 \in Drafts, f4 \in Drafts, f5 \in Drafts :
           /\ TailIs(r, b, f1, f2, f3, f4, f5)
           /\ writeTail(r, b) = (((f1 \o f2) \o f3) \o f4) \o f5
  <1>1. <<>> \in Drafts /\ <<7>> \in Drafts
    BY WiresJoin, DraftsJoin
  <1>2. PICK f1 \in Drafts : f1 = Part(b, 1, WPairsList[r.notes])
    BY <1>1, RecordsAre, PairsRecalls DEF Recalls, Part
  <1>3. PICK f2 \in Drafts : f2 = Part(b, 2, WOnly[r.only])
    BY <1>1, RecordsAre, OnlyRecalls DEF Recalls, Part
  <1>4. PICK f3 \in Drafts : f3 = Part(b, 3, WExactness[r.exact])
    BY <1>1, RecordsAre, ExactnessRecalls DEF Recalls, Part
  <1>5. PICK f4 \in Drafts : f4 = Part(b, 4, WSuggestion[r.suggest])
    BY <1>1, RecordsAre, SuggestionRecalls DEF Recalls, Part
  <1>6. PICK f5 \in Drafts : f5 = Part(b, 5, <<7>>)
    BY <1>1 DEF Part
  <1>7. writeTail(r, b) = (((f1 \o f2) \o f3) \o f4) \o f5
    <2>1. WPairsList[r.notes] = writePairs(r.notes)
      BY RecordsAre DEF WPairsList
    <2>2. WOnly[r.only] = <<IF r.only THEN 1 ELSE 0>>
      BY RecordsAre DEF WOnly
    <2>3. WExactness[r.exact] = writeExactness(r.exact)
      BY RecordsAre DEF WExactness
    <2>4. WSuggestion[r.suggest] = writeSuggestion(r.suggest)
      BY RecordsAre DEF WSuggestion
    <2> QED BY <1>2, <1>3, <1>4, <1>5, <1>6, <2>1, <2>2, <2>3, <2>4 DEF writeTail, Part
  <1>8. TailIs(r, b, f1, f2, f3, f4, f5)
    BY <1>2, <1>3, <1>4, <1>5, <1>6 DEF TailIs
  <1> QED BY <1>7, <1>8

\* Five drafts that join to a wire are wires.
LEMMA DraftsFive ==
  ASSUME NEW f1 \in Drafts, NEW f2 \in Drafts, NEW f3 \in Drafts, NEW f4 \in Drafts,
         NEW f5 \in Drafts
  PROVE  /\ (((f1 \o f2) \o f3) \o f4) \o f5 \in Drafts
         /\ (((f1 \o f2) \o f3) \o f4) \o f5 \in Wires =>
              f1 \in Wires /\ f2 \in Wires /\ f3 \in Wires /\ f4 \in Wires /\ f5 \in Wires
  <1>1. PICK d2 \in Drafts : d2 = f1 \o f2
    BY DraftsJoin
  <1>2. PICK d3 \in Drafts : d3 = d2 \o f3
    BY DraftsJoin
  <1>3. PICK d4 \in Drafts : d4 = d3 \o f4
    BY DraftsJoin
  <1>4. d4 \o f5 \in Drafts /\ (d4 \o f5 \in Wires => d4 \in Wires /\ f5 \in Wires)
    BY DraftsJoin
  <1>5. d4 \in Wires => d3 \in Wires /\ f4 \in Wires
    BY <1>3, DraftsJoin
  <1>6. d3 \in Wires => d2 \in Wires /\ f3 \in Wires
    BY <1>2, DraftsJoin
  <1>7. d2 \in Wires => f1 \in Wires /\ f2 \in Wires
    BY <1>1, DraftsJoin
  <1> QED BY <1>1, <1>2, <1>3, <1>4, <1>5, <1>6, <1>7

\* Of the tail the fields are read that the build wrote, and no others.
TailOf(p, n, rs, r, b) ==
  RecordOf(p, n, rs, IF b >= 1 THEN r.notes ELSE <<>>, IF b >= 2 THEN r.only ELSE FALSE,
           IF b >= 3 THEN r.exact ELSE <<"unstated">>,
           IF b >= 4 THEN r.suggest ELSE <<"not consulted">>)

\* The parts in the order they are read.
LEMMA TailBehind ==
  ASSUME NEW r \in Records, NEW b \in Builds, writeTail(r, b) \in Wires
  PROVE  \E f1, f2, f3, f4, f5, q1, q2, q3 \in Wires :
           /\ TailIs(r, b, f1, f2, f3, f4, f5)
           /\ writeTail(r, b) = f1 \o q1 /\ q1 = f2 \o q2 /\ q2 = f3 \o q3 /\ q3 = f4 \o f5
  <1>1. PICK f1, f2, f3, f4, f5 \in Drafts :
          /\ TailIs(r, b, f1, f2, f3, f4, f5)
          /\ writeTail(r, b) = (((f1 \o f2) \o f3) \o f4) \o f5
    BY TailParts
  <1>2. f1 \in Wires /\ f2 \in Wires /\ f3 \in Wires /\ f4 \in Wires /\ f5 \in Wires
    BY <1>1, DraftsFive
  <1>3. PICK q3 \in Wires : q3 = f4 \o f5
    BY <1>2, WireJoined
  <1>4. PICK q2 \in Wires : q2 = f3 \o q3
    BY <1>2, WireJoined
  <1>5. PICK q1 \in Wires : q1 = f2 \o q2
    BY <1>2, WireJoined
  <1>6. Fives(f1, f2, f3, f4, f5)
    BY <1>2, WiresFive
  <1>7. writeTail(r, b) = f1 \o q1
    BY <1>1, <1>3, <1>4, <1>5, <1>6 DEF Fives
  <1> QED BY <1>1, <1>2, <1>3, <1>4, <1>5, <1>7

\* The tail of records is read back.
LEMMA TailBack ==
  ASSUME NEW p, NEW n, NEW rs, NEW r \in Records, NEW b \in Builds, writeTail(r, b) \in Wires
  PROVE  \E left \in Wires :
           readTail(Got(WithoutTail(p, n, rs), writeTail(r, b))) = Got(TailOf(p, n, rs, r, b), left)
  <1>1. PICK f1, f2, f3, f4, f5, q1, q2, q3 \in Wires :
          /\ TailIs(r, b, f1, f2, f3, f4, f5)
          /\ writeTail(r, b) = f1 \o q1 /\ q1 = f2 \o q2 /\ q2 = f3 \o q3 /\ q3 = f4 \o f5
    BY TailBehind
  <1>2. b \in Nat
    BY DEF Builds
  <1>3. /\ f1 = Part(b, 1, WPairsList[r.notes])
        /\ f2 = Part(b, 2, WOnly[r.only])
        /\ f3 = Part(b, 3, WExactness[r.exact])
        /\ f4 = Part(b, 4, WSuggestion[r.suggest])
        /\ f5 = Part(b, 5, <<7>>)
    BY <1>1 DEF TailIs
  <1>4. <<>> \o <<>> = <<>>
    BY WiresJoin
  <1>5. b < 4 => f5 = <<>>
    BY <1>2, <1>3, PartNone
  <1>6. b < 3 => q3 = <<>>
    <2>1. b < 3 => f4 = <<>>
      BY <1>2, <1>3, PartNone
    <2> QED BY <1>1, <1>2, <1>4, <1>5, <2>1
  <1>7. b < 2 => q2 = <<>>
    <2>1. b < 2 => f3 = <<>>
      BY <1>2, <1>3, PartNone
    <2> QED BY <1>1, <1>2, <1>4, <1>6, <2>1
  <1>8. b < 1 => q1 = <<>>
    <2>1. b < 1 => f2 = <<>>
      BY <1>2, <1>3, PartNone
    <2> QED BY <1>1, <1>2, <1>4, <1>7, <2>1
  <1>9. /\ r.notes \in Pairs /\ r.only \in BOOLEAN /\ r.exact \in Exactnesses
        /\ r.suggest \in Suggestions
    BY RecordsAre
  <1>10. PICK no, on, ex, su : /\ no = IF b >= 1 THEN r.notes ELSE <<>>
                               /\ on = IF b >= 2 THEN r.only ELSE FALSE
                               /\ ex = IF b >= 3 THEN r.exact ELSE <<"unstated">>
                               /\ su = IF b >= 4 THEN r.suggest ELSE <<"not consulted">>
    BY Zenon
  <1>11. PICK r0 : r0 = Got(WithoutTail(p, n, rs), writeTail(r, b))
    OBVIOUS
  <1>12. PICK r1 : r1 = AddNotes(r0)
    OBVIOUS
  <1>13. PICK r2 : r2 = AddOnly(r1)
    OBVIOUS
  <1>14. PICK r3 : r3 = AddExactness(r2)
    OBVIOUS
  <1>15. readTail(r0) = AddSuggestion(r3)
    BY <1>12, <1>13, <1>14 DEF readTail, AddNotes, AddOnly, AddExactness, AddSuggestion
  <1>16. r0 = Got(RecordOf(p, n, rs, <<>>, FALSE, <<"unstated">>, <<"not consulted">>), f1 \o q1)
    BY <1>1, <1>11 DEF WithoutTail, RecordOf
  <1>17. r1 = Got(RecordOf(p, n, rs, no, FALSE, <<"unstated">>, <<"not consulted">>), q1)
    <2>1. PICK v \in Pairs : v = r.notes
      BY <1>9
    <2>2. f1 = Part(b, 1, WPairsList[v])
      BY <1>3, <2>1
    <2>3. NotesCome(p, n, rs, <<>>, FALSE, <<"unstated">>, <<"not consulted">>, b, v, f1, q1)
      BY <1>2, <1>8, <2>2, NotesAdded
    <2> QED BY <1>10, <1>12, <1>16, <2>1, <2>3 DEF NotesCome
  <1>18. r2 = Got(RecordOf(p, n, rs, no, on, <<"unstated">>, <<"not consulted">>), q2)
    <2>1. PICK v \in BOOLEAN : v = r.only
      BY <1>9, Zenon
    <2>2. f2 = Part(b, 2, WOnly[v])
      BY <1>3, <2>1
    <2>3. OnlyCome(p, n, rs, no, FALSE, <<"unstated">>, <<"not consulted">>, b, v, f2, q2)
      BY <1>2, <1>7, <2>2, OnlyAdded
    <2> QED BY <1>1, <1>10, <1>13, <1>17, <2>1, <2>3 DEF OnlyCome
  <1>19. r3 = Got(RecordOf(p, n, rs, no, on, ex, <<"not consulted">>), q3)
    <2>1. PICK v \in Exactnesses : v = r.exact
      BY <1>9
    <2>2. f3 = Part(b, 3, WExactness[v])
      BY <1>3, <2>1
    <2>3. ExactnessCome(p, n, rs, no, on, <<"unstated">>, <<"not consulted">>, b, v, f3, q3)
      BY <1>2, <1>6, <2>2, ExactnessAdded
    <2> QED BY <1>1, <1>10, <1>14, <1>18, <2>1, <2>3 DEF ExactnessCome
  <1>20. readTail(r0) = Got(RecordOf(p, n, rs, no, on, ex, su), f5)
    <2>1. PICK v \in Suggestions : v = r.suggest
      BY <1>9
    <2>2. f4 = Part(b, 4, WSuggestion[v])
      BY <1>3, <2>1
    <2>3. SuggestionCome(p, n, rs, no, on, ex, <<"not consulted">>, b, v, f4, f5)
      BY <1>2, <1>5, <2>2, SuggestionAdded
    <2> QED BY <1>1, <1>10, <1>15, <1>19, <2>1, <2>3 DEF SuggestionCome
  <1>21. TailOf(p, n, rs, r, b) = RecordOf(p, n, rs, no, on, ex, su)
    BY <1>10 DEF TailOf
  <1> QED BY <1>11, <1>20, <1>21

\* What is read of a record is what its build said.
LEMMA SaidIs ==
  ASSUME NEW r \in Records, NEW b \in Builds
  PROVE  Said(r, b) = TailOf(pathOf(r.path), r.names, r.rows, r, b)
  <1>1. r.only \in BOOLEAN
    BY RecordsAre
  <1>2. (b >= 2 /\ r.only) = IF b >= 2 THEN r.only ELSE FALSE
    BY <1>1, Zenon
  <1>3. PICK q : q = pathOf(r.path)
    OBVIOUS
  <1>4. PICK on : on = (b >= 2 /\ r.only)
    OBVIOUS
  <1>5. PICK no, ex, su : /\ no = IF b >= 1 THEN r.notes ELSE <<>>
                          /\ ex = IF b >= 3 THEN r.exact ELSE <<"unstated">>
                          /\ su = IF b >= 4 THEN r.suggest ELSE <<"not consulted">>
    BY Zenon
  <1>6. Said(r, b) = [r EXCEPT !.path = q, !.notes = no, !.only = on, !.exact = ex, !.suggest = su]
    BY <1>3, <1>4, <1>5, Zenon DEF Said
  <1>7. r = RecordOf(r.path, r.names, r.rows, r.notes, r.only, r.exact, r.suggest)
    BY RecordsAre
  <1>8. [r EXCEPT !.path = q, !.notes = no, !.only = on, !.exact = ex, !.suggest = su]
        = RecordOf(q, r.names, r.rows, no, on, ex, su)
    <2>1. PICK x1, x2, x3, x4, x5, x6, x7 : r = RecordOf(x1, x2, x3, x4, x5, x6, x7)
      BY <1>7
    <2>2. r.names = x2 /\ r.rows = x3
      BY <2>1 DEF RecordOf
    <2>3. PICK r1 : r1 = [r EXCEPT !.path = q]
      OBVIOUS
    <2>4. PICK r2 : r2 = [r1 EXCEPT !.notes = no]
      OBVIOUS
    <2>5. PICK r3 : r3 = [r2 EXCEPT !.only = on]
      OBVIOUS
    <2>6. PICK r4 : r4 = [r3 EXCEPT !.exact = ex]
      OBVIOUS
    <2>7. [r EXCEPT !.path = q, !.notes = no, !.only = on, !.exact = ex, !.suggest = su]
          = [r4 EXCEPT !.suggest = su]
      BY <2>3, <2>4, <2>5, <2>6
    <2>8. r1 = RecordOf(q, x2, x3, x4, x5, x6, x7)
      BY <2>1, <2>3 DEF RecordOf
    <2>9. r2 = RecordOf(q, x2, x3, no, x5, x6, x7)
      BY <2>4, <2>8 DEF RecordOf
    <2>10. r3 = RecordOf(q, x2, x3, no, on, x6, x7)
      BY <2>5, <2>9 DEF RecordOf
    <2>11. r4 = RecordOf(q, x2, x3, no, on, ex, x7)
      BY <2>6, <2>10 DEF RecordOf
    <2>12. [r4 EXCEPT !.suggest = su] = RecordOf(q, x2, x3, no, on, ex, su)
      BY <2>11 DEF RecordOf
    <2> QED BY <2>2, <2>7, <2>12
  <1>9. TailOf(q, r.names, r.rows, r, b) = RecordOf(q, r.names, r.rows, no, on, ex, su)
    BY <1>2, <1>4, <1>5, Zenon DEF TailOf
  <1> QED BY <1>3, <1>6, <1>8, <1>9

\* What is written of records behind their tag.
RecordsDraft(r, b) ==
  <<r.path>> \o writeNames(r.names) \o writeRows(r.rows) \o writeTail(r, b)

\* Records are read back, of any build.
LEMMA RecordsBack ==
  ASSUME NEW r \in Records, NEW b \in Builds
  PROVE  /\ RecordsDraft(r, b) \in Drafts
         /\ RecordsDraft(r, b) \in Wires =>
              \E left \in Wires : readRecords(RecordsDraft(r, b)) = Got(Said(r, b), left)
  <1>1. PICK c \in Drafts : c = <<r.path>> /\ c \in Wires
    BY RecordsAre, WiresJoin, DraftsJoin
  <1>2. PICK n \in Drafts : n = writeNames(r.names) /\ (n \in Wires => Back(RNames, r.names, n))
    <2>1. WNames[r.names] = writeNames(r.names)
      BY RecordsAre DEF WNames
    <2> QED BY <2>1, RecordsAre, NamesRecalls DEF Recalls
  <1>3. PICK w \in Drafts : w = writeRows(r.rows) /\ (w \in Wires => Back(RRows, r.rows, w))
    <2>1. WRows[r.rows] = writeRows(r.rows)
      BY RecordsAre DEF WRows
    <2> QED BY <2>1, RecordsAre, RowsRecalls DEF Recalls
  <1>4. PICK t \in Drafts : t = writeTail(r, b)
    BY TailParts, DraftsFive
  <1>5. PICK cn \in Drafts : cn = c \o n
    BY DraftsJoin
  <1>6. PICK cnw \in Drafts : cnw = cn \o w
    BY DraftsJoin
  <1>7. RecordsDraft(r, b) = cnw \o t
    BY <1>1, <1>2, <1>3, <1>4, <1>5, <1>6 DEF RecordsDraft
  <1>8. cnw \o t \in Drafts /\ (cnw \o t \in Wires => cnw \in Wires /\ t \in Wires)
    BY DraftsJoin
  <1>9. cnw \in Wires => cn \in Wires /\ w \in Wires
    BY <1>6, DraftsJoin
  <1>10. cn \in Wires => n \in Wires
    BY <1>5, DraftsJoin
  <1>11. ASSUME cnw \o t \in Wires
         PROVE  \E left \in Wires : readRecords(cnw \o t) = Got(Said(r, b), left)
    <2>1. n \in Wires /\ w \in Wires /\ t \in Wires /\ cn \in Wires
      BY <1>8, <1>9, <1>10, <1>11
    <2>2. PICK s2 \in Wires : s2 = w \o t
      BY <2>1, WireJoined
    <2>3. PICK s1 \in Wires : s1 = n \o s2
      BY <2>1, WireJoined
    <2>4. PICK s \in Wires : s = c \o s1
      BY <1>1, WireJoined
    <2>5. cnw \o t = s
      <3>1. Assoc(cn, w, t)
        BY <2>1, WiresAssocs
      <3>2. Assoc(c, n, s2)
        BY <1>1, <2>1, WiresAssocs
      <3> QED BY <1>5, <1>6, <2>2, <2>3, <2>4, <3>1, <3>2 DEF Assoc
    <2>6. PICK k1 : k1 = readCell(s)
      OBVIOUS
    <2>7. k1.ok /\ k1.value = r.path /\ k1.rest = s1
      BY <1>1, <2>4, <2>6, RecordsAre, readCellOf, GotIs
    <2>8. PICK k2 : k2 = readNames(s1)
      OBVIOUS
    <2>9. k2.ok /\ k2.value = r.names /\ k2.rest = s2
      <3>1. RNames[s1] = Got(r.names, s2)
        BY <1>2, <2>1, <2>3 DEF Back
      <3> QED BY <2>8, <3>1, GotIs DEF RNames
    <2>10. PICK k3 : k3 = Counted(readRow, s2)
      OBVIOUS
    <2>11. k3.ok /\ k3.value = r.rows /\ k3.rest = t
      <3>1. RRows[s2] = Got(r.rows, t)
        BY <1>3, <2>1, <2>2 DEF Back
      <3> QED BY <2>10, <3>1, GotIs DEF RRows
    <2>12. readRecords(s) = readTail(Got(WithoutTail(pathOf(r.path), r.names, r.rows), t))
      BY <2>6, <2>7, <2>8, <2>9, <2>10, <2>11 DEF readRecords, Then
    <2>13. PICK left \in Wires :
             readTail(Got(WithoutTail(pathOf(r.path), r.names, r.rows), t))
             = Got(TailOf(pathOf(r.path), r.names, r.rows, r, b), left)
      BY <1>4, <2>1, TailBack
    <2> QED BY <2>5, <2>12, <2>13, SaidIs
  <1> QED BY <1>7, <1>8, <1>11

-----------------------------------------------------------------------------
(***************************************************************************)
(* Outcomes.                                                               *)
(***************************************************************************)
LEMMA OutcomeTags ==
  /\ OutcomeTag.Done = 0 /\ OutcomeTag["Done"] = 0
  /\ OutcomeTag.Records = 1 /\ OutcomeTag["Records"] = 1
  /\ OutcomeTag.Value = 2 /\ OutcomeTag["Value"] = 2
  /\ OutcomeTag.Keys = 3 /\ OutcomeTag["Keys"] = 3
  /\ OutcomeTag.Removed = 4 /\ OutcomeTag["Removed"] = 4
  BY DEF OutcomeTag

\* What readOutcome makes of a tag and what follows it.
TagReads(tag, s) ==
  /\ tag = 0 => readOutcome(<<tag>> \o s) = Got(<<"Done">>, s)
  /\ tag = 1 => \A v, left : readRecords(s) = Got(v, left) =>
                  readOutcome(<<tag>> \o s) = Got(<<"Records", v>>, left)
  /\ tag = 2 => \A names, rest, v, left :
                  readNames(s) = Got(names, rest) /\ readPayload(rest) = Got(v, left) =>
                    readOutcome(<<tag>> \o s) = Got(<<"Value", names, v>>, left)
  /\ tag = 3 => \A v, left : Counted(readText, s) = Got(v, left) =>
                  readOutcome(<<tag>> \o s) = Got(<<"Keys", v>>, left)
  /\ tag = 4 => \A v, left : readCell(s) = Got(v, left) =>
                  readOutcome(<<tag>> \o s) = Got(<<"Removed", v>>, left)
  /\ tag > 4 => readOutcome(<<tag>> \o s) = Got(<<"Unknown", tag, s>>, <<>>)

\* readOutcome goes by the tag.
LEMMA readOutcomeOf ==
  ASSUME NEW tag \in Cells, NEW s \in Wires
  PROVE  TagReads(tag, s)
  <1>1. PICK x \in Wires : x = <<tag>> \o s
    BY WiresJoin
  <1>2. PICK k : k = readCell(x)
    OBVIOUS
  <1>3. k.ok /\ k.value = tag /\ k.rest = s
    BY <1>1, <1>2, readCellOf, GotIs
  <1>4. ASSUME tag = 0 PROVE readOutcome(x) = Got(<<"Done">>, s)
    BY <1>2, <1>3, <1>4 DEF readOutcome, Then, As, OutcomeTag
  <1>5. ASSUME tag = 1, NEW v, NEW left, readRecords(s) = Got(v, left)
        PROVE  readOutcome(x) = Got(<<"Records", v>>, left)
    <2>1. PICK q : q = readRecords(s)
      OBVIOUS
    <2>2. q.ok /\ q.value = v /\ q.rest = left
      BY <1>5, <2>1, GotIs
    <2> QED BY <1>2, <1>3, <1>5, <2>1, <2>2 DEF readOutcome, Then, As, OutcomeTag
  <1>6. ASSUME tag = 2, NEW names, NEW rest, NEW v, NEW left, readNames(s) = Got(names, rest),
               readPayload(rest) = Got(v, left)
        PROVE  readOutcome(x) = Got(<<"Value", names, v>>, left)
    <2>1. PICK q : q = readNames(s)
      OBVIOUS
    <2>2. PICK p : p = readPayload(rest)
      OBVIOUS
    <2>3. q.ok /\ q.value = names /\ q.rest = rest /\ p.ok /\ p.value = v /\ p.rest = left
      BY <1>6, <2>1, <2>2, GotIs
    <2> QED BY <1>2, <1>3, <1>6, <2>1, <2>2, <2>3 DEF readOutcome, Then, As, OutcomeTag
  <1>7. ASSUME tag = 3, NEW v, NEW left, Counted(readText, s) = Got(v, left)
        PROVE  readOutcome(x) = Got(<<"Keys", v>>, left)
    <2>1. PICK q : q = Counted(readText, s)
      OBVIOUS
    <2>2. q.ok /\ q.value = v /\ q.rest = left
      BY <1>7, <2>1, GotIs
    <2> QED BY <1>2, <1>3, <1>7, <2>1, <2>2 DEF readOutcome, Then, As, OutcomeTag
  <1>8. ASSUME tag = 4, NEW v, NEW left, readCell(s) = Got(v, left)
        PROVE  readOutcome(x) = Got(<<"Removed", v>>, left)
    <2>1. PICK q : q = readCell(s)
      OBVIOUS
    <2>2. q.ok /\ q.value = v /\ q.rest = left
      BY <1>8, <2>1, GotIs
    <2> QED BY <1>2, <1>3, <1>8, <2>1, <2>2 DEF readOutcome, Then, As, OutcomeTag
  <1>9. ASSUME tag > 4 PROVE readOutcome(x) = Got(<<"Unknown", tag, s>>, <<>>)
    <2>1. tag \notin {0, 1, 2, 3, 4}
      BY <1>9, CellsAre
    <2> QED BY <1>2, <1>3, <2>1 DEF readOutcome, Then, As, OutcomeTag
  <1> QED BY <1>1, <1>4, <1>5, <1>6, <1>7, <1>8, <1>9 DEF TagReads

\* An outcome of a kind: its tag and the fields of that kind, and whatever a
\* later build adds to them.
Holds(tag, body, v) ==
  \A g \in Wires : \E left \in Wires : readOutcome(<<tag>> \o (body \o g)) = Got(v, left)

\* What is written of an outcome is understood as v, if it can be sent.
Understood(w, v) ==
  w \in Drafts /\ (w \in Wires => \E left \in Wires : readOutcome(w) = Got(v, left))

LEMMA SmallDrafts == <<1>> \in Drafts /\ <<7>> \in Drafts
  <1>1. PICK one \in Int, seven \in Int : one = 1 /\ seven = 7
    OBVIOUS
  <1>2. <<one>> \in Drafts /\ <<seven>> \in Drafts
    BY DraftsJoin
  <1> QED BY <1>1, <1>2

\* A kind that may grow is understood before and after it does.
LEMMA GrownUnderstood ==
  ASSUME NEW tag \in Cells, NEW body \in Drafts, NEW v, body \in Wires => Holds(tag, body, v)
  PROVE  Understood(<<tag>> \o body, v) /\ Understood((<<tag>> \o body) \o <<7>>, v)
  <1>1. PICK t \in Wires : t = <<tag>>
    BY WiresJoin
  <1>2. t \in Drafts
    BY DraftsJoin
  <1>3. PICK g \in Drafts : g = <<7>>
    BY SmallDrafts
  <1>4. PICK w \in Drafts : w = t \o body /\ (w \in Wires => body \in Wires)
    BY <1>2, DraftsJoin
  <1>5. w \o g \in Drafts /\ (w \o g \in Wires => w \in Wires /\ g \in Wires)
    BY DraftsJoin
  <1>6. ASSUME NEW x \in Wires, body \in Wires
        PROVE  \E left \in Wires : readOutcome((t \o body) \o x) = Got(v, left)
    <2>1. Assoc(t, body, x)
      BY <1>6, WiresAssocs
    <2>2. \E left \in Wires : readOutcome(t \o (body \o x)) = Got(v, left)
      BY <1>1, <1>6 DEF Holds
    <2> QED BY <2>1, <2>2 DEF Assoc
  <1>7. Understood(w, v)
    <2> SUFFICES ASSUME w \in Wires PROVE \E left \in Wires : readOutcome(w) = Got(v, left)
      BY DEF Understood
    <2>1. <<>> \in Wires /\ w \o <<>> = w
      BY WiresJoin
    <2> QED BY <1>4, <1>6, <2>1
  <1>8. Understood(w \o g, v)
    <2> SUFFICES ASSUME w \o g \in Wires PROVE \E left \in Wires : readOutcome(w \o g) = Got(v, left)
      BY <1>5 DEF Understood
    <2> QED BY <1>4, <1>5, <1>6
  <1> QED BY <1>1, <1>3, <1>4, <1>7, <1>8

\* What f reads back, its tag makes an outcome of.
LEMMA BodyHeld ==
  ASSUME NEW tag \in Cells, NEW f, NEW u, NEW v, NEW body \in Wires, Back(f, u, body),
         \A s \in Wires, left \in Wires :
           f[s] = Got(u, left) => readOutcome(<<tag>> \o s) = Got(v, left)
  PROVE  Holds(tag, body, v)
  <1> SUFFICES ASSUME NEW g \in Wires
               PROVE  \E left \in Wires : readOutcome(<<tag>> \o (body \o g)) = Got(v, left)
    BY DEF Holds
  <1>1. PICK s \in Wires : s = body \o g
    BY WireJoined
  <1>2. f[s] = Got(u, g)
    BY <1>1 DEF Back
  <1> QED BY <1>1, <1>2

\* What is written of outcomes that are not records nor of an unknown kind.
MayGrow(o, b) ==
  Understood(writeOutcome(o, b), o) /\ Understood(writeOutcome(o, b) \o <<7>>, o)

LEMMA DoneGrows ==
  ASSUME NEW b \in Builds
  PROVE  MayGrow(<<"Done">>, b)
  <1>1. 0 \in Cells /\ <<>> \in Wires /\ <<>> \in Drafts
    BY CellsAre, WiresJoin, DraftsJoin
  <1>2. writeOutcome(<<"Done">>, b) = <<0>> \o <<>>
    BY OutcomeTags DEF writeOutcome
  <1>3. Holds(0, <<>>, <<"Done">>)
    <2> SUFFICES ASSUME NEW g \in Wires
                 PROVE  readOutcome(<<0>> \o (<<>> \o g)) = Got(<<"Done">>, g)
      BY DEF Holds
    <2>1. <<>> \o g = g
      BY WiresJoin
    <2>2. TagReads(0, g)
      BY <1>1, readOutcomeOf
    <2> QED BY <2>1, <2>2 DEF TagReads
  <1> QED BY <1>1, <1>2, <1>3, GrownUnderstood DEF MayGrow

LEMMA KeysGrow ==
  ASSUME NEW b \in Builds, NEW ks \in Seq(Texts)
  PROVE  MayGrow(<<"Keys", ks>>, b)
  <1>1. 3 \in Cells
    BY CellsAre, ValuesAssumption
  <1>2. PICK body \in Drafts : body = WKeys[ks] /\ (body \in Wires => Back(RKeys, ks, body))
    BY KeysRecalls DEF Recalls
  <1>3. writeOutcome(<<"Keys", ks>>, b) = <<3>> \o body
    BY <1>2, OutcomeTags DEF writeOutcome, WKeys
  <1>4. ASSUME body \in Wires PROVE Holds(3, body, <<"Keys", ks>>)
    <2>1. ASSUME NEW s \in Wires, NEW left \in Wires, RKeys[s] = Got(ks, left)
          PROVE  readOutcome(<<3>> \o s) = Got(<<"Keys", ks>>, left)
      <3>1. TagReads(3, s)
        BY <1>1, readOutcomeOf
      <3> QED BY <2>1, <3>1 DEF TagReads, RKeys
    <2> QED BY <1>1, <1>2, <1>4, <2>1, BodyHeld
  <1> QED BY <1>1, <1>2, <1>3, <1>4, GrownUnderstood DEF MayGrow

LEMMA RemovedGrows ==
  ASSUME NEW b \in Builds, NEW n \in Cells
  PROVE  MayGrow(<<"Removed", n>>, b)
  <1>1. 4 \in Cells
    BY CellsAre, ValuesAssumption
  <1>2. PICK body \in Drafts : body = <<n>> /\ body \in Wires /\ Back(RCell, n, body)
    <2>1. WCell[n] = <<n>>
      BY DEF WCell
    <2>2. <<n>> \in Wires /\ <<n>> \in Drafts
      BY WiresJoin, DraftsJoin
    <2> QED BY <2>1, <2>2, CellUndoes DEF Undoes
  <1>3. writeOutcome(<<"Removed", n>>, b) = <<4>> \o body
    BY <1>2, OutcomeTags DEF writeOutcome
  <1>4. Holds(4, body, <<"Removed", n>>)
    <2>1. ASSUME NEW s \in Wires, NEW left \in Wires, RCell[s] = Got(n, left)
          PROVE  readOutcome(<<4>> \o s) = Got(<<"Removed", n>>, left)
      <3>1. TagReads(4, s)
        BY <1>1, readOutcomeOf
      <3> QED BY <2>1, <3>1 DEF TagReads, RCell
    <2> QED BY <1>1, <1>2, <2>1, BodyHeld
  <1> QED BY <1>1, <1>2, <1>3, <1>4, GrownUnderstood DEF MayGrow

LEMMA ValueGrows ==
  ASSUME NEW b \in Builds, NEW n \in Names, NEW v \in Value[Nesting]
  PROVE  MayGrow(<<"Value", n, v>>, b)
  <1>1. 2 \in Cells
    BY CellsAre, ValuesAssumption
  <1>2. PICK nw \in Drafts : nw = WNames[n] /\ (nw \in Wires => Back(RNames, n, nw))
    BY NamesRecalls DEF Recalls
  <1>3. PICK pw \in Drafts : pw = WPayload[v] /\ (pw \in Wires => Back(RPayload, v, pw))
    BY PayloadRecalls DEF Recalls
  <1>4. PICK body \in Drafts : body = nw \o pw /\ (body \in Wires => nw \in Wires /\ pw \in Wires)
    BY DraftsJoin
  <1>5. writeOutcome(<<"Value", n, v>>, b) = <<2>> \o body
    BY <1>2, <1>3, <1>4, OutcomeTags DEF writeOutcome, WNames, WPayload
  <1>6. ASSUME body \in Wires PROVE Holds(2, body, <<"Value", n, v>>)
    <2> SUFFICES ASSUME NEW g \in Wires
                 PROVE  readOutcome(<<2>> \o (body \o g)) = Got(<<"Value", n, v>>, g)
      BY DEF Holds
    <2>1. nw \in Wires /\ pw \in Wires
      BY <1>4, <1>6
    <2>2. PICK rest \in Wires : rest = pw \o g
      BY <2>1, WireJoined
    <2>3. PICK s \in Wires : s = nw \o rest
      BY <2>1, WireJoined
    <2>4. body \o g = s
      <3>1. Assoc(nw, pw, g)
        BY <2>1, WiresAssocs
      <3> QED BY <1>4, <2>2, <2>3, <3>1 DEF Assoc
    <2>5. readNames(s) = Got(n, rest)
      BY <1>2, <2>1, <2>3 DEF Back, RNames
    <2>6. readPayload(rest) = Got(v, g)
      BY <1>3, <2>1, <2>2 DEF Back, RPayload
    <2>7. TagReads(2, s)
      BY <1>1, readOutcomeOf
    <2> QED BY <2>4, <2>5, <2>6, <2>7 DEF TagReads
  <1> QED BY <1>1, <1>4, <1>5, <1>6, GrownUnderstood DEF MayGrow

\* Records are understood, of any build.
LEMMA RecordsUnderstood ==
  ASSUME NEW b \in Builds, NEW r \in Records
  PROVE  Understood(writeOutcome(<<"Records", r>>, b), <<"Records", Said(r, b)>>)
  <1>1. 1 \in Cells
    BY CellsAre
  <1>2. PICK body \in Drafts :
          /\ body = RecordsDraft(r, b)
          /\ body \in Wires => \E left \in Wires : readRecords(body) = Got(Said(r, b), left)
    BY RecordsBack
  <1>3. writeOutcome(<<"Records", r>>, b) = <<1>> \o body
    BY <1>2, OutcomeTags DEF writeOutcome, RecordsDraft
  <1>4. PICK t \in Drafts : t = <<1>>
    BY SmallDrafts
  <1>5. t \o body \in Drafts /\ (t \o body \in Wires => body \in Wires)
    BY DraftsJoin
  <1>6. ASSUME body \in Wires
        PROVE  \E left \in Wires : readOutcome(<<1>> \o body) = Got(<<"Records", Said(r, b)>>, left)
    <2>1. PICK left \in Wires : readRecords(body) = Got(Said(r, b), left)
      BY <1>2, <1>6
    <2>2. TagReads(1, body)
      BY <1>1, <1>6, readOutcomeOf
    <2> QED BY <2>1, <2>2 DEF TagReads
  <1> QED BY <1>3, <1>4, <1>5, <1>6 DEF Understood

\* An outcome of a kind this build does not know is kept as it is.
LEMMA UnknownUnderstood ==
  ASSUME NEW b \in Builds, NEW c \in Cells, c > 4, NEW s \in Wires
  PROVE  Understood(writeOutcome(<<"Unknown", c, s>>, b), <<"Unknown", c, s>>)
  <1>1. writeOutcome(<<"Unknown", c, s>>, b) = <<c>> \o s
    BY DEF writeOutcome
  <1>2. PICK t \in Wires : t = <<c>>
    BY WiresJoin
  <1>3. t \o s \in Wires /\ t \o s \in Drafts
    BY WireJoined, DraftsJoin
  <1>4. readOutcome(<<c>> \o s) = Got(<<"Unknown", c, s>>, <<>>) /\ <<>> \in Wires
    <2>1. TagReads(c, s)
      BY readOutcomeOf
    <2> QED BY <2>1, WiresJoin DEF TagReads
  <1> QED BY <1>1, <1>2, <1>3, <1>4 DEF Understood

\* Whatever an outcome is and whatever build writes it, it is understood.
THEOREM OutcomeUnderstood ==
  ASSUME NEW o \in SomeOutcome, NEW b \in Builds
  PROVE  Understood(Grown(o, b), Meant(o, b))
  <1>1. CASE o = <<"Done">>
    <2>1. o[1] = "Done"
      BY <1>1
    <2> QED BY <1>1, <2>1, DoneGrows DEF MayGrow, Grown, Meant
  <1>2. CASE o \in {"Records"} \X Records
    <2>1. PICK r \in Records : o = <<"Records", r>>
      BY <1>2
    <2>2. o[1] = "Records" /\ o[2] = r
      BY <2>1
    <2> QED BY <2>1, <2>2, RecordsUnderstood DEF Grown, Meant
  <1>3. CASE o \in {"Value"} \X Names \X Value[Nesting]
    <2>1. PICK n \in Names, v \in Value[Nesting] : o = <<"Value", n, v>>
      BY <1>3
    <2>2. o[1] = "Value"
      BY <2>1
    <2> QED BY <2>1, <2>2, ValueGrows DEF MayGrow, Grown, Meant
  <1>4. CASE o \in {"Keys"} \X Seq(Texts)
    <2>1. PICK ks \in Seq(Texts) : o = <<"Keys", ks>>
      BY <1>4
    <2>2. o[1] = "Keys"
      BY <2>1
    <2> QED BY <2>1, <2>2, KeysGrow DEF MayGrow, Grown, Meant
  <1>5. CASE o \in {"Removed"} \X Cells
    <2>1. PICK n \in Cells : o = <<"Removed", n>>
      BY <1>5
    <2>2. o[1] = "Removed"
      BY <2>1
    <2> QED BY <2>1, <2>2, RemovedGrows DEF MayGrow, Grown, Meant
  <1>6. CASE o \in {"Unknown"} \X {c \in Cells : c > 4} \X Wires
    <2>1. PICK c \in Cells, s \in Wires : c > 4 /\ o = <<"Unknown", c, s>>
      BY <1>6
    <2>2. o[1] = "Unknown"
      BY <2>1
    <2> QED BY <2>1, <2>2, UnknownUnderstood DEF Grown, Meant
  <1> QED BY <1>1, <1>2, <1>3, <1>4, <1>5, <1>6 DEF SomeOutcome

-----------------------------------------------------------------------------
(***************************************************************************)
(* Answers.                                                                *)
(***************************************************************************)
RSliced == [s \in Wires |-> readSliced(s)]
RAnswer == [s \in Wires |-> readAnswer(s)]

\* An outcome is what is read of a slice, and of no more.
LEMMA readSlicedOf ==
  ASSUME NEW z \in Wires, lenbytes(z) \in Wires, NEW rest \in Wires
  PROVE  /\ lenbytes(z) \o rest \in Wires
         /\ RSliced[lenbytes(z) \o rest] =
              IF readOutcome(z).ok THEN Got(readOutcome(z).value, rest) ELSE Failed
  <1>1. PICK s \in Wires : s = lenbytes(z) \o rest
    BY WireJoined
  <1>2. Back(RLenbytes, z, lenbytes(z))
    <2>1. WLenbytes[z] = lenbytes(z)
      BY DEF WLenbytes
    <2> QED BY <2>1, LenbytesUndoes DEF Undoes
  <1>3. readLenbytes(s) = Got(z, rest)
    BY <1>1, <1>2 DEF Back, RLenbytes
  <1>4. PICK r : r = readLenbytes(s)
    OBVIOUS
  <1>5. r.ok /\ r.value = z /\ r.rest = rest
    BY <1>3, <1>4, GotIs
  <1>6. PICK o : o = readOutcome(z)
    OBVIOUS
  <1>7. readSliced(s) = IF o.ok THEN Got(o.value, rest) ELSE Failed
    BY <1>4, <1>5, <1>6 DEF readSliced, Then
  <1> QED BY <1>1, <1>6, <1>7 DEF RSliced

\* What may be read of a slice.
Readings == {readOutcome(z).value : z \in Wires}

\* An outcome in its slice is read alike whatever follows it.
LEMMA readSlicedReads == Reads(RSliced, Readings)
  <1> DEFINE h == [z \in Wires |-> [s \in Wires |->
                     IF readOutcome(z).ok THEN Got(readOutcome(z).value, s) ELSE Failed]]
  <1>1. Reads(RLenbytes, Wires)
    <2>1. Reads(RLenbytes, {b \in Wires : WLenbytes[b] \in Wires})
      BY LenbytesUndoes DEF Undoes
    <2>2. {b \in Wires : WLenbytes[b] \in Wires} \subseteq Wires
      OBVIOUS
    <2> QED BY <2>1, <2>2, ReadsMore
  <1>2. FollowedBy(RSliced, RLenbytes, h, Wires)
    <2>1. ASSUME NEW s \in Wires, RLenbytes[s] = Failed PROVE RSliced[s] = Failed
      BY <2>1, GotIs DEF RSliced, RLenbytes, readSliced, Then
    <2>2. ASSUME NEW s \in Wires, NEW z \in Wires, NEW rest \in Wires, RLenbytes[s] = Got(z, rest)
          PROVE  RSliced[s] = h[z][rest]
      <3>1. PICK r : r = readLenbytes(s)
        OBVIOUS
      <3>2. r.ok /\ r.value = z /\ r.rest = rest
        BY <2>2, <3>1, GotIs DEF RLenbytes
      <3>3. PICK o : o = readOutcome(z)
        OBVIOUS
      <3>4. readSliced(s) = IF o.ok THEN Got(o.value, rest) ELSE Failed
        BY <3>1, <3>2, <3>3 DEF readSliced, Then
      <3>5. h[z][rest] = IF o.ok THEN Got(o.value, rest) ELSE Failed
        BY <3>3
      <3> HIDE DEF h
      <3> QED BY <3>4, <3>5 DEF RSliced
    <2> HIDE DEF h
    <2> QED BY <2>1, <2>2 DEF FollowedBy
  <1>3. ASSUME NEW z \in Wires PROVE Reads(h[z], Readings)
    <2>1. CASE readOutcome(z).ok
      <3>1. PICK u \in Readings : u = readOutcome(z).value
        BY DEF Readings
      <3>2. h[z] = [s \in Wires |-> Got(u, s)]
        BY <2>1, <3>1
      <3> QED BY <3>2, PutReads
    <2>2. CASE ~readOutcome(z).ok
      <3>1. h[z] = [s \in Wires |-> Failed]
        BY <2>2
      <3> QED BY <3>1, FailReads
    <2> QED BY <2>1, <2>2
  <1> HIDE DEF h
  <1> QED BY <1>1, <1>2, <1>3, ThenReads

\* An answer is outcomes behind their count.
LEMMA readAnswerCounts == CountedBy(RAnswer, RSliced)
  <1>1. ASSUME NEW s \in Wires, readCell(s) = Failed PROVE RAnswer[s] = Failed
    BY <1>1, GotIs DEF RAnswer, readAnswer, Counted, Then
  <1>2. ASSUME NEW s \in Wires, NEW n \in Cells, NEW rest \in Wires, readCell(s) = Got(n, rest)
        PROVE  RAnswer[s] = Repeated(RSliced, n, rest)
    <2>1. readCell(s).ok /\ readCell(s).value = n /\ readCell(s).rest = rest
      BY <1>2, GotIs
    <2> QED BY <2>1 DEF RAnswer, RSliced, readAnswer, Counted, Then
  <1> QED BY <1>1, <1>2 DEF CountedBy, FollowedBy, Repeats

\* An answer is read alike whatever follows it.
LEMMA readAnswerReads == Reads(RAnswer, Few(Readings))
  BY readAnswerCounts, readSlicedReads, CountedReads

WSliced(b) == [o \in SomeOutcome |-> lenbytes(Grown(o, b))]
WAnswer(b) == [a \in Seq(SomeOutcome) |-> writeAnswer(a, b)]

LEMMA writeAnswerCounts ==
  ASSUME NEW b \in Builds
  PROVE  Counts(SomeOutcome, WSliced(b), WAnswer(b))
  <1>1. ASSUME NEW a \in Seq(SomeOutcome)
        PROVE  WAnswer(b)[a] = <<Len(a)>> \o FlattenSeq([i \in 1 .. Len(a) |-> WSliced(b)[a[i]]])
    <2>1. \A i \in 1 .. Len(a) : a[i] \in SomeOutcome
      BY ElementOfSeq
    <2>2. [i \in 1 .. Len(a) |-> WSliced(b)[a[i]]] = [i \in 1 .. Len(a) |-> lenbytes(Grown(a[i], b))]
      BY <2>1 DEF WSliced
    <2> QED BY <2>2 DEF WAnswer, writeAnswer, Each
  <1> QED BY <1>1 DEF Counts

\* A slice of a wire is one.
LEMMA SliceDraft ==
  ASSUME NEW z \in Drafts
  PROVE  lenbytes(z) \in Drafts /\ (lenbytes(z) \in Wires => z \in Wires /\ Len(z) \in Cells)
  <1>1. Len(z) \in Int
    BY LenProperties DEF Drafts
  <1>2. PICK n \in Drafts : n = <<Len(z)>> /\ (n \in Wires <=> Len(z) \in Cells)
    BY <1>1, DraftsJoin
  <1>3. n \o z \in Drafts /\ (n \o z \in Wires => n \in Wires /\ z \in Wires)
    BY DraftsJoin
  <1> QED BY <1>2, <1>3 DEF lenbytes

\* The slices of an answer that can be sent, each of them an outcome that is
\* understood.
AreSlices(ws, a, b) ==
  /\ Len(a) \in Cells /\ Len(a) \in Nat
  /\ ws \in Seq(Wires) /\ Len(ws) = Len(a)
  /\ writeAnswer(a, b) = <<Len(a)>> \o FlattenSeq(ws)
  /\ \A i \in 1 .. Len(a) : /\ Grown(a[i], b) \in Wires /\ Len(Grown(a[i], b)) \in Cells
                            /\ ws[i] = lenbytes(Grown(a[i], b))
                            /\ Back(RSliced, Meant(a[i], b), ws[i])

\* An answer that can be sent is its slices, written and read.
LEMMA AnswerSlices ==
  ASSUME NEW a \in Seq(SomeOutcome), NEW b \in Builds, writeAnswer(a, b) \in Wires,
         NEW ws, ws = [i \in 1 .. Len(a) |-> lenbytes(Grown(a[i], b))]
  PROVE  AreSlices(ws, a, b)
  <1>1. Len(a) \in Nat /\ \A i \in 1 .. Len(a) : a[i] \in SomeOutcome
    BY LenProperties, ElementOfSeq
  <1>2. \A o \in SomeOutcome : Grown(o, b) \in Drafts
    BY OutcomeUnderstood DEF Understood
  <1>3. \A o \in SomeOutcome : WSliced(b)[o] \in Drafts
    BY <1>2, SliceDraft DEF WSliced
  <1>4. WAnswer(b)[a] \in Wires
    BY DEF WAnswer
  <1>5. Len(a) \in Cells /\ \A i \in 1 .. Len(a) : WSliced(b)[a[i]] \in Wires
    BY <1>3, <1>4, writeAnswerCounts, CountsIn
  <1>6. \A i \in 1 .. Len(a) : ws[i] = lenbytes(Grown(a[i], b)) /\ ws[i] \in Wires
    BY <1>1, <1>5 DEF WSliced
  <1>7. ws \in Seq(Wires) /\ Len(ws) = Len(a)
    BY <1>1, <1>6
  <1>8. writeAnswer(a, b) = <<Len(a)>> \o FlattenSeq(ws)
    BY DEF writeAnswer, Each
  <1>9. ASSUME NEW i \in 1 .. Len(a)
        PROVE  /\ Grown(a[i], b) \in Wires /\ Len(Grown(a[i], b)) \in Cells
               /\ Back(RSliced, Meant(a[i], b), ws[i])
    <2>1. PICK o \in SomeOutcome : o = a[i]
      BY <1>1
    <2>2. PICK z \in Drafts : z = Grown(o, b)
      BY <1>2
    <2>3. lenbytes(z) \in Wires /\ z \in Wires /\ Len(z) \in Cells
      BY <1>6, <2>1, <2>2, SliceDraft
    <2>4. PICK left \in Wires : readOutcome(z) = Got(Meant(o, b), left)
      BY <2>2, <2>3, OutcomeUnderstood DEF Understood
    <2>5. readOutcome(z).ok /\ readOutcome(z).value = Meant(o, b)
      BY <2>4, GotIs
    <2>6. Back(RSliced, Meant(o, b), lenbytes(z))
      BY <2>3, <2>5, readSlicedOf DEF Back
    <2> QED BY <1>6, <2>1, <2>2, <2>3, <2>6
  <1> QED BY <1>1, <1>5, <1>6, <1>7, <1>8, <1>9 DEF AreSlices

MeantAll(a, b) == [i \in 1 .. Len(a) |-> Meant(a[i], b)]

\* An answer is read back as it is meant.
LEMMA AnswerBack ==
  ASSUME NEW a \in Seq(SomeOutcome), NEW b \in Builds, writeAnswer(a, b) \in Wires
  PROVE  Back(RAnswer, MeantAll(a, b), writeAnswer(a, b))
  <1>1. PICK ws : ws = [i \in 1 .. Len(a) |-> lenbytes(Grown(a[i], b))]
    OBVIOUS
  <1>2. /\ Len(a) \in Cells /\ Len(a) \in Nat
        /\ ws \in Seq(Wires) /\ Len(ws) = Len(a)
        /\ writeAnswer(a, b) = <<Len(a)>> \o FlattenSeq(ws)
        /\ \A i \in 1 .. Len(a) : Back(RSliced, Meant(a[i], b), ws[i])
    <2>1. AreSlices(ws, a, b)
      BY <1>1, AnswerSlices
    <2> QED BY <2>1, Zenon DEF AreSlices
  <1>3. PICK vs : vs = MeantAll(a, b)
    OBVIOUS
  <1>4. PICK T : T = {vs[i] : i \in 1 .. Len(a)}
    OBVIOUS
  <1>5. vs \in Seq(T) /\ Len(vs) = Len(a) /\ \A i \in 1 .. Len(a) : vs[i] = Meant(a[i], b)
    BY <1>2, <1>3, <1>4 DEF MeantAll
  <1>6. vs \in Few(T)
    BY <1>2, <1>5 DEF Few
  <1>7. Back(RAnswer, vs, <<Len(vs)>> \o FlattenSeq(ws))
    BY <1>2, <1>5, <1>6, readAnswerCounts, CountedBack
  <1> QED BY <1>2, <1>3, <1>5, <1>7

StartsWith(u, p) == Len(p) <= Len(u) /\ \A i \in 1 .. Len(p) : u[i] = p[i]

GoesOn(S, u, p) ==
  \E r \in Seq(S) : /\ u = p \o r
                    /\ Len(r) = Len(u) - Len(p)
                    /\ \A i \in 1 .. Len(r) : r[i] = u[Len(p) + i]

\* A sequence that starts with another goes on with what stands behind it.
LEMMA SplitAs ==
  ASSUME NEW S, NEW u \in Seq(S), NEW p \in Seq(S), StartsWith(u, p)
  PROVE  GoesOn(S, u, p)
  <1> USE DEF StartsWith
  <1>1. PICK n \in Nat : n = Len(p)
    BY LenProperties
  <1>2. Len(u) \in Nat /\ \A i \in 1 .. Len(u) : u[i] \in S
    BY LenProperties, ElementOfSeq
  <1>3. PICK f : f = SubSeq(u, 1, n)
    OBVIOUS
  <1>4. PICK r : r = SubSeq(u, n + 1, Len(u))
    OBVIOUS
  <1>5. f \in Seq(S) /\ Len(f) = n /\ r \in Seq(S) /\ u = f \o r
    BY <1>1, <1>3, <1>4, SplitAt
  <1>6. f = p
    <2>1. \A i \in 1 .. n : f[i] = u[i]
      BY <1>1, <1>2, <1>3, SubSeqProperties
    <2> QED BY <1>1, <1>5, <2>1, SeqEqual
  <1>7. Len(r) \in Nat /\ Len(u) = n + Len(r)
    BY <1>5, ConcatProperties, LenProperties
  <1>8. ASSUME NEW i \in 1 .. Len(r) PROVE r[i] = u[n + i]
    <2>1. (f \o r)[n + i] = IF n + i <= n THEN f[n + i] ELSE r[(n + i) - n]
      <3>1. n + i \in 1 .. Len(f) + Len(r)
        BY <1>5, <1>7
      <3> QED BY <1>5, <3>1, ConcatProperties
    <2>2. ~(n + i <= n) /\ (n + i) - n = i
      BY <1>7
    <2> QED BY <1>5, <2>1, <2>2
  <1> QED BY <1>1, <1>5, <1>6, <1>7, <1>8 DEF GoesOn

\* u has p before and q behind m elements.
Embraces(u, p, m, q) ==
  /\ Len(u) = Len(p) + (m + Len(q))
  /\ \A i \in 1 .. Len(p) : u[i] = p[i]
  /\ \A i \in 1 .. Len(q) : u[Len(p) + (m + i)] = q[i]

HasMiddle(S, u, p, m, q) == \E z \in Seq(S) : Len(z) = m /\ u = p \o (z \o q)

\* A sequence that is as another at both ends differs from it in between alone.
LEMMA MiddleSame ==
  ASSUME NEW S, NEW u \in Seq(S), NEW p \in Seq(S), NEW m \in Nat, NEW q \in Seq(S),
         Embraces(u, p, m, q)
  PROVE  HasMiddle(S, u, p, m, q)
  <1> USE DEF Embraces
  <1>1. Len(p) \in Nat /\ Len(q) \in Nat
    BY LenProperties
  <1>2. PICK r \in Seq(S) : /\ u = p \o r
                            /\ Len(r) = m + Len(q)
                            /\ \A i \in 1 .. Len(r) : r[i] = u[Len(p) + i]
    <2>1. Len(p) <= Len(u) /\ Len(u) - Len(p) = m + Len(q)
      BY <1>1
    <2>2. StartsWith(u, p)
      BY <2>1 DEF StartsWith
    <2>3. GoesOn(S, u, p)
      BY <2>2, SplitAs
    <2> QED BY <2>1, <2>3 DEF GoesOn
  <1>3. PICK z : z = SubSeq(r, 1, m)
    OBVIOUS
  <1>4. z \in Seq(S) /\ Len(z) = m
    BY <1>1, <1>2, <1>3, SplitAt
  <1>5. \A i \in 1 .. m : z[i] = r[i]
    <2>1. \A i \in 1 .. m : r[i] \in S
      BY <1>1, <1>2, ElementOfSeq
    <2> QED BY <1>3, <2>1, SubSeqProperties
  <1>6. PICK t \in Seq(S) : /\ r = z \o t
                            /\ Len(t) = Len(q)
                            /\ \A i \in 1 .. Len(t) : t[i] = r[m + i]
    <2>1. Len(z) <= Len(r) /\ Len(r) - Len(z) = Len(q)
      BY <1>1, <1>2, <1>4
    <2>2. \A i \in 1 .. Len(z) : r[i] = z[i]
      BY <1>4, <1>5
    <2>3. StartsWith(r, z)
      BY <2>1, <2>2 DEF StartsWith
    <2>4. GoesOn(S, r, z)
      BY <1>4, <2>3, SplitAs
    <2> QED BY <1>4, <2>1, <2>4 DEF GoesOn
  <1>7. ASSUME NEW i \in 1 .. Len(t) PROVE t[i] = q[i]
    <2>1. m + i \in 1 .. Len(r) /\ i \in 1 .. Len(q)
      BY <1>1, <1>2, <1>6
    <2> QED BY <1>2, <1>6, <2>1
  <1>8. t = q
    BY <1>6, <1>7, SeqEqual
  <1> QED BY <1>2, <1>4, <1>6, <1>8 DEF HasMiddle

\* An element of a sequence stands between those before and those behind it.
LEMMA SeqAround ==
  ASSUME NEW S, NEW s \in Seq(S), NEW j \in 1 .. Len(s)
  PROVE  /\ SubSeq(s, 1, j - 1) \in Seq(S) /\ Len(SubSeq(s, 1, j - 1)) = j - 1
         /\ SubSeq(s, j + 1, Len(s)) \in Seq(S)
         /\ s[j] \in S
         /\ s = SubSeq(s, 1, j - 1) \o (<<s[j]>> \o SubSeq(s, j + 1, Len(s)))
  <1>1. Len(s) \in Nat /\ j \in Nat /\ j <= Len(s) /\ j > 0
    BY LenProperties
  <1>2. PICK k \in Nat : k = j - 1
    BY <1>1
  <1>3. PICK f : f = SubSeq(s, 1, k)
    OBVIOUS
  <1>4. PICK b : b = SubSeq(s, j + 1, Len(s))
    OBVIOUS
  <1>5. k + 1 = j /\ k + 1 <= Len(s) /\ k <= Len(s)
    BY <1>1, <1>2
  <1>6. f \in Seq(S) /\ Len(f) = k /\ s[j] \in S /\ SubSeq(s, 1, j) = Append(f, s[j])
    BY <1>3, <1>5, OneMore
  <1>7. b \in Seq(S) /\ s = SubSeq(s, 1, j) \o b
    BY <1>1, <1>4, SplitAt
  <1>8. PICK e \in Seq(S) : e = <<s[j]>>
    <2>1. PICK x \in S : x = s[j]
      BY <1>6
    <2>2. <<x>> \in Seq(S)
      OBVIOUS
    <2> QED BY <2>1, <2>2
  <1>9. Append(f, s[j]) = f \o e
    BY <1>6, <1>8, AppendIsConcat
  <1>10. (f \o e) \o b = f \o (e \o b)
    BY <1>6, <1>7, <1>8, ConcatAssociative
  <1> QED BY <1>2, <1>3, <1>4, <1>6, <1>7, <1>8, <1>9, <1>10

JoinsAround(ws, j, y, f, q) ==
  /\ f \in Wires /\ q \in Wires
  /\ FlattenSeq([ws EXCEPT ![j] = y]) = f \o (y \o q)

\* The join of pieces, one of which is another.
LEMMA FlattenAround ==
  ASSUME NEW ws \in Seq(Wires), NEW j \in 1 .. Len(ws), NEW y \in Wires
  PROVE  JoinsAround(ws, j, y, FlattenSeq(SubSeq(ws, 1, j - 1)),
                     FlattenSeq(SubSeq(ws, j + 1, Len(ws))))
  <1>0. PICK vs : vs = [ws EXCEPT ![j] = y]
    OBVIOUS
  <1>1. Len(ws) \in Nat /\ j \in Nat /\ j <= Len(ws) /\ j > 0
    BY LenProperties
  <1>2. /\ vs \in Seq(Wires) /\ Len(vs) = Len(ws)
        /\ \A i \in 1 .. Len(ws) : vs[i] = IF i = j THEN y ELSE ws[i]
    BY <1>0, ExceptSeq
  <1>3. PICK f : f = SubSeq(ws, 1, j - 1)
    OBVIOUS
  <1>4. PICK b : b = SubSeq(ws, j + 1, Len(ws))
    OBVIOUS
  <1>5. f \in Seq(Wires) /\ Len(f) = j - 1 /\ b \in Seq(Wires)
    BY <1>3, <1>4, SeqAround
  <1>6. SubSeq(vs, 1, j - 1) = f
    <2>1. SubSeq(vs, 1, j - 1) \in Seq(Wires) /\ Len(SubSeq(vs, 1, j - 1)) = j - 1
      BY <1>1, <1>2, SeqAround
    <2>2. \A i \in 1 .. j - 1 : ws[i] \in Wires /\ vs[i] \in Wires /\ vs[i] = ws[i]
      BY <1>1, <1>2, ElementOfSeq
    <2>3. \A i \in 1 .. j - 1 : f[i] = ws[i]
      BY <1>1, <1>3, <2>2, SubSeqProperties
    <2>4. \A i \in 1 .. j - 1 : SubSeq(vs, 1, j - 1)[i] = vs[i]
      BY <1>1, <2>2, SubSeqProperties
    <2> QED BY <1>5, <2>1, <2>2, <2>3, <2>4, SeqEqual
  <1>7. SubSeq(vs, j + 1, Len(vs)) = b
    <2>1. SubSeq(vs, j + 1, Len(vs)) \in Seq(Wires)
      BY <1>1, <1>2, SeqAround
    <2>2. \A i \in j + 1 .. Len(ws) : ws[i] \in Wires /\ vs[i] \in Wires /\ vs[i] = ws[i]
      BY <1>1, <1>2, ElementOfSeq
    <2>3. /\ Len(b) = IF j + 1 <= Len(ws) THEN Len(ws) - (j + 1) + 1 ELSE 0
          /\ \A i \in 1 .. Len(ws) - (j + 1) + 1 : b[i] = ws[j + 1 + i - 1]
      BY <1>1, <1>4, <2>2, SubSeqProperties
    <2>4. PICK d : d = SubSeq(vs, j + 1, Len(ws))
      OBVIOUS
    <2>5. /\ Len(d) = IF j + 1 <= Len(ws) THEN Len(ws) - (j + 1) + 1 ELSE 0
          /\ \A i \in 1 .. Len(ws) - (j + 1) + 1 : d[i] = vs[j + 1 + i - 1]
      BY <1>1, <2>2, <2>4, SubSeqProperties
    <2>6. ASSUME NEW i \in 1 .. Len(b) PROVE d[i] = b[i]
      <3>1. i \in 1 .. Len(ws) - (j + 1) + 1 /\ j + 1 + i - 1 \in j + 1 .. Len(ws)
        BY <1>1, <2>3
      <3> QED BY <2>2, <2>3, <2>5, <3>1
    <2>7. d \in Seq(Wires) /\ Len(d) = Len(b)
      BY <1>2, <2>1, <2>3, <2>4, <2>5
    <2> QED BY <1>2, <1>5, <2>4, <2>6, <2>7, SeqEqual
  <1>8. vs = f \o (<<y>> \o b)
    <2>1. j \in 1 .. Len(vs) /\ vs[j] = y
      BY <1>2
    <2>2. vs \in Seq(Wires)
      BY <1>2
    <2>3. vs = SubSeq(vs, 1, j - 1) \o (<<vs[j]>> \o SubSeq(vs, j + 1, Len(vs)))
      BY <2>1, <2>2, SeqAround
    <2> QED BY <1>6, <1>7, <2>1, <2>3
  <1>9. f \in Seq(Seq(Cells)) /\ b \in Seq(Seq(Cells)) /\ <<y>> \in Seq(Seq(Cells)) /\ y \in Seq(Cells)
    BY <1>5 DEF Wires
  <1>10. <<y>> \o b \in Seq(Seq(Cells))
    BY <1>9, ConcatProperties
  <1>11. FlattenSeq(f \o (<<y>> \o b)) = FlattenSeq(f) \o FlattenSeq(<<y>> \o b)
    BY <1>9, <1>10, FlattenJoin
  <1>12. FlattenSeq(<<y>> \o b) = FlattenSeq(<<y>>) \o FlattenSeq(b)
    BY <1>9, FlattenJoin
  <1>13. FlattenSeq(<<y>>) = y
    <2>1. <<>> \in Seq(Seq(Cells)) /\ Append(<<>>, y) = <<y>>
      BY EmptySeq
    <2>2. FlattenSeq(Append(<<>>, y)) = FlattenSeq(<<>>) \o y
      BY <1>9, <2>1, FlattenAppend
    <2> QED BY <2>1, <2>2, FlattenEmpty, WiresJoin
  <1>14. FlattenSeq(f) \in Wires /\ FlattenSeq(b) \in Wires
    BY <1>9, FlattenType DEF Wires
  <1> QED BY <1>0, <1>3, <1>4, <1>8, <1>11, <1>12, <1>13, <1>14 DEF JoinsAround

\* What is not read of the first items is not read of more.
LEMMA RepeatedStuck ==
  ASSUME NEW item, NEW s, NEW k \in Nat, Repeated(item, k, s) = Failed
  PROVE  \A n \in Nat : n >= k => Repeated(item, n, s) = Failed
  <1> DEFINE S == {n \in Nat : n >= k => Repeated(item, n, s) = Failed}
  <1>1. 0 \in S
    OBVIOUS
  <1>2. ASSUME NEW n \in Nat, n \in S PROVE n + 1 \in S
    <2>1. Repeated(item, n + 1, s) = NextRead(Repeated(item, n, s), item)
      BY RepeatedOf
    <2>2. NextRead(Failed, item) = Failed
      BY GotIs DEF NextRead, Then
    <2>3. n + 1 >= k => n + 1 = k \/ n >= k
      OBVIOUS
    <2> QED BY <1>2, <2>1, <2>2, <2>3
  <1> HIDE DEF S
  <1>3. Nat \subseteq S
    BY <1>1, <1>2, SetInduction
  <1> QED BY <1>3 DEF S

\* The slices of the answer.
Slices == [i \in 1 .. Len(answer) |-> lenbytes(Grown(answer[i], build))]

\* The answer before, in and behind the slice of one of its outcomes.
Sliced(j, p, z, q) ==
  /\ p = <<Len(answer)>> \o FlattenSeq(SubSeq(Slices, 1, j - 1))
  /\ q = FlattenSeq(SubSeq(Slices, j + 1, Len(Slices)))
  /\ z = Grown(answer[j], build)
  /\ Len(z) \in Cells
  /\ writeAnswer(answer, build) = p \o (lenbytes(z) \o q)

CanBeSent ==
  answer \in Seq(SomeOutcome) /\ build \in Builds /\ writeAnswer(answer, build) \in Wires

\* Where the body of an outcome stands.
LEMMA BodyIs ==
  ASSUME CanBeSent, NEW j \in 1 .. Len(answer)
  PROVE  \E p, z, q \in Wires :
           Sliced(j, p, z, q) /\ BodyOf(j) = Len(p) + 2 .. Len(p) + (1 + Len(z))
  <1>1. PICK ws : ws = Slices
    OBVIOUS
  <1>2. /\ Len(answer) \in Cells /\ Len(answer) \in Nat
        /\ ws \in Seq(Wires) /\ Len(ws) = Len(answer)
        /\ writeAnswer(answer, build) = <<Len(answer)>> \o FlattenSeq(ws)
        /\ \A i \in 1 .. Len(answer) : /\ Grown(answer[i], build) \in Wires
                                       /\ Len(Grown(answer[i], build)) \in Cells
                                       /\ ws[i] = lenbytes(Grown(answer[i], build))
    <2>1. AreSlices(ws, answer, build)
      BY <1>1, AnswerSlices DEF Slices, CanBeSent
    <2> QED BY <2>1, Zenon DEF AreSlices
  <1>3. PICK z \in Wires : z = Grown(answer[j], build) /\ Len(z) \in Cells
    BY <1>2
  <1>4. ws[j] = lenbytes(z) /\ lenbytes(z) \in Wires
    BY <1>2, <1>3, ElementOfSeq
  <1>5. [ws EXCEPT ![j] = ws[j]] = ws
    BY <1>2
  <1>6. PICK f : f = FlattenSeq(SubSeq(ws, 1, j - 1))
    OBVIOUS
  <1>7. PICK q : q = FlattenSeq(SubSeq(ws, j + 1, Len(ws)))
    OBVIOUS
  <1>8. f \in Wires /\ q \in Wires /\ FlattenSeq(ws) = f \o (lenbytes(z) \o q)
    <2>1. JoinsAround(ws, j, lenbytes(z), f, q)
      BY <1>2, <1>4, <1>6, <1>7, FlattenAround
    <2> QED BY <1>4, <1>5, <2>1 DEF JoinsAround
  <1>9. PICK n \in Wires : n = <<Len(answer)>>
    BY <1>2, WiresJoin
  <1>10. PICK y \in Wires : y = lenbytes(z) \o q
    BY <1>4, <1>8, WireJoined
  <1>11. PICK p \in Wires : p = n \o f
    BY <1>8, WireJoined
  <1>12. Assoc(n, f, y)
    BY <1>8, WiresAssocs
  <1>13. writeAnswer(answer, build) = p \o y
    BY <1>2, <1>8, <1>9, <1>10, <1>11, <1>12 DEF Assoc
  <1>14. Sliced(j, p, z, q)
    BY <1>1, <1>3, <1>6, <1>7, <1>9, <1>10, <1>11, <1>13 DEF Sliced
  <1>15. BodyOf(j) = Len(p) + 2 .. Len(p) + (1 + Len(z))
    <2>1. PICK fs : fs = [i \in 1 .. j - 1 |-> lenbytes(Grown(answer[i], build))]
      OBVIOUS
    <2>2. j \in Nat /\ j - 1 \in Nat /\ j <= Len(ws)
      BY <1>2
    <2>3. \A i \in 1 .. j - 1 : fs[i] = ws[i] /\ ws[i] \in Wires
      BY <1>2, <2>1, <2>2, ElementOfSeq
    <2>4. fs \in Seq(Wires) /\ Len(fs) = j - 1
      BY <2>1, <2>2, <2>3
    <2>5. SubSeq(ws, 1, j - 1) \in Seq(Wires) /\ Len(SubSeq(ws, 1, j - 1)) = j - 1
      BY <1>2, SeqAround
    <2>6. \A i \in 1 .. j - 1 : SubSeq(ws, 1, j - 1)[i] = ws[i]
      BY <2>2, <2>3, SubSeqProperties
    <2>7. fs = SubSeq(ws, 1, j - 1)
      BY <2>3, <2>4, <2>5, <2>6, SeqEqual
    <2>8. Len(p) = 1 + Len(f) /\ Len(f) \in Nat /\ Len(n) = 1
      BY <1>8, <1>9, <1>11, ConcatProperties, LenProperties DEF Wires
    <2>9. Len(lenbytes(z)) = 1 + Len(z) /\ Len(z) \in Nat
      <3>1. PICK m \in Wires : m = <<Len(z)>>
        <4>1. PICK l \in Cells : l = Len(z)
          BY <1>3
        <4>2. <<l>> \in Wires
          BY WiresJoin
        <4> QED BY <4>1, <4>2
      <3>2. Len(m) = 1 /\ Len(z) \in Nat
        BY <3>1, LenProperties DEF Wires
      <3>3. Len(m \o z) = 1 + Len(z)
        <4>1. m \in Seq(Cells) /\ z \in Seq(Cells)
          BY DEF Wires
        <4>2. Len(m \o z) = Len(m) + Len(z)
          BY <4>1, ConcatProperties, Zenon
        <4> QED BY <3>2, <4>2
      <3> QED BY <3>1, <3>2, <3>3 DEF lenbytes
    <2>10. PICK before : before = 1 + Len(FlattenSeq(fs))
      OBVIOUS
    <2>11. before = Len(p)
      BY <1>6, <2>7, <2>8, <2>10
    <2>12. BodyOf(j) = before + 2 .. before + Len(lenbytes(z))
      BY <1>3, <2>1, <2>10 DEF BodyOf
    <2> QED BY <2>9, <2>11, <2>12
  <1> QED BY <1>8, <1>14, <1>15

\* What differs from the answer in the body of one outcome alone.
DiffersIn(u, j) ==
  /\ Len(u) = Len(writeAnswer(answer, build))
  /\ {i \in 1 .. Len(u) : u[i] # writeAnswer(answer, build)[i]} \subseteq BodyOf(j)

\* It is the answer with another body as long.
LEMMA DiffersIs ==
  ASSUME CanBeSent, NEW j \in 1 .. Len(answer), NEW u \in Wires, DiffersIn(u, j)
  PROVE  \E y \in Wires : /\ lenbytes(y) \in Wires
                          /\ u = <<Len(answer)>> \o FlattenSeq([Slices EXCEPT ![j] = lenbytes(y)])
  <1>1. PICK p, z, q \in Wires :
          Sliced(j, p, z, q) /\ BodyOf(j) = Len(p) + 2 .. Len(p) + (1 + Len(z))
    BY BodyIs
  <1>2. PICK w \in Wires : w = writeAnswer(answer, build)
    BY DEF CanBeSent
  <1>3. PICK c \in Wires : c = <<Len(z)>> /\ Len(c) = 1
    <2>1. Len(<<Len(z)>>) = 1
      OBVIOUS
    <2> QED BY <1>1, <2>1, WiresJoin DEF Sliced
  <1>4. PICK pc \in Wires : pc = p \o c
    BY WireJoined
  <1>5. PICK zq \in Wires : zq = z \o q
    BY WireJoined
  <1>6. w = pc \o zq
    <2>1. w = p \o ((c \o z) \o q)
      BY <1>1, <1>2, <1>3 DEF Sliced, lenbytes
    <2>2. Assoc(c, z, q) /\ Assoc(p, c, zq)
      BY WiresAssocs
    <2> QED BY <1>4, <1>5, <2>1, <2>2 DEF Assoc
  <1>7. /\ Len(p) \in Nat /\ Len(z) \in Nat /\ Len(q) \in Nat /\ Len(u) \in Nat
        /\ Len(pc) = Len(p) + 1 /\ Len(zq) = Len(z) + Len(q)
        /\ Len(w) = Len(pc) + Len(zq)
    BY <1>3, <1>4, <1>5, <1>6, ConcatProperties, LenProperties DEF Wires
  <1>8. Len(u) = Len(w) /\ \A i \in 1 .. Len(w) :
          i < Len(p) + 2 \/ i > Len(p) + (1 + Len(z)) => u[i] = w[i]
    <2>1. Len(u) = Len(w)
      BY <1>2 DEF DiffersIn
    <2>2. ASSUME NEW i \in 1 .. Len(w), i < Len(p) + 2 \/ i > Len(p) + (1 + Len(z))
          PROVE  u[i] = w[i]
      <3>1. i \notin BodyOf(j)
        BY <1>1, <1>7, <2>2
      <3> QED BY <1>2, <2>1, <3>1 DEF DiffersIn
    <2> QED BY <2>1, <2>2
  <1>9. /\ \A i \in 1 .. Len(pc) : w[i] = pc[i]
        /\ \A i \in 1 .. Len(zq) : w[Len(pc) + i] = zq[i]
    <2>1. \A i \in 1 .. Len(pc) + Len(zq) :
            w[i] = IF i <= Len(pc) THEN pc[i] ELSE zq[i - Len(pc)]
      BY <1>6, ConcatProperties DEF Wires
    <2>2. ASSUME NEW i \in 1 .. Len(zq) PROVE w[Len(pc) + i] = zq[i]
      <3>1. Len(pc) + i \in 1 .. Len(pc) + Len(zq) /\ ~(Len(pc) + i <= Len(pc)) /\ Len(pc) + i - Len(pc) = i
        BY <1>7
      <3> QED BY <2>1, <3>1
    <2>3. ASSUME NEW i \in 1 .. Len(pc) PROVE w[i] = pc[i]
      <3>1. i \in 1 .. Len(pc) + Len(zq) /\ i <= Len(pc)
        BY <1>7
      <3> QED BY <2>1, <3>1
    <2> QED BY <2>2, <2>3
  <1>10. ASSUME NEW i \in 1 .. Len(q) PROVE zq[Len(z) + i] = q[i]
    <2>1. \A k \in 1 .. Len(z) + Len(q) : zq[k] = IF k <= Len(z) THEN z[k] ELSE q[k - Len(z)]
      BY <1>5, ConcatProperties DEF Wires
    <2>2. Len(z) + i \in 1 .. Len(z) + Len(q) /\ ~(Len(z) + i <= Len(z)) /\ Len(z) + i - Len(z) = i
      BY <1>7
    <2> QED BY <2>1, <2>2
  <1>11. \A i \in 1 .. Len(pc) : u[i] = pc[i]
    <2> SUFFICES ASSUME NEW i \in 1 .. Len(pc) PROVE u[i] = pc[i]
      OBVIOUS
    <2>1. i \in 1 .. Len(w) /\ i < Len(p) + 2
      BY <1>7
    <2> QED BY <1>8, <1>9, <2>1
  <1>12. \A i \in 1 .. Len(q) : u[Len(pc) + (Len(z) + i)] = q[i]
    <2> SUFFICES ASSUME NEW i \in 1 .. Len(q) PROVE u[Len(pc) + (Len(z) + i)] = q[i]
      OBVIOUS
    <2>1. PICK k \in 1 .. Len(zq) : k = Len(z) + i
      BY <1>7
    <2>2. Len(pc) + k \in 1 .. Len(w) /\ Len(pc) + k > Len(p) + (1 + Len(z))
      BY <1>7, <2>1
    <2>3. u[Len(pc) + k] = zq[k]
      BY <1>8, <1>9, <2>2
    <2> QED BY <1>10, <2>1, <2>3
  <1>13. PICK y \in Wires : Len(y) = Len(z) /\ u = pc \o (y \o q)
    <2>1. Len(u) = Len(pc) + (Len(z) + Len(q))
      BY <1>7, <1>8
    <2>2. u \in Seq(Cells) /\ pc \in Seq(Cells) /\ q \in Seq(Cells)
      BY DEF Wires
    <2>3. \E y \in Seq(Cells) : Len(y) = Len(z) /\ u = pc \o (y \o q)
      <3>1. Embraces(u, pc, Len(z), q)
        BY <1>11, <1>12, <2>1 DEF Embraces
      <3>2. HasMiddle(Cells, u, pc, Len(z), q)
        BY <1>7, <2>2, <3>1, MiddleSame
      <3> QED BY <3>2 DEF HasMiddle
    <2> QED BY <2>3 DEF Wires
  <1>14. PICK l \in Wires : l = c \o y /\ l = lenbytes(y)
    BY <1>3, <1>13, WireJoined DEF lenbytes
  <1>15. u = p \o (l \o q)
    <2>1. PICK yq \in Wires : yq = y \o q
      BY WireJoined
    <2>2. Assoc(c, y, q) /\ Assoc(p, c, yq)
      BY WiresAssocs
    <2> QED BY <1>4, <1>13, <1>14, <2>1, <2>2 DEF Assoc
  <1>16. PICK ws : ws = Slices
    OBVIOUS
  <1>17. Len(answer) \in Cells /\ ws \in Seq(Wires) /\ Len(ws) = Len(answer)
    <2>1. AreSlices(ws, answer, build)
      BY <1>16, AnswerSlices DEF Slices, CanBeSent
    <2> QED BY <2>1, Zenon DEF AreSlices
  <1>18. PICK f : f = FlattenSeq(SubSeq(ws, 1, j - 1))
    OBVIOUS
  <1>19. f \in Wires /\ FlattenSeq([ws EXCEPT ![j] = l]) = f \o (l \o q)
    <2>1. q = FlattenSeq(SubSeq(ws, j + 1, Len(ws)))
      BY <1>1, <1>16 DEF Sliced
    <2>2. JoinsAround(ws, j, l, f, q)
      BY <1>17, <1>18, <2>1, FlattenAround
    <2> QED BY <2>2 DEF JoinsAround
  <1>20. PICK n \in Wires : n = <<Len(answer)>>
    BY <1>17, WiresJoin
  <1>21. u = n \o (f \o (l \o q))
    <2>1. PICK lq \in Wires : lq = l \o q
      BY WireJoined
    <2>2. Assoc(n, f, lq)
      BY <1>19, WiresAssocs
    <2>3. p = n \o f
      BY <1>1, <1>16, <1>18, <1>20 DEF Sliced
    <2> QED BY <1>15, <2>1, <2>2, <2>3 DEF Assoc
  <1> QED BY <1>14, <1>16, <1>19, <1>20, <1>21

\* Of an answer with another body every other outcome is read as it was meant,
\* or nothing is.
LEMMA OthersStand ==
  ASSUME CanBeSent, NEW j \in 1 .. Len(answer), NEW u \in Wires, DiffersIn(u, j), RAnswer[u].ok
  PROVE  /\ Len(RAnswer[u].value) = Len(answer)
         /\ \A k \in (1 .. Len(answer)) \ {j} : RAnswer[u].value[k] = Meant(answer[k], build)
  <1>1. PICK y \in Wires : /\ lenbytes(y) \in Wires
                           /\ u = <<Len(answer)>> \o FlattenSeq([Slices EXCEPT ![j] = lenbytes(y)])
    BY DiffersIs
  <1>2. PICK ws : ws = Slices
    OBVIOUS
  <1>3. /\ Len(answer) \in Cells /\ Len(answer) \in Nat
        /\ ws \in Seq(Wires) /\ Len(ws) = Len(answer)
        /\ \A i \in 1 .. Len(answer) : Back(RSliced, Meant(answer[i], build), ws[i])
    <2>1. AreSlices(ws, answer, build)
      BY <1>2, AnswerSlices DEF Slices, CanBeSent
    <2> QED BY <2>1, Zenon DEF AreSlices
  <1>4. PICK l \in Wires : l = lenbytes(y)
    BY <1>1
  <1>5. PICK vs : vs = [ws EXCEPT ![j] = l]
    OBVIOUS
  <1>6. /\ vs \in Seq(Wires) /\ Len(vs) = Len(answer)
        /\ \A i \in 1 .. Len(answer) : vs[i] = IF i = j THEN l ELSE ws[i]
    BY <1>3, <1>5, ExceptSeq
  <1>7. u = <<Len(answer)>> \o FlattenSeq(vs)
    BY <1>1, <1>2, <1>4, <1>5
  <1>8. PICK o : o = readOutcome(y)
    OBVIOUS
  <1>9. ASSUME NEW rest \in Wires
        PROVE  RSliced[l \o rest] = IF o.ok THEN Got(o.value, rest) ELSE Failed
    BY <1>1, <1>4, <1>8, readSlicedOf
  <1>10. CASE o.ok
    <2>1. PICK os : os = [i \in 1 .. Len(answer) |-> IF i = j THEN o.value ELSE Meant(answer[i], build)]
      OBVIOUS
    <2>2. PICK T : T = {os[i] : i \in 1 .. Len(answer)}
      OBVIOUS
    <2>3. os \in Few(T) /\ Len(os) = Len(answer)
      BY <1>3, <2>1, <2>2 DEF Few
    <2>4. Back(RSliced, o.value, l)
      BY <1>9, <1>10 DEF Back
    <2>5. \A i \in 1 .. Len(os) : Back(RSliced, os[i], vs[i])
      BY <1>3, <1>6, <2>1, <2>3, <2>4
    <2>6. Back(RAnswer, os, u)
      BY <1>6, <1>7, <2>3, <2>5, readAnswerCounts, CountedBack
    <2>7. RAnswer[u \o <<>>] = Got(os, <<>>) /\ u \o <<>> = u
      BY <2>6, WiresJoin DEF Back
    <2>8. RAnswer[u].value = os
      BY <2>7, GotIs
    <2> QED BY <2>1, <2>3, <2>8
  <1>11. CASE ~o.ok
    <2>1. PICK f, q \in Wires : /\ f = FlattenSeq(SubSeq(ws, 1, j - 1))
                                /\ FlattenSeq(vs) = f \o (l \o q)
      <3>1. JoinsAround(ws, j, l, FlattenSeq(SubSeq(ws, 1, j - 1)),
                        FlattenSeq(SubSeq(ws, j + 1, Len(ws))))
        BY <1>3, FlattenAround
      <3> QED BY <1>5, <3>1 DEF JoinsAround
    <2>2. PICK k \in Nat : k = j - 1 /\ k < Len(answer)
      BY <1>3
    <2>3. PICK fs : fs = SubSeq(ws, 1, k)
      OBVIOUS
    <2>4. fs \in Seq(Wires) /\ Len(fs) = k
      BY <1>3, <2>2, <2>3, SeqAround
    <2>5. \A i \in 1 .. k : fs[i] = ws[i]
      <3>1. \A i \in 1 .. k : ws[i] \in Wires
        BY <1>3, <2>2, ElementOfSeq
      <3> QED BY <2>3, <3>1, SubSeqProperties
    <2>6. PICK os : os = [i \in 1 .. k |-> Meant(answer[i], build)]
      OBVIOUS
    <2>7. PICK T : T = {os[i] : i \in 1 .. k}
      OBVIOUS
    <2>8. os \in Seq(T) /\ Len(os) = k
      BY <2>2, <2>6, <2>7
    <2>9. \A i \in 1 .. Len(os) : Back(RSliced, os[i], fs[i])
      BY <1>3, <2>2, <2>5, <2>6, <2>8
    <2>10. Back(Repeats(RSliced, k), os, f)
      BY <2>1, <2>2, <2>3, <2>4, <2>8, <2>9, RepeatsBack
    <2>11. PICK lq \in Wires : lq = l \o q
      BY WireJoined
    <2>12. PICK s \in Wires : s = f \o lq
      BY WireJoined
    <2>13. Repeated(RSliced, k, s) = Got(os, lq)
      BY <2>10, <2>12 DEF Back, Repeats
    <2>14. RSliced[lq] = Failed
      BY <1>9, <1>11, <2>11
    <2>15. Repeated(RSliced, k + 1, s) = Failed
      <3>1. PICK r : r = Repeated(RSliced, k, s)
        OBVIOUS
      <3>2. r.ok /\ r.value = os /\ r.rest = lq
        BY <2>13, <3>1, GotIs
      <3>3. NextRead(r, RSliced) = Failed
        BY <2>14, <3>2, GotIs DEF NextRead, Then, As
      <3> QED BY <2>2, <3>1, <3>3, RepeatedOf
    <2>16. Repeated(RSliced, Len(answer), s) = Failed
      <3>1. PICK m \in Nat : m = k + 1 /\ Len(answer) >= m
        BY <1>3, <2>2
      <3> QED BY <1>3, <2>15, <3>1, RepeatedStuck
    <2>17. RAnswer[u] = Failed
      <3>1. u = <<Len(answer)>> \o s
        BY <1>7, <2>1, <2>11, <2>12
      <3>2. readCell(u) = Got(Len(answer), s)
        BY <1>3, <3>1, readCellOf
      <3>3. RAnswer[u] = Repeats(RSliced, Len(answer))[s]
        BY <1>3, <3>2, readAnswerCounts DEF CountedBy, FollowedBy
      <3> QED BY <2>16, <3>3 DEF Repeats
    <2> QED BY <2>17, GotIs
  <1> QED BY <1>10, <1>11

-----------------------------------------------------------------------------
(***************************************************************************)
(* The wire of an answer, and what may have become of it.                  *)
(***************************************************************************)
AnswerInv ==
  /\ answer \in Answers /\ build \in Builds /\ wire \in Wires
  /\ state \in {"asked", "written", "cut", "altered", "read"}
  /\ state = "written" => wire = writeAnswer(answer, build)
  /\ state # "asked" =>
       \/ Len(wire) = Len(writeAnswer(answer, build))
       \/ \E z \in Wires : z # <<>> /\ writeAnswer(answer, build) = wire \o z
  /\ state = "read" => got = RAnswer[wire]

\* Every answer can be sent.
LEMMA AnswersCanBeSent == answer \in Answers /\ build \in Builds => CanBeSent
  BY AnswersAssumption DEF CanBeSent

LEMMA InitAnswerInv == AnswerInit => AnswerInv
  BY WiresJoin DEF AnswerInit, AnswerInv

\* No step makes of an answer but one as long or a part of it.
LEMMA StepAnswerInv == AnswerInv /\ [AnswerNext]_answerVars => AnswerInv'
  <1> SUFFICES ASSUME AnswerInv, [AnswerNext]_answerVars PROVE AnswerInv'
    OBVIOUS
  <1> DEFINE w == writeAnswer(answer, build)
  <1>1. answer \in Answers /\ build \in Builds /\ wire \in Wires
    BY DEF AnswerInv
  <1>2. CASE Send
    <2>1. answer' = answer /\ build' = build /\ wire' = w /\ state' = "written"
      BY <1>2 DEF Send
    <2>2. w \in Wires
      BY <1>1, AnswersCanBeSent DEF CanBeSent
    <2> QED BY <1>1, <2>1, <2>2 DEF AnswerInv
  <1>3. CASE AnswerCut
    <2>1. answer' = answer /\ build' = build /\ state = "written" /\ state' = "cut"
      BY <1>3 DEF AnswerCut, CutShort
    <2>2. wire = w
      BY <2>1 DEF AnswerInv
    <2>3. wire' \in Wires /\ \E z \in Wires : z # <<>> /\ wire = wire' \o z
      BY <1>1, <1>3, CutIs DEF AnswerCut
    <2> QED BY <1>1, <2>1, <2>2, <2>3 DEF AnswerInv
  <1>4. CASE AnswerAltered
    <2>1. answer' = answer /\ build' = build /\ state = "written" /\ state' = "altered"
      BY <1>4 DEF AnswerAltered, CellAltered
    <2>2. wire = w
      BY <2>1 DEF AnswerInv
    <2>3. wire' \in Wires /\ Len(wire') = Len(w)
      BY <1>1, <1>4, <2>2, AlteredIs DEF AnswerAltered
    <2> QED BY <1>1, <2>1, <2>3 DEF AnswerInv
  <1>5. CASE ReadAnswer
    <2>1. /\ answer' = answer /\ build' = build /\ wire' = wire
          /\ state \in {"written", "cut", "altered"} /\ state' = "read"
          /\ got' = readAnswer(wire)
      BY <1>5 DEF ReadAnswer
    <2>2. got' = RAnswer[wire']
      BY <1>1, <2>1 DEF RAnswer
    <2>3. \/ Len(wire) = Len(w)
          \/ \E z \in Wires : z # <<>> /\ w = wire \o z
      BY <2>1 DEF AnswerInv
    <2> QED BY <1>1, <2>1, <2>2, <2>3 DEF AnswerInv
  <1>6. CASE UNCHANGED answerVars
    <2>1. answer' = answer /\ build' = build /\ wire' = wire /\ state' = state /\ got' = got
      BY <1>6 DEF answerVars
    <2> QED BY <2>1 DEF AnswerInv
  <1> QED BY <1>2, <1>3, <1>4, <1>5, <1>6 DEF AnswerNext

\* What the whole of an answer is read as.
LEMMA WholeIsUnderstood ==
  ASSUME CanBeSent
  PROVE  RAnswer[writeAnswer(answer, build)] = Got(MeantAll(answer, build), <<>>)
  <1>1. PICK w \in Wires : w = writeAnswer(answer, build)
    BY DEF CanBeSent
  <1>2. Back(RAnswer, MeantAll(answer, build), w)
    BY <1>1, AnswerBack DEF CanBeSent
  <1>3. RAnswer[w \o <<>>] = Got(MeantAll(answer, build), <<>>) /\ w \o <<>> = w
    BY <1>2, WiresJoin DEF Back
  <1> QED BY <1>1, <1>3

LEMMA AnyBuildHolds == AnswerInv => AnyBuildIsUnderstood
  <1> SUFFICES ASSUME AnswerInv, state = "read", wire = writeAnswer(answer, build)
               PROVE  got.ok /\ got.value = [i \in 1 .. Len(answer) |-> Meant(answer[i], build)]
    BY DEF AnyBuildIsUnderstood
  <1>1. CanBeSent /\ got = RAnswer[wire]
    BY AnswersCanBeSent DEF AnswerInv
  <1>2. got = Got(MeantAll(answer, build), <<>>)
    BY <1>1, WholeIsUnderstood
  <1> QED BY <1>2, GotIs DEF MeantAll

\* An answer that is read without its end would be read alike with it, and the
\* end stay over.
LEMMA CutIsRefusedHolds == AnswerInv => CutAnswerIsRefused
  <1> SUFFICES ASSUME AnswerInv, state = "read", Len(wire) < Len(writeAnswer(answer, build)), got.ok
               PROVE  FALSE
    BY DEF CutAnswerIsRefused
  <1>1. CanBeSent /\ got = RAnswer[wire] /\ wire \in Wires
    BY AnswersCanBeSent DEF AnswerInv
  <1>2. PICK w \in Wires : w = writeAnswer(answer, build)
    BY <1>1 DEF CanBeSent
  <1>3. Len(wire) # Len(w)
    <2>1. Len(wire) \in Nat /\ Len(w) \in Nat
      BY <1>1, LenProperties DEF Wires
    <2> QED BY <1>2, <2>1
  <1>4. PICK z \in Wires : z # <<>> /\ w = wire \o z
    BY <1>2, <1>3 DEF AnswerInv
  <1>5. ReadsOf(RAnswer, Few(Readings), wire)
    BY <1>1, readAnswerReads DEF Reads
  <1>6. RAnswer[wire] # Failed
    BY <1>1, GotIs
  <1>7. PICK v \in Few(Readings), rest \in Wires : RAnswer[wire \o z] = Got(v, rest \o z)
    BY <1>5, <1>6 DEF ReadsOf
  <1>8. RAnswer[w] = Got(MeantAll(answer, build), <<>>)
    BY <1>1, <1>2, WholeIsUnderstood
  <1>9. rest \o z = <<>>
    <2>1. PICK r : r = RAnswer[w]
      OBVIOUS
    <2>2. r.rest = rest \o z
      <3>1. PICK x : x = rest \o z
        OBVIOUS
      <3>2. r = Got(v, x)
        BY <1>4, <1>7, <2>1, <3>1
      <3> QED BY <3>1, <3>2, GotIs
    <2>3. r.rest = <<>>
      BY <1>8, <2>1, GotIs
    <2> QED BY <2>2, <2>3
  <1>10. Len(rest) + Len(z) = 0 /\ Len(rest) \in Nat /\ Len(z) \in Nat
    <2>1. Len(rest \o z) = Len(rest) + Len(z)
      BY ConcatProperties DEF Wires
    <2> QED BY <1>9, <2>1, LenProperties DEF Wires
  <1> QED BY <1>4, <1>10, EmptySeq DEF Wires

LEMMA StandApartHolds == AnswerInv => OutcomesStandApart
  <1> SUFFICES ASSUME AnswerInv, state = "read", got.ok,
                      Len(wire) = Len(writeAnswer(answer, build)), NEW j \in 1 .. Len(answer),
                      {i \in 1 .. Len(wire) : wire[i] # writeAnswer(answer, build)[i]} \subseteq BodyOf(j)
               PROVE  /\ Len(got.value) = Len(answer)
                      /\ \A k \in (1 .. Len(answer)) \ {j} : got.value[k] = Meant(answer[k], build)
    BY DEF OutcomesStandApart
  <1>1. CanBeSent /\ got = RAnswer[wire] /\ wire \in Wires
    BY AnswersCanBeSent DEF AnswerInv
  <1>2. DiffersIn(wire, j)
    BY DEF DiffersIn
  <1> QED BY <1>1, <1>2, OthersStand

\* Whatever a node has to say and whichever build it is, each outcome is read
\* in its place, and of a field the node did not write nothing is claimed: for
\* answers, records and values of any size and nesting.
THEOREM AnyBuildIsAlwaysUnderstood == AnswerSpec => []AnyBuildIsUnderstood
  BY InitAnswerInv, StepAnswerInv, AnyBuildHolds, PTL DEF AnswerSpec

\* An answer that was cut short anywhere is refused whole.
THEOREM CutAnswersAreRefused == AnswerSpec => []CutAnswerIsRefused
  BY InitAnswerInv, StepAnswerInv, CutIsRefusedHolds, PTL DEF AnswerSpec

\* Whatever becomes of the bytes of one outcome, the others of an answer that is
\* read are as they were meant.
THEOREM OutcomesAlwaysStandApart == AnswerSpec => []OutcomesStandApart
  BY InitAnswerInv, StepAnswerInv, StandApartHolds, PTL DEF AnswerSpec
=============================================================================
