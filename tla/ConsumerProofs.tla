--------------------------- MODULE ConsumerProofs ---------------------------
(***************************************************************************)
(* Proofs about Consumer: for any members, topic, batch and bounds, the    *)
(* types, that it implements the promise that no message is lost, that     *)
(* members have different deliveries, that none is handled twice, and what *)
(* a stop has settled.                                                     *)
(***************************************************************************)
EXTENDS Consumer, FiniteSetTheorems, SequenceTheorems, TLAPS

Spots == {"ready", "delayed", "flight", "acked"}

Rows == [at : Spots, by : Members \cup {NoOne}, deliveries : Nat]

Places == {"next", "reading", "waiting", "handling", "settling", "returned", "dead"}

Verdicts == {"none", "ack", "nack", "delay", "leave"}

Results == {"none", "nil", "error"}

\* A member has deliveries exactly while it handles or settles one.
Batches ==
  \A m \in Members : pc[m] \in {"handling", "settling"} <=> batch[m] # <<>>

Shape == TypeOK /\ Batches

LEMMA SplitSeq ==
  ASSUME NEW S, NEW s \in Seq(S), s # <<>>
  PROVE  /\ Len(s) \in Nat \ {0}
         /\ Head(s) = s[1] /\ Head(s) \in S
         /\ Tail(s) \in Seq(S)
         /\ Len(Tail(s)) = Len(s) - 1
         /\ \A i \in 1 .. Len(s) - 1 : Tail(s)[i] = s[i + 1]
OBVIOUS

LEMMA CountTypes ==
  ASSUME Shape, NEW p \in Positions
  PROVE  group[p].deliveries \in Nat
BY DEF Shape, TypeOK

\* What a read answers: each position it took once.
LEMMA AnsweredEach ==
  ASSUME Shape, NEW s \in Handouts, NEW order \in InOrder(s)
  PROVE  /\ s \subseteq Positions /\ \A p \in s : group[p].at = "ready"
         /\ Answered(order) \in Seq(Message) /\ Answered(order) # <<>>
         /\ Len(Answered(order)) = Len(order)
         /\ \A i \in 1 .. Len(order) :
              /\ order[i] \in s
              /\ Answered(order)[i] =
                   [position |-> order[i], deliveries |-> group[order[i]].deliveries + 1]
              /\ \A k \in 1 .. Len(order) : i # k => order[i] # order[k]
<1>1. s \subseteq Positions /\ s # {} /\ \A p \in s : group[p].at = "ready"
  BY DEF Handouts, Ready
<1>2. IsFiniteSet(s)
  BY <1>1, FS_Subset, ConsumerAssumption
<1> DEFINE n == Cardinality(s)
<1>3. n \in Nat /\ n # 0
  BY <1>1, <1>2, FS_CardinalityType, FS_EmptySet
<1>4. order \in [1 .. n -> s] /\ \A i, k \in 1 .. n : i # k => order[i] # order[k]
  BY DEF InOrder, SetToSeqs
<1> HIDE DEF n
<1>5. order \in Seq(s) /\ Len(order) = n
  BY <1>3, <1>4
<1>6. ASSUME NEW i \in 1 .. n
      PROVE  [position |-> order[i], deliveries |-> group[order[i]].deliveries + 1] \in Message
  <2>1. order[i] \in Positions
    BY <1>1, <1>4, <1>6
  <2>2. group[order[i]].deliveries \in Nat
    BY <2>1, CountTypes
  <2> QED
    BY <2>1, <2>2 DEF Message
<1>7. Answered(order) \in [1 .. n -> Message]
  BY <1>5, <1>6 DEF Answered
<1>8. Answered(order) \in Seq(Message) /\ Len(Answered(order)) = n
  BY <1>3, <1>7
<1> QED
  BY <1>1, <1>3, <1>4, <1>5, <1>8 DEF Answered

-----------------------------------------------------------------------------
(***************************************************************************)
(* Types.                                                                  *)
(***************************************************************************)
LEMMA HandOutTypes ==
  ASSUME Shape, NEW m \in Members, NEW s, HandOut(m, s)
  PROVE  group' \in [Positions -> Rows]
<1>1. ASSUME NEW p \in Positions
      PROVE  [at |-> "flight", by |-> m, deliveries |-> group[p].deliveries + 1] \in Rows
             /\ group[p] \in Rows
  BY DEF Shape, TypeOK, Rows, Spots
<1> QED
  BY <1>1 DEF HandOut

LEMMA PutTypes ==
  ASSUME Shape, NEW positions, NEW place \in Spots, Put(positions, place)
  PROVE  group' \in [Positions -> Rows]
<1>1. ASSUME NEW p \in Positions
      PROVE  [group[p] EXCEPT !.at = place, !.by = NoOne] \in Rows /\ group[p] \in Rows
  BY DEF Shape, TypeOK, Rows, Spots
<1> QED
  BY <1>1 DEF Put

LEMMA GroupTypes == Shape => group \in [Positions -> Rows]
BY DEF Shape, TypeOK, Rows, Spots

LEMMA SettleTypes ==
  ASSUME Shape, NEW m \in Members, settle(m)
  PROVE  group' \in [Positions -> Rows]
BY PutTypes, GroupTypes DEF settle, Spots

LEMMA ReturnTypes ==
  ASSUME Shape, NEW m \in Members, NEW place \in {"returned", "dead"}, NEW how \in Results,
         Return(m, place, how)
  PROVE  /\ pc' \in [Members -> Places]
         /\ batch' \in [Members -> Seq(Message)]
         /\ decided' \in [Members -> Verdicts]
         /\ left' \in [Members -> SUBSET Positions]
         /\ result' \in [Members -> Results]
         /\ calls' \in [Members -> SUBSET Message]
         /\ Batches'
<1>1. pc' \in [Members -> Places]
  BY DEF Shape, TypeOK, Return, Goto, Places
<1>2. batch' \in [Members -> Seq(Message)]
  BY DEF Shape, TypeOK, Return
<1>3. Batches'
  BY DEF Shape, TypeOK, Batches, Return, Goto
<1> QED
  BY <1>1, <1>2, <1>3 DEF Shape, TypeOK, Return, Verdicts, Results

LEMMA CallTypes ==
  ASSUME Shape, NEW m \in Members, NEW ds \in Seq(Message), ds # <<>>, Call(m, ds)
  PROVE  /\ pc' \in [Members -> Places]
         /\ batch' \in [Members -> Seq(Message)]
         /\ calls' \in [Members -> SUBSET Message]
         /\ Batches'
<1>1. Head(ds) \in Message
  BY SplitSeq
<1>2. pc' \in [Members -> Places] /\ batch' \in [Members -> Seq(Message)]
  BY DEF Shape, TypeOK, Call, Goto, Places
<1>3. calls' \in [Members -> SUBSET Message]
  BY <1>1 DEF Shape, TypeOK, Call
<1>4. Batches'
  BY DEF Shape, TypeOK, Batches, Call, Goto
<1> QED
  BY <1>2, <1>3, <1>4

LEMMA ContinueTypes ==
  ASSUME Shape, NEW m \in Members, batch[m] # <<>>, Continue(m)
  PROVE  /\ pc' \in [Members -> Places]
         /\ batch' \in [Members -> Seq(Message)]
         /\ decided' \in [Members -> Verdicts]
         /\ left' \in [Members -> SUBSET Positions]
         /\ result' \in [Members -> Results]
         /\ calls' \in [Members -> SUBSET Message]
         /\ Batches'
<1>1. rest(m) \in Seq(Message)
  BY SplitSeq DEF Shape, TypeOK, rest
<1>2. CASE rest(m) = <<>>
  <2>1. batch' = [batch EXCEPT ![m] = <<>>] /\ Goto(m, "next") /\ calls' = calls
    BY <1>2 DEF Continue
  <2>2. pc' \in [Members -> Places] /\ batch' \in [Members -> Seq(Message)] /\ Batches'
    BY <2>1 DEF Shape, TypeOK, Batches, Goto, Places
  <2> QED
    BY <2>1, <2>2 DEF Continue, Shape, TypeOK, Verdicts, Results
<1>3. CASE rest(m) # <<>>
  BY <1>1, <1>3, CallTypes DEF Continue, Shape, TypeOK, Verdicts, Results
<1> QED
  BY <1>2, <1>3

LEMMA FirstOfBatch ==
  ASSUME Shape, NEW m \in Members, pc[m] \in {"handling", "settling"}
  PROVE  batch[m] # <<>> /\ Head(batch[m]) \in Message /\ InHand(m) \in Positions
<1>1. batch[m] # <<>> /\ Head(batch[m]) \in Message
  BY SplitSeq DEF Shape, TypeOK, Batches
<1> QED
  BY <1>1 DEF InHand, Message

LEMMA InitShape == Init => Shape
<1> SUFFICES ASSUME Init PROVE Shape
  OBVIOUS
<1>1. Batches
  BY DEF Init, Batches
<1>2. <<>> \in Seq(Message)
  OBVIOUS
<1>3. batch \in [Members -> Seq(Message)]
  BY <1>2 DEF Init
<1>4. 0 \in 0 .. MaxReturns /\ 0 \in 0 .. MaxSlow
  BY ConsumerAssumption
<1> QED
  BY <1>1, <1>3, <1>4 DEF Init, Shape, TypeOK

LEMMA ShapeStep == Shape /\ [Next]_vars => Shape'
<1> SUFFICES ASSUME Shape, [Next]_vars PROVE Shape'
  OBVIOUS
<1> USE DEF loopVars, counters
<1> DEFINE Kinds ==
      /\ group' \in [Positions -> Rows]
      /\ pc' \in [Members -> Places]
      /\ batch' \in [Members -> Seq(Message)]
      /\ decided' \in [Members -> Verdicts]
      /\ left' \in [Members -> SUBSET Positions]
      /\ result' \in [Members -> Results]
      /\ calls' \in [Members -> SUBSET Message]
      /\ Batches'
<1> DEFINE Others ==
      /\ stop' \in [Members -> BOOLEAN]
      /\ finished' \in SUBSET Positions
      /\ returns' \in 0 .. MaxReturns
      /\ slow' \in 0 .. MaxSlow
      /\ late' \in BOOLEAN
<1>a. Kinds /\ Others => Shape'
  BY DEF Shape, TypeOK, Rows, Spots, Places, Verdicts, Results
<1>b. UNCHANGED <<stop, finished, returns, slow, late>> => Others
  BY DEF Shape, TypeOK
<1>1. ASSUME NEW m \in Members, next(m) PROVE Shape'
  <2>1. UNCHANGED <<group, stop, finished, returns, slow, late>>
    BY <1>1 DEF next
  <2>2. CASE Return(m, "returned", "nil")
    BY <1>1, <1>a, <1>b, <2>1, <2>2, ReturnTypes, GroupTypes DEF Results
  <2>3. CASE Goto(m, "reading") /\ UNCHANGED <<batch, decided, left, result, calls>>
    BY <1>1, <2>1, <2>3 DEF Shape, TypeOK, Batches, Goto, next
  <2> QED
    BY <1>1, <2>2, <2>3 DEF next
<1>2. ASSUME NEW m \in Members, Read(m) PROVE Shape'
  <2>1. PICK s \in Handouts : HandOut(m, s) /\ \E order \in InOrder(s) : Call(m, Answered(order))
    BY <1>2 DEF Read
  <2>2. PICK order \in InOrder(s) : Call(m, Answered(order))
    BY <2>1
  <2>3. group' \in [Positions -> Rows]
    BY <1>2, <2>1, HandOutTypes
  <2>4. Answered(order) \in Seq(Message) /\ Answered(order) # <<>>
    BY <2>1, <2>2, AnsweredEach
  <2> QED
    BY <1>2, <1>a, <1>b, <2>2, <2>3, <2>4, CallTypes DEF Read, Shape, TypeOK, Verdicts, Results
<1>3. ASSUME NEW m \in Members, ReadNothing(m) \/ Wait(m) PROVE Shape'
  BY <1>3 DEF Shape, TypeOK, Batches, ReadNothing, Wait, Goto
<1>4. ASSUME NEW m \in Members, ReadFails(m) PROVE Shape'
  <2>1. group' \in [Positions -> Rows]
    BY <1>4, HandOutTypes, GroupTypes DEF ReadFails
  <2> QED
    BY <1>4, <1>a, <1>b, <2>1, ReturnTypes DEF ReadFails, Results
<1>5. ASSUME NEW m \in Members, Handle(m) PROVE Shape'
  <2>1. PICK d \in {"ack", "nack", "delay", "leave"}, done \in BOOLEAN :
          /\ d # "ack" => returns < MaxReturns
          /\ returns' = IF d = "ack" THEN returns ELSE returns + 1
          /\ decided' = [decided EXCEPT ![m] = d]
          /\ finished' = IF done THEN finished \cup {InHand(m)} ELSE finished
          /\ left' = [left EXCEPT ![m] = IF d = "leave" THEN @ \cup {InHand(m)}
                                                        ELSE @ \ {InHand(m)}]
    BY <1>5 DEF Handle
  <2>2. InHand(m) \in Positions
    BY <1>5, FirstOfBatch DEF Handle
  <2>3. left' \in [Members -> SUBSET Positions] /\ finished' \in SUBSET Positions
    BY <1>5, <2>1, <2>2 DEF Shape, TypeOK
  <2>4. decided' \in [Members -> Verdicts]
    BY <1>5, <2>1 DEF Shape, TypeOK, Verdicts
  <2>5. returns' \in 0 .. MaxReturns
    BY <2>1, ConsumerAssumption DEF Shape, TypeOK
  <2>6. pc' \in [Members -> Places] /\ Batches'
    BY <1>5 DEF Shape, TypeOK, Batches, Handle, Goto, Places
  <2>7. group' \in [Positions -> Rows] /\ batch' \in [Members -> Seq(Message)]
        /\ result' \in [Members -> Results] /\ calls' \in [Members -> SUBSET Message]
    BY <1>5, GroupTypes DEF Shape, TypeOK, Handle, Results
  <2>8. stop' \in [Members -> BOOLEAN] /\ slow' \in 0 .. MaxSlow /\ late' \in BOOLEAN
    BY <1>5 DEF Shape, TypeOK, Handle
  <2> QED
    BY <1>a, <2>3, <2>4, <2>5, <2>6, <2>7, <2>8
<1>6. ASSUME NEW m \in Members, Ack(m) PROVE Shape'
  <2>1. group' \in [Positions -> Rows]
    BY <1>6, PutTypes DEF Ack, Spots
  <2>2. left' \in [Members -> SUBSET Positions] /\ Batches'
    BY <1>6 DEF Ack, Shape, TypeOK, Batches
  <2> QED
    BY <1>6, <1>a, <1>b, <2>1, <2>2 DEF Ack, Shape, TypeOK, Places, Verdicts, Results
<1>7. ASSUME NEW m \in Members, Settled(m) PROVE Shape'
  <2>1. group' \in [Positions -> Rows] /\ UNCHANGED <<stop, finished, returns, slow, late>>
    BY <1>7, SettleTypes DEF Settled
  <2>2. CASE Return(m, "returned", "nil")
    BY <1>7, <1>a, <1>b, <2>1, <2>2, ReturnTypes DEF Results
  <2>3. CASE Continue(m)
    BY <1>7, <1>a, <1>b, <2>1, <2>3, FirstOfBatch, ContinueTypes DEF Settled
  <2> QED
    BY <1>7, <2>2, <2>3 DEF Settled
<1>8. ASSUME NEW m \in Members, SettleFails(m) PROVE Shape'
  <2>1. group' \in [Positions -> Rows]
    BY <1>8, SettleTypes, GroupTypes DEF SettleFails
  <2> QED
    BY <1>8, <1>a, <1>b, <2>1, ReturnTypes DEF SettleFails, Results
<1>9. ASSUME NEW m \in Members, Cancel(m) PROVE Shape'
  BY <1>9 DEF Cancel, Shape, TypeOK, Batches
<1>10. ASSUME NEW m \in Members, Die(m) PROVE Shape'
  BY <1>10, <1>a, <1>b, ReturnTypes, GroupTypes DEF Die, Results
<1>11. ASSUME NEW p \in Positions, Deadline(p) PROVE Shape'
  <2>1. group' \in [Positions -> Rows]
    BY <1>11, PutTypes DEF Deadline, Spots
  <2>2. slow' \in 0 .. MaxSlow
    BY <1>11, ConsumerAssumption DEF Deadline, Shape, TypeOK
  <2>3. late' \in BOOLEAN
    <3>1. MayYetSettle(p) \in BOOLEAN
      BY DEF MayYetSettle, InBatch
    <3> QED
      BY <1>11, <3>1, Zenon DEF Deadline, Shape, TypeOK
  <2> QED
    BY <1>11, <1>a, <2>1, <2>2, <2>3
       DEF Deadline, Shape, TypeOK, Batches, Places, Verdicts, Results
<1>12. ASSUME NEW p \in Positions, DelayEnds(p) PROVE Shape'
  <2>1. group' \in [Positions -> Rows]
    BY <1>12, GroupTypes DEF DelayEnds, Rows, Spots
  <2> QED
    BY <1>12, <1>a, <1>b, <2>1 DEF DelayEnds, Shape, TypeOK, Batches, Places, Verdicts, Results
<1>13. CASE UNCHANGED vars
  BY <1>13 DEF vars, Shape, TypeOK, Batches
<1> QED
  BY <1>1, <1>2, <1>3, <1>4, <1>5, <1>6, <1>7, <1>8, <1>9, <1>10, <1>11, <1>12, <1>13
     DEF Next, Run

\* Every reachable state has the types of the declarations, for any members and
\* any topic.
THEOREM TypeCorrect == Spec => []TypeOK
<1>1. Shape => TypeOK
  BY DEF Shape
<1> QED
  BY <1>1, InitShape, ShapeStep, PTL DEF Spec
-----------------------------------------------------------------------------
(***************************************************************************)
(* No message is lost: what is acknowledged was finished, and a member     *)
(* that is about to acknowledge one was told so.                           *)
(***************************************************************************)
Finished ==
  /\ Acked \subseteq finished
  /\ \A m \in Members :
       pc[m] = "settling" /\ decided[m] = "ack" => InHand(m) \in finished

Safe == Shape /\ Finished

\* A step acknowledges messages that were finished, or finishes one.
Moves ==
  \/ finished' = finished /\ Acked \subseteq Acked' /\ Acked' \subseteq finished
  \/ \E p \in Positions : finished' = finished \cup {p} /\ Acked' = Acked

NoNewVerdict ==
  \A m \in Members : pc'[m] = "settling" =>
    pc[m] = "settling" /\ decided'[m] = decided[m] /\ batch'[m] = batch[m]

LEMMA VerdictsKept ==
  ASSUME Safe, Moves, NoNewVerdict
  PROVE  Finished'
<1>1. finished \subseteq finished' /\ Acked' \subseteq finished'
  BY DEF Safe, Finished, Moves
<1> QED
  BY <1>1 DEF Safe, Finished, NoNewVerdict, InHand

LEMMA HandOutAcks ==
  ASSUME NEW m, NEW s \in Handouts, HandOut(m, s)
  PROVE  Acked' = Acked
BY DEF Handouts, Ready, HandOut, Acked

LEMMA PutAcks ==
  ASSUME Shape, NEW positions, NEW place \in Spots, Put(positions, place)
  PROVE  /\ Acked \subseteq Acked' /\ Acked' \subseteq Acked \cup positions
         /\ place # "acked" => Acked' = Acked
<1>1. ASSUME NEW p \in Positions
      PROVE  group'[p] = group[p]
             \/ (p \in positions /\ group[p].at = "flight" /\ group'[p].at = place)
  BY DEF Put, Shape, TypeOK
<1> QED
  BY <1>1 DEF Acked

LEMMA SettleAcks ==
  ASSUME Safe, NEW m \in Members, pc[m] = "settling", settle(m)
  PROVE  Acked \subseteq Acked' /\ Acked' \subseteq finished
<1>a. Shape /\ Acked \subseteq finished
  BY DEF Safe, Finished
<1>1. CASE decided[m] = "ack"
  BY <1>a, <1>1, PutAcks DEF settle, Spots, Safe, Finished
<1>2. CASE decided[m] \in {"nack", "delay"}
  BY <1>a, <1>2, PutAcks DEF settle, Spots
<1>3. CASE decided[m] \notin {"ack", "nack", "delay"}
  BY <1>a, <1>3 DEF settle, Acked
<1> QED
  BY <1>1, <1>2, <1>3

LEMMA SafeStep == Safe /\ [Next]_vars => Safe' /\ Moves
<1> SUFFICES ASSUME Safe, [Next]_vars PROVE Finished' /\ Moves
  BY ShapeStep DEF Safe
<1> USE DEF loopVars, counters
<1> DEFINE Goal == Finished' /\ Moves
<1>a. Shape /\ Acked \subseteq finished
  BY DEF Safe, Finished
<1>b. UNCHANGED <<group, finished>> => Moves
  BY <1>a DEF Moves, Acked
<1>1. ASSUME NEW m \in Members, next(m) \/ ReadNothing(m) \/ Wait(m) \/ Cancel(m) \/ Die(m)
      PROVE  Goal
  <2>1. NoNewVerdict
    BY <1>a, <1>1 DEF Shape, TypeOK, next, ReadNothing, Wait, Cancel, Die, Return, Goto,
       NoNewVerdict
  <2>2. Moves
    BY <1>b, <1>1 DEF next, ReadNothing, Wait, Cancel, Die
  <2> QED
    BY <2>1, <2>2, VerdictsKept
<1>2. ASSUME NEW m \in Members, Read(m) PROVE Goal
  <2>1. Moves
    BY <1>a, <1>2, HandOutAcks DEF Read, Moves
  <2>2. NoNewVerdict
    BY <1>a, <1>2 DEF Shape, TypeOK, Read, Call, Goto, NoNewVerdict
  <2> QED
    BY <2>1, <2>2, VerdictsKept
<1>3. ASSUME NEW m \in Members, ReadFails(m) PROVE Goal
  <2>1. Moves
    BY <1>a, <1>b, <1>3, HandOutAcks DEF ReadFails, Moves
  <2>2. NoNewVerdict
    BY <1>a, <1>3 DEF Shape, TypeOK, ReadFails, Return, Goto, NoNewVerdict
  <2> QED
    BY <2>1, <2>2, VerdictsKept
<1>4. ASSUME NEW m \in Members, Handle(m) PROVE Goal
  <2>1. PICK d \in {"ack", "nack", "delay", "leave"}, done \in BOOLEAN :
          /\ d = "ack" => done
          /\ decided' = [decided EXCEPT ![m] = d]
          /\ finished' = IF done THEN finished \cup {InHand(m)} ELSE finished
    BY <1>4 DEF Handle
  <2>2. InHand(m) \in Positions /\ Acked' = Acked
    BY <1>a, <1>4, FirstOfBatch DEF Handle, Acked
  <2>3. Moves
    BY <1>a, <2>1, <2>2 DEF Moves
  <2>4. finished \subseteq finished' /\ Acked' \subseteq finished'
    BY <1>a, <2>1, <2>2
  <2>5. ASSUME NEW o \in Members, pc'[o] = "settling", decided'[o] = "ack"
        PROVE  InHand(o)' \in finished'
    <3>1. InHand(o)' = InHand(o)
      BY <1>4 DEF Handle, InHand
    <3>2. CASE o = m
      <4>1. d = "ack"
        BY <1>a, <2>1, <2>5, <3>2 DEF Shape, TypeOK
      <4> QED
        BY <2>1, <3>1, <3>2, <4>1
    <3>3. CASE o # m
      <4>1. pc[o] = "settling" /\ decided[o] = "ack"
        BY <1>a, <1>4, <2>1, <2>5, <3>3 DEF Shape, TypeOK, Handle, Goto
      <4> QED
        BY <2>4, <3>1, <4>1 DEF Safe, Finished
    <3> QED
      BY <3>2, <3>3
  <2> QED
    BY <2>3, <2>4, <2>5 DEF Finished
<1>5. ASSUME NEW m \in Members, Ack(m) PROVE Goal
  <2>1. Moves
    BY <1>a, <1>5, PutAcks DEF Ack, Kept, Moves, Spots
  <2>2. NoNewVerdict
    BY <1>5 DEF Ack, NoNewVerdict
  <2> QED
    BY <2>1, <2>2, VerdictsKept
<1>6. ASSUME NEW m \in Members, Settled(m) PROVE Goal
  <2>1. Moves
    BY <1>6, SettleAcks DEF Settled, Moves
  <2>2. CASE Return(m, "returned", "nil")
    <3>1. NoNewVerdict
      BY <1>a, <1>6, <2>2 DEF Shape, TypeOK, Return, Goto, NoNewVerdict
    <3> QED
      BY <2>1, <3>1, VerdictsKept
  <2>3. CASE Continue(m)
    <3>1. NoNewVerdict
      BY <1>a, <1>6, <2>3 DEF Shape, TypeOK, Continue, Call, Goto, NoNewVerdict
    <3> QED
      BY <2>1, <3>1, VerdictsKept
  <2> QED
    BY <1>6, <2>2, <2>3 DEF Settled
<1>7. ASSUME NEW m \in Members, SettleFails(m) PROVE Goal
  <2>1. Moves
    BY <1>b, <1>7, SettleAcks DEF SettleFails, Moves
  <2>2. NoNewVerdict
    BY <1>a, <1>7 DEF Shape, TypeOK, SettleFails, Return, Goto, NoNewVerdict
  <2> QED
    BY <2>1, <2>2, VerdictsKept
<1>8. ASSUME NEW p \in Positions, Deadline(p) PROVE Goal
  <2>1. Moves
    BY <1>a, <1>8, PutAcks DEF Deadline, Moves, Spots
  <2>2. NoNewVerdict
    BY <1>8 DEF Deadline, NoNewVerdict
  <2> QED
    BY <2>1, <2>2, VerdictsKept
<1>9. ASSUME NEW p \in Positions, DelayEnds(p) PROVE Goal
  <2>1. Acked' = Acked
    BY <1>a, <1>9 DEF DelayEnds, Acked, Shape, TypeOK
  <2>2. Moves
    BY <1>a, <1>9, <2>1 DEF DelayEnds, Moves
  <2>3. NoNewVerdict
    BY <1>9 DEF DelayEnds, NoNewVerdict
  <2> QED
    BY <2>2, <2>3, VerdictsKept
<1>10. CASE UNCHANGED vars
  <2>1. Moves /\ NoNewVerdict
    BY <1>b, <1>10 DEF vars, NoNewVerdict
  <2> QED
    BY <2>1, VerdictsKept
<1> QED
  BY <1>1, <1>2, <1>3, <1>4, <1>5, <1>6, <1>7, <1>8, <1>9, <1>10 DEF Next, Run

LEMMA InitSafe == Init => Safe
BY InitShape DEF Init, Safe, Finished, Acked

\* The members and the group implement the promise: a message is acknowledged only
\* after a handler was done with it, and for good, whoever crashed, lost an answer
\* or was too late meanwhile.
THEOREM NothingLostEver == Spec => NothingLost
<1>1. Init => Promise!Init
  BY DEF Init, Promise!Init, Acked
<1>2. Safe /\ [Next]_vars =>
        [Promise!Finish \/ Promise!Settle]_<<finished, Acked>>
  <2> SUFFICES ASSUME Safe, Moves PROVE [Promise!Finish \/ Promise!Settle]_<<finished, Acked>>
    BY SafeStep
  <2>1. CASE finished' = finished /\ Acked \subseteq Acked' /\ Acked' \subseteq finished
    BY <2>1 DEF Promise!Settle
  <2>2. CASE \E p \in Positions : finished' = finished \cup {p} /\ Acked' = Acked
    BY <2>2 DEF Promise!Finish
  <2> QED
    BY <2>1, <2>2 DEF Moves
<1> QED
  BY <1>1, <1>2, InitSafe, SafeStep, PTL DEF Spec, NothingLost, Promise!Spec

-----------------------------------------------------------------------------
(***************************************************************************)
(* One call for each delivery: what is still to come in a batch has been   *)
(* called for by nobody, and the counts of the group only grow.            *)
(***************************************************************************)
Given(d) == d.deliveries <= group[d.position].deliveries

Fresh(m) == \A i \in 1 .. Len(batch[m]) :
  /\ Given(batch[m][i])
  /\ i # 1 => \A o \in Members : batch[m][i] \notin calls[o]
  /\ \A k \in 1 .. Len(batch[m]) : i # k => batch[m][i].position # batch[m][k].position

Different(m, o) ==
  \A i \in 1 .. Len(batch[m]), k \in 1 .. Len(batch[o]) : batch[m][i] # batch[o][k]

Once ==
  /\ Shape
  /\ \A m \in Members : Fresh(m) /\ \A d \in calls[m] : Given(d)
  /\ \A m, o \in Members : m # o => Different(m, o)

CallsNew ==
  \A m \in Members : pc[m] # "handling" /\ pc'[m] = "handling" =>
    \A o \in Members : Head(batch'[m]) \notin calls[o]

GivenAfter(d) == d.deliveries <= group'[d.position].deliveries

Grows == \A p \in Positions : group[p].deliveries <= group'[p].deliveries

LEMMA DeliveryTypes ==
  ASSUME Shape, NEW m \in Members
  PROVE  /\ \A i \in 1 .. Len(batch[m]) : batch[m][i] \in Message
         /\ \A d \in calls[m] : d \in Message
BY DEF Shape, TypeOK

LEMMA GivenLater ==
  ASSUME Shape, Grows, Shape', NEW d \in Message, Given(d)
  PROVE  GivenAfter(d)
<1>1. /\ d.position \in Positions /\ d.deliveries \in Nat
      /\ group[d.position].deliveries \in Nat /\ group'[d.position].deliveries \in Nat
  BY DEF Message, Shape, TypeOK
<1> QED
  BY <1>1 DEF Given, GivenAfter, Grows

LEMMA PutGrows ==
  ASSUME Shape, NEW positions, NEW place, Put(positions, place)
  PROVE  Grows
<1>1. ASSUME NEW p \in Positions PROVE group'[p].deliveries = group[p].deliveries
  BY DEF Put, Shape, TypeOK
<1> QED
  BY <1>1, CountTypes DEF Grows

LEMMA SameGrows ==
  ASSUME Shape, UNCHANGED group
  PROVE  Grows
BY CountTypes DEF Grows

LEMMA SettleGrows ==
  ASSUME Shape, NEW m \in Members, settle(m)
  PROVE  Grows
BY PutGrows, SameGrows DEF settle

LEMMA HandOutGrows ==
  ASSUME Shape, NEW m \in Members, NEW s, HandOut(m, s)
  PROVE  Grows
<1>1. ASSUME NEW p \in Positions PROVE group'[p].deliveries \in {group[p].deliveries,
                                                               group[p].deliveries + 1}
  BY DEF HandOut
<1> QED
  BY <1>1, CountTypes DEF Grows

\* A step that calls for nothing and at most ends batches.
LEMMA OnceKept ==
  ASSUME Once, Shape', Grows, UNCHANGED calls,
         \A m \in Members : batch'[m] \in {batch[m], <<>>}
                            /\ (pc'[m] = "handling" => pc[m] = "handling")
  PROVE  Once' /\ CallsNew
<1>a. Shape
  BY DEF Once
<1>1. ASSUME NEW m \in Members PROVE Fresh(m)'
  <2>1. CASE batch'[m] = <<>>
    BY <2>1 DEF Fresh
  <2>2. CASE batch'[m] = batch[m]
    <3>1. \A i \in 1 .. Len(batch[m]) : GivenAfter(batch[m][i])
      BY <1>a, GivenLater, DeliveryTypes DEF Once, Fresh
    <3> QED
      BY <2>2, <3>1 DEF Once, Fresh, Given, GivenAfter
  <2> QED
    BY <2>1, <2>2
<1>2. ASSUME NEW m \in Members, NEW d \in calls'[m] PROVE GivenAfter(d)
  BY <1>a, GivenLater, DeliveryTypes DEF Once
<1>3. ASSUME NEW m \in Members, NEW o \in Members, m # o PROVE Different(m, o)'
  <2>1. batch'[m] = <<>> \/ batch'[o] = <<>> \/ (batch'[m] = batch[m] /\ batch'[o] = batch[o])
    OBVIOUS
  <2> QED
    BY <1>3, <2>1 DEF Once, Different
<1>4. CallsNew
  BY DEF CallsNew
<1> QED
  BY <1>1, <1>2, <1>3, <1>4 DEF Once, Given, GivenAfter

\* A read hands out deliveries nobody had.
LEMMA ReadOnce ==
  ASSUME Once, Shape', NEW m \in Members, Read(m)
  PROVE  Once' /\ CallsNew
<1>a. Shape
  BY DEF Once
<1>1. PICK s \in Handouts : HandOut(m, s) /\ \E order \in InOrder(s) : Call(m, Answered(order))
  BY DEF Read
<1>2. PICK order \in InOrder(s) : Call(m, Answered(order))
  BY <1>1
<1> DEFINE D == Answered(order)
<1>3. /\ s \subseteq Positions
      /\ D \in Seq(Message) /\ D # <<>> /\ Len(D) = Len(order)
      /\ \A i \in 1 .. Len(order) :
           /\ order[i] \in s
           /\ D[i] = [position |-> order[i], deliveries |-> group[order[i]].deliveries + 1]
           /\ \A k \in 1 .. Len(order) : i # k => order[i] # order[k]
  BY <1>a, <1>1, <1>2, AnsweredEach
<1>4. /\ batch'[m] = D /\ \A o \in Members \ {m} : batch'[o] = batch[o] /\ calls'[o] = calls[o]
      /\ calls'[m] = calls[m] \cup {Head(D)}
      /\ \A o \in Members \ {m} : pc'[o] = pc[o]
  BY <1>a, <1>2 DEF Shape, TypeOK, Call, Goto
<1> HIDE DEF D
<1>e. ASSUME NEW i \in 1 .. Len(D)
      PROVE  /\ order[i] \in s /\ order[i] \in Positions
             /\ D[i] \in Message /\ D[i].position = order[i]
             /\ D[i].deliveries = group[order[i]].deliveries + 1
  <2>1. i \in 1 .. Len(order)
    BY <1>3, <1>e
  <2>2. order[i] \in s
        /\ D[i] = [position |-> order[i], deliveries |-> group[order[i]].deliveries + 1]
    BY <1>3, <2>1
  <2>3. D[i] \in Message
    BY <1>3, <1>e
  <2> QED
    BY <1>3, <2>2, <2>3
<1>5. /\ Len(D) \in Nat \ {0} /\ Head(D) = D[1]
      /\ \A i, k \in 1 .. Len(D) : i # k => D[i].position # D[k].position
  <2>1. ASSUME NEW i \in 1 .. Len(D), NEW k \in 1 .. Len(D), i # k PROVE order[i] # order[k]
    BY <1>3, <2>1
  <2>2. Len(D) \in Nat \ {0} /\ Head(D) = D[1]
    BY <1>3, SplitSeq
  <2> QED
    BY <1>e, <2>1, <2>2
<1>6. ASSUME NEW i \in 1 .. Len(D) PROVE ~Given(D[i]) /\ GivenAfter(D[i])
  <2>1. D[i].position = order[i] /\ order[i] \in s /\ order[i] \in Positions
        /\ D[i].deliveries = group[order[i]].deliveries + 1
    BY <1>e
  <2>2. group'[order[i]].deliveries = group[order[i]].deliveries + 1
        /\ group[order[i]].deliveries \in Nat
    BY <1>a, <1>1, <2>1, CountTypes DEF HandOut
  <2> QED
    BY <2>1, <2>2 DEF Given, GivenAfter
<1>7. Grows
  BY <1>a, <1>1, HandOutGrows
<1>8. ASSUME NEW o \in Members
      PROVE  /\ \A i \in 1 .. Len(D) : D[i] \notin calls[o]
             /\ \A i \in 1 .. Len(D), k \in 1 .. Len(batch[o]) : D[i] # batch[o][k]
  BY <1>6 DEF Once, Fresh
<1>9. Fresh(m)'
  <2>1. ASSUME NEW i \in 1 .. Len(D), i # 1, NEW o \in Members PROVE D[i] \notin calls'[o]
    <3>1. D[i] # Head(D)
      BY <1>5, <2>1
    <3> QED
      BY <1>4, <1>8, <3>1
  <2> QED
    BY <1>4, <1>5, <1>6, <2>1 DEF Fresh, Given, GivenAfter
<1>10. ASSUME NEW o \in Members, o # m PROVE Fresh(o)'
  <2>1. \A i \in 1 .. Len(batch[o]) : GivenAfter(batch[o][i])
    BY <1>a, <1>7, GivenLater, DeliveryTypes DEF Once, Fresh
  <2>2. \A i \in 1 .. Len(batch[o]) : batch[o][i] # Head(D)
    BY <1>5, <1>8
  <2>3. ASSUME NEW i \in 1 .. Len(batch[o]), i # 1, NEW v \in Members
        PROVE  batch[o][i] \notin calls'[v]
    BY <1>4, <2>2, <2>3 DEF Once, Fresh
  <2> QED
    BY <1>4, <1>10, <2>1, <2>3 DEF Once, Fresh, Given, GivenAfter
<1>11. ASSUME NEW o \in Members, NEW d \in calls'[o] PROVE GivenAfter(d)
  <2>1. CASE d \in calls[o]
    BY <1>a, <1>7, <2>1, GivenLater, DeliveryTypes DEF Once
  <2>2. CASE d = Head(D)
    BY <1>5, <1>6, <2>2
  <2> QED
    BY <1>4, <2>1, <2>2
<1>12. ASSUME NEW o \in Members, NEW v \in Members, o # v PROVE Different(o, v)'
  <2>1. CASE o = m
    BY <1>4, <1>8, <1>12, <2>1 DEF Different
  <2>2. CASE v = m
    BY <1>4, <1>8, <1>12, <2>2 DEF Different
  <2>3. CASE o # m /\ v # m
    BY <1>4, <1>12, <2>3 DEF Once, Different
  <2> QED
    BY <2>1, <2>2, <2>3
<1>13. CallsNew
  BY <1>4, <1>5, <1>8 DEF CallsNew
<1> QED
  BY <1>9, <1>10, <1>11, <1>12, <1>13 DEF Once, Given, GivenAfter

\* The loop goes on with the next delivery of its batch.
LEMMA ContinueOnce ==
  ASSUME Once, Shape', NEW m \in Members, pc[m] = "settling", settle(m), Continue(m)
  PROVE  Once' /\ CallsNew
<1>a. Shape
  BY DEF Once
<1>1. Grows
  BY <1>a, SettleGrows
<1>2. CASE rest(m) = <<>>
  <2>1. batch' = [batch EXCEPT ![m] = <<>>] /\ Goto(m, "next") /\ calls' = calls
    BY <1>2 DEF Continue
  <2>2. \A o \in Members : batch'[o] \in {batch[o], <<>>}
                           /\ (pc'[o] = "handling" => pc[o] = "handling")
    BY <1>a, <2>1 DEF Shape, TypeOK, Goto
  <2> QED
    BY <1>1, <2>1, <2>2, OnceKept
<1>3. CASE rest(m) # <<>>
  <2> DEFINE R == Tail(batch[m])
             n == Len(batch[m])
  <2>1. /\ n \in Nat \ {0} /\ Len(R) = n - 1 /\ R \in Seq(Message) /\ R # <<>>
        /\ \A i \in 1 .. n - 1 : R[i] = batch[m][i + 1]
    BY <1>a, <1>3, FirstOfBatch, SplitSeq DEF Shape, TypeOK, rest
  <2>2. Head(R) = batch[m][2] /\ n >= 2
    <3>1. Len(R) \in Nat \ {0} /\ Head(R) = R[1]
      BY <2>1, SplitSeq
    <3> QED
      BY <2>1, <3>1
  <2>3. /\ batch'[m] = R /\ \A o \in Members \ {m} : batch'[o] = batch[o] /\ calls'[o] = calls[o]
        /\ calls'[m] = calls[m] \cup {batch[m][2]}
        /\ \A o \in Members \ {m} : pc'[o] = pc[o]
    BY <1>a, <1>3, <2>2 DEF Shape, TypeOK, Continue, Call, Goto, rest
  <2> HIDE DEF R, n
  <2>4. \A i \in 1 .. n - 1 : i + 1 \in 1 .. n /\ i + 1 # 1 /\ (i # 1 => i + 1 # 2)
    BY <2>1
  <2>5. 2 \in 1 .. n /\ batch[m][2] \in Message /\ Given(batch[m][2])
        /\ \A o \in Members : batch[m][2] \notin calls[o]
    BY <1>a, <2>1, <2>2, DeliveryTypes DEF Once, Fresh, n
  <2>6. Fresh(m)'
    <3>1. ASSUME NEW i \in 1 .. n - 1 PROVE GivenAfter(R[i])
      <4>1. i + 1 \in 1 .. n /\ R[i] = batch[m][i + 1]
        BY <2>1, <2>4
      <4> QED
        BY <1>1, <1>a, <4>1, GivenLater, DeliveryTypes DEF Once, Fresh, n
    <3>2. ASSUME NEW i \in 1 .. n - 1, i # 1, NEW o \in Members PROVE R[i] \notin calls'[o]
      <4>1. i + 1 \in 1 .. n /\ i + 1 # 1 /\ i + 1 # 2 /\ R[i] = batch[m][i + 1]
        BY <2>1, <2>4, <3>2
      <4>2. batch[m][i + 1].position # batch[m][2].position
        BY <2>5, <4>1 DEF Once, Fresh, n
      <4>3. batch[m][i + 1] \notin calls[o]
        BY <4>1 DEF Once, Fresh, n
      <4> QED
        BY <2>3, <4>1, <4>2, <4>3
    <3>3. ASSUME NEW i \in 1 .. n - 1, NEW k \in 1 .. n - 1, i # k
          PROVE  R[i].position # R[k].position
      <4>1. i + 1 \in 1 .. n /\ k + 1 \in 1 .. n /\ i + 1 # k + 1
            /\ R[i] = batch[m][i + 1] /\ R[k] = batch[m][k + 1]
        BY <2>1, <2>4, <3>3
      <4> QED
        BY <4>1 DEF Once, Fresh, n
    <3> QED
      BY <2>1, <2>3, <3>1, <3>2, <3>3 DEF Fresh, Given, GivenAfter
  <2>7. ASSUME NEW o \in Members, o # m PROVE Fresh(o)'
    <3>1. \A i \in 1 .. Len(batch[o]) : GivenAfter(batch[o][i])
      BY <1>a, <1>1, GivenLater, DeliveryTypes DEF Once, Fresh
    <3>2. \A i \in 1 .. Len(batch[o]) : batch[o][i] # batch[m][2]
      BY <2>5, <2>7 DEF Once, Different, n
    <3>3. ASSUME NEW i \in 1 .. Len(batch[o]), i # 1, NEW v \in Members
          PROVE  batch[o][i] \notin calls'[v]
      BY <2>3, <3>2, <3>3 DEF Once, Fresh
    <3> QED
      BY <2>3, <2>7, <3>1, <3>3 DEF Once, Fresh, Given, GivenAfter
  <2>8. ASSUME NEW o \in Members, NEW d \in calls'[o] PROVE GivenAfter(d)
    <3>1. CASE d \in calls[o]
      BY <1>a, <1>1, <3>1, GivenLater, DeliveryTypes DEF Once
    <3>2. CASE d = batch[m][2]
      BY <1>a, <1>1, <2>5, <3>2, GivenLater
    <3> QED
      BY <2>3, <3>1, <3>2
  <2>9. ASSUME NEW o \in Members, NEW v \in Members, o # v PROVE Different(o, v)'
    <3>1. \A i \in 1 .. Len(R) : R[i] = batch[m][i + 1] /\ i + 1 \in 1 .. n
      BY <2>1, <2>4
    <3>2. CASE o = m
      BY <2>3, <2>9, <3>1, <3>2 DEF Once, Different, n
    <3>3. CASE v = m
      BY <2>3, <2>9, <3>1, <3>3 DEF Once, Different, n
    <3>4. CASE o # m /\ v # m
      BY <2>3, <2>9, <3>4 DEF Once, Different
    <3> QED
      BY <3>2, <3>3, <3>4
  <2>10. CallsNew
    BY <2>2, <2>3, <2>5 DEF CallsNew
  <2> QED
    BY <2>6, <2>7, <2>8, <2>9, <2>10 DEF Once, Given, GivenAfter
<1> QED
  BY <1>2, <1>3

LEMMA OnceStep == Once /\ [Next]_vars => Once' /\ CallsNew
<1> SUFFICES ASSUME Once, [Next]_vars PROVE Once' /\ CallsNew
  OBVIOUS
<1> USE DEF loopVars, counters
<1>a. Shape /\ Shape'
  BY ShapeStep DEF Once
<1> DEFINE Ending == \A m \in Members : batch'[m] \in {batch[m], <<>>}
                                       /\ (pc'[m] = "handling" => pc[m] = "handling")
<1>1. ASSUME NEW m \in Members, next(m) \/ Die(m) PROVE Once' /\ CallsNew
  <2>1. Grows /\ UNCHANGED calls
    BY <1>a, <1>1, SameGrows DEF next, Die, Return
  <2>2. Ending
    BY <1>a, <1>1 DEF Shape, TypeOK, next, Die, Return, Goto
  <2> QED
    BY <1>a, <2>1, <2>2, OnceKept
<1>2. ASSUME NEW m \in Members, ReadNothing(m) \/ Wait(m) \/ Handle(m) \/ Cancel(m)
      PROVE  Once' /\ CallsNew
  <2>1. Grows /\ UNCHANGED calls
    BY <1>a, <1>2, SameGrows DEF ReadNothing, Wait, Handle, Cancel
  <2>2. Ending
    BY <1>a, <1>2 DEF Shape, TypeOK, ReadNothing, Wait, Handle, Cancel, Goto
  <2> QED
    BY <1>a, <2>1, <2>2, OnceKept
<1>3. ASSUME NEW m \in Members, ReadFails(m) PROVE Once' /\ CallsNew
  <2>1. Grows /\ UNCHANGED calls
    BY <1>a, <1>3, SameGrows, HandOutGrows DEF ReadFails, Return
  <2>2. Ending
    BY <1>a, <1>3 DEF Shape, TypeOK, ReadFails, Return, Goto
  <2> QED
    BY <1>a, <2>1, <2>2, OnceKept
<1>4. ASSUME NEW m \in Members, Ack(m) PROVE Once' /\ CallsNew
  BY <1>a, <1>4, PutGrows, OnceKept DEF Ack
<1>5. ASSUME NEW m \in Members, Settled(m) PROVE Once' /\ CallsNew
  <2>1. CASE Return(m, "returned", "nil")
    <3>1. Grows /\ UNCHANGED calls
      BY <1>a, <1>5, <2>1, SettleGrows DEF Settled, Return
    <3>2. Ending
      BY <1>a, <1>5, <2>1 DEF Shape, TypeOK, Return, Goto
    <3> QED
      BY <1>a, <3>1, <3>2, OnceKept
  <2>2. CASE Continue(m)
    BY <1>a, <1>5, <2>2, ContinueOnce DEF Settled
  <2> QED
    BY <1>5, <2>1, <2>2 DEF Settled
<1>6. ASSUME NEW m \in Members, SettleFails(m) PROVE Once' /\ CallsNew
  <2>1. Grows /\ UNCHANGED calls
    BY <1>a, <1>6, SameGrows, SettleGrows DEF SettleFails, Return
  <2>2. Ending
    BY <1>a, <1>6 DEF Shape, TypeOK, SettleFails, Return, Goto
  <2> QED
    BY <1>a, <2>1, <2>2, OnceKept
<1>7. ASSUME NEW p \in Positions, Deadline(p) PROVE Once' /\ CallsNew
  BY <1>a, <1>7, PutGrows, OnceKept DEF Deadline
<1>8. ASSUME NEW p \in Positions, DelayEnds(p) PROVE Once' /\ CallsNew
  <2>1. \A q \in Positions : group'[q].deliveries = group[q].deliveries
    BY <1>a, <1>8 DEF DelayEnds, Shape, TypeOK
  <2>2. Grows
    BY <1>a, <2>1, CountTypes DEF Grows
  <2> QED
    BY <1>a, <1>8, <2>2, OnceKept DEF DelayEnds
<1>9. CASE UNCHANGED vars
  BY <1>a, <1>9, SameGrows, OnceKept DEF vars
<1>10. ASSUME NEW m \in Members, Read(m) PROVE Once' /\ CallsNew
  BY <1>a, <1>10, ReadOnce
<1> QED
  BY <1>1, <1>2, <1>3, <1>4, <1>5, <1>6, <1>7, <1>8, <1>9, <1>10 DEF Next, Run

LEMMA InitOnce == Init => Once
BY InitShape DEF Init, Once, Fresh, Different

\* No delivery is handled twice: position and deliveries tell every call from every
\* other one, also when deadlines pass under a batch.
THEOREM OneCallPerDeliveryEver == Spec => OneCallPerDelivery
<1>1. Once /\ [Next]_vars =>
        [\A m \in Members : pc[m] # "handling" /\ pc'[m] = "handling" =>
           \A o \in Members : Head(batch'[m]) \notin calls[o]]_vars
  BY OnceStep DEF CallsNew
<1> QED
  BY <1>1, InitOnce, OnceStep, PTL DEF Spec, OneCallPerDelivery

-----------------------------------------------------------------------------
(***************************************************************************)
(* Until a deadline passes too soon, what a member has in its batch or     *)
(* left is in flight for it, and what it left is not to come again.        *)
(***************************************************************************)
Mine(m, p) == group[p].at = "flight" /\ group[p].by = m

OwnsBatch(m) == \A i \in 1 .. Len(batch[m]) :
  /\ Mine(m, batch[m][i].position)
  /\ group[batch[m][i].position].deliveries = batch[m][i].deliveries
  /\ \A k \in 1 .. Len(batch[m]) : i # k => batch[m][i].position # batch[m][k].position

Running(m) == pc[m] \notin {"returned", "dead"}

OwnsLeft(m) == Running(m) => \A p \in left[m] :
  /\ Mine(m, p)
  /\ \A i \in 1 .. Len(batch[m]) : batch[m][i].position = p =>
       i = 1 /\ pc[m] = "settling" /\ decided[m] = "leave"

Owns(m) == OwnsBatch(m) /\ OwnsLeft(m)

Apart == Shape /\ (~late => \A m \in Members : Owns(m))

LEMMA PlacesOfBatch ==
  ASSUME Shape, NEW m \in Members
  PROVE  /\ \A i \in 1 .. Len(batch[m]) : batch[m][i].position \in Positions
         /\ \A p \in left[m] : p \in Positions
<1>1. \A d \in Message : d.position \in Positions
  BY DEF Message
<1> QED
  BY <1>1, DeliveryTypes DEF Shape, TypeOK

\* A member whose loop stands still, or ends, where its messages do not change.
LEMMA OwnsLater ==
  ASSUME Shape, NEW m \in Members, Owns(m),
         batch'[m] = <<>> \/ (batch'[m] = batch[m] /\ pc'[m] = pc[m] /\ decided'[m] = decided[m]),
         Running(m)' => Running(m) /\ left'[m] = left[m],
         \A i \in 1 .. Len(batch[m]) : batch'[m] # <<>> =>
           group'[batch[m][i].position] = group[batch[m][i].position],
         Running(m)' => \A p \in left[m] : group'[p] = group[p]
  PROVE  Owns(m)'
<1>1. OwnsBatch(m)'
  <2>1. CASE batch'[m] = <<>>
    BY <2>1 DEF OwnsBatch
  <2>2. CASE batch'[m] # <<>>
    BY <2>2 DEF Owns, OwnsBatch, Mine
  <2> QED
    BY <2>1, <2>2
<1>2. OwnsLeft(m)'
  <2> SUFFICES ASSUME Running(m)', NEW p \in left'[m]
               PROVE  /\ group'[p].at = "flight" /\ group'[p].by = m
                      /\ \A i \in 1 .. Len(batch'[m]) : batch'[m][i].position = p =>
                           i = 1 /\ pc'[m] = "settling" /\ decided'[m] = "leave"
    BY DEF OwnsLeft, Mine
  <2>1. Running(m) /\ p \in left[m] /\ group'[p] = group[p]
    OBVIOUS
  <2>2. CASE batch'[m] = <<>>
    BY <2>1, <2>2 DEF Owns, OwnsLeft, Mine
  <2>3. CASE batch'[m] # <<>>
    BY <2>1, <2>3 DEF Owns, OwnsLeft, Mine
  <2> QED
    BY <2>2, <2>3
<1> QED
  BY <1>1, <1>2 DEF Owns

\* The messages in flight for a member stay as they are.
Spares(m) == \A p \in Positions : Mine(m, p) => group'[p] = group[p]

LEMMA SparedOwns ==
  ASSUME Shape, NEW m \in Members, Owns(m), Spares(m),
         batch'[m] = <<>> \/ (batch'[m] = batch[m] /\ pc'[m] = pc[m] /\ decided'[m] = decided[m]),
         Running(m)' => Running(m) /\ left'[m] = left[m]
  PROVE  Owns(m)'
<1>1. \A i \in 1 .. Len(batch[m]) :
        group'[batch[m][i].position] = group[batch[m][i].position]
  BY PlacesOfBatch DEF Owns, OwnsBatch, Spares
<1>2. Running(m)' => \A p \in left[m] : group'[p] = group[p]
  BY PlacesOfBatch DEF Owns, OwnsLeft, Spares
<1> QED
  BY <1>1, <1>2, OwnsLater

\* The run is over.
LEMMA EndedOwns ==
  ASSUME NEW m \in Members, batch'[m] = <<>>, ~Running(m)'
  PROVE  Owns(m)'
BY DEF Owns, OwnsBatch, OwnsLeft

\* A step of one member leaves the loops of the others, and their messages, alone.
LEMMA OthersOwn ==
  ASSUME Shape, \A o \in Members : Owns(o), NEW m \in Members, Owns(m)',
         \A o \in Members \ {m} :
           /\ Spares(o)
           /\ batch'[o] = batch[o] /\ pc'[o] = pc[o] /\ decided'[o] = decided[o]
           /\ left'[o] = left[o]
  PROVE  \A o \in Members : Owns(o)'
<1>1. ASSUME NEW o \in Members, o # m PROVE Owns(o)'
  BY <1>1, SparedOwns DEF Running
<1> QED
  BY <1>1

LEMMA HandOutSpares ==
  ASSUME NEW m \in Members, NEW s \in Handouts, HandOut(m, s), NEW o \in Members
  PROVE  Spares(o)
BY DEF Handouts, Ready, HandOut, Spares, Mine

LEMMA SettleSpares ==
  ASSUME Shape, NEW m \in Members, settle(m)
  PROVE  \A p \in Positions : p # InHand(m) => group'[p] = group[p]
BY DEF settle, Put, Shape, TypeOK

LEMMA ApartStep == Apart /\ [Next]_vars => Apart'
<1> DEFINE Goal == \A o \in Members : Owns(o)'
<1> SUFFICES ASSUME Apart, [Next]_vars, ~late' PROVE Goal
  BY ShapeStep DEF Apart
<1> USE DEF loopVars, counters
<1>a. Shape
  BY DEF Apart
<1>b. ~late /\ \A o \in Members : Owns(o)
  <2>1. late => late'
    BY DEF Next, Run, next, Read, ReadNothing, ReadFails, Wait, Handle, Settled, SettleFails,
       Ack, Cancel, Die, Deadline, DelayEnds, vars
  <2> QED
    BY <2>1 DEF Apart
<1>1. ASSUME NEW m \in Members, next(m) PROVE Goal
  <2>1. batch[m] = <<>> /\ pc[m] = "next" /\ \A o \in Members : Spares(o)
    BY <1>a, <1>1 DEF Shape, Batches, TypeOK, next, Spares
  <2>2. batch'[m] = <<>> /\ Running(m) /\ left'[m] = left[m]
    BY <1>a, <1>1, <2>1 DEF Shape, TypeOK, next, Return, Running
  <2>3. \A o \in Members \ {m} :
          /\ batch'[o] = batch[o] /\ pc'[o] = pc[o] /\ decided'[o] = decided[o]
          /\ left'[o] = left[o]
    BY <1>a, <1>1 DEF Shape, TypeOK, next, Return, Goto
  <2> QED
    BY <1>a, <1>b, <2>1, <2>2, <2>3, SparedOwns, OthersOwn
<1>2. ASSUME NEW m \in Members, ReadNothing(m) \/ Wait(m) PROVE Goal
  <2>1. batch[m] = <<>> /\ Running(m) /\ \A o \in Members : Spares(o)
    BY <1>a, <1>2 DEF Shape, Batches, TypeOK, ReadNothing, Wait, Spares, Running
  <2>2. UNCHANGED <<batch, left, decided>>
    BY <1>2 DEF ReadNothing, Wait
  <2>3. \A o \in Members \ {m} : pc'[o] = pc[o]
    BY <1>a, <1>2 DEF Shape, TypeOK, ReadNothing, Wait, Goto
  <2> QED
    BY <1>a, <1>b, <2>1, <2>2, <2>3, SparedOwns, OthersOwn
<1>3. ASSUME NEW m \in Members, ReadFails(m) PROVE Goal
  <2>1. \A o \in Members : Spares(o)
    BY <1>3, HandOutSpares DEF ReadFails, Spares
  <2>2. batch'[m] = <<>> /\ ~Running(m)'
    BY <1>a, <1>3 DEF Shape, TypeOK, ReadFails, Return, Goto, Running
  <2>3. \A o \in Members \ {m} :
          /\ batch'[o] = batch[o] /\ pc'[o] = pc[o] /\ decided'[o] = decided[o]
          /\ left'[o] = left[o]
    BY <1>a, <1>3 DEF Shape, TypeOK, ReadFails, Return, Goto
  <2> QED
    BY <1>a, <1>b, <2>1, <2>2, <2>3, EndedOwns, OthersOwn
<1>4. ASSUME NEW m \in Members, Die(m) PROVE Goal
  <2>1. \A o \in Members : Spares(o)
    BY <1>4 DEF Die, Spares
  <2>2. batch'[m] = <<>> /\ ~Running(m)'
    BY <1>a, <1>4 DEF Shape, TypeOK, Die, Return, Goto, Running
  <2>3. \A o \in Members \ {m} :
          /\ batch'[o] = batch[o] /\ pc'[o] = pc[o] /\ decided'[o] = decided[o]
          /\ left'[o] = left[o]
    BY <1>a, <1>4 DEF Shape, TypeOK, Die, Return, Goto
  <2> QED
    BY <1>a, <1>b, <2>1, <2>2, <2>3, EndedOwns, OthersOwn
<1>5. ASSUME NEW m \in Members, pc[m] \in {"handling", "settling"}
      PROVE  /\ Len(batch[m]) \in Nat \ {0} /\ batch[m] # <<>>
             /\ InHand(m) = batch[m][1].position /\ InHand(m) \in Positions
             /\ Running(m)
             /\ Mine(m, InHand(m))
             /\ \A i \in 1 .. Len(batch[m]) : i # 1 => batch[m][i].position # InHand(m)
  <2>1. Len(batch[m]) \in Nat \ {0} /\ batch[m] # <<>> /\ Head(batch[m]) = batch[m][1]
    BY <1>a, <1>5, SplitSeq DEF Shape, TypeOK, Batches
  <2>2. 1 \in 1 .. Len(batch[m])
    BY <2>1
  <2>3. InHand(m) \in Positions /\ Running(m)
    BY <1>a, <1>5, FirstOfBatch DEF Running
  <2> QED
    BY <1>b, <2>1, <2>2, <2>3 DEF InHand, Owns, OwnsBatch
<1>6. ASSUME NEW m \in Members, Handle(m) PROVE Goal
  <2>1. PICK d \in {"ack", "nack", "delay", "leave"} :
          /\ decided' = [decided EXCEPT ![m] = d]
          /\ left' = [left EXCEPT ![m] = IF d = "leave" THEN @ \cup {InHand(m)}
                                                        ELSE @ \ {InHand(m)}]
    BY <1>6 DEF Handle
  <2>2. /\ batch' = batch /\ group' = group /\ pc[m] = "handling" /\ pc'[m] = "settling"
        /\ decided'[m] = d
    BY <1>a, <1>6, <2>1 DEF Shape, TypeOK, Handle, Goto
  <2>3. \A o \in Members \ {m} :
          /\ Spares(o)
          /\ batch'[o] = batch[o] /\ pc'[o] = pc[o] /\ decided'[o] = decided[o]
          /\ left'[o] = left[o]
    BY <1>a, <1>6, <2>1 DEF Shape, TypeOK, Handle, Goto, Spares
  <2>4. OwnsBatch(m)'
    BY <1>b, <2>2 DEF Owns, OwnsBatch, Mine
  <2>5. ASSUME NEW p \in left'[m]
        PROVE  /\ group'[p].at = "flight" /\ group'[p].by = m
               /\ \A i \in 1 .. Len(batch'[m]) : batch'[m][i].position = p =>
                    i = 1 /\ pc'[m] = "settling" /\ decided'[m] = "leave"
    <3>1. CASE p = InHand(m)
      <4>1. d = "leave"
        BY <1>a, <2>1, <2>5, <3>1 DEF Shape, TypeOK
      <4> QED
        BY <1>5, <2>2, <3>1, <4>1 DEF Mine
    <3>2. CASE p # InHand(m)
      <4>1. p \in left[m]
        BY <1>a, <2>1, <2>5, <3>2 DEF Shape, TypeOK
      <4> QED
        BY <1>b, <1>5, <2>2, <4>1 DEF Owns, OwnsLeft, Mine
    <3> QED
      BY <3>1, <3>2
  <2>6. Owns(m)'
    BY <2>4, <2>5 DEF Owns, OwnsLeft, Mine
  <2> QED
    BY <1>a, <1>b, <2>3, <2>6, OthersOwn
<1>7. ASSUME NEW m \in Members, Ack(m) PROVE Goal
  <2>1. pc[m] = "handling" /\ UNCHANGED <<pc, batch, decided>> /\ Running(m)
    BY <1>5, <1>7 DEF Ack
  <2>2. \A p \in Positions : p \notin Kept(m) => group'[p] = group[p]
    BY <1>7 DEF Ack, Put
  <2>3. Kept(m) \subseteq left[m] /\ \A p \in left[m] : Mine(m, p)
    BY <1>b, <2>1 DEF Kept, Owns, OwnsLeft
  <2>4. left'[m] = left[m] \ Kept(m) /\ \A o \in Members \ {m} : left'[o] = left[o]
    BY <1>a, <1>7 DEF Shape, TypeOK, Ack
  <2>5. \A o \in Members \ {m} : Spares(o)
    BY <2>2, <2>3 DEF Spares, Mine
  <2>6. OwnsBatch(m)'
    <3>1. \A i \in 1 .. Len(batch[m]) : batch[m][i].position \notin left[m]
      BY <1>b, <2>1 DEF Owns, OwnsLeft
    <3>2. \A i \in 1 .. Len(batch[m]) :
            group'[batch[m][i].position] = group[batch[m][i].position]
      BY <1>a, <2>2, <2>3, <3>1, PlacesOfBatch
    <3> QED
      BY <1>b, <2>1, <3>2 DEF Owns, OwnsBatch, Mine
  <2>7. OwnsLeft(m)'
    <3>1. \A p \in left'[m] : p \in left[m] /\ group'[p] = group[p]
      BY <1>a, <2>2, <2>4, PlacesOfBatch
    <3> QED
      BY <1>b, <2>1, <3>1 DEF Owns, OwnsLeft, Mine, Running
  <2> QED
    BY <1>a, <1>b, <2>1, <2>4, <2>5, <2>6, <2>7, OthersOwn DEF Owns
<1>8. ASSUME NEW m \in Members, pc[m] = "settling", settle(m) \/ UNCHANGED group
      PROVE  \A o \in Members \ {m} : Spares(o)
  <2>1. \A p \in Positions : p # InHand(m) => group'[p] = group[p]
    BY <1>a, <1>8, SettleSpares
  <2> QED
    BY <1>5, <1>8, <2>1 DEF Spares, Mine
<1>9. ASSUME NEW m \in Members, settle(m) \/ UNCHANGED group, pc[m] = "settling",
             NEW place \in {"returned", "dead"}, NEW how, Return(m, place, how)
      PROVE  Goal
  <2>1. batch'[m] = <<>> /\ ~Running(m)'
    BY <1>a, <1>9 DEF Shape, TypeOK, Return, Goto, Running
  <2>2. \A o \in Members \ {m} :
          /\ batch'[o] = batch[o] /\ pc'[o] = pc[o] /\ decided'[o] = decided[o]
          /\ left'[o] = left[o]
    BY <1>a, <1>9 DEF Shape, TypeOK, Return, Goto
  <2> QED
    BY <1>a, <1>b, <1>8, <1>9, <2>1, <2>2, EndedOwns, OthersOwn
<1>10. ASSUME NEW m \in Members, SettleFails(m) PROVE Goal
  BY <1>9, <1>10 DEF SettleFails
<1>11. ASSUME NEW m \in Members, pc[m] = "settling", settle(m), Continue(m) PROVE Goal
  <2> DEFINE n == Len(batch[m])
  <2>1. /\ n \in Nat \ {0} /\ batch'[m] = Tail(batch[m]) /\ Len(Tail(batch[m])) = n - 1
        /\ \A i \in 1 .. n - 1 : batch'[m][i] = batch[m][i + 1]
        /\ left' = left /\ pc'[m] \in {"next", "handling"}
    <3>1. batch[m] \in Seq(Message) /\ batch[m] # <<>>
      BY <1>5, <1>11, <1>a DEF Shape, TypeOK
    <3>2. batch'[m] = Tail(batch[m]) /\ left' = left
      BY <1>a, <1>11 DEF Shape, TypeOK, Continue, Call, rest
    <3>3. pc'[m] \in {"next", "handling"}
      BY <1>a, <1>11 DEF Shape, TypeOK, Continue, Call, Goto
    <3> QED
      BY <3>1, <3>2, <3>3, SplitSeq
  <2>2. \A o \in Members \ {m} :
          /\ batch'[o] = batch[o] /\ pc'[o] = pc[o] /\ decided'[o] = decided[o]
          /\ left'[o] = left[o]
    BY <1>a, <1>11 DEF Shape, TypeOK, Continue, Call, Goto
  <2>3. \A p \in Positions : p # InHand(m) => group'[p] = group[p]
    BY <1>a, <1>11, SettleSpares
  <2> HIDE DEF n
  <2>4. ASSUME NEW i \in 1 .. n - 1
        PROVE  /\ i + 1 \in 1 .. n /\ i + 1 # 1 /\ batch'[m][i] = batch[m][i + 1]
               /\ group'[batch[m][i + 1].position] = group[batch[m][i + 1].position]
    <3>1. i + 1 \in 1 .. n /\ i + 1 # 1 /\ batch'[m][i] = batch[m][i + 1]
      BY <2>1, <2>4
    <3>2. batch[m][i + 1].position # InHand(m) /\ batch[m][i + 1].position \in Positions
      BY <1>a, <1>5, <1>11, <3>1, PlacesOfBatch DEF n
    <3> QED
      BY <2>3, <3>1, <3>2
  <2>5. OwnsBatch(m)'
    <3>1. ASSUME NEW i \in 1 .. n - 1
          PROVE  /\ group'[batch'[m][i].position].at = "flight"
                 /\ group'[batch'[m][i].position].by = m
                 /\ group'[batch'[m][i].position].deliveries = batch'[m][i].deliveries
      BY <1>b, <2>4 DEF Owns, OwnsBatch, Mine, n
    <3>2. ASSUME NEW i \in 1 .. n - 1, NEW k \in 1 .. n - 1, i # k
          PROVE  batch'[m][i].position # batch'[m][k].position
      <4>1. i + 1 # k + 1
        BY <2>1, <3>2
      <4> QED
        BY <1>b, <2>4, <4>1 DEF Owns, OwnsBatch, n
    <3> QED
      BY <2>1, <3>1, <3>2 DEF OwnsBatch, Mine
  <2>6. ASSUME NEW p \in left[m]
        PROVE  /\ group'[p].at = "flight" /\ group'[p].by = m
               /\ \A i \in 1 .. n - 1 : batch'[m][i].position # p
    <3>1. Mine(m, p) /\ \A i \in 1 .. n : batch[m][i].position = p =>
                          i = 1 /\ decided[m] = "leave"
      BY <1>b, <1>5, <1>11 DEF Owns, OwnsLeft, n
    <3>2. group'[p] = group[p]
      <4>1. CASE decided[m] = "leave"
        BY <1>11, <4>1 DEF settle
      <4>2. CASE decided[m] # "leave"
        <5>1. p # InHand(m)
          BY <1>5, <1>11, <2>1, <3>1, <4>2 DEF n
        <5> QED
          BY <1>a, <2>3, <5>1, PlacesOfBatch
      <4> QED
        BY <4>1, <4>2
    <3> QED
      BY <2>4, <3>1, <3>2 DEF Mine
  <2>7. OwnsLeft(m)'
    BY <2>1, <2>6 DEF OwnsLeft, Mine
  <2> QED
    BY <1>a, <1>b, <1>8, <1>11, <2>2, <2>5, <2>7, OthersOwn DEF Owns
<1>12. ASSUME NEW m \in Members, Settled(m) PROVE Goal
  BY <1>9, <1>11, <1>12 DEF Settled
<1>13. ASSUME NEW m \in Members, Read(m) PROVE Goal
  <2>1. PICK s \in Handouts : HandOut(m, s) /\ \E order \in InOrder(s) : Call(m, Answered(order))
    BY <1>13 DEF Read
  <2>2. PICK order \in InOrder(s) : Call(m, Answered(order))
    BY <2>1
  <2> DEFINE D == Answered(order)
  <2>3. /\ s \subseteq Positions /\ \A p \in s : group[p].at = "ready"
        /\ Len(D) = Len(order)
        /\ \A i \in 1 .. Len(order) :
             /\ order[i] \in s
             /\ D[i] = [position |-> order[i], deliveries |-> group[order[i]].deliveries + 1]
             /\ \A k \in 1 .. Len(order) : i # k => order[i] # order[k]
    BY <1>a, <2>1, <2>2, AnsweredEach
  <2>4. /\ batch'[m] = D /\ left' = left /\ Running(m)
        /\ \A o \in Members \ {m} :
             /\ batch'[o] = batch[o] /\ pc'[o] = pc[o] /\ decided'[o] = decided[o]
             /\ left'[o] = left[o]
    BY <1>a, <1>13, <2>2 DEF Shape, TypeOK, Read, Call, Goto, Running
  <2> HIDE DEF D
  <2>5. ASSUME NEW i \in 1 .. Len(D)
        PROVE  /\ D[i].position = order[i] /\ order[i] \in s
               /\ group'[D[i].position].at = "flight" /\ group'[D[i].position].by = m
               /\ group'[D[i].position].deliveries = D[i].deliveries
    <3>1. i \in 1 .. Len(order)
      BY <2>3, <2>5
    <3>2. order[i] \in s
          /\ D[i] = [position |-> order[i], deliveries |-> group[order[i]].deliveries + 1]
      BY <2>3, <3>1
    <3> QED
      BY <2>1, <2>3, <3>2 DEF HandOut
  <2>6. ASSUME NEW i \in 1 .. Len(D), NEW k \in 1 .. Len(D), i # k
        PROVE  D[i].position # D[k].position
    <3>1. order[i] # order[k]
      BY <2>3, <2>6
    <3> QED
      BY <2>5, <3>1
  <2>7. OwnsBatch(m)'
    BY <2>4, <2>5, <2>6 DEF OwnsBatch, Mine
  <2>8. \A o \in Members : Spares(o)
    BY <2>1, HandOutSpares
  <2>9. ASSUME NEW p \in left[m]
        PROVE  /\ group'[p].at = "flight" /\ group'[p].by = m
               /\ \A i \in 1 .. Len(D) : D[i].position # p
    <3>1. Mine(m, p) /\ p \in Positions
      BY <1>a, <1>b, <2>4, PlacesOfBatch DEF Owns, OwnsLeft
    <3> QED
      BY <2>3, <2>5, <2>8, <3>1 DEF Spares, Mine
  <2>10. OwnsLeft(m)'
    BY <2>4, <2>9 DEF OwnsLeft, Mine
  <2> QED
    BY <1>a, <1>b, <2>4, <2>7, <2>8, <2>10, OthersOwn DEF Owns
<1>14. ASSUME UNCHANGED loopVars PROVE
         (\A o \in Members :
            /\ \A i \in 1 .. Len(batch[o]) :
                 group'[batch[o][i].position] = group[batch[o][i].position]
            /\ Running(o) => \A p \in left[o] : group'[p] = group[p]) => Goal
  BY <1>a, <1>b, <1>14, OwnsLater DEF Running
<1>15. ASSUME NEW p \in Positions, Deadline(p) PROVE Goal
  <2>1. ~MayYetSettle(p) /\ UNCHANGED loopVars
    BY <1>15 DEF Deadline
  <2>2. \A q \in Positions : q # p => group'[q] = group[q]
    BY <1>15 DEF Deadline, Put
  <2>3. ASSUME NEW o \in Members, NEW i \in 1 .. Len(batch[o]) PROVE batch[o][i].position # p
    <3>1. Mine(o, batch[o][i].position)
      BY <1>b DEF Owns, OwnsBatch
    <3>2. batch[o][i] \in ToSet(batch[o])
      BY <1>a DEF Shape, TypeOK, ToSet
    <3> QED
      BY <2>1, <3>1, <3>2 DEF MayYetSettle, InBatch, Mine
  <2>4. ASSUME NEW o \in Members, Running(o), NEW q \in left[o] PROVE q # p
    BY <1>b, <2>1, <2>4 DEF Owns, OwnsLeft, Mine, MayYetSettle, Running
  <2> QED
    BY <1>a, <1>14, <2>1, <2>2, <2>3, <2>4, PlacesOfBatch
<1>16. ASSUME UNCHANGED loopVars, \A o \in Members : Spares(o) PROVE Goal
  BY <1>a, <1>b, <1>16, SparedOwns DEF Running
<1>17. ASSUME NEW p \in Positions, DelayEnds(p) PROVE Goal
  <2>1. \A q \in Positions : group[q].at = "flight" => group'[q] = group[q]
    BY <1>17 DEF DelayEnds
  <2> QED
    BY <1>16, <1>17, <2>1 DEF DelayEnds, Spares, Mine
<1>18. ASSUME NEW m \in Members, Cancel(m) PROVE Goal
  BY <1>16, <1>18 DEF Cancel, Spares
<1>19. CASE UNCHANGED vars
  BY <1>16, <1>19 DEF vars, Spares
<1> QED
  BY <1>1, <1>2, <1>3, <1>4, <1>6, <1>7, <1>10, <1>12, <1>13, <1>15, <1>17, <1>18, <1>19
     DEF Next, Run

\* Until a deadline passes for a message its member may yet settle, a settlement,
\* which names no member, is never of another's delivery.
THEOREM OneMemberAtATimeEver == Spec => []OneMemberAtATime
<1>1. Init => Apart
  BY InitShape DEF Init, Apart, Owns, OwnsBatch, OwnsLeft
<1>2. Apart => OneMemberAtATime
  <2> SUFFICES ASSUME Apart, ~late, NEW m \in Members, NEW d \in ToSet(batch[m])
               PROVE  group[d.position] = [at |-> "flight", by |-> m, deliveries |-> d.deliveries]
    BY DEF OneMemberAtATime
  <2>1. PICK i \in 1 .. Len(batch[m]) : d = batch[m][i]
    BY DEF Apart, Shape, TypeOK, ToSet
  <2>2. /\ group[d.position].at = "flight" /\ group[d.position].by = m
        /\ group[d.position].deliveries = d.deliveries /\ d.position \in Positions
    BY <2>1, PlacesOfBatch DEF Apart, Owns, OwnsBatch, Mine
  <2>3. group[d.position] \in Rows
    BY <2>2, GroupTypes DEF Apart
  <2> QED
    BY <2>2, <2>3 DEF Rows
<1> QED
  BY <1>1, <1>2, ApartStep, PTL DEF Spec

-----------------------------------------------------------------------------
(***************************************************************************)
(* What a run that has not failed was called for and has not settled is in *)
(* hand, or was left.                                                      *)
(***************************************************************************)
Going(m) == pc[m] # "dead" /\ result[m] # "error"

Told(m) == result[m] # "none" => pc[m] = "returned"

Current(p) == [position |-> p, deliveries |-> group[p].deliveries]

Called(m) == \A p \in Positions : Mine(m, p) /\ Current(p) \in calls[m] =>
  p \in left[m] \/ (batch[m] # <<>> /\ Head(batch[m]) = Current(p))

Latest(m) == \A p \in Positions : \A i \in 1 .. Len(batch[m]) :
  Mine(m, p) /\ batch[m][i].position = p => batch[m][i] = Current(p)

Settles(d) == d \in {"ack", "nack", "delay"}

Kind(m) == pc[m] = "settling" /\ ~Settles(decided[m]) => InHand(m) \in left[m]

Accounted(m) == Going(m) => Called(m) /\ Latest(m) /\ Kind(m)

Settling == Once /\ \A m \in Members : Told(m) /\ Accounted(m)

\* Nothing is handed to the member.
NoNew(m) ==
  \A p \in Positions : group'[p].at = "flight" /\ group'[p].by = m => group'[p] = group[p]

LEMMA PutNew ==
  ASSUME NEW positions, NEW place, place # "flight", Shape, Put(positions, place),
         NEW m \in Members
  PROVE  NoNew(m)
<1>1. ASSUME NEW p \in Positions
      PROVE  group'[p] = group[p] \/ group'[p].at = place
  BY DEF Put, Shape, TypeOK
<1> QED
  BY <1>1 DEF NoNew

LEMMA SettleNew ==
  ASSUME Shape, NEW m \in Members, settle(m) \/ UNCHANGED group
  PROVE  \A o \in Members : NoNew(o)
<1>1. CASE UNCHANGED group
  BY <1>1 DEF NoNew
<1>2. CASE settle(m)
  BY <1>1, <1>2, PutNew DEF settle
<1> QED
  BY <1>1, <1>2

LEMMA HandOutNew ==
  ASSUME NEW m \in Members, NEW s, HandOut(m, s), NEW o \in Members, o # m
  PROVE  NoNew(o)
BY DEF HandOut, NoNew

\* A member whose loop stands still.
LEMMA AccountedLater ==
  ASSUME NEW m \in Members, Told(m), Accounted(m), NoNew(m),
         batch'[m] = batch[m], calls'[m] = calls[m], left'[m] = left[m],
         pc'[m] = pc[m], decided'[m] = decided[m], result'[m] = result[m]
  PROVE  Told(m)' /\ Accounted(m)'
<1>1. Told(m)'
  BY DEF Told
<1>2. ASSUME Going(m)' PROVE Called(m)' /\ Latest(m)' /\ Kind(m)'
  <2>1. Called(m) /\ Latest(m) /\ Kind(m)
    BY <1>2 DEF Going, Accounted
  <2>2. Called(m)'
    BY <2>1 DEF Called, NoNew, Mine, Current
  <2>3. Latest(m)'
    BY <2>1 DEF Latest, NoNew, Mine, Current
  <2>4. Kind(m)'
    BY <2>1 DEF Kind, InHand
  <2> QED
    BY <2>2, <2>3, <2>4
<1> QED
  BY <1>1, <1>2 DEF Accounted

\* The run is over, without a word to its caller that it went well.
LEMMA EndedAccounted ==
  ASSUME Shape, NEW m \in Members, NEW place, NEW how, Return(m, place, how),
         \/ place = "returned" /\ how = "error"
         \/ place = "dead" /\ how = "none"
  PROVE  Told(m)' /\ Accounted(m)'
BY DEF Shape, TypeOK, Return, Goto, Told, Accounted, Going

\* A step of one member leaves the loops of the others alone, and hands them nothing.
LEMMA OthersAccounted ==
  ASSUME \A o \in Members : Told(o) /\ Accounted(o), NEW m \in Members,
         Told(m)' /\ Accounted(m)',
         \A o \in Members \ {m} :
           /\ NoNew(o)
           /\ batch'[o] = batch[o] /\ calls'[o] = calls[o] /\ left'[o] = left[o]
           /\ pc'[o] = pc[o] /\ decided'[o] = decided[o] /\ result'[o] = result[o]
  PROVE  \A o \in Members : Told(o)' /\ Accounted(o)'
<1>1. ASSUME NEW o \in Members, o # m PROVE Told(o)' /\ Accounted(o)'
  BY <1>1, AccountedLater
<1> QED
  BY <1>1

LEMMA SettlingStep == Settling /\ [Next]_vars => Settling'
<1> DEFINE Goal == \A o \in Members : Told(o)' /\ Accounted(o)'
<1> SUFFICES ASSUME Settling, [Next]_vars PROVE Goal
  BY OnceStep DEF Settling
<1> USE DEF loopVars, counters
<1>a. Shape /\ Once /\ \A o \in Members : Told(o) /\ Accounted(o)
  BY DEF Settling, Once
<1>b. ASSUME NEW m \in Members, Running(m)
      PROVE  result[m] = "none" /\ Going(m) /\ Called(m) /\ Latest(m) /\ Kind(m)
  <2>1. result[m] = "none" /\ pc[m] # "dead"
    BY <1>a, <1>b DEF Told, Running
  <2> QED
    BY <1>a, <2>1 DEF Accounted, Going
<1> DEFINE Others(m) == \A o \in Members \ {m} :
             /\ batch'[o] = batch[o] /\ calls'[o] = calls[o] /\ left'[o] = left[o]
             /\ pc'[o] = pc[o] /\ decided'[o] = decided[o] /\ result'[o] = result[o]
<1>c. ASSUME NEW m \in Members, NEW place, NEW how, Return(m, place, how) PROVE Others(m)
  BY <1>a, <1>c DEF Shape, TypeOK, Return, Goto
<1>d. UNCHANGED group => \A o \in Members : NoNew(o)
  BY DEF NoNew
<1>1. ASSUME NEW m \in Members, next(m) PROVE Goal
  <2>1. batch[m] = <<>> /\ Running(m) /\ \A o \in Members : NoNew(o)
    BY <1>a, <1>d, <1>1 DEF Shape, Batches, TypeOK, next, Running
  <2>2. Others(m)
    BY <1>a, <1>1 DEF Shape, TypeOK, next, Return, Goto
  <2>3. batch'[m] = <<>> /\ left'[m] = left[m] /\ calls'[m] = calls[m]
        /\ pc'[m] # "settling" /\ pc'[m] # "dead"
    BY <1>a, <1>1, <2>1 DEF Shape, TypeOK, next, Return, Goto
  <2>4. Told(m)'
    <3>1. CASE Return(m, "returned", "nil")
      BY <1>a, <1>1, <3>1 DEF Shape, TypeOK, Return, Goto, Told
    <3>2. CASE result' = result
      BY <1>b, <2>1, <3>2 DEF Told
    <3> QED
      BY <1>1, <3>1, <3>2 DEF next
  <2>5. Called(m)' /\ Latest(m)' /\ Kind(m)'
    <3>1. Called(m)'
      BY <1>b, <2>1, <2>3 DEF Called, NoNew, Mine, Current
    <3>2. Latest(m)' /\ Kind(m)'
      BY <2>3 DEF Latest, Kind
    <3> QED
      BY <3>1, <3>2
  <2> QED
    BY <1>a, <2>1, <2>2, <2>4, <2>5, OthersAccounted DEF Accounted
<1>2. ASSUME NEW m \in Members, ReadNothing(m) \/ Wait(m) PROVE Goal
  <2>1. batch[m] = <<>> /\ Running(m) /\ \A o \in Members : NoNew(o)
    BY <1>a, <1>d, <1>2 DEF Shape, Batches, TypeOK, ReadNothing, Wait, Running
  <2>2. UNCHANGED <<batch, decided, left, result, calls>>
    BY <1>2 DEF ReadNothing, Wait
  <2>3. pc'[m] # "settling" /\ \A o \in Members \ {m} : pc'[o] = pc[o]
    BY <1>a, <1>2 DEF Shape, TypeOK, ReadNothing, Wait, Goto
  <2>4. Told(m)' /\ Kind(m)' /\ Latest(m)'
    BY <1>b, <2>1, <2>2, <2>3 DEF Told, Kind, Latest
  <2>5. Called(m)'
    BY <1>b, <2>1, <2>2 DEF Called, NoNew, Mine, Current
  <2> QED
    BY <1>a, <2>1, <2>2, <2>3, <2>4, <2>5, OthersAccounted DEF Accounted
<1>3. ASSUME NEW m \in Members, ReadFails(m) PROVE Goal
  <2>1. \A o \in Members \ {m} : NoNew(o)
    BY <1>d, <1>3, HandOutNew DEF ReadFails
  <2>2. Return(m, "returned", "error")
    BY <1>3 DEF ReadFails
  <2>3. Others(m) /\ Told(m)' /\ Accounted(m)'
    BY <1>a, <1>c, <2>2, EndedAccounted
  <2> QED
    BY <1>a, <2>1, <2>3, OthersAccounted
<1>4. ASSUME NEW m \in Members, Die(m) PROVE Goal
  <2>1. Return(m, "dead", "none") /\ \A o \in Members : NoNew(o)
    BY <1>d, <1>4 DEF Die
  <2>2. Others(m) /\ Told(m)' /\ Accounted(m)'
    BY <1>a, <1>c, <2>1, EndedAccounted
  <2> QED
    BY <1>a, <2>1, <2>2, OthersAccounted
<1>5. ASSUME NEW m \in Members, SettleFails(m) PROVE Goal
  <2>1. Return(m, "returned", "error") /\ \A o \in Members : NoNew(o)
    BY <1>a, <1>5, SettleNew DEF SettleFails
  <2>2. Others(m) /\ Told(m)' /\ Accounted(m)'
    BY <1>a, <1>c, <2>1, EndedAccounted
  <2> QED
    BY <1>a, <2>1, <2>2, OthersAccounted
<1>6. ASSUME NEW m \in Members, Handle(m) PROVE Goal
  <2>1. PICK d \in {"ack", "nack", "delay", "leave"} :
          /\ decided' = [decided EXCEPT ![m] = d]
          /\ left' = [left EXCEPT ![m] = IF d = "leave" THEN @ \cup {InHand(m)}
                                                        ELSE @ \ {InHand(m)}]
    BY <1>6 DEF Handle
  <2>2. /\ UNCHANGED <<batch, calls, group, result>>
        /\ pc[m] = "handling" /\ Running(m) /\ decided'[m] = d
        /\ \A o \in Members \ {m} : pc'[o] = pc[o] /\ decided'[o] = decided[o]
                                    /\ left'[o] = left[o]
        /\ ~Settles(d) => InHand(m) \in left'[m]
        /\ \A p \in left[m] : p \in left'[m] \/ p = InHand(m)
    BY <1>a, <1>6, <2>1 DEF Shape, TypeOK, Handle, Goto, Running, Settles
  <2>3. Told(m)' /\ Latest(m)' /\ Kind(m)'
    BY <1>b, <2>2 DEF Told, Latest, Kind, InHand, Mine, Current
  <2>4. Called(m)'
    <3>1. batch[m] # <<>> /\ Len(batch[m]) \in Nat \ {0} /\ Head(batch[m]) = batch[m][1]
      BY <1>a, <2>2, SplitSeq DEF Shape, TypeOK, Batches
    <3>2. ASSUME NEW p \in Positions, p = InHand(m), Mine(m, p)
          PROVE  Head(batch[m]) = Current(p)
      BY <1>b, <2>2, <3>1, <3>2 DEF Latest, InHand
    <3> QED
      BY <1>b, <2>2, <3>1, <3>2 DEF Called, Mine, Current
  <2> QED
    BY <1>a, <1>d, <2>2, <2>3, <2>4, OthersAccounted DEF Accounted
<1>7. ASSUME NEW m \in Members, Ack(m) PROVE Goal
  <2>1. /\ UNCHANGED <<pc, batch, decided, result, calls>> /\ pc[m] = "handling" /\ Running(m)
        /\ left'[m] = left[m] \ Kept(m) /\ \A o \in Members \ {m} : left'[o] = left[o]
    BY <1>a, <1>7 DEF Shape, TypeOK, Ack, Running
  <2>2. \A o \in Members : NoNew(o)
    BY <1>a, <1>7, PutNew DEF Ack
  <2>3. ASSUME NEW p \in Positions, p \in Kept(m), group'[p].at = "flight" PROVE FALSE
    BY <1>a, <1>7, <2>3 DEF Ack, Put, Shape, TypeOK
  <2>4. Called(m)'
    BY <1>b, <2>1, <2>2, <2>3 DEF Called, NoNew, Mine, Current
  <2>5. Latest(m)'
    BY <1>b, <2>1, <2>2 DEF Latest, NoNew, Mine, Current
  <2>6. Told(m)' /\ Kind(m)'
    BY <1>b, <2>1 DEF Told, Kind
  <2> QED
    BY <1>a, <2>1, <2>2, <2>4, <2>5, <2>6, OthersAccounted DEF Accounted
<1>8. ASSUME NEW m \in Members, pc[m] = "settling", settle(m), NEW p \in Positions,
             group'[p].at = "flight", group'[p].by = m, Head(batch[m]) = Current(p)
      PROVE  p \in left[m]
  <2>1. p = InHand(m)
    BY <1>8 DEF InHand, Current
  <2>2. ~Settles(decided[m])
    <3>1. ASSUME NEW place, place # "flight", Put({p}, place) PROVE FALSE
      <4>1. group'[p].at = place \/ (group[p].at # "flight" /\ group'[p] = group[p])
        BY <1>a, <3>1 DEF Put, Shape, TypeOK
      <4> QED
        BY <1>8, <3>1, <4>1
    <3> QED
      BY <1>8, <2>1, <3>1 DEF settle, Settles
  <2> QED
    BY <1>b, <1>8, <2>1, <2>2 DEF Kind, Running
<1>9. ASSUME NEW m \in Members, Settled(m) PROVE Goal
  <2>1. /\ pc[m] = "settling" /\ settle(m) /\ Running(m) /\ \A o \in Members : NoNew(o)
        /\ batch[m] \in Seq(Message) /\ batch[m] # <<>>
    BY <1>a, <1>9, SettleNew DEF Settled, Running, Shape, TypeOK, Batches
  <2>2. ASSUME NEW p \in Positions, group'[p].at = "flight", group'[p].by = m,
               Current(p) \in calls[m]
        PROVE  p \in left[m] /\ group'[p] = group[p]
    <3>1. group'[p] = group[p]
      BY <2>1, <2>2 DEF NoNew
    <3>2. p \in left[m] \/ Head(batch[m]) = Current(p)
      BY <1>b, <2>1, <2>2, <3>1 DEF Called, Mine
    <3> QED
      BY <1>8, <2>1, <2>2, <3>1, <3>2
  <2>3. ASSUME NEW p \in Positions, group'[p].at = "flight", group'[p].by = m
        PROVE  group'[p] = group[p] /\ Mine(m, p)
    BY <2>1, <2>3 DEF NoNew, Mine
  <2>4. CASE Return(m, "returned", "nil")
    <3>1. /\ batch'[m] = <<>> /\ calls' = calls /\ left' = left /\ pc'[m] = "returned"
      BY <1>a, <2>4 DEF Shape, TypeOK, Return, Goto
    <3>2. Called(m)'
      BY <2>2, <2>3, <3>1 DEF Called, Mine, Current
    <3>3. Told(m)' /\ Latest(m)' /\ Kind(m)'
      BY <3>1 DEF Told, Latest, Kind
    <3> QED
      BY <1>a, <1>c, <2>1, <2>4, <3>2, <3>3, OthersAccounted DEF Accounted
  <2>5. CASE Continue(m)
    <3> DEFINE n == Len(batch[m])
    <3>1. /\ n \in Nat \ {0} /\ Len(Tail(batch[m])) = n - 1
          /\ \A i \in 1 .. n - 1 : Tail(batch[m])[i] = batch[m][i + 1]
      BY <2>1, SplitSeq
    <3>2. /\ batch'[m] = Tail(batch[m]) /\ left' = left /\ pc'[m] \in {"next", "handling"}
          /\ result' = result
          /\ calls'[m] = calls[m] \/ (/\ batch'[m] # <<>>
                                      /\ calls'[m] = calls[m] \cup {Head(batch'[m])})
      <4>1. CASE rest(m) = <<>>
        BY <1>a, <2>5, <4>1 DEF Shape, TypeOK, Continue, Goto, rest
      <4>2. CASE rest(m) # <<>>
        <5>1. Call(m, Tail(batch[m])) /\ left' = left /\ result' = result
          BY <2>5, <4>2 DEF Continue, rest
        <5>2. batch'[m] = Tail(batch[m]) /\ pc'[m] = "handling"
          BY <1>a, <5>1 DEF Shape, TypeOK, Call, Goto
        <5>3. calls'[m] = calls[m] \cup {Head(Tail(batch[m]))}
          BY <1>a, <5>1 DEF Shape, TypeOK, Call
        <5> QED
          BY <4>2, <5>1, <5>2, <5>3 DEF rest
      <4> QED
        BY <4>1, <4>2
    <3>3. Others(m)
      BY <1>a, <2>5 DEF Shape, TypeOK, Continue, Call, Goto
    <3> HIDE DEF n
    <3>4. Called(m)'
      <4> SUFFICES ASSUME NEW p \in Positions, group'[p].at = "flight", group'[p].by = m,
                          Current(p)' \in calls'[m]
                   PROVE  p \in left'[m] \/ (batch'[m] # <<>> /\ Head(batch'[m]) = Current(p)')
        BY DEF Called, Mine, Current
      <4>1. Current(p)' = Current(p)
        BY <2>3 DEF Current
      <4> QED
        BY <2>2, <3>2, <4>1
    <3>5. Latest(m)'
      <4> SUFFICES ASSUME NEW p \in Positions, group'[p].at = "flight", group'[p].by = m,
                          NEW i \in 1 .. n - 1, batch'[m][i].position = p
                   PROVE  batch'[m][i] = Current(p)'
        BY <3>1, <3>2 DEF Latest, Mine, Current
      <4>1. i + 1 \in 1 .. n /\ batch'[m][i] = batch[m][i + 1]
        BY <3>1, <3>2
      <4>2. Current(p)' = Current(p) /\ Mine(m, p)
        BY <2>3 DEF Current
      <4> QED
        BY <1>b, <2>1, <4>1, <4>2 DEF Latest, n
    <3>6. Told(m)' /\ Kind(m)'
      BY <1>b, <2>1, <3>2 DEF Told, Kind
    <3> QED
      BY <1>a, <2>1, <3>3, <3>4, <3>5, <3>6, OthersAccounted DEF Accounted
  <2> QED
    BY <1>9, <2>4, <2>5 DEF Settled
<1>10. ASSUME NEW m \in Members, Read(m) PROVE Goal
  <2>1. PICK s \in Handouts : HandOut(m, s) /\ \E order \in InOrder(s) : Call(m, Answered(order))
    BY <1>10 DEF Read
  <2>2. PICK order \in InOrder(s) : Call(m, Answered(order))
    BY <2>1
  <2> DEFINE D == Answered(order)
  <2>3. /\ s \subseteq Positions /\ D \in Seq(Message) /\ D # <<>> /\ Len(D) = Len(order)
        /\ \A i \in 1 .. Len(order) :
             /\ order[i] \in s
             /\ D[i] = [position |-> order[i], deliveries |-> group[order[i]].deliveries + 1]
    BY <1>a, <2>1, <2>2, AnsweredEach
  <2>4. /\ batch'[m] = D /\ left' = left /\ Running(m) /\ batch[m] = <<>> /\ result' = result
        /\ calls'[m] = calls[m] \cup {Head(D)} /\ pc'[m] = "handling"
    BY <1>a, <1>10, <2>2 DEF Shape, TypeOK, Batches, Read, Call, Goto, Running
  <2>5. Others(m)
    BY <1>a, <1>10, <2>2 DEF Shape, TypeOK, Read, Call, Goto
  <2>6. \A o \in Members \ {m} : NoNew(o)
    BY <2>1, HandOutNew
  <2> HIDE DEF D
  <2>7. Len(D) \in Nat \ {0} /\ Head(D) = D[1]
    BY <2>3, SplitSeq
  <2>8. ASSUME NEW i \in 1 .. Len(D)
        PROVE  /\ D[i].position \in s /\ D[i].position \in Positions
               /\ D[i] = [position |-> D[i].position,
                          deliveries |-> group'[D[i].position].deliveries]
    <3>1. i \in 1 .. Len(order)
      BY <2>3, <2>8
    <3>2. order[i] \in s
          /\ D[i] = [position |-> order[i], deliveries |-> group[order[i]].deliveries + 1]
      BY <2>3, <3>1
    <3> QED
      BY <2>1, <2>3, <3>2 DEF HandOut
  <2>9. ASSUME NEW p \in s PROVE Current(p)' \notin calls[m]
    <3>1. p \in Positions /\ group'[p].deliveries = group[p].deliveries + 1
          /\ group[p].deliveries \in Nat
      BY <1>a, <2>1, <2>3, CountTypes DEF HandOut
    <3>2. Current(p)'.position = p /\ Current(p)'.deliveries = group[p].deliveries + 1
      BY <3>1 DEF Current
    <3>3. ASSUME NEW d \in calls[m], d.position = p, d.deliveries = group[p].deliveries + 1
          PROVE  FALSE
      BY <1>a, <3>1, <3>3 DEF Once, Given
    <3> QED
      BY <3>2, <3>3
  <2>10. Called(m)'
    <3> SUFFICES ASSUME NEW p \in Positions, group'[p].at = "flight", group'[p].by = m,
                        Current(p)' \in calls'[m]
                 PROVE  p \in left'[m] \/ (batch'[m] # <<>> /\ Head(batch'[m]) = Current(p)')
      BY DEF Called, Mine, Current
    <3>1. CASE p \in s
      BY <2>3, <2>4, <2>9, <3>1
    <3>2. CASE p \notin s
      <4>1. group'[p] = group[p]
        BY <2>1, <3>2 DEF HandOut
      <4>2. Current(p)' = Current(p) /\ Mine(m, p)
        BY <4>1 DEF Current, Mine
      <4>3. Head(D) # Current(p)'
        BY <2>7, <2>8, <3>2 DEF Current
      <4> QED
        BY <1>b, <2>4, <4>2, <4>3 DEF Called
    <3> QED
      BY <3>1, <3>2
  <2>11. Latest(m)'
    BY <2>4, <2>8 DEF Latest, Current
  <2>12. Told(m)' /\ Kind(m)'
    BY <1>b, <2>4 DEF Told, Kind
  <2> QED
    BY <1>a, <2>5, <2>6, <2>10, <2>11, <2>12, OthersAccounted DEF Accounted
<1>11. ASSUME UNCHANGED loopVars, \A o \in Members : NoNew(o) PROVE Goal
  BY <1>a, <1>11, AccountedLater
<1>12. ASSUME NEW p \in Positions, Deadline(p) PROVE Goal
  BY <1>a, <1>11, <1>12, PutNew DEF Deadline
<1>13. ASSUME NEW p \in Positions, DelayEnds(p) PROVE Goal
  <2>1. \A q \in Positions : group'[q] = group[q] \/ group'[q].at = "ready"
    BY <1>a, <1>13 DEF DelayEnds, Shape, TypeOK
  <2> QED
    BY <1>11, <1>13, <2>1 DEF DelayEnds, NoNew
<1>14. ASSUME NEW m \in Members, Cancel(m) PROVE Goal
  BY <1>11, <1>14 DEF Cancel, NoNew
<1>15. CASE UNCHANGED vars
  BY <1>11, <1>15 DEF vars, NoNew
<1> QED
  BY <1>1, <1>2, <1>3, <1>4, <1>5, <1>6, <1>7, <1>9, <1>10, <1>12, <1>13, <1>14, <1>15
     DEF Next, Run

\* A run that returns nil has settled the delivery its handler was running for: in
\* flight are only those it left and those it was not called for.
THEOREM StopSettlesEver == Spec => []StopSettles
<1>1. Init => Settling
  BY InitOnce DEF Init, Settling, Told, Accounted, Called, Latest, Kind, Mine
<1>2. Settling => StopSettles
  <2> SUFFICES ASSUME Settling, NEW m \in Members, result[m] = "nil",
                      NEW p \in Positions \ left[m], Mine(m, p)
               PROVE  Current(p) \notin calls[m]
    BY DEF StopSettles, Mine, Current
  <2>1. Going(m) /\ batch[m] = <<>>
    BY DEF Settling, Told, Going, Once, Shape, Batches
  <2> QED
    BY <2>1 DEF Settling, Accounted, Called
<1> QED
  BY <1>1, <1>2, SettlingStep, PTL DEF Spec
=============================================================================
