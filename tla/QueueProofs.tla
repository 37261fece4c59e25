----------------------------- MODULE QueueProofs -----------------------------
(***************************************************************************)
(* Proofs about Queue: for any workers, records, names and attempts, the   *)
(* types, that no work is lost, that workers have different records, and   *)
(* that a stop hands back what it holds.                                   *)
(***************************************************************************)
EXTENDS Queue, FiniteSetTheorems, SequenceTheorems, TLAPS

Records ==
  [at : {"free", "held", "gone", "dead"}, by : Workers \cup {NoOne},
   attempts : 0 .. MaxAttempts]

Places ==
  {"next", "claiming", "waiting", "handling", "settling", "handback", "returned", "dead"}

Results == {"none", "nil", "error"}

LEMMA SplitSeq ==
  ASSUME NEW S, NEW s \in Seq(S), s # <<>>
  PROVE  /\ Len(s) \in Nat \ {0}
         /\ Head(s) = s[1] /\ Head(s) \in S
         /\ Tail(s) \in Seq(S)
         /\ Len(Tail(s)) = Len(s) - 1
         /\ \A i \in 1 .. Len(s) - 1 : Tail(s)[i] = s[i + 1]
         /\ Tail(s) = <<>> <=> Len(s) = 1
<1>1. Tail(s) \in Seq(S)
  OBVIOUS
<1>2. Tail(s) = <<>> <=> Len(Tail(s)) = 0
  BY <1>1, EmptySeq
<1> QED
  BY <1>2

\* A claim answers each of the records it took once.
LEMMA OrderOfSet ==
  ASSUME NEW jobs \in SUBSET Jobs, jobs # {}, NEW order \in SetToSeqs(jobs)
  PROVE  /\ order \in Seq(Jobs)
         /\ order # <<>>
         /\ Len(order) = Cardinality(jobs)
         /\ \A i \in 1 .. Len(order) : order[i] \in jobs
         /\ \A i, k \in 1 .. Len(order) : i # k => order[i] # order[k]
<1>1. IsFiniteSet(jobs)
  BY FS_Subset, QueueAssumption
<1>2. Cardinality(jobs) \in Nat /\ Cardinality(jobs) # 0
  BY <1>1, FS_CardinalityType, FS_EmptySet
<1> DEFINE n == Cardinality(jobs)
<1>3. order \in [1 .. n -> jobs] /\ \A i, k \in 1 .. n : i # k => order[i] # order[k]
  BY DEF SetToSeqs
<1> HIDE DEF n
<1>4. n \in Nat /\ n # 0
  BY <1>2 DEF n
<1>5. order \in Seq(Jobs) /\ Len(order) = n
  BY <1>3, <1>4
<1> QED
  BY <1>3, <1>4, <1>5 DEF n

-----------------------------------------------------------------------------
(***************************************************************************)
(* Types and shape: a record that is free may be claimed once more, and a  *)
(* worker has jobs exactly while it handles or settles one.                *)
(***************************************************************************)
Spendable == \A j \in Jobs : store[j].at = "free" => store[j].attempts < MaxAttempts

Batches ==
  \A w \in Workers :
    /\ pc[w] \in {"handling", "settling"} => batch[w] # <<>>
    /\ pc[w] \in {"next", "claiming", "waiting", "returned", "dead"} => batch[w] = <<>>

Shape == TypeOK /\ Spendable /\ Batches

\* The statements keep the types of the store, and what may be claimed of it.
Stored == store' \in [Jobs -> Records] /\ Spendable'

LEMMA FreedTypes ==
  ASSUME Shape, NEW j \in Jobs
  PROVE  /\ Freed(j) \in Records
         /\ Freed(j).at = "free" => Freed(j).attempts < MaxAttempts
         /\ Freed(j).at \in {"free", "dead"} /\ Freed(j).by = NoOne
<1>1. PICK r \in Records : r = store[j]
  BY DEF Shape, TypeOK, Records
<1>2. PICK place \in {"free", "dead"} :
        /\ place = IF r.attempts < MaxAttempts THEN "free" ELSE "dead"
        /\ place = "free" => r.attempts < MaxAttempts
  OBVIOUS
<1>3. PICK f : f = Freed(j) /\ f = [r EXCEPT !.at = place, !.by = NoOne]
  BY <1>1, <1>2, Zenon DEF Freed
<1>4. f \in Records /\ f.at = place /\ f.by = NoOne /\ f.attempts = r.attempts
  BY <1>3 DEF Records
<1> QED
  BY <1>2, <1>3, <1>4

LEMMA HoldTypes ==
  ASSUME Shape, NEW w \in Workers, NEW jobs \in SUBSET Free, Hold(w, jobs)
  PROVE  Stored
<1>1. ASSUME NEW j \in jobs
      PROVE  [at |-> "held", by |-> w, attempts |-> store[j].attempts + 1] \in Records
  BY QueueAssumption DEF Shape, TypeOK, Spendable, Free, Records
<1>2. store' \in [Jobs -> Records]
  BY <1>1 DEF Shape, TypeOK, Hold, Records
<1>3. Spendable'
  BY DEF Shape, TypeOK, Hold, Spendable
<1> QED
  BY <1>2, <1>3 DEF Stored

LEMMA DeleteTypes ==
  ASSUME Shape, NEW j \in Jobs, Delete(j)
  PROVE  Stored
<1>a. store[j] \in Records
  BY DEF Shape, TypeOK, Records
<1>1. [store[j] EXCEPT !.at = "gone", !.by = NoOne] \in Records
  BY <1>a DEF Records
<1>2. store' = [store EXCEPT ![j] = [store[j] EXCEPT !.at = "gone", !.by = NoOne]]
  BY DEF Delete
<1>3. store \in [Jobs -> Records]
  BY DEF Shape, TypeOK, Records
<1>4. store' \in [Jobs -> Records]
  BY <1>1, <1>2, <1>3
<1>5. ASSUME NEW i \in Jobs, store'[i].at = "free"
      PROVE  store'[i].attempts < MaxAttempts
  <2>1. store'[i] = store[i]
    BY <1>2, <1>3, <1>5
  <2> QED
    BY <1>5, <2>1 DEF Shape, Spendable
<1> QED
  BY <1>4, <1>5 DEF Stored, Spendable

LEMMA ReleaseTypes ==
  ASSUME Shape, NEW name, NEW jobs, ReleaseHeld(name, jobs)
  PROVE  Stored
<1>1. ASSUME NEW j \in Jobs
      PROVE  store'[j] = Freed(j) \/ store'[j] = store[j]
  BY DEF ReleaseHeld
<1>2. store' \in [Jobs -> Records]
  BY FreedTypes DEF Shape, TypeOK, ReleaseHeld, Records
<1>3. Spendable'
  BY <1>1, FreedTypes DEF Shape, Spendable
<1> QED
  BY <1>2, <1>3 DEF Stored

LEMMA SettleTypes ==
  ASSUME Shape, NEW w \in Workers, pc[w] = "settling", Settle(w)
  PROVE  Stored
<1>1. Head(batch[w]) \in Jobs
  BY SplitSeq DEF Shape, TypeOK, Batches
<1>2. CASE decided[w] = "finish"
  BY <1>1, <1>2, DeleteTypes DEF Settle
<1>3. CASE decided[w] = "release"
  BY <1>3, ReleaseTypes DEF Settle
<1>4. CASE decided[w] \notin {"finish", "release"}
  BY <1>4 DEF Settle, Shape, TypeOK, Spendable, Stored, Records
<1> QED
  BY <1>2, <1>3, <1>4

\* The run is over: nothing of its batch is left.
LEMMA EndsTypes ==
  ASSUME Shape, NEW w \in Workers, NEW place \in {"returned", "dead"}, NEW how \in Results,
         Ends(w, place, how)
  PROVE  /\ pc' = [pc EXCEPT ![w] = place] /\ pc' \in [Workers -> Places]
         /\ batch' \in [Workers -> Seq(Jobs)]
         /\ \A v \in Workers : Len(batch'[v]) <= Batch
         /\ decided' \in [Workers -> Decisions]
         /\ result' \in [Workers -> Results]
         /\ left' \in [Workers -> SUBSET Jobs]
         /\ Batches'
<1>1. <<>> \in Seq(Jobs) /\ Len(<<>>) <= Batch
  BY QueueAssumption
<1>2. batch' \in [Workers -> Seq(Jobs)] /\ \A v \in Workers : Len(batch'[v]) <= Batch
  BY <1>1 DEF Shape, TypeOK, Ends
<1>3. pc' = [pc EXCEPT ![w] = place] /\ pc' \in [Workers -> Places]
  BY DEF Shape, TypeOK, Ends, Goto, Places
<1>4. Batches'
  BY <1>3 DEF Shape, TypeOK, Ends, Batches
<1>5. decided' \in [Workers -> Decisions] /\ result' \in [Workers -> Results]
      /\ left' \in [Workers -> SUBSET Jobs]
  BY DEF Shape, TypeOK, Ends, Decisions, Results
<1> QED
  BY <1>2, <1>3, <1>4, <1>5

-----------------------------------------------------------------------------
LEMMA ShapeStep == Shape /\ [Next]_vars => Shape'
<1> SUFFICES ASSUME Shape, [Next]_vars PROVE Shape'
  OBVIOUS
<1> USE DEF loopVars
<1>1. ASSUME NEW w \in Workers, next(w) PROVE Shape'
  <2>1. CASE stop[w]
    <3>1. Ends(w, "returned", "nil") /\ "nil" \in Results
      BY <1>1, <2>1 DEF next, ReturnNil, Results
    <3> QED
      BY <1>1, <3>1, EndsTypes DEF Shape, TypeOK, Spendable, next, Places, Results
  <2>2. CASE ~stop[w]
    BY <1>1, <2>2 DEF Shape, TypeOK, Spendable, Batches, next, Goto
  <2> QED
    BY <2>1, <2>2
<1>2. ASSUME NEW w \in Workers, Claim(w) PROVE Shape'
  <2>1. PICK jobs \in (SUBSET Free) \ {{}} :
          /\ Cardinality(jobs) <= Batch
          /\ Hold(w, jobs)
          /\ \E order \in SetToSeqs(jobs) : batch' = [batch EXCEPT ![w] = order]
    BY <1>2 DEF Claim
  <2>2. PICK order \in SetToSeqs(jobs) : batch' = [batch EXCEPT ![w] = order]
    BY <2>1
  <2>3. order \in Seq(Jobs) /\ order # <<>> /\ Len(order) <= Batch
    <3>1. jobs \in SUBSET Jobs /\ jobs # {}
      BY <2>1 DEF Free
    <3> QED
      BY <2>1, <2>2, <3>1, OrderOfSet
  <2>4. Stored
    BY <2>1, HoldTypes
  <2>5. batch' \in [Workers -> Seq(Jobs)] /\ \A v \in Workers : Len(batch'[v]) <= Batch
    BY <2>2, <2>3 DEF Shape, TypeOK
  <2>6. pc' = [pc EXCEPT ![w] = "handling"]
    BY <1>2 DEF Claim, Goto
  <2>7. Batches'
    BY <2>2, <2>3, <2>6 DEF Shape, TypeOK, Batches
  <2> QED
    BY <1>2, <2>4, <2>5, <2>6, <2>7 DEF Shape, TypeOK, Stored, Claim, Records
<1>3. ASSUME NEW w \in Workers, ClaimNothing(w) \/ Wait(w) PROVE Shape'
  <2>1. refusals' \in 0 .. MaxRefusals
    BY <1>3, QueueAssumption DEF Shape, TypeOK, ClaimNothing, Wait
  <2> QED
    BY <1>3, <2>1 DEF Shape, TypeOK, Spendable, Batches, ClaimNothing, Wait, Goto
<1>4. ASSUME NEW w \in Workers, ClaimFails(w) PROVE Shape'
  <2>1. Stored
    BY <1>4, HoldTypes DEF ClaimFails, Shape, TypeOK, Spendable, Stored, Records
  <2>2. Ends(w, "returned", "error") /\ "error" \in Results
    BY <1>4 DEF ClaimFails, ReturnError, Results
  <2> QED
    BY <1>4, <2>1, <2>2, EndsTypes DEF Shape, TypeOK, Stored, ClaimFails, Places, Results, Records
<1>5. ASSUME NEW w \in Workers, Handle(w) PROVE Shape'
  <2>1. Head(batch[w]) \in Jobs
    BY <1>5, SplitSeq DEF Shape, TypeOK, Batches, Handle
  <2>2. finished' \subseteq Jobs /\ left' \in [Workers -> SUBSET Jobs]
        /\ decided' \in [Workers -> Decisions]
    BY <1>5, <2>1 DEF Shape, TypeOK, Handle
  <2>3. pc' = [pc EXCEPT ![w] = "settling"] /\ pc[w] = "handling"
    BY <1>5 DEF Handle, Goto
  <2>4. Batches'
    BY <1>5, <2>3 DEF Shape, TypeOK, Batches, Handle
  <2> QED
    BY <1>5, <2>2, <2>3, <2>4 DEF Shape, TypeOK, Spendable, Handle
<1>6. ASSUME NEW w \in Workers, Settled(w) PROVE Shape'
  <2>1. Stored
    BY <1>6, SettleTypes DEF Settled
  <2>2. batch[w] \in Seq(Jobs) /\ batch[w] # <<>> /\ Len(batch[w]) <= Batch
    BY <1>6 DEF Shape, TypeOK, Batches, Settled
  <2>3. batch' = [batch EXCEPT ![w] = Tail(batch[w])]
    BY <1>6 DEF Settled, unseen
  <2>4. Tail(batch[w]) \in Seq(Jobs) /\ Len(Tail(batch[w])) = Len(batch[w]) - 1
        /\ Len(batch[w]) \in Nat \ {0}
    BY <2>2, SplitSeq
  <2>5. Len(Tail(batch[w])) <= Batch
    BY <2>2, <2>4, QueueAssumption
  <2>6. batch' \in [Workers -> Seq(Jobs)] /\ \A v \in Workers : Len(batch'[v]) <= Batch
    BY <2>3, <2>4, <2>5 DEF Shape, TypeOK
  <2>7. pc' = [pc EXCEPT ![w] = IF stop[w] THEN "handback"
                                ELSE IF Len(batch[w]) = 1 THEN "next" ELSE "handling"]
    BY <1>6 DEF Settled, Goto
  <2>8. Tail(batch[w]) = <<>> <=> Len(batch[w]) = 1
    BY <2>2, SplitSeq
  <2>9. Batches'
    BY <2>3, <2>7, <2>8 DEF Shape, TypeOK, Batches
  <2> QED
    BY <1>6, <2>1, <2>6, <2>7, <2>9 DEF Shape, TypeOK, Stored, Settled, Records, Decisions
<1>7. ASSUME NEW w \in Workers, SettleFails(w) PROVE Shape'
  <2>1. Stored
    BY <1>7, SettleTypes DEF SettleFails, Shape, TypeOK, Spendable, Stored, Records
  <2>2. Ends(w, "returned", "error") /\ "error" \in Results
    BY <1>7 DEF SettleFails, ReturnError, Results
  <2> QED
    BY <1>7, <2>1, <2>2, EndsTypes DEF Shape, TypeOK, Stored, SettleFails, Places, Results, Records
<1>8. ASSUME NEW w \in Workers, HandBack(w) PROVE Shape'
  <2>1. Stored
    BY <1>8, ReleaseTypes DEF HandBack, HandBackOne
  <2>2. batch[w] \in Seq(Jobs) /\ batch[w] # <<>> /\ Len(batch[w]) <= Batch
        /\ batch' = [batch EXCEPT ![w] = Tail(batch[w])]
    BY <1>8 DEF Shape, TypeOK, HandBack
  <2>3. Tail(batch[w]) \in Seq(Jobs) /\ Len(Tail(batch[w])) = Len(batch[w]) - 1
        /\ Len(batch[w]) \in Nat \ {0}
    BY <2>2, SplitSeq
  <2>4. Len(Tail(batch[w])) <= Batch
    BY <2>2, <2>3, QueueAssumption
  <2>5. batch' \in [Workers -> Seq(Jobs)] /\ \A v \in Workers : Len(batch'[v]) <= Batch
    BY <2>2, <2>3, <2>4 DEF Shape, TypeOK
  <2>6. Batches'
    BY <1>8, <2>2 DEF Shape, TypeOK, Batches, HandBack
  <2> QED
    BY <1>8, <2>1, <2>5, <2>6 DEF Shape, TypeOK, Stored, HandBack, Records
<1>9. ASSUME NEW w \in Workers, HandBackFails(w) PROVE Shape'
  <2>1. Stored
    BY <1>9, ReleaseTypes
    DEF HandBackFails, HandBackOne, Shape, TypeOK, Spendable, Stored, Records
  <2>2. Ends(w, "returned", "error") /\ "error" \in Results
    BY <1>9 DEF HandBackFails, ReturnError, Results
  <2> QED
    BY <1>9, <2>1, <2>2, EndsTypes DEF Shape, TypeOK, Stored, HandBackFails, Places, Results, Records
<1>10. ASSUME NEW w \in Workers, HandedBack(w) PROVE Shape'
  <2>1. Ends(w, "returned", "nil") /\ "nil" \in Results
    BY <1>10 DEF HandedBack, ReturnNil, Results
  <2> QED
    BY <1>10, <2>1, EndsTypes DEF Shape, TypeOK, Spendable, HandedBack, Places, Results
<1>11. ASSUME NEW w \in Workers, Die(w) PROVE Shape'
  <2>1. Ends(w, "dead", "none") /\ "none" \in Results
    BY <1>11 DEF Die, Results
  <2> QED
    BY <1>11, <2>1, EndsTypes DEF Shape, TypeOK, Spendable, Die, Places, Results
<1>12. ASSUME NEW w \in Workers, Cancel(w) PROVE Shape'
  <2>1. stop' \in [Workers -> BOOLEAN]
    <3>1. stop \in [Workers -> BOOLEAN] /\ stop' = [stop EXCEPT ![w] = TRUE]
      BY <1>12 DEF Shape, TypeOK, Cancel
    <3> QED
      BY <3>1, Zenon
  <2> QED
    BY <1>12, <2>1 DEF Shape, TypeOK, Spendable, Batches, Cancel
<1>13. ASSUME NEW j \in Jobs, Lapse(j) PROVE Shape'
  <2>1. store' \in [Jobs -> Records]
    BY <1>13, FreedTypes DEF Shape, TypeOK, Lapse, Records
  <2>2. Spendable'
    BY <1>13, FreedTypes DEF Shape, TypeOK, Lapse, Spendable
  <2>3. lapsed' \in BOOLEAN
    BY <1>13, Zenon DEF Lapse
  <2> QED
    BY <1>13, <2>1, <2>2, <2>3 DEF Shape, TypeOK, Batches, Lapse, Records
<1>14. CASE UNCHANGED vars
  BY <1>14 DEF Shape, TypeOK, Spendable, Batches, vars
<1> QED
  BY <1>1, <1>2, <1>3, <1>4, <1>5, <1>6, <1>7, <1>8, <1>9, <1>10, <1>11, <1>12, <1>13,
     <1>14 DEF Next, Run

LEMMA InitShape == Init => Shape
<1> SUFFICES ASSUME Init PROVE Shape
  OBVIOUS
<1>1. stop \in [Workers -> BOOLEAN] /\ lapsed \in BOOLEAN
  BY Zenon DEF Init
<1>2. <<>> \in Seq(Jobs) /\ Len(<<>>) <= Batch
  BY QueueAssumption
<1>3. store \in [Jobs -> Records]
  BY QueueAssumption DEF Init, Records
<1> QED
  BY <1>1, <1>2, <1>3, QueueAssumption
  DEF Init, Shape, TypeOK, Spendable, Batches, Records, Decisions

\* Every variable keeps its type: a worker has no more jobs than it claims at once,
\* and no record is claimed beyond its attempts.
THEOREM TypeCorrect == Spec => []TypeOK
<1>1. Shape => TypeOK
  BY DEF Shape
<1> QED
  BY <1>1, InitShape, ShapeStep, PTL DEF Spec

-----------------------------------------------------------------------------
(***************************************************************************)
(* No work is lost: what a worker is about to delete, a handler finished.  *)
(***************************************************************************)
Finished ==
  \A w \in Workers : pc[w] = "settling" /\ decided[w] = "finish" => Head(batch[w]) \in finished

WorkNotLost == Gone \subseteq finished

NoneLost == Shape /\ Finished /\ WorkNotLost

\* A statement deletes nothing, or a record some handler finished, and brings
\* none back.
Keeps ==
  \A j \in Jobs :
    /\ store'[j].at = "gone" => store[j].at = "gone" \/ j \in finished
    /\ store[j].at = "gone" => store'[j].at = "gone"

\* No handler finishes anything, or one does and no statement is made.
Finishes ==
  \/ finished' = finished
  \/ (\E j \in Jobs : finished' = finished \cup {j}) /\ store' = store

LEMMA HoldKeeps ==
  ASSUME Shape, NEW w, NEW jobs \in SUBSET Free, Hold(w, jobs)
  PROVE  Keeps
BY DEF Hold, Keeps, Free

LEMMA ReleaseKeeps ==
  ASSUME Shape, NEW name, NEW jobs, ReleaseHeld(name, jobs)
  PROVE  Keeps
BY FreedTypes DEF ReleaseHeld, HeldUnder, Keeps

LEMMA SettleKeeps ==
  ASSUME NoneLost, NEW w \in Workers, pc[w] = "settling", Settle(w)
  PROVE  Keeps
<1>1. CASE decided[w] = "finish"
  BY <1>1 DEF NoneLost, Shape, TypeOK, Finished, Settle, Delete, Keeps
<1>2. CASE decided[w] = "release"
  BY <1>2, ReleaseKeeps DEF NoneLost, Settle
<1>3. CASE decided[w] \notin {"finish", "release"}
  BY <1>3 DEF Settle, Keeps
<1> QED
  BY <1>1, <1>2, <1>3

LEMMA KeptNotLost ==
  ASSUME WorkNotLost, Keeps, Finishes
  PROVE  WorkNotLost'
BY DEF WorkNotLost, Keeps, Finishes, Gone

\* A step leaves what was finished so, and deletes nothing else.
LEMMA NoneLostStep == NoneLost /\ [Next]_vars => NoneLost' /\ Keeps /\ Finishes
<1> SUFFICES ASSUME NoneLost, [Next]_vars PROVE NoneLost' /\ Keeps /\ Finishes
  OBVIOUS
<1> USE DEF loopVars
<1>0. Shape' /\ Shape
  BY ShapeStep DEF NoneLost
<1> DEFINE Goal == Finished' /\ Keeps /\ Finishes
<1>1. ASSUME NEW w \in Workers, next(w) PROVE Goal
  BY <1>0, <1>1 DEF NoneLost, Shape, TypeOK, Finished, Keeps, Finishes, next, ReturnNil, Ends, Goto
<1>2. ASSUME NEW w \in Workers, Claim(w) PROVE Goal
  <2>1. Keeps
    BY <1>0, <1>2, HoldKeeps DEF Claim
  <2>2. Finished'
    BY <1>2 DEF NoneLost, Shape, TypeOK, Finished, Claim, Goto
  <2> QED
    BY <1>2, <2>1, <2>2 DEF Claim, Finishes
<1>3. ASSUME NEW w \in Workers, ClaimNothing(w) \/ Wait(w) PROVE Goal
  BY <1>3 DEF NoneLost, Shape, TypeOK, Finished, Keeps, Finishes, ClaimNothing, Wait, Goto
<1>4. ASSUME NEW w \in Workers, ClaimFails(w) PROVE Goal
  <2>1. Keeps
    BY <1>0, <1>4, HoldKeeps DEF ClaimFails, Keeps
  <2>2. Finished'
    BY <1>4 DEF NoneLost, Shape, TypeOK, Finished, ClaimFails, ReturnError, Ends, Goto
  <2> QED
    BY <1>4, <2>1, <2>2 DEF ClaimFails, Finishes
<1>5. ASSUME NEW w \in Workers, Handle(w) PROVE Goal
  <2>1. PICK d \in Decisions :
          /\ decided' = [decided EXCEPT ![w] = d]
          /\ finished' = IF d = "finish" THEN finished \cup {Head(batch[w])} ELSE finished
    BY <1>5 DEF Handle
  <2>2. Finished'
    BY <1>5, <2>1 DEF NoneLost, Shape, TypeOK, Finished, Handle, Goto
  <2>3. Keeps /\ store' = store
    BY <1>5 DEF Keeps, Handle
  <2>4. Head(batch[w]) \in Jobs
    BY <1>0, <1>5, SplitSeq DEF Shape, TypeOK, Batches, Handle
  <2>5. Finishes
    BY <2>1, <2>3, <2>4 DEF Finishes
  <2> QED
    BY <2>2, <2>3, <2>5
<1>6. ASSUME NEW w \in Workers, Settled(w) PROVE Goal
  <2>1. Keeps
    BY <1>6, SettleKeeps DEF Settled
  <2>2. Finished'
    BY <1>6 DEF NoneLost, Shape, TypeOK, Finished, Settled, Goto
  <2> QED
    BY <1>6, <2>1, <2>2 DEF Settled, Finishes
<1>7. ASSUME NEW w \in Workers, SettleFails(w) PROVE Goal
  <2>1. Keeps
    BY <1>7, SettleKeeps DEF SettleFails, Keeps
  <2>2. Finished'
    BY <1>7 DEF NoneLost, Shape, TypeOK, Finished, SettleFails, ReturnError, Ends, Goto
  <2> QED
    BY <1>7, <2>1, <2>2 DEF SettleFails, Finishes
<1>8. ASSUME NEW w \in Workers, HandBack(w) PROVE Goal
  <2>1. Keeps
    BY <1>0, <1>8, ReleaseKeeps DEF HandBack, HandBackOne
  <2>2. Finished'
    BY <1>8 DEF NoneLost, Shape, TypeOK, Finished, HandBack
  <2> QED
    BY <1>8, <2>1, <2>2 DEF HandBack, Finishes
<1>9. ASSUME NEW w \in Workers, HandBackFails(w) PROVE Goal
  <2>1. Keeps
    BY <1>0, <1>9, ReleaseKeeps DEF HandBackFails, HandBackOne, Keeps
  <2>2. Finished'
    BY <1>9 DEF NoneLost, Shape, TypeOK, Finished, HandBackFails, ReturnError, Ends, Goto
  <2> QED
    BY <1>9, <2>1, <2>2 DEF HandBackFails, Finishes
<1>10. ASSUME NEW w \in Workers, HandedBack(w) \/ Die(w) \/ Cancel(w) PROVE Goal
  BY <1>10 DEF NoneLost, Shape, TypeOK, Finished, Keeps, Finishes, HandedBack, Die, Cancel, ReturnNil,
     Ends, Goto
<1>11. ASSUME NEW j \in Jobs, Lapse(j) PROVE Goal
  BY <1>0, <1>11, FreedTypes DEF NoneLost, Shape, TypeOK, Finished, Keeps, Finishes, Lapse
<1>12. ASSUME UNCHANGED vars PROVE Goal
  BY <1>12 DEF NoneLost, Finished, Keeps, Finishes, vars
<1>13. Goal
  BY <1>1, <1>2, <1>3, <1>4, <1>5, <1>6, <1>7, <1>8, <1>9, <1>10, <1>11, <1>12 DEF Next, Run
<1> QED
  BY <1>0, <1>13, KeptNotLost DEF NoneLost

\* A record is deleted only after a handler finished it, whoever died, lost an
\* answer or lost its hold meanwhile.
THEOREM WorkNotLostEver == Spec => []WorkNotLost
<1>1. Init => NoneLost
  BY InitShape DEF Init, NoneLost, Finished, WorkNotLost, Gone
<1>2. NoneLost => WorkNotLost
  BY DEF NoneLost
<1> QED
  BY <1>1, <1>2, NoneLostStep, PTL DEF Spec

\* The workers and the store implement AtLeastOnce: a job is deleted only after a
\* handler finished it, and for good.
THEOREM NothingLostEver == Spec => NothingLost
<1>1. Init => NoneLost
  BY InitShape DEF Init, NoneLost, Finished, WorkNotLost, Gone
<1>2. Init => Promise!Init
  BY DEF Init, Promise!Init, Gone
<1>3. NoneLost /\ [Next]_vars => [Promise!Finish \/ Promise!Settle]_<<finished, Gone>>
  <2> SUFFICES ASSUME NoneLost, Keeps, Finishes
               PROVE  [Promise!Finish \/ Promise!Settle]_<<finished, Gone>>
    BY NoneLostStep
  <2>1. CASE finished' = finished
    <3>1. Gone \subseteq Gone' /\ Gone' \subseteq Gone \cup finished
      BY DEF Keeps, Gone
    <3>2. Gone' = Gone \cup Gone' /\ Gone' \subseteq finished
      BY <3>1 DEF NoneLost, WorkNotLost
    <3> QED
      BY <2>1, <3>2 DEF Promise!Settle
  <2>2. CASE (\E j \in Jobs : finished' = finished \cup {j}) /\ store' = store
    <3>1. Gone' = Gone
      BY <2>2 DEF Gone
    <3> QED
      BY <2>2, <3>1 DEF Promise!Finish
  <2> QED
    BY <2>1, <2>2 DEF Finishes
<1> QED
  BY <1>1, <1>2, <1>3, NoneLostStep, PTL DEF Spec, NothingLost, Promise!Spec

-----------------------------------------------------------------------------
(***************************************************************************)
(* Workers have different records until a hold lapses: each has every job  *)
(* of its batch once, and held for it.                                     *)
(***************************************************************************)
Held(w, j) == store[j].at = "held" /\ store[j].by = w

OwnsBatch(w) ==
  \A i \in 1 .. Len(batch[w]) :
    /\ Held(w, batch[w][i])
    /\ \A k \in 1 .. Len(batch[w]) : i # k => batch[w][i] # batch[w][k]

Apart == Shape /\ (~lapsed => \A w \in Workers : OwnsBatch(w))

LEMMA BatchJobs ==
  ASSUME Shape, NEW w \in Workers, NEW i \in 1 .. Len(batch[w])
  PROVE  batch[w][i] \in Jobs
BY DEF Shape, TypeOK

\* A statement of worker w that touches free records, or records held for w.
TouchesOwn(w) ==
  \A j \in Jobs : store'[j] = store[j] \/ store[j].at = "free" \/ Held(w, j)

LEMMA OthersOwn ==
  ASSUME Shape, NEW w \in Workers, TouchesOwn(w), NEW v \in Workers, v # w,
         OwnsBatch(v), batch'[v] = batch[v]
  PROVE  OwnsBatch(v)'
BY BatchJobs DEF TouchesOwn, OwnsBatch, Held

\* A statement about the job in hand touches that one and no other.
LEMMA SettleTouches ==
  ASSUME Shape, NEW w \in Workers, pc[w] = "settling", Settle(w)
  PROVE  \A j \in Jobs : j # Head(batch[w]) => store'[j] = store[j]
BY DEF Shape, TypeOK, Settle, Delete, ReleaseHeld

\* A batch without its first job is still the worker's.
LEMMA TailOwned ==
  ASSUME Shape, NEW w \in Workers, OwnsBatch(w), batch[w] # <<>>,
         \A j \in Jobs : j # Head(batch[w]) => store'[j] = store[j]
  PROVE  /\ TouchesOwn(w)
         /\ batch'[w] = Tail(batch[w]) => OwnsBatch(w)'
<1> DEFINE n == Len(batch[w])
<1>1. batch[w] \in Seq(Jobs)
  BY DEF Shape, TypeOK
<1>2. /\ n \in Nat \ {0} /\ Head(batch[w]) = batch[w][1]
      /\ Len(Tail(batch[w])) = n - 1
      /\ \A i \in 1 .. n - 1 : Tail(batch[w])[i] = batch[w][i + 1]
  BY <1>1, SplitSeq
<1> HIDE DEF n
<1>3. TouchesOwn(w)
  BY <1>2 DEF TouchesOwn, OwnsBatch, n
<1>4. ASSUME batch'[w] = Tail(batch[w]) PROVE OwnsBatch(w)'
  <2>1. ASSUME NEW i \in 1 .. n - 1
        PROVE  /\ i + 1 \in 1 .. n /\ i + 1 # 1 /\ 1 \in 1 .. n
               /\ batch'[w][i] = batch[w][i + 1]
    BY <1>2, <1>4
  <2>2. ASSUME NEW i \in 1 .. n - 1
        PROVE  store'[batch'[w][i]].at = "held" /\ store'[batch'[w][i]].by = w
    <3>1. batch[w][i + 1] \in Jobs /\ batch[w][i + 1] # batch[w][1]
          /\ store[batch[w][i + 1]].at = "held" /\ store[batch[w][i + 1]].by = w
      BY <2>1, BatchJobs DEF OwnsBatch, Held, n
    <3>2. store'[batch[w][i + 1]] = store[batch[w][i + 1]]
      BY <1>2, <3>1
    <3> QED
      BY <2>1, <3>1, <3>2
  <2>3. ASSUME NEW i \in 1 .. n - 1, NEW k \in 1 .. n - 1, i # k
        PROVE  batch'[w][i] # batch'[w][k]
    <3>1. i + 1 # k + 1
      BY <1>2, <2>3
    <3>2. /\ i + 1 \in 1 .. n /\ batch'[w][i] = batch[w][i + 1]
          /\ k + 1 \in 1 .. n /\ batch'[w][k] = batch[w][k + 1]
      BY <2>1
    <3>3. batch[w][i + 1] # batch[w][k + 1]
      BY <3>1, <3>2 DEF OwnsBatch, n
    <3> QED
      BY <3>2, <3>3
  <2>4. Len(batch'[w]) = n - 1
    BY <1>2, <1>4
  <2> QED
    BY <2>2, <2>3, <2>4 DEF OwnsBatch, Held
<1> QED
  BY <1>3, <1>4

LEMMA NoBatchOwned ==
  ASSUME NEW w \in Workers, batch'[w] = <<>>
  PROVE  OwnsBatch(w)'
BY DEF OwnsBatch

LEMMA ApartStep == Apart /\ [Next]_vars => Apart'
<1> SUFFICES ASSUME Apart, [Next]_vars, ~lapsed' PROVE \A v \in Workers : OwnsBatch(v)'
  BY ShapeStep DEF Apart
<1> USE DEF loopVars
<1>a. Shape
  BY DEF Apart
<1>b. ~lapsed /\ \A w \in Workers : OwnsBatch(w)
  <2>1. lapsed => lapsed'
    BY DEF Next, Run, next, Claim, ClaimNothing, ClaimFails, Wait, Handle, Settled, SettleFails,
       HandBack, HandBackFails, HandedBack, Cancel, Die, Lapse, vars
  <2> QED
    BY <2>1 DEF Apart
<1> DEFINE Goal == \A v \in Workers : OwnsBatch(v)'
<1>1. ASSUME NEW w \in Workers, Ends(w, pc'[w], result'[w]), TouchesOwn(w) PROVE Goal
  <2>1. batch'[w] = <<>> /\ \A v \in Workers \ {w} : batch'[v] = batch[v]
    BY <1>a, <1>1 DEF Shape, TypeOK, Ends
  <2> QED
    BY <1>a, <1>b, <1>1, <2>1, NoBatchOwned, OthersOwn
<1>2. ASSUME UNCHANGED <<store, batch>> PROVE Goal
  BY <1>b, <1>2 DEF OwnsBatch, Held
<1>3. ASSUME NEW w \in Workers, next(w) \/ HandedBack(w) \/ Die(w) PROVE Goal
  <2>1. TouchesOwn(w)
    BY <1>3 DEF TouchesOwn, next, HandedBack, Die
  <2>2. CASE Ends(w, "returned", "nil") \/ Ends(w, "dead", "none")
    <3>1. Ends(w, pc'[w], result'[w])
      BY <1>a, <2>2 DEF Shape, TypeOK, Ends, Goto
    <3> QED
      BY <1>1, <2>1, <3>1
  <2>3. CASE UNCHANGED <<store, batch>>
    BY <1>2, <2>3
  <2> QED
    BY <1>3, <2>2, <2>3 DEF next, HandedBack, Die, ReturnNil
<1>4. ASSUME NEW w \in Workers, Claim(w) PROVE Goal
  <2>1. PICK jobs \in (SUBSET Free) \ {{}} :
          /\ Hold(w, jobs)
          /\ \E order \in SetToSeqs(jobs) : batch' = [batch EXCEPT ![w] = order]
    BY <1>4 DEF Claim
  <2>2. PICK order \in SetToSeqs(jobs) : batch' = [batch EXCEPT ![w] = order]
    BY <2>1
  <2>3. jobs \in SUBSET Jobs /\ jobs # {}
    BY <2>1 DEF Free
  <2>4. /\ \A i \in 1 .. Len(order) : order[i] \in jobs
        /\ \A i, k \in 1 .. Len(order) : i # k => order[i] # order[k]
    BY <2>2, <2>3, OrderOfSet
  <2>5. batch'[w] = order /\ \A v \in Workers \ {w} : batch'[v] = batch[v]
    BY <1>a, <2>2 DEF Shape, TypeOK
  <2>6. \A j \in jobs : Held(w, j)'
    BY <2>1, <2>3 DEF Hold, Held
  <2>7. OwnsBatch(w)'
    BY <2>4, <2>5, <2>6 DEF OwnsBatch
  <2>8. TouchesOwn(w)
    BY <2>1 DEF TouchesOwn, Hold, Free
  <2> QED
    BY <1>a, <1>b, <2>5, <2>7, <2>8, OthersOwn
<1>5. ASSUME NEW w \in Workers, ClaimNothing(w) \/ Wait(w) \/ Handle(w) \/ Cancel(w) PROVE Goal
  BY <1>2, <1>5 DEF ClaimNothing, Wait, Handle, Cancel
<1>6. ASSUME NEW w \in Workers, ClaimFails(w) PROVE Goal
  <2>1. TouchesOwn(w)
    BY <1>6 DEF TouchesOwn, ClaimFails, Hold, Free
  <2>2. Ends(w, pc'[w], result'[w])
    BY <1>a, <1>6 DEF Shape, TypeOK, ClaimFails, ReturnError, Ends, Goto
  <2> QED
    BY <1>1, <2>1, <2>2
<1>7. ASSUME NEW w \in Workers, Settled(w) PROVE Goal
  <2>1. batch[w] # <<>> /\ \A j \in Jobs : j # Head(batch[w]) => store'[j] = store[j]
    BY <1>a, <1>7, SettleTouches DEF Shape, Batches, Settled
  <2>2. batch'[w] = Tail(batch[w]) /\ \A v \in Workers \ {w} : batch'[v] = batch[v]
    BY <1>a, <1>7 DEF Shape, TypeOK, Settled, unseen
  <2> QED
    BY <1>a, <1>b, <2>1, <2>2, TailOwned, OthersOwn
<1>8. ASSUME NEW w \in Workers, SettleFails(w) PROVE Goal
  <2>1. batch[w] # <<>> /\ \A j \in Jobs : j # Head(batch[w]) => store'[j] = store[j]
    BY <1>a, <1>8, SettleTouches DEF Shape, Batches, SettleFails
  <2>2. TouchesOwn(w)
    BY <1>a, <1>b, <2>1, TailOwned
  <2>3. Ends(w, pc'[w], result'[w])
    BY <1>a, <1>8 DEF Shape, TypeOK, SettleFails, ReturnError, Ends, Goto
  <2> QED
    BY <1>1, <2>2, <2>3
<1>9. ASSUME NEW w \in Workers, HandBack(w) PROVE Goal
  <2>1. batch[w] # <<>> /\ \A j \in Jobs : j # Head(batch[w]) => store'[j] = store[j]
    BY <1>9 DEF HandBack, HandBackOne, ReleaseHeld
  <2>2. batch'[w] = Tail(batch[w]) /\ \A v \in Workers \ {w} : batch'[v] = batch[v]
    BY <1>a, <1>9 DEF Shape, TypeOK, HandBack
  <2> QED
    BY <1>a, <1>b, <2>1, <2>2, TailOwned, OthersOwn
<1>10. ASSUME NEW w \in Workers, HandBackFails(w) PROVE Goal
  <2>1. batch[w] # <<>> /\ \A j \in Jobs : j # Head(batch[w]) => store'[j] = store[j]
    BY <1>10 DEF HandBackFails, HandBackOne, ReleaseHeld
  <2>2. TouchesOwn(w)
    BY <1>a, <1>b, <2>1, TailOwned
  <2>3. Ends(w, pc'[w], result'[w])
    BY <1>a, <1>10 DEF Shape, TypeOK, HandBackFails, ReturnError, Ends, Goto
  <2> QED
    BY <1>1, <2>2, <2>3
<1>11. ASSUME NEW j \in Jobs, Lapse(j) PROVE FALSE
  BY <1>11 DEF Lapse
<1>12. CASE UNCHANGED vars
  BY <1>2, <1>12 DEF vars
<1> QED
  BY <1>3, <1>4, <1>5, <1>6, <1>7, <1>8, <1>9, <1>10, <1>11, <1>12 DEF Next, Run

\* Until a hold lapses, what a worker has in hand or still to come is held for it
\* and for no other, also while one of the same name hands its batch back.
THEOREM DifferentRecordsEver == Spec => []DifferentRecords
<1>1. Init => Apart
  BY InitShape DEF Init, Apart, OwnsBatch
<1>2. Apart => DifferentRecords
  BY DEF Apart, OwnsBatch, Held, DifferentRecords
<1> QED
  BY <1>1, <1>2, ApartStep, PTL DEF Spec

-----------------------------------------------------------------------------
(***************************************************************************)
(* A run that has not failed accounts for every record it holds: its       *)
(* handler left it, or it is in the batch still to be handled or handed    *)
(* back.                                                                   *)
(***************************************************************************)
Going(w) == pc[w] # "dead" /\ result[w] # "error"

InBatch(w, j) == \E i \in 1 .. Len(batch[w]) : batch[w][i] = j

Accounted(w) ==
  Going(w) => /\ \A j \in Jobs : Held(w, j) => InBatch(w, j) \/ j \in left[w]
              /\ pc[w] = "settling" /\ decided[w] = "leave" => Head(batch[w]) \in left[w]

Told(w) == result[w] # "none" => pc[w] = "returned"

HandedOver == Shape /\ \A w \in Workers : Told(w) /\ Accounted(w)

\* A claim puts every record it took into the batch.
LEMMA OrderHasAll ==
  ASSUME NEW jobs \in SUBSET Jobs, jobs # {}, NEW order \in SetToSeqs(jobs), NEW j \in jobs
  PROVE  \E i \in 1 .. Len(order) : order[i] = j
<1> DEFINE n == Cardinality(jobs)
<1>1. IsFiniteSet(jobs)
  BY FS_Subset, QueueAssumption
<1>2. n \in Nat
  BY <1>1, FS_CardinalityType
<1>3. order \in Injection(1 .. n, jobs) /\ Len(order) = n
  BY OrderOfSet DEF SetToSeqs, Injection, IsInjective
<1> HIDE DEF n
<1>4. IsFiniteSet(1 .. n) /\ Cardinality(1 .. n) = n
  BY <1>2, FS_Interval
<1>5. order \in Surjection(1 .. n, jobs)
  BY <1>1, <1>3, <1>4, FS_Injection DEF n
<1> QED
  BY <1>3, <1>5 DEF Surjection

LEMMA InSplitBatch ==
  ASSUME Shape, NEW w \in Workers, batch[w] # <<>>, NEW j, InBatch(w, j),
         j # Head(batch[w]), batch'[w] = Tail(batch[w])
  PROVE  InBatch(w, j)'
<1>1. batch[w] \in Seq(Jobs)
  BY DEF Shape, TypeOK
<1>2. PICK i \in 1 .. Len(batch[w]) : batch[w][i] = j
  BY DEF InBatch
<1>3. /\ i - 1 \in 1 .. Len(batch[w]) - 1
      /\ Tail(batch[w])[i - 1] = batch[w][(i - 1) + 1]
      /\ (i - 1) + 1 = i
      /\ Len(Tail(batch[w])) = Len(batch[w]) - 1
  BY <1>1, <1>2, SplitSeq
<1> QED
  BY <1>2, <1>3 DEF InBatch

\* Nobody but the worker itself is handed a record under its process.
LEMMA FreedNotHeld ==
  ASSUME NEW name, NEW jobs, ReleaseHeld(name, jobs), NEW v \in Workers, NEW j \in Jobs,
         Shape, Held(v, j)'
  PROVE  Held(v, j) /\ (Name[v] = name => j \notin jobs)
BY FreedTypes DEF ReleaseHeld, HeldUnder, Held, Shape, TypeOK

LEMMA SettledNotHeld ==
  ASSUME Shape, NEW w \in Workers, pc[w] = "settling", Settle(w), NEW v \in Workers,
         NEW j \in Jobs, Held(v, j)'
  PROVE  /\ Held(v, j)
         /\ v = w /\ decided[w] # "leave" => j # Head(batch[w])
<1>1. CASE decided[w] = "finish"
  <2>1. Head(batch[w]) \in Jobs
    BY SplitSeq DEF Shape, TypeOK, Batches
  <2> QED
    BY <1>1, <2>1 DEF Settle, Delete, Held, Shape, TypeOK
<1>2. CASE decided[w] = "release"
  BY <1>2, FreedNotHeld DEF Settle
<1>3. CASE decided[w] = "leave"
  BY <1>3 DEF Settle, Held
<1> QED
  BY <1>1, <1>2, <1>3 DEF Shape, TypeOK, Decisions

\* A step of worker v leaves the loop of every other one alone.
Alone(v) ==
  \A w \in Workers \ {v} :
    /\ pc'[w] = pc[w] /\ batch'[w] = batch[w] /\ decided'[w] = decided[w]
    /\ result'[w] = result[w] /\ left'[w] = left[w]
    /\ \A j \in Jobs : Held(w, j)' => Held(w, j)

LEMMA OthersAccounted ==
  ASSUME HandedOver, NEW v \in Workers, Alone(v), Told(v)', Accounted(v)'
  PROVE  \A w \in Workers : Told(w)' /\ Accounted(w)'
<1>1. ASSUME NEW w \in Workers, w # v PROVE Told(w)' /\ Accounted(w)'
  BY <1>1 DEF HandedOver, Alone, Told, Accounted, Going, InBatch
<1> QED
  BY <1>1

\* The run is over without an answer to its caller that it went well.
LEMMA EndedAccounted ==
  ASSUME Shape, NEW w \in Workers, NEW how \in {"error", "none"}, NEW place,
         Ends(w, place, how), how = "none" => place = "dead", how = "error" => place = "returned"
  PROVE  Told(w)' /\ Accounted(w)'
BY DEF Shape, TypeOK, Ends, Goto, Told, Accounted, Going

\* The job in hand is dealt with: none of its records is out of account.
LEMMA FirstDealtWith ==
  ASSUME Shape, NEW w \in Workers, Accounted(w), Going(w), batch[w] # <<>>,
         batch'[w] = Tail(batch[w]), left'[w] = left[w], pc'[w] # "settling",
         \A j \in Jobs : Held(w, j)' =>
           Held(w, j) /\ (j # Head(batch[w]) \/ Head(batch[w]) \in left[w])
  PROVE  Accounted(w)'
BY InSplitBatch DEF Accounted

LEMMA HandedOverStep == HandedOver /\ [Next]_vars => HandedOver'
<1> DEFINE Goal == \A v \in Workers : Told(v)' /\ Accounted(v)'
<1> SUFFICES ASSUME HandedOver, [Next]_vars PROVE Goal
  BY ShapeStep DEF HandedOver
<1> USE DEF loopVars
<1>a. Shape /\ \A w \in Workers : Told(w) /\ Accounted(w)
  BY DEF HandedOver
<1>b. ASSUME NEW w \in Workers, pc[w] \notin {"returned", "dead"} PROVE Going(w) /\ result[w] = "none"
  BY <1>a, <1>b DEF Told, Going, Shape, TypeOK
<1>1. ASSUME NEW w \in Workers, next(w) PROVE Goal
  <2>1. Alone(w)
    BY <1>a, <1>1 DEF Shape, TypeOK, next, ReturnNil, Ends, Goto, Alone, Held
  <2>2. batch[w] = <<>> /\ batch'[w] = <<>> /\ left'[w] = left[w] /\ pc[w] = "next"
    BY <1>a, <1>1 DEF Shape, TypeOK, Batches, next, ReturnNil, Ends, Goto
  <2>3. pc'[w] = "returned" \/ (pc'[w] = "claiming" /\ result'[w] = result[w])
    BY <1>a, <1>1 DEF Shape, TypeOK, next, ReturnNil, Ends, Goto
  <2>4. \A j \in Jobs : Held(w, j)' => Held(w, j)
    BY <1>1 DEF next, Held
  <2>5. Told(w)' /\ Accounted(w)'
    BY <1>a, <1>b, <2>2, <2>3, <2>4 DEF Told, Accounted, InBatch
  <2> QED
    BY <2>1, <2>5, OthersAccounted
<1>2. ASSUME NEW w \in Workers, Claim(w) PROVE Goal
  <2>1. PICK jobs \in (SUBSET Free) \ {{}} :
          /\ Hold(w, jobs)
          /\ \E order \in SetToSeqs(jobs) : batch' = [batch EXCEPT ![w] = order]
    BY <1>2 DEF Claim
  <2>2. PICK order \in SetToSeqs(jobs) : batch' = [batch EXCEPT ![w] = order]
    BY <2>1
  <2>3. jobs \in SUBSET Jobs /\ jobs # {}
    BY <2>1 DEF Free
  <2>4. batch'[w] = order /\ pc'[w] = "handling" /\ left'[w] = left[w]
        /\ result'[w] = result[w] /\ pc[w] = "claiming" /\ batch[w] = <<>>
    BY <1>a, <1>2, <2>2 DEF Shape, TypeOK, Batches, Claim, Goto
  <2>5. \A j \in jobs : \E i \in 1 .. Len(order) : order[i] = j
    BY <2>2, <2>3, OrderHasAll
  <2>6. \A j \in Jobs : Held(w, j)' => Held(w, j) \/ j \in jobs
    BY <2>1 DEF Hold, Held
  <2>7. Alone(w)
    BY <1>a, <1>2, <2>1, <2>2 DEF Shape, TypeOK, Claim, Goto, Hold, Alone, Held
  <2>8. Told(w)' /\ Accounted(w)'
    BY <1>a, <1>b, <2>4, <2>5, <2>6 DEF Told, Accounted, InBatch
  <2> QED
    BY <2>7, <2>8, OthersAccounted
<1>3. ASSUME NEW w \in Workers, ClaimNothing(w) \/ Wait(w) PROVE Goal
  <2>1. Alone(w) /\ UNCHANGED <<store, batch, decided, result, left>>
    BY <1>a, <1>3 DEF Shape, TypeOK, ClaimNothing, Wait, Goto, Alone, Held
  <2>2. pc'[w] \in {"next", "waiting"} /\ pc[w] \in {"claiming", "waiting"}
    BY <1>a, <1>3 DEF Shape, TypeOK, ClaimNothing, Wait, Goto
  <2>3. Told(w)' /\ Accounted(w)'
    BY <1>a, <1>b, <2>1, <2>2 DEF Told, Accounted, InBatch, Held
  <2> QED
    BY <2>1, <2>3, OthersAccounted
<1>4. ASSUME NEW w \in Workers, ClaimFails(w) PROVE Goal
  <2>1. Alone(w)
    BY <1>a, <1>4 DEF Shape, TypeOK, ClaimFails, ReturnError, Ends, Goto, Hold, Alone, Held
  <2> QED
    BY <1>a, <1>4, <2>1, EndedAccounted, OthersAccounted DEF ClaimFails, ReturnError
<1>5. ASSUME NEW w \in Workers, Handle(w) PROVE Goal
  <2>1. PICK d \in Decisions :
          /\ decided' = [decided EXCEPT ![w] = d]
          /\ left' = [left EXCEPT ![w] =
                        IF d = "leave" THEN @ \cup {Head(batch[w])} ELSE @ \ {Head(batch[w])}]
    BY <1>5 DEF Handle
  <2>2. Alone(w)
    BY <1>a, <1>5, <2>1 DEF Shape, TypeOK, Handle, Goto, Alone, Held
  <2>3. /\ decided'[w] = d /\ batch'[w] = batch[w] /\ pc[w] = "handling"
        /\ result'[w] = result[w] /\ pc'[w] = "settling" /\ store' = store
        /\ d = "leave" => Head(batch[w]) \in left'[w]
        /\ \A j \in Jobs : j \in left[w] => j \in left'[w] \/ j = Head(batch[w])
    BY <1>a, <1>5, <2>1 DEF Shape, TypeOK, Handle, Goto
  <2>4. InBatch(w, Head(batch[w]))
    <3>1. Len(batch[w]) \in Nat \ {0} /\ Head(batch[w]) = batch[w][1]
      BY <1>a, <2>3, SplitSeq DEF Shape, TypeOK, Batches
    <3> QED
      BY <3>1 DEF InBatch
  <2>5. Told(w)' /\ Accounted(w)'
    BY <1>a, <1>b, <2>3, <2>4 DEF Told, Accounted, InBatch, Held
  <2> QED
    BY <2>2, <2>5, OthersAccounted
<1>6. ASSUME NEW w \in Workers, Settled(w) PROVE Goal
  <2>1. Alone(w)
    BY <1>a, <1>6, SettledNotHeld DEF Shape, TypeOK, Settled, Goto, Alone
  <2>2. /\ batch'[w] = Tail(batch[w]) /\ left'[w] = left[w] /\ batch[w] # <<>>
        /\ pc'[w] \in {"handback", "next", "handling"} /\ pc[w] = "settling"
        /\ result'[w] = result[w]
    BY <1>a, <1>6 DEF Shape, TypeOK, Batches, Settled, Goto, unseen
  <2>3. \A j \in Jobs : Held(w, j)' =>
          Held(w, j) /\ (j # Head(batch[w]) \/ decided[w] = "leave")
    BY <1>a, <1>6, SettledNotHeld DEF Settled
  <2>4. Told(w)' /\ Accounted(w)'
    BY <1>a, <1>b, <2>2, <2>3, FirstDealtWith DEF Told, Accounted
  <2> QED
    BY <2>1, <2>4, OthersAccounted
<1>7. ASSUME NEW w \in Workers, SettleFails(w) PROVE Goal
  <2>1. \A v \in Workers, j \in Jobs : Held(v, j)' => Held(v, j)
    BY <1>a, <1>7, SettledNotHeld DEF SettleFails, Held
  <2>2. Alone(w)
    BY <1>a, <1>7, <2>1 DEF Shape, TypeOK, SettleFails, ReturnError, Ends, Goto, Alone
  <2> QED
    BY <1>a, <1>7, <2>2, EndedAccounted, OthersAccounted DEF SettleFails, ReturnError
<1>8. ASSUME NEW w \in Workers, HandBack(w) PROVE Goal
  <2>1. Alone(w)
    BY <1>a, <1>8, FreedNotHeld DEF Shape, TypeOK, HandBack, HandBackOne, Alone
  <2>2. /\ batch'[w] = Tail(batch[w]) /\ left'[w] = left[w] /\ batch[w] # <<>>
        /\ pc'[w] = "handback" /\ pc[w] = "handback" /\ result'[w] = result[w]
    BY <1>a, <1>8 DEF Shape, TypeOK, HandBack
  <2>3. \A j \in Jobs : Held(w, j)' => Held(w, j) /\ j # Head(batch[w])
    BY <1>a, <1>8, FreedNotHeld DEF HandBack, HandBackOne
  <2>4. Told(w)' /\ Accounted(w)'
    BY <1>a, <1>b, <2>2, <2>3, FirstDealtWith DEF Told
  <2> QED
    BY <2>1, <2>4, OthersAccounted
<1>9. ASSUME NEW w \in Workers, HandBackFails(w) PROVE Goal
  <2>1. \A v \in Workers, j \in Jobs : Held(v, j)' => Held(v, j)
    BY <1>a, <1>9, FreedNotHeld DEF HandBackFails, HandBackOne, Held
  <2>2. Alone(w)
    BY <1>a, <1>9, <2>1 DEF Shape, TypeOK, HandBackFails, ReturnError, Ends, Goto, Alone
  <2> QED
    BY <1>a, <1>9, <2>2, EndedAccounted, OthersAccounted DEF HandBackFails, ReturnError
<1>10. ASSUME NEW w \in Workers, HandedBack(w) PROVE Goal
  <2>1. Alone(w)
    BY <1>a, <1>10 DEF Shape, TypeOK, HandedBack, ReturnNil, Ends, Goto, Alone, Held
  <2>2. /\ batch[w] = <<>> /\ batch'[w] = <<>> /\ left'[w] = left[w] /\ store' = store
        /\ pc'[w] = "returned" /\ pc[w] = "handback"
    BY <1>a, <1>10 DEF Shape, TypeOK, HandedBack, ReturnNil, Ends, Goto
  <2>3. Told(w)' /\ Accounted(w)'
    BY <1>a, <1>b, <2>2 DEF Told, Accounted, InBatch, Held
  <2> QED
    BY <2>1, <2>3, OthersAccounted
<1>11. ASSUME NEW w \in Workers, Die(w) PROVE Goal
  <2>1. Alone(w)
    BY <1>a, <1>11 DEF Shape, TypeOK, Die, Ends, Goto, Alone, Held
  <2> QED
    BY <1>a, <1>11, <2>1, EndedAccounted, OthersAccounted DEF Die
<1>12. ASSUME UNCHANGED <<pc, batch, decided, result, left>>,
              \A w \in Workers, j \in Jobs : Held(w, j)' => Held(w, j)
       PROVE  Goal
  BY <1>a, <1>12 DEF Told, Accounted, Going, InBatch
<1>13. ASSUME NEW j \in Jobs, Lapse(j) PROVE Goal
  <2>1. \A w \in Workers, i \in Jobs : Held(w, i)' => Held(w, i)
    BY <1>a, <1>13, FreedTypes DEF Lapse, Held, Shape, TypeOK
  <2> QED
    BY <1>12, <1>13, <2>1 DEF Lapse
<1>14. ASSUME NEW w \in Workers, Cancel(w) PROVE Goal
  BY <1>12, <1>14 DEF Cancel, Held
<1>15. CASE UNCHANGED vars
  BY <1>12, <1>15 DEF vars, Held
<1> QED
  BY <1>1, <1>2, <1>3, <1>4, <1>5, <1>6, <1>7, <1>8, <1>9, <1>10, <1>11, <1>13, <1>14, <1>15
     DEF Next, Run

\* A run that returns nil holds nothing but what its handler left: the running
\* handler's job was settled and the rest of the batch handed back, whoever else
\* goes by its name.
THEOREM StopHandsBackEver == Spec => []StopHandsBack
<1>1. Init => HandedOver
  BY InitShape DEF Init, HandedOver, Told, Accounted, Held
<1>2. HandedOver => StopHandsBack
  <2> SUFFICES ASSUME HandedOver, NEW w \in Workers, result[w] = "nil", NEW j \in Jobs, Held(w, j)
               PROVE  j \in left[w]
    BY DEF StopHandsBack, Held
  <2>1. Going(w) /\ batch[w] = <<>>
    BY DEF HandedOver, Told, Going, Shape, Batches
  <2> QED
    BY <2>1 DEF HandedOver, Accounted, InBatch
<1> QED
  BY <1>1, <1>2, HandedOverStep, PTL DEF Spec
=============================================================================
