------------------------------- MODULE Consumer -------------------------------
(***************************************************************************)
(* Members of one consumer group reading a topic (consumer.go: RunAuto,    *)
(* RunManual, run, next, Ack, Nack, settle).                               *)
(*                                                                         *)
(* Each member is one run of a loop over a connection of its own: it reads *)
(* a batch, calls the handler for each message and settles what the        *)
(* handler decided.  Unlike a queue worker it hands nothing back when its  *)
(* context is done: the rest of the batch stays in flight until the        *)
(* group's deadline.  An ACK or a NACK names the group and positions, and  *)
(* not the member, so one that comes late settles another's delivery.      *)
(*                                                                         *)
(* The group is external: it hands out the ready messages of the lowest    *)
(* positions, counts the deliveries, and makes a message ready again when  *)
(* its deadline passes or the delay of a NACK ends.                        *)
(***************************************************************************)
EXTENDS Naturals, Sequences, SequencesExt, FiniteSets

CONSTANTS
  Members,      \* processes that run the loop
  Positions,    \* the topic: positions from 1
  NoOne,        \* the member of a message that is not in flight
  Batch,        \* messages per read
  MaxReturns,   \* bound on the messages the handlers do not acknowledge
  MaxSlow       \* bound on the deadlines that pass for a message still in a batch

ASSUME ConsumerAssumption ==
  /\ Positions \subseteq Nat \ {0} /\ IsFiniteSet(Positions)
  /\ NoOne \notin Members
  /\ Batch \in Nat \ {0}
  /\ MaxReturns \in Nat
  /\ MaxSlow \in Nat

VARIABLES
  group,     \* each message: where it is, whom it was handed to, how often
  pc,        \* where each member's loop is
  batch,     \* the deliveries a member has left, the one in hand first
  decided,   \* what the handler said of the delivery in hand
  left,      \* the positions a member's handler left unsettled
  stop,      \* is the member's context done
  result,    \* what the run returned
  calls,     \* the deliveries each member's handler was called with
  finished,  \* the messages some handler finished with
  returns,   \* decisions other than an acknowledgement so far
  slow,      \* deadlines that passed for a message still in a batch
  late       \* has a deadline passed for a message its member may yet settle

loopVars == <<pc, batch, decided, left, result, calls>>
counters == <<returns, slow, late>>
vars == <<group, loopVars, stop, finished, counters>>

Message == [position : Positions, deliveries : Nat]

TypeOK ==
  /\ group \in [Positions -> [at : {"ready", "delayed", "flight", "acked"},
                              by : Members \cup {NoOne}, deliveries : Nat]]
  /\ pc \in [Members -> {"next", "reading", "waiting", "handling", "settling",
                         "returned", "dead"}]
  /\ batch \in [Members -> Seq(Message)]
  /\ decided \in [Members -> {"none", "ack", "nack", "delay", "leave"}]
  /\ left \in [Members -> SUBSET Positions]
  /\ stop \in [Members -> BOOLEAN]
  /\ result \in [Members -> {"none", "nil", "error"}]
  /\ calls \in [Members -> SUBSET Message]
  /\ finished \in SUBSET Positions
  /\ returns \in 0 .. MaxReturns
  /\ slow \in 0 .. MaxSlow
  /\ late \in BOOLEAN

Init ==
  /\ group = [p \in Positions |-> [at |-> "ready", by |-> NoOne, deliveries |-> 0]]
  /\ pc = [m \in Members |-> "next"]
  /\ batch = [m \in Members |-> <<>>]
  /\ decided = [m \in Members |-> "none"]
  /\ left = [m \in Members |-> {}]
  /\ stop = [m \in Members |-> FALSE]
  /\ result = [m \in Members |-> "none"]
  /\ calls = [m \in Members |-> {}]
  /\ finished = {}
  /\ returns = 0
  /\ slow = 0
  /\ late = FALSE

-----------------------------------------------------------------------------
(***************************************************************************)
(* The group (external).                                                   *)
(***************************************************************************)
Ready == {p \in Positions : group[p].at = "ready"}

\* The positions a read may answer: the lowest ready ones, as far as the limit.
Handouts ==
  {s \in SUBSET Ready : /\ s # {} /\ Cardinality(s) <= Batch
                        /\ \A p \in s, q \in Ready \ s : p < q}

HandOut(m, s) ==
  group' = [p \in Positions |->
              IF p \in s
                THEN [at |-> "flight", by |-> m, deliveries |-> group[p].deliveries + 1]
                ELSE group[p]]

InOrder(s) ==
  {order \in SetToSeqs(s) : \A i, k \in 1 .. Len(order) : i < k => order[i] < order[k]}

\* What the read answers, in the order of the positions.
Answered(order) ==
  [i \in 1 .. Len(order) |->
     [position |-> order[i], deliveries |-> group[order[i]].deliveries + 1]]

\* ACK and NACK move the positions that are in flight and no others.
Put(positions, place) ==
  group' = [p \in Positions |->
              IF p \in positions /\ group[p].at = "flight"
                THEN [group[p] EXCEPT !.at = place, !.by = NoOne]
                ELSE group[p]]

\* A message is in the batch of the member it was handed to.
InBatch(p) ==
  \E m \in Members : group[p].by = m /\ \E d \in ToSet(batch[m]) : d.position = p

\* The member it was handed to left it and may acknowledge it later.
MayYetSettle(p) ==
  InBatch(p) \/ \E m \in Members :
    group[p].by = m /\ p \in left[m] /\ pc[m] \notin {"returned", "dead"}

\* The group's deadline passes: a bounded number of times too soon for a batch.
Deadline(p) ==
  /\ group[p].at = "flight"
  /\ IF InBatch(p) THEN slow < MaxSlow /\ slow' = slow + 1 ELSE UNCHANGED slow
  /\ late' = (late \/ MayYetSettle(p))
  /\ Put({p}, "ready")
  /\ UNCHANGED <<loopVars, stop, finished, returns>>

DelayEnds(p) ==
  /\ group[p].at = "delayed"
  /\ group' = [group EXCEPT ![p].at = "ready"]
  /\ UNCHANGED <<loopVars, stop, finished, counters>>

-----------------------------------------------------------------------------
Goto(m, place) == pc' = [pc EXCEPT ![m] = place]

\* The handler is called for the first delivery of the batch.
Call(m, deliveries) ==
  /\ batch' = [batch EXCEPT ![m] = deliveries]
  /\ calls' = [calls EXCEPT ![m] = @ \cup {Head(deliveries)}]
  /\ Goto(m, "handling")

\* The run is over and forgets its batch: nothing is handed back.  What was left
\* matters to a run that returned nil.
Return(m, place, how) ==
  /\ Goto(m, place)
  /\ result' = [result EXCEPT ![m] = how]
  /\ batch' = [batch EXCEPT ![m] = <<>>]
  /\ decided' = [decided EXCEPT ![m] = "none"]
  /\ left' = IF how = "nil" THEN left ELSE [left EXCEPT ![m] = {}]
  /\ UNCHANGED calls

\* next: nothing more is read once the context is done.
next(m) ==
  /\ pc[m] = "next"
  /\ IF stop[m]
       THEN Return(m, "returned", "nil")
       ELSE Goto(m, "reading") /\ UNCHANGED <<batch, decided, left, result, calls>>
  /\ UNCHANGED <<group, stop, finished, counters>>

\* The read answers messages: the first is handled whatever the context says.
Read(m) ==
  /\ pc[m] = "reading"
  /\ \E s \in Handouts :
       HandOut(m, s) /\ \E order \in InOrder(s) : Call(m, Answered(order))
  /\ UNCHANGED <<decided, left, result, stop, finished, counters>>

ReadNothing(m) ==
  /\ pc[m] = "reading"
  /\ Ready = {}
  /\ Goto(m, "waiting")
  /\ UNCHANGED <<group, batch, decided, left, result, calls, stop, finished, counters>>

\* The read is refused, its answer is lost, or what it answered is no list of
\* messages: what was handed out stays in flight.
ReadFails(m) ==
  /\ pc[m] = "reading"
  /\ UNCHANGED group \/ \E s \in Handouts : HandOut(m, s)
  /\ Return(m, "returned", "error")
  /\ UNCHANGED <<stop, finished, counters>>

\* Fault: only cancellation ends the wait.
WaitForStop(m) ==
  /\ pc[m] = "waiting"
  /\ stop[m]
  /\ Goto(m, "next")
  /\ UNCHANGED <<group, batch, decided, left, result, calls, stop, finished, counters>>

\* The timer fires, or the context is done.
Wait(m) ==
  /\ pc[m] = "waiting"
  /\ Goto(m, "next")
  /\ UNCHANGED <<group, batch, decided, left, result, calls, stop, finished, counters>>

InHand(m) == Head(batch[m]).position

\* The handler returns.  One that is not to be acknowledged yet may be finished.
Handle(m) ==
  /\ pc[m] = "handling"
  /\ \E d \in {"ack", "nack", "delay", "leave"}, done \in BOOLEAN :
       /\ d = "ack" => done
       /\ d \in {"nack", "delay"} => ~done
       /\ d # "ack" => returns < MaxReturns
       /\ returns' = IF d = "ack" THEN returns ELSE returns + 1
       /\ decided' = [decided EXCEPT ![m] = d]
       /\ finished' = IF done THEN finished \cup {InHand(m)} ELSE finished
       /\ left' = [left EXCEPT ![m] = IF d = "leave" THEN @ \cup {InHand(m)}
                                                     ELSE @ \ {InHand(m)}]
  /\ Goto(m, "settling")
  /\ UNCHANGED <<group, batch, result, calls, stop, slow, late>>

Kept(m) == left[m] \cap finished

\* The handler acknowledges, in one statement, what it finished and left before.
Ack(m) ==
  /\ pc[m] = "handling"
  /\ Kept(m) # {}
  /\ Put(Kept(m), "acked")
  /\ left' = [left EXCEPT ![m] = @ \ Kept(m)]
  /\ UNCHANGED <<pc, batch, decided, result, calls, stop, finished, counters>>

\* Fault: a handler that failed is taken for one that is done.
settleAlways(m) == Put({InHand(m)}, "acked")

\* Fault: a failure hands the whole batch back and goes on with it.
settleBatch(m) ==
  CASE decided[m] = "ack" -> Put({InHand(m)}, "acked")
    [] decided[m] \in {"nack", "delay"}
                         -> Put({d.position : d \in ToSet(batch[m])}, "ready")
    [] OTHER             -> UNCHANGED group

\* What the decision does in the group.
settle(m) ==
  CASE decided[m] = "ack"   -> Put({InHand(m)}, "acked")
    [] decided[m] = "nack"  -> Put({InHand(m)}, "ready")
    [] decided[m] = "delay" -> Put({InHand(m)}, "delayed")
    [] OTHER                -> UNCHANGED group

\* Fault: the delivery in hand is handled once more.
restAgain(m) == batch[m]

rest(m) == Tail(batch[m])

\* The loop goes on with the next delivery, or reads again.
Continue(m) ==
  /\ IF rest(m) = <<>>
       THEN batch' = [batch EXCEPT ![m] = <<>>] /\ Goto(m, "next") /\ UNCHANGED calls
       ELSE Call(m, rest(m))
  /\ decided' = [decided EXCEPT ![m] = "none"]
  /\ UNCHANGED <<left, result>>

\* Fault: the context is looked at before the delivery in hand is settled.
SettledUnlessStopped(m) ==
  /\ pc[m] = "settling"
  /\ IF stop[m]
       THEN Return(m, "returned", "nil") /\ UNCHANGED group
       ELSE settle(m) /\ Continue(m)
  /\ UNCHANGED <<stop, finished, counters>>

\* The delivery in hand is settled; then the context is looked at.
Settled(m) ==
  /\ pc[m] = "settling"
  /\ settle(m)
  /\ IF stop[m] THEN Return(m, "returned", "nil") ELSE Continue(m)
  /\ UNCHANGED <<stop, finished, counters>>

\* The settlement is refused or its answer is lost, carried out or not.
SettleFails(m) ==
  /\ pc[m] = "settling"
  /\ decided[m] # "leave"
  /\ settle(m) \/ UNCHANGED group
  /\ Return(m, "returned", "error")
  /\ UNCHANGED <<stop, finished, counters>>

-----------------------------------------------------------------------------
Cancel(m) ==
  /\ ~stop[m]
  /\ pc[m] \notin {"returned", "dead"}
  /\ stop' = [stop EXCEPT ![m] = TRUE]
  /\ UNCHANGED <<group, loopVars, finished, counters>>

Die(m) ==
  /\ pc[m] \notin {"returned", "dead"}
  /\ Return(m, "dead", "none")
  /\ UNCHANGED <<group, stop, finished, counters>>

Run(m) ==
  \/ next(m)
  \/ Read(m)
  \/ ReadNothing(m)
  \/ ReadFails(m)
  \/ Wait(m)
  \/ Handle(m)
  \/ Settled(m)
  \/ SettleFails(m)

Next ==
  \/ \E m \in Members : Run(m) \/ Ack(m) \/ Cancel(m) \/ Die(m)
  \/ \E p \in Positions : Deadline(p) \/ DelayEnds(p)

Spec == Init /\ [][Next]_vars

(***************************************************************************)
(* Handlers return, statements are answered or fail, timers fire and       *)
(* deadlines pass.  Nobody has to cancel or to acknowledge early.          *)
(***************************************************************************)
FairSpec ==
  /\ Spec
  /\ \A m \in Members : WF_vars(Run(m))
  /\ \A p \in Positions : WF_vars(Deadline(p) \/ DelayEnds(p))

-----------------------------------------------------------------------------
(***************************************************************************)
(* Nothing is lost: a message is acknowledged only after a handler was     *)
(* done with it, and for good, whoever crashed, lost an answer or was too  *)
(* late meanwhile (a crash loses nothing it had not acknowledged).         *)
(***************************************************************************)
Acked == {p \in Positions : group[p].at = "acked"}

Promise == INSTANCE AtLeastOnce WITH Items <- Positions, settled <- Acked

NothingLost == Promise!Spec

(***************************************************************************)
(* One delivery is handled once, by one member, also when deadlines pass   *)
(* under a batch: position and deliveries tell every call from every other *)
(* one.                                                                    *)
(***************************************************************************)
OneCallPerDelivery ==
  [][\A m \in Members : pc[m] # "handling" /\ pc'[m] = "handling" =>
       \A o \in Members : Head(batch'[m]) \notin calls[o]]_vars

(***************************************************************************)
(* Until a deadline passes for a message its member may yet settle, what a *)
(* member has in hand or still to come is in flight for it alone: a        *)
(* settlement, which names no member, is never of another's delivery.      *)
(***************************************************************************)
OneMemberAtATime ==
  ~late => \A m \in Members : \A d \in ToSet(batch[m]) :
    group[d.position] = [at |-> "flight", by |-> m, deliveries |-> d.deliveries]

(***************************************************************************)
(* A run that returns nil has settled the delivery its handler was running *)
(* for: in flight are only those it left and those it was not called for.  *)
(***************************************************************************)
StopSettles ==
  \A m \in Members : result[m] = "nil" =>
    \A p \in Positions \ left[m] :
      group[p].at = "flight" /\ group[p].by = m =>
        [position |-> p, deliveries |-> group[p].deliveries] \notin calls[m]

(***************************************************************************)
(* Every message is acknowledged in the end as long as one member's run    *)
(* goes on: those of a batch somebody left behind come back.               *)
(***************************************************************************)
EveryMessageAcked ==
  <>(Acked = Positions \/ \A m \in Members : pc[m] \in {"returned", "dead"})
=============================================================================
