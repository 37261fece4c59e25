-------------------------------- MODULE Queue --------------------------------
(***************************************************************************)
(* Workers on one queue (queue.go: RunAuto, RunManual, run, next, Claim,   *)
(* Done, Release).                                                         *)
(*                                                                         *)
(* Each worker is one run of a loop over a connection of its own: it       *)
(* claims a batch, calls the handler for each job, settles what the        *)
(* handler decided, and hands the rest of the batch back when its context  *)
(* is done.  A statement is one step; its answer may be lost after the     *)
(* store carried it out, and a worker may die anywhere.                    *)
(*                                                                         *)
(* The store is external: a claim holds jobs under a worker's name and     *)
(* counts an attempt, a hold lapses when its timeout passes, a job whose   *)
(* attempts are spent goes to the dead letters.  Processes may share a     *)
(* name.  A release not before an instant is one the next claim is later   *)
(* than; claims are free to be.                                            *)
(***************************************************************************)
EXTENDS Naturals, Sequences, SequencesExt

CONSTANTS
  Workers,      \* processes that run the loop
  Jobs,         \* the records of the queue
  Names,        \* worker names
  Name,         \* the name each process goes by
  NoOne,        \* the holder of a record nobody holds
  Batch,        \* records per claim
  MaxAttempts,  \* ATTEMPTS of the queue, which bounds the claims
  MaxRefusals   \* bound on the claims refused with class retry

ASSUME QueueAssumption ==
  /\ Name \in [Workers -> Names]
  /\ NoOne \notin Workers
  /\ IsFiniteSet(Jobs)
  /\ Batch \in 1 .. 500
  /\ MaxAttempts \in Nat \ {0}
  /\ MaxRefusals \in Nat

VARIABLES
  store,     \* each record: where it is, who holds it, how often it was claimed
  pc,        \* where each worker's loop is
  batch,     \* the jobs a worker has left, the one in hand first
  decided,   \* what the handler said of the job in hand
  stop,      \* is the worker's context done
  result,    \* what the run returned
  finished,  \* the jobs some handler finished
  left,      \* the jobs each worker's handler left to lapse
  lapsed,    \* has any hold lapsed
  refusals   \* claims refused with class retry so far

loopVars == <<pc, batch, decided, result>>
vars == <<store, loopVars, stop, finished, left, lapsed, refusals>>

Decisions == {"finish", "release", "leave"}

TypeOK ==
  /\ store \in [Jobs -> [at : {"free", "held", "gone", "dead"}, by : Workers \cup {NoOne},
                         attempts : 0 .. MaxAttempts]]
  /\ pc \in [Workers -> {"next", "claiming", "waiting", "handling", "settling",
                         "handback", "returned", "dead"}]
  /\ batch \in [Workers -> Seq(Jobs)]
  /\ \A w \in Workers : Len(batch[w]) <= Batch
  /\ decided \in [Workers -> Decisions]
  /\ stop \in [Workers -> BOOLEAN]
  /\ result \in [Workers -> {"none", "nil", "error"}]
  /\ finished \subseteq Jobs
  /\ left \in [Workers -> SUBSET Jobs]
  /\ lapsed \in BOOLEAN
  /\ refusals \in 0 .. MaxRefusals

Init ==
  /\ store = [j \in Jobs |-> [at |-> "free", by |-> NoOne, attempts |-> 0]]
  /\ pc = [w \in Workers |-> "next"]
  /\ batch = [w \in Workers |-> <<>>]
  /\ decided = [w \in Workers |-> "leave"]
  /\ stop = [w \in Workers |-> FALSE]
  /\ result = [w \in Workers |-> "none"]
  /\ finished = {}
  /\ left = [w \in Workers |-> {}]
  /\ lapsed = FALSE
  /\ refusals = 0

-----------------------------------------------------------------------------
(***************************************************************************)
(* The store (external).                                                   *)
(***************************************************************************)
Free == {j \in Jobs : store[j].at = "free"}

\* A job nobody holds any longer: its attempts may be spent.
Freed(j) ==
  [store[j] EXCEPT !.at = IF store[j].attempts < MaxAttempts THEN "free" ELSE "dead",
                   !.by = NoOne]

\* CLAIM.
Hold(w, jobs) ==
  store' = [j \in Jobs |->
              IF j \in jobs
                THEN [at |-> "held", by |-> w, attempts |-> store[j].attempts + 1]
                ELSE store[j]]

\* DELETE, whoever holds the job.
Delete(j) == store' = [store EXCEPT ![j].at = "gone", ![j].by = NoOne]

HeldUnder(name, j) == store[j].at = "held" /\ Name[store[j].by] = name

\* RELEASE ... FOR CONSUMER, which frees a job held under the name.
ReleaseHeld(name, jobs) ==
  store' = [j \in Jobs |-> IF j \in jobs /\ HeldUnder(name, j) THEN Freed(j) ELSE store[j]]

\* A hold lapses after the queue's TIMEOUT.
Lapse(j) ==
  /\ store[j].at = "held"
  /\ store' = [store EXCEPT ![j] = Freed(j)]
  /\ lapsed' = TRUE
  /\ UNCHANGED <<loopVars, stop, finished, left, refusals>>

-----------------------------------------------------------------------------
Goto(w, place) == pc' = [pc EXCEPT ![w] = place]

\* The run is over, and with it what it kept; what was left matters to a run that
\* returned nil.
Ends(w, place, how) ==
  /\ Goto(w, place)
  /\ result' = [result EXCEPT ![w] = how]
  /\ batch' = [batch EXCEPT ![w] = <<>>]
  /\ decided' = [decided EXCEPT ![w] = "leave"]
  /\ left' = IF how = "nil" THEN left ELSE [left EXCEPT ![w] = {}]

ReturnNil(w) == Ends(w, "returned", "nil")

ReturnError(w) == Ends(w, "returned", "error")

\* Fault: the loop waits for work without a look at its context.
nextUnchecked(w) ==
  /\ pc[w] = "next"
  /\ Goto(w, "claiming")
  /\ UNCHANGED <<result, store, batch, decided, stop, finished, left, lapsed, refusals>>

\* next: nothing more is claimed once the context is done.
next(w) ==
  /\ pc[w] = "next"
  /\ IF stop[w]
       THEN ReturnNil(w)
       ELSE Goto(w, "claiming") /\ UNCHANGED <<batch, decided, result, left>>
  /\ UNCHANGED <<store, stop, finished, lapsed, refusals>>

\* Claim answers jobs, in any order.
Claim(w) ==
  /\ pc[w] = "claiming"
  /\ \E jobs \in (SUBSET Free) \ {{}} :
       /\ Cardinality(jobs) <= Batch
       /\ Hold(w, jobs)
       /\ \E order \in SetToSeqs(jobs) : batch' = [batch EXCEPT ![w] = order]
  /\ Goto(w, "handling")
  /\ UNCHANGED <<decided, result, stop, finished, left, lapsed, refusals>>

\* Nothing is free, or the claim is refused with class retry: the loop waits.
ClaimNothing(w) ==
  /\ pc[w] = "claiming"
  /\ \/ Free = {} /\ UNCHANGED refusals
     \/ refusals < MaxRefusals /\ refusals' = refusals + 1
  /\ Goto(w, "waiting")
  /\ UNCHANGED <<store, batch, decided, result, stop, finished, left, lapsed>>

\* Any other refusal, or the answer is lost and the jobs stay held.
ClaimFails(w) ==
  /\ pc[w] = "claiming"
  /\ \/ UNCHANGED store
     \/ \E jobs \in (SUBSET Free) \ {{}} : Cardinality(jobs) <= Batch /\ Hold(w, jobs)
  /\ ReturnError(w)
  /\ UNCHANGED <<stop, finished, lapsed, refusals>>

\* Fault: only cancellation ends the wait.
WaitForStop(w) ==
  /\ pc[w] = "waiting"
  /\ stop[w]
  /\ Goto(w, "next")
  /\ UNCHANGED <<store, batch, decided, result, stop, finished, left, lapsed, refusals>>

\* The timer fires, or the context is done.
Wait(w) ==
  /\ pc[w] = "waiting"
  /\ Goto(w, "next")
  /\ UNCHANGED <<store, batch, decided, result, stop, finished, left, lapsed, refusals>>

\* The handler returns: RunAuto's with nil or an error, RunManual's with what to do.
Handle(w) ==
  /\ pc[w] = "handling"
  /\ \E d \in Decisions :
       /\ decided' = [decided EXCEPT ![w] = d]
       /\ finished' = IF d = "finish" THEN finished \cup {Head(batch[w])} ELSE finished
       /\ left' = [left EXCEPT ![w] =
                     IF d = "leave" THEN @ \cup {Head(batch[w])} ELSE @ \ {Head(batch[w])}]
  /\ Goto(w, "settling")
  /\ UNCHANGED <<store, batch, result, stop, lapsed, refusals>>

\* Fault: what was not handled well is done with all the same.
SettleDone(w) == Delete(Head(batch[w]))

\* What the decision does in the store.
Settle(w) ==
  CASE decided[w] = "finish"  -> Delete(Head(batch[w]))
    [] decided[w] = "release" -> ReleaseHeld(Name[w], {Head(batch[w])})
    [] OTHER                  -> UNCHANGED store

\* Fault: the job after the one in hand is not handed back.
unseenAfterNext(w) == IF Len(batch[w]) < 2 THEN <<>> ELSE Tail(Tail(batch[w]))

unseen(w) == Tail(batch[w])

\* The job in hand is settled; then the context is looked at.
Settled(w) ==
  /\ pc[w] = "settling"
  /\ Settle(w)
  /\ IF stop[w]
       THEN batch' = [batch EXCEPT ![w] = unseen(w)] /\ Goto(w, "handback")
       ELSE /\ batch' = [batch EXCEPT ![w] = Tail(@)]
            /\ Goto(w, IF Len(batch[w]) = 1 THEN "next" ELSE "handling")
  /\ decided' = [decided EXCEPT ![w] = "leave"]
  /\ UNCHANGED <<result, stop, finished, left, lapsed, refusals>>

\* The settlement is refused, as a release of what is held no longer may be, or
\* its answer is lost: the run ends, and the rest of the batch stays held.
SettleFails(w) ==
  /\ pc[w] = "settling"
  /\ decided[w] # "leave"
  /\ Settle(w) \/ UNCHANGED store
  /\ ReturnError(w)
  /\ UNCHANGED <<stop, finished, lapsed, refusals>>

\* Fault: one RELEASE ALL under the worker's name.
HandBackAll(w) == ReleaseHeld(Name[w], Jobs)

\* One statement for each job.
HandBackOne(w) == ReleaseHeld(Name[w], {Head(batch[w])})

HandBack(w) ==
  /\ pc[w] = "handback"
  /\ batch[w] # <<>>
  /\ HandBackOne(w)
  /\ batch' = [batch EXCEPT ![w] = Tail(@)]
  /\ UNCHANGED <<pc, decided, result, stop, finished, left, lapsed, refusals>>

HandBackFails(w) ==
  /\ pc[w] = "handback"
  /\ batch[w] # <<>>
  /\ HandBackOne(w) \/ UNCHANGED store
  /\ ReturnError(w)
  /\ UNCHANGED <<stop, finished, lapsed, refusals>>

HandedBack(w) ==
  /\ pc[w] = "handback"
  /\ batch[w] = <<>>
  /\ ReturnNil(w)
  /\ UNCHANGED <<store, stop, finished, lapsed, refusals>>

-----------------------------------------------------------------------------
\* The worker's context is done.
Cancel(w) ==
  /\ ~stop[w]
  /\ pc[w] \notin {"returned", "dead"}
  /\ stop' = [stop EXCEPT ![w] = TRUE]
  /\ UNCHANGED <<store, loopVars, finished, left, lapsed, refusals>>

\* A worker that dies says nothing.
Die(w) ==
  /\ pc[w] \notin {"returned", "dead"}
  /\ Ends(w, "dead", "none")
  /\ UNCHANGED <<store, stop, finished, lapsed, refusals>>

Run(w) ==
  \/ next(w)
  \/ Claim(w)
  \/ ClaimNothing(w)
  \/ ClaimFails(w)
  \/ Wait(w)
  \/ Handle(w)
  \/ Settled(w)
  \/ SettleFails(w)
  \/ HandBack(w)
  \/ HandBackFails(w)
  \/ HandedBack(w)

Next ==
  \/ \E w \in Workers : Run(w) \/ Cancel(w) \/ Die(w)
  \/ \E j \in Jobs : Lapse(j)

Spec == Init /\ [][Next]_vars

(***************************************************************************)
(* Handlers return, statements are answered or fail, timers fire and holds *)
(* lapse.  Nobody has to cancel.                                           *)
(***************************************************************************)
FairSpec ==
  /\ Spec
  /\ \A w \in Workers : WF_vars(Run(w))
  /\ \A j \in Jobs : WF_vars(Lapse(j))

-----------------------------------------------------------------------------
(***************************************************************************)
(* Work is at least once: a record is deleted only after a handler         *)
(* finished it, and for good, whoever died, lost an answer or lost its     *)
(* hold meanwhile.                                                         *)
(***************************************************************************)
Gone == {j \in Jobs : store[j].at = "gone"}

Promise == INSTANCE AtLeastOnce WITH Items <- Jobs, settled <- Gone

NothingLost == Promise!Spec

\* The jobs a worker still means to call its handler for, or is calling it for.
InHand(w) ==
  IF pc[w] \in {"handling", "settling"} THEN ToSet(batch[w]) ELSE {}

(***************************************************************************)
(* Workers take different records: until a hold lapses, what a worker has  *)
(* in hand or still to come is held for it and for no other, also when one *)
(* of the same name stops and hands its batch back (one RELEASE for each   *)
(* job).                                                                   *)
(***************************************************************************)
DifferentRecords ==
  ~lapsed => \A w \in Workers : \A i \in 1 .. Len(batch[w]) :
    store[batch[w][i]].at = "held" /\ store[batch[w][i]].by = w

(***************************************************************************)
(* A run that returns nil holds nothing but what its handler left: the     *)
(* running handler's job was settled and the rest of the batch handed      *)
(* back.                                                                   *)
(***************************************************************************)
StopHandsBack ==
  \A w \in Workers : result[w] = "nil" =>
    \A j \in Jobs : store[j].at = "held" /\ store[j].by = w => j \in left[w]

\* A run whose context is done returns, with jobs in hand or with none to claim.
StopEnds == \A w \in Workers : stop[w] ~> pc[w] \in {"returned", "dead"}

(***************************************************************************)
(* Every job is done with in the end, deleted or a dead letter, as long as *)
(* one worker's run goes on: waiting for work, or for a claim that was     *)
(* refused for now, is never for ever.                                     *)
(***************************************************************************)
EveryJobEnds ==
  <>(\/ \A j \in Jobs : store[j].at \in {"gone", "dead"}
     \/ \A w \in Workers : pc[w] \in {"returned", "dead"})
=============================================================================
