-------------------------------- MODULE Lease --------------------------------
(***************************************************************************)
(* One key of a cache used as a lock (cache.go: Lock, LeaseOf, Extend,     *)
(* Release; cache_statements.go: lock, extend, release).                   *)
(*                                                                         *)
(* Clients take, extend and give back the lock over connections of their   *)
(* own.  A call is one conditional write, so one step here; its answer may *)
(* be lost after the store made the write, and a client may crash and come *)
(* back with the holder name it stored.  The ttl of a write passes at any  *)
(* time: nobody is told.                                                   *)
(***************************************************************************)
EXTENDS Naturals

CONSTANTS
  Clients,   \* processes that use the lock
  Given,     \* holder names callers pass to Lock, "" asking for a fresh one
  MaxCalls   \* bound on the calls made

ASSUME LeaseAssumption ==
  /\ Given \cap {"absent", "free", "none"} = {}
  /\ MaxCalls \in Nat

\* A fresh holder is numbered by the Lock that made it (16 random bytes do not
\* repeat), and a given one is the name itself.
Holders == ((Given \ {""}) \X {0}) \cup ({""} \X (1 .. MaxCalls))

\* What the key holds besides a holder, and a client that has no *Lease.
Absent == <<"absent", 0>>
Free == <<"free", 0>>
NoLease == <<"none", 0>>

VARIABLES
  lockKey,      \* what the key holds: absent, 'free', or a holder
  expires,      \* does what the key holds have a ttl
  lease,        \* the holder of each client's Lease
  stored,       \* the holder a client keeps over a crash
  kept,         \* has nobody else taken the lock since the client did
  lost,         \* has the client been told its lease is lost
  leaseAnswer,  \* who was answered what by the last step
  leaseCalls    \* calls made so far

leaseVars == <<lockKey, expires, lease, stored, kept, lost, leaseAnswer, leaseCalls>>

Answers == {"nothing", "taken", "refused", "extended", "notExtended", "released",
            "notReleased", "error"}

LeaseTypeOK ==
  /\ lockKey \in {Absent, Free} \cup Holders
  /\ expires \in BOOLEAN
  /\ lease \in [Clients -> Holders \cup {NoLease}]
  /\ stored \in [Clients -> Holders \cup {NoLease}]
  /\ kept \in [Clients -> BOOLEAN]
  /\ lost \in [Clients -> BOOLEAN]
  /\ leaseAnswer \in [who : Clients, what : Answers]
  /\ leaseCalls \in 0 .. MaxCalls

LeaseInit ==
  /\ lockKey = Absent
  /\ expires = FALSE
  /\ lease = [c \in Clients |-> NoLease]
  /\ stored = [c \in Clients |-> NoLease]
  /\ kept = [c \in Clients |-> FALSE]
  /\ lost = [c \in Clients |-> FALSE]
  /\ leaseAnswer \in [who : Clients, what : {"nothing"}]
  /\ leaseCalls = 0

-----------------------------------------------------------------------------
Call(c) ==
  /\ leaseCalls < MaxCalls
  /\ leaseCalls' = leaseCalls + 1

Answer(c, what) == leaseAnswer' = [who |-> c, what |-> what]

\* The holder of a Lock: the one given, or a fresh one.
HolderOf(name) == IF name = "" THEN <<"", leaseCalls + 1>> ELSE <<name, 0>>

\* SET key = $h IF ABSENT EXPIRE $t.
lock(h, taken) ==
  /\ taken = (lockKey = Absent)
  /\ lockKey' = IF taken THEN h ELSE lockKey
  /\ expires' = (taken \/ expires)

\* Lock: the lease, or nil.  The caller stores the holder it goes by.
Lock(c, name) ==
  /\ Call(c)
  /\ lease[c] = NoLease
  /\ \E taken \in BOOLEAN :
       /\ lock(HolderOf(name), taken)
       /\ IF taken
            THEN /\ lease' = [lease EXCEPT ![c] = HolderOf(name)]
                 /\ stored' = [stored EXCEPT ![c] = HolderOf(name)]
                 /\ kept' = [d \in Clients |-> d = c]
                 /\ lost' = [lost EXCEPT ![c] = FALSE]
                 /\ Answer(c, "taken")
            ELSE /\ Answer(c, "refused")
                 /\ UNCHANGED <<lease, stored, kept, lost>>

\* Lock fails, before the store made the write or after: then the key is held
\* under a holder with no Lease.
LockFails(c, name) ==
  /\ Call(c)
  /\ lease[c] = NoLease
  /\ \/ UNCHANGED <<lockKey, expires, kept>>
     \/ \E taken \in BOOLEAN :
          /\ lock(HolderOf(name), taken)
          /\ kept' = IF taken THEN [d \in Clients |-> FALSE] ELSE kept
  /\ Answer(c, "error")
  /\ UNCHANGED <<lease, stored, lost>>

\* LeaseOf: a client that crashed goes on with the holder it stored.
LeaseOf(c) ==
  /\ lease[c] = NoLease
  /\ stored[c] # NoLease
  /\ lease' = [lease EXCEPT ![c] = stored[c]]
  /\ Answer(c, "nothing")
  /\ UNCHANGED <<lockKey, expires, stored, kept, lost, leaseCalls>>

\* Fault: the write is not conditional on the holder.
extendAnyway(h, held) ==
  /\ held = TRUE
  /\ lockKey' = h
  /\ expires' = TRUE

\* SET key = $h IF = $h EXPIRE $t.
extend(h, held) ==
  /\ held = (lockKey = h)
  /\ UNCHANGED lockKey
  /\ expires' = (held \/ expires)

Extend(c) ==
  /\ Call(c)
  /\ lease[c] # NoLease
  /\ \E held \in BOOLEAN :
       /\ extend(lease[c], held)
       /\ Answer(c, IF held THEN "extended" ELSE "notExtended")
       /\ lost' = [lost EXCEPT ![c] = @ \/ ~held]
  /\ UNCHANGED <<lease, stored, kept>>

ExtendFails(c) ==
  /\ Call(c)
  /\ lease[c] # NoLease
  /\ \/ UNCHANGED <<lockKey, expires>>
     \/ \E held \in BOOLEAN : extend(lease[c], held)
  /\ Answer(c, "error")
  /\ UNCHANGED <<lease, stored, kept, lost>>

\* Fault: a release that frees the lock whoever holds it.
releaseAnyway(h, held) ==
  /\ held = (lockKey # Absent)
  /\ lockKey' = IF held THEN Free ELSE lockKey
  /\ UNCHANGED expires

\* Fault: the free lock is written without an expiry, which clears the one it had.
releaseForEver(h, held) ==
  /\ held = (lockKey = h)
  /\ lockKey' = IF held THEN Free ELSE lockKey
  /\ expires' = (~held /\ expires)

\* SET key = 'free' IF = $h EXPIRE 1ms.
release(h, held) ==
  /\ held = (lockKey = h)
  /\ lockKey' = IF held THEN Free ELSE lockKey
  /\ expires' = (held \/ expires)

Release(c) ==
  /\ Call(c)
  /\ lease[c] # NoLease
  /\ \E held \in BOOLEAN :
       /\ release(lease[c], held)
       /\ Answer(c, IF held THEN "released" ELSE "notReleased")
  /\ lease' = [lease EXCEPT ![c] = NoLease]
  /\ stored' = [stored EXCEPT ![c] = NoLease]
  /\ UNCHANGED <<kept, lost>>

\* The caller keeps a Lease whose Release failed, and may try again.
ReleaseFails(c) ==
  /\ Call(c)
  /\ lease[c] # NoLease
  /\ \/ UNCHANGED <<lockKey, expires>>
     \/ \E held \in BOOLEAN : release(lease[c], held)
  /\ Answer(c, "error")
  /\ UNCHANGED <<lease, stored, kept, lost>>

Crash(c) ==
  /\ lease[c] # NoLease
  /\ lease' = [lease EXCEPT ![c] = NoLease]
  /\ Answer(c, "nothing")
  /\ UNCHANGED <<lockKey, expires, stored, kept, lost, leaseCalls>>

\* The ttl passes (external).
LeaseExpires ==
  /\ lockKey # Absent
  /\ expires
  /\ lockKey' = Absent
  /\ expires' = FALSE
  /\ leaseAnswer' = [leaseAnswer EXCEPT !.what = "nothing"]
  /\ UNCHANGED <<lease, stored, kept, lost, leaseCalls>>

LeaseNext ==
  \/ \E c \in Clients :
       \/ \E name \in Given : Lock(c, name) \/ LockFails(c, name)
       \/ LeaseOf(c)
       \/ Extend(c)
       \/ ExtendFails(c)
       \/ Release(c)
       \/ ReleaseFails(c)
       \/ Crash(c)
  \/ LeaseExpires

LeaseSpec == LeaseInit /\ [][LeaseNext]_leaseVars

\* The store lets ttls pass.
LeaseFairSpec == LeaseSpec /\ WF_leaseVars(LeaseExpires)

-----------------------------------------------------------------------------
(***************************************************************************)
(* While Extend answers true the work it guards was guarded all along:     *)
(* nobody else has taken the lock since this lease was taken, not even     *)
(* for a while, over expiries, crashes and lost answers (extend writes     *)
(* only over its own holder).  Holds when no two clients go by one holder. *)
(***************************************************************************)
ExtendMeansNeverLost == leaseAnswer.what = "extended" => kept[leaseAnswer.who]

(***************************************************************************)
(* A lost lease stays lost: once Extend answered false, it never answers   *)
(* true for that lease again, so a client that missed the answer of one    *)
(* Extend is told by the next.                                             *)
(***************************************************************************)
LostForGood == leaseAnswer.what = "extended" => ~lost[leaseAnswer.who]

(***************************************************************************)
(* A client that gives back, or tries to, a lease it lost leaves the lock  *)
(* of the next holder alone (release is conditional, never a delete).      *)
(***************************************************************************)
ReleaseFreesOnlyOwn ==
  [][\A c \in Clients : lease[c] # NoLease /\ ~kept[c] /\ leaseCalls' # leaseCalls
       /\ leaseAnswer'.who = c => lockKey' = lockKey]_leaseVars

(***************************************************************************)
(* Whoever crashed, and whatever answers were lost, the lock comes free:   *)
(* every write to it has an expiry.                                        *)
(***************************************************************************)
ComesFree == []<>(lockKey = Absent)
=============================================================================
