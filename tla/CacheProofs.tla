----------------------------- MODULE CacheProofs -----------------------------
(***************************************************************************)
(* Proofs about Cache and Lease, the two uses of a key of a cache.  Of     *)
(* Cache: for any callers, values and number of writes, the types, and     *)
(* what GetOrSet promises of the values it answers and stores.  Of Lease:  *)
(* for any clients and any number of calls, the types, and, when every     *)
(* holder is a fresh one, what a lease guards.                             *)
(***************************************************************************)
EXTENDS Cache, Lease, TLAPS

Entries == [value : Values, ttl : {0, 1}]

Places == {"idle", "reading", "loading", "storing", "again", "returned"}

Replies == Values \cup {None, Error}

LEMMA MadeIsValue ==
  /\ 0 \in Values
  /\ \A c \in Callers : Made[c] \in Values
BY CacheAssumption DEF Values

LEMMA Positive == required = {1} /\ optional = {0, 1}
BY DEF required, optional, Ttls

LEMMA NothingApart ==
  /\ Nothing \notin Entries
  /\ None \notin Values
  /\ Error \notin Values
  /\ None # Error
  /\ Nothing.value = None
BY DEF Nothing, Entries, Values, None, Error

-----------------------------------------------------------------------------
(***************************************************************************)
(* What a statement of the store leaves of the types.                      *)
(***************************************************************************)
LEMMA BecomesTypes ==
  ASSUME TypeOK, NEW e \in Entries \cup {Nothing}, Becomes(e)
  PROVE  /\ key' \in Entries \cup {Nothing}
         /\ seen' \in [Callers -> SUBSET Values]
         /\ gone' \in [Callers -> BOOLEAN]
<1>1. key' \in Entries \cup {Nothing}
  BY DEF Becomes
<1>2. seen' \in [Callers -> SUBSET Values]
  <2>1. e = Nothing \/ e.value \in Values
    BY DEF Entries
  <2> QED
    BY <2>1 DEF TypeOK, Becomes
<1>3. gone' \in [Callers -> BOOLEAN]
  <2>1. gone' = [c \in Callers |->
                   gone[c] \/ (pc[c] \notin {"idle", "returned"} /\ e = Nothing)]
    BY DEF Becomes
  <2>2. ASSUME NEW c \in Callers
        PROVE  (gone[c] \/ (pc[c] \notin {"idle", "returned"} /\ e = Nothing)) \in BOOLEAN
    BY Zenon
  <2> QED
    BY <2>1, <2>2, Zenon
<1> QED
  BY <1>1, <1>2, <1>3

LEMMA WrittenTypes ==
  ASSUME NEW v \in Values, NEW ttl \in {0, 1}
  PROVE  Written(v, ttl) \in Entries
BY DEF Written, Entries

\* Whatever another caller's statement does, the key comes to hold an entry or
\* none.
LEMMA OtherBecomes ==
  ASSUME TypeOK, Other
  PROVE  \E e \in Entries \cup {Nothing} : Becomes(e)
<1>1. CASE Set
  BY <1>1, Positive, WrittenTypes DEF Set
<1>2. CASE SetIfPresent
  BY <1>2, Positive, WrittenTypes DEF SetIfPresent
<1>3. CASE CompareAndSet
  BY <1>3, Positive, WrittenTypes DEF CompareAndSet
<1>4. CASE Delete
  BY <1>4 DEF Delete
<1>5. CASE Incr
  <2> DEFINE from == IF key = Nothing THEN 0 ELSE key.value
  <2>1. from < MaxValue /\ Becomes([key EXCEPT !.value = from + 1])
    BY <1>5 DEF Incr
  <2>2. from \in Values
    BY MadeIsValue DEF TypeOK
  <2>3. from + 1 \in Values
    BY <2>1, <2>2, CacheAssumption DEF Values
  <2>4. [key EXCEPT !.value = from + 1] \in Entries
    BY <2>3 DEF TypeOK, Entries, Nothing
  <2> QED
    BY <2>1, <2>4
<1>6. CASE Expire
  <2>1. key # Nothing /\ Becomes([key EXCEPT !.ttl = 1])
    BY <1>6, Positive DEF Expire
  <2>2. [key EXCEPT !.ttl = 1] \in Entries
    BY <2>1 DEF TypeOK, Entries
  <2> QED
    BY <2>1, <2>2
<1>7. CASE Persist
  <2>1. key # Nothing /\ Becomes([key EXCEPT !.ttl = 0])
    BY <1>7 DEF Persist
  <2>2. [key EXCEPT !.ttl = 0] \in Entries
    BY <2>1 DEF TypeOK, Entries
  <2> QED
    BY <2>1, <2>2
<1> QED
  BY <1>1, <1>2, <1>3, <1>4, <1>5, <1>6, <1>7 DEF Other

\* What SetIfAbsent stores, if it stores anything.
LEMMA Stores ==
  ASSUME TypeOK, NEW c \in Callers, SetIfAbsent(c)
  PROVE  \/ /\ key = Nothing
            /\ Becomes(Written(Made[c], 1))
            /\ Return(c, Made[c]) \/ Return(c, Error)
         \/ /\ UNCHANGED <<key, seen, gone>>
            /\ \/ key # Nothing /\ Goto(c, "again") /\ UNCHANGED answer
               \/ Return(c, Error)
BY Positive DEF SetIfAbsent

LEMMA ReturnTypes ==
  ASSUME TypeOK, NEW c \in Callers, NEW a \in Replies, Return(c, a)
  PROVE  pc' \in [Callers -> Places] /\ answer' \in [Callers -> Replies]
BY DEF TypeOK, Return, Goto, Places, Replies

LEMMA TypeStep == TypeOK /\ [Next]_vars => TypeOK'
<1> SUFFICES ASSUME TypeOK, [Next]_vars PROVE TypeOK'
  OBVIOUS
<1> USE DEF Frame, calls
<1>1. ASSUME NEW c \in Callers, GetOrSet(c) PROVE TypeOK'
  <2>1. seen' \in [Callers -> SUBSET Values]
    BY <1>1 DEF TypeOK, GetOrSet
  <2>2. pc' \in [Callers -> Places] /\ answer' \in [Callers -> Replies]
    BY <1>1, ReturnTypes DEF TypeOK, GetOrSet, Goto, Places, Replies
  <2> QED
    BY <1>1, <2>1, <2>2 DEF TypeOK, GetOrSet, Places, Replies
<1>2. ASSUME NEW c \in Callers, Get(c) PROVE TypeOK'
  <2>1. key # Nothing => key.value \in Replies
    BY DEF TypeOK, Replies
  <2>2. pc' \in [Callers -> Places] /\ answer' \in [Callers -> Replies]
    BY <1>2, <2>1, ReturnTypes DEF TypeOK, Get, Goto, Places, Replies
  <2> QED
    BY <1>2, <2>2 DEF TypeOK, Get, Places, Replies
<1>3. ASSUME NEW c \in Callers, Load(c) PROVE TypeOK'
  <2>1. pc' \in [Callers -> Places] /\ answer' \in [Callers -> Replies]
    BY <1>3, ReturnTypes DEF TypeOK, Load, Goto, Places, Replies
  <2> QED
    BY <1>3, <2>1 DEF TypeOK, Load, Places, Replies
<1>4. ASSUME NEW c \in Callers, SetIfAbsent(c) PROVE TypeOK'
  <2>1. Made[c] \in Replies /\ Error \in Replies
    BY MadeIsValue DEF Replies
  <2>2. pc' \in [Callers -> Places] /\ answer' \in [Callers -> Replies]
    BY <1>4, <2>1, Stores, ReturnTypes DEF TypeOK, Goto, Places, Replies
  <2>3. key' \in Entries \cup {Nothing} /\ seen' \in [Callers -> SUBSET Values]
        /\ gone' \in [Callers -> BOOLEAN]
    BY <1>4, Stores, BecomesTypes, WrittenTypes, MadeIsValue DEF TypeOK, Entries
  <2> QED
    BY <1>4, <2>2, <2>3 DEF TypeOK, SetIfAbsent, Places, Replies, Entries
<1>5. ASSUME NEW c \in Callers, GetAgain(c) PROVE TypeOK'
  <2>1. (IF key = Nothing THEN Made[c] ELSE key.value) \in Replies /\ Error \in Replies
    BY MadeIsValue DEF TypeOK, Replies
  <2>2. pc' \in [Callers -> Places] /\ answer' \in [Callers -> Replies]
    BY <1>5, <2>1, ReturnTypes DEF GetAgain
  <2> QED
    BY <1>5, <2>2 DEF TypeOK, GetAgain, Places, Replies
<1>6. CASE Other
  <2>1. key' \in Entries \cup {Nothing} /\ seen' \in [Callers -> SUBSET Values]
        /\ gone' \in [Callers -> BOOLEAN]
    BY <1>6, OtherBecomes, BecomesTypes
  <2>2. steady' \in BOOLEAN
    BY <1>6, Zenon DEF Other
  <2>3. writes' \in 0 .. MaxWrites /\ UNCHANGED <<pc, answer, lapses>>
    BY <1>6, CacheAssumption DEF TypeOK, Other
  <2> QED
    BY <2>1, <2>2, <2>3 DEF TypeOK, Entries
<1>7. CASE Lapse
  <2>1. key' \in Entries \cup {Nothing} /\ seen' \in [Callers -> SUBSET Values]
        /\ gone' \in [Callers -> BOOLEAN]
    BY <1>7, BecomesTypes DEF Lapse
  <2>2. steady' \in BOOLEAN
    BY <1>7, Zenon DEF Lapse
  <2>3. lapses' \in 0 .. MaxLapses /\ UNCHANGED <<pc, answer, writes>>
    BY <1>7, CacheAssumption DEF TypeOK, Lapse
  <2> QED
    BY <2>1, <2>2, <2>3 DEF TypeOK, Entries
<1>8. CASE UNCHANGED vars
  BY <1>8 DEF TypeOK, vars
<1> QED
  BY <1>1, <1>2, <1>3, <1>4, <1>5, <1>6, <1>7, <1>8 DEF Next, Step

LEMMA InitTypes == Init => TypeOK
<1> SUFFICES ASSUME Init PROVE TypeOK
  OBVIOUS
<1>1. gone \in [Callers -> BOOLEAN] /\ steady \in BOOLEAN
  BY Zenon DEF Init
<1> QED
  BY <1>1, CacheAssumption DEF Init, TypeOK

\* Every variable keeps its type: the key holds a value in range or nothing.
THEOREM TypeCorrect == Spec => []TypeOK
BY InitTypes, TypeStep, PTL DEF Spec

-----------------------------------------------------------------------------
(***************************************************************************)
(* GetOrSet never replaces a value, never changes an expiry, and leaves no *)
(* key behind that does not expire.                                        *)
(***************************************************************************)
THEOREM OnlyFillsGapsEver == Spec => OnlyFillsGaps
<1> DEFINE Fills ==
      \A c \in Callers : pc'[c] # pc[c] /\ key' # key => key = Nothing /\ key'.ttl > 0
<1>1. ASSUME TypeOK, [Next]_vars PROVE [Fills]_vars
  <2> SUFFICES ASSUME Next, NEW c \in Callers, pc'[c] # pc[c], key' # key
               PROVE  key = Nothing /\ key'.ttl > 0
    BY <1>1
  <2>1. ASSUME NEW d \in Callers, SetIfAbsent(d) PROVE key = Nothing /\ key'.ttl > 0
    BY <1>1, <2>1, Stores DEF Becomes, Written
  <2>2. ASSUME NEW d \in Callers, GetOrSet(d) \/ Get(d) \/ Load(d) \/ GetAgain(d)
        PROVE  FALSE
    BY <2>2 DEF GetOrSet, Get, Load, GetAgain
  <2>3. CASE Other \/ Lapse
    BY <2>3 DEF Other, Lapse, calls
  <2> QED
    BY <2>1, <2>2, <2>3 DEF Next, Step
<1>2. [][Fills]_vars => OnlyFillsGaps
  BY PTL DEF OnlyFillsGaps
<1> QED
  BY <1>1, <1>2, TypeCorrect, PTL DEF Spec

-----------------------------------------------------------------------------
(***************************************************************************)
(* The inductive invariant.  A call under way has seen whatever the key    *)
(* holds, and one that lost the race to store has what the winner stored   *)
(* before it or the key has been without a value since; while nobody but   *)
(* GetOrSet touches the key, what was answered is there.                   *)
(***************************************************************************)
UnderWay(c) == pc[c] \notin {"idle", "returned"}

SeesKey == \A c \in Callers : UnderWay(c) /\ key # Nothing => key.value \in seen[c]

LostRace == \A c \in Callers : pc[c] = "again" => key # Nothing \/ gone[c]

Settled ==
  steady => \A c \in Callers :
    /\ pc[c] = "again" => key # Nothing
    /\ Answered(c) => key # Nothing /\ answer[c] = key.value

IInv == TypeOK /\ SeesKey /\ LostRace /\ AnswerWasThere /\ Settled

LEMMA InitInv == Init => IInv
BY InitTypes DEF Init, IInv, SeesKey, UnderWay, LostRace, AnswerWasThere, Settled, Answered

\* A statement of the store, for the callers that are where they were.
LEMMA BecomesKeeps ==
  ASSUME IInv, NEW e \in Entries \cup {Nothing}, Becomes(e), UNCHANGED <<pc, answer>>
  PROVE  SeesKey' /\ LostRace' /\ AnswerWasThere'
<1> USE DEF IInv, TypeOK, Becomes
<1>1. SeesKey'
  BY DEF SeesKey, UnderWay
<1>2. LostRace'
  BY DEF LostRace
<1>3. AnswerWasThere'
  BY DEF AnswerWasThere, Answered
<1> QED
  BY <1>1, <1>2, <1>3

LEMMA InvStep == IInv /\ [Next]_vars => IInv'
<1> SUFFICES ASSUME IInv, [Next]_vars PROVE IInv'
  OBVIOUS
<1> USE DEF Frame, calls
<1>0. TypeOK'
  BY TypeStep DEF IInv
<1>1. ASSUME NEW c \in Callers, GetOrSet(c) PROVE IInv'
  <2>1. SeesKey'
    BY <1>1 DEF IInv, TypeOK, SeesKey, UnderWay, GetOrSet, Goto, Return
  <2>2. LostRace'
    BY <1>1 DEF IInv, TypeOK, LostRace, GetOrSet, Goto, Return
  <2>3. AnswerWasThere'
    BY <1>1 DEF IInv, TypeOK, AnswerWasThere, Answered, GetOrSet, Goto, Return
  <2>4. Settled'
    BY <1>1 DEF IInv, TypeOK, Settled, Answered, GetOrSet, Goto, Return
  <2> QED
    BY <1>0, <2>1, <2>2, <2>3, <2>4 DEF IInv
<1>2. ASSUME NEW c \in Callers, Get(c) PROVE IInv'
  <2>1. SeesKey' /\ LostRace'
    BY <1>2 DEF IInv, TypeOK, SeesKey, UnderWay, LostRace, Get, Goto, Return
  <2>2. AnswerWasThere'
    BY <1>2 DEF IInv, TypeOK, SeesKey, UnderWay, AnswerWasThere, Answered, Get, Goto, Return
  <2>3. Settled'
    BY <1>2 DEF IInv, TypeOK, Settled, Answered, Get, Goto, Return
  <2> QED
    BY <1>0, <2>1, <2>2, <2>3 DEF IInv
<1>3. ASSUME NEW c \in Callers, Load(c) PROVE IInv'
  <2>1. SeesKey' /\ LostRace'
    BY <1>3 DEF IInv, TypeOK, SeesKey, UnderWay, LostRace, Load, Goto, Return
  <2>2. AnswerWasThere'
    BY <1>3 DEF IInv, TypeOK, AnswerWasThere, Answered, Load, Goto, Return
  <2>3. Settled'
    BY <1>3 DEF IInv, TypeOK, Settled, Answered, Load, Goto, Return
  <2> QED
    BY <1>0, <2>1, <2>2, <2>3 DEF IInv
<1>4. ASSUME NEW c \in Callers, SetIfAbsent(c) PROVE IInv'
  <2>1. pc[c] = "storing" /\ UNCHANGED steady
    BY <1>4 DEF SetIfAbsent
  <2>2. CASE /\ key = Nothing
             /\ Becomes(Written(Made[c], 1))
             /\ Return(c, Made[c]) \/ Return(c, Error)
    <3>1. Made[c] \in Values /\ key' = [value |-> Made[c], ttl |-> 1]
      BY <2>2, MadeIsValue DEF Becomes, Written
    <3>2. key' # Nothing
      BY <3>1 DEF Nothing
    <3>3. seen' = [d \in Callers |-> IF UnderWay(d) THEN seen[d] \cup {Made[c]} ELSE seen[d]]
      BY <2>2, <3>1, <3>2 DEF IInv, TypeOK, Becomes, UnderWay, Written
    <3>4. \A d \in Callers : gone[d] => gone'[d]
      BY <2>2, Zenon DEF Becomes
    <3>5. \A d \in Callers \ {c} : pc'[d] = pc[d] /\ answer'[d] = answer[d]
      BY <2>2 DEF IInv, TypeOK, Return, Goto
    <3>6. pc'[c] = "returned" /\ answer'[c] \in {Made[c], Error}
      BY <2>2 DEF IInv, TypeOK, Return, Goto
    <3>7. SeesKey'
      BY <3>1, <3>3, <3>5, <3>6 DEF IInv, TypeOK, SeesKey, UnderWay
    <3>8. LostRace'
      BY <3>2, <3>5, <3>6 DEF LostRace
    <3>9. AnswerWasThere'
      <4>1. Made[c] \in seen'[c]
        BY <2>1, <3>3 DEF UnderWay
      <4>2. ASSUME NEW d \in Callers \ {c}, Answered(d)'
            PROVE  answer'[d] \in seen'[d] \/ (answer'[d] = Made[d] /\ gone'[d])
        <5>1. Answered(d) /\ pc[d] = "returned" /\ seen'[d] = seen[d]
          BY <3>3, <3>5, <4>2 DEF Answered, UnderWay
        <5> QED
          BY <3>4, <3>5, <5>1 DEF IInv, AnswerWasThere
      <4> QED
        BY <3>6, <4>1, <4>2 DEF AnswerWasThere, Answered
    <3>10. Settled'
      <4>1. steady => \A d \in Callers : ~Answered(d) /\ pc[d] # "again"
        BY <2>2 DEF IInv, Settled
      <4> QED
        BY <2>1, <3>1, <3>2, <3>5, <3>6, <4>1 DEF Settled, Answered
    <3> QED
      BY <1>0, <3>7, <3>8, <3>9, <3>10 DEF IInv
  <2>3. CASE /\ UNCHANGED <<key, seen, gone>>
             /\ \/ key # Nothing /\ Goto(c, "again") /\ UNCHANGED answer
                \/ Return(c, Error)
    <3>1. SeesKey' /\ LostRace'
      BY <2>1, <2>3 DEF IInv, TypeOK, SeesKey, UnderWay, LostRace, Goto, Return
    <3>2. AnswerWasThere'
      BY <2>1, <2>3 DEF IInv, TypeOK, AnswerWasThere, Answered, Goto, Return
    <3>3. Settled'
      BY <2>1, <2>3 DEF IInv, TypeOK, Settled, Answered, Goto, Return
    <3> QED
      BY <1>0, <3>1, <3>2, <3>3 DEF IInv
  <2> QED
    BY <1>4, <2>2, <2>3, Stores DEF IInv
<1>5. ASSUME NEW c \in Callers, GetAgain(c) PROVE IInv'
  <2>1. SeesKey' /\ LostRace'
    BY <1>5 DEF IInv, TypeOK, SeesKey, UnderWay, LostRace, GetAgain, Goto, Return
  <2>2. AnswerWasThere'
    BY <1>5 DEF IInv, TypeOK, SeesKey, UnderWay, LostRace, AnswerWasThere, Answered,
       GetAgain, Goto, Return
  <2>3. Settled'
    BY <1>5 DEF IInv, TypeOK, Settled, Answered, GetAgain, Goto, Return
  <2> QED
    BY <1>0, <2>1, <2>2, <2>3 DEF IInv
<1>6. CASE Other \/ Lapse
  <2>1. \E e \in Entries \cup {Nothing} : Becomes(e)
    BY <1>6, OtherBecomes DEF IInv, Lapse
  <2>2. UNCHANGED <<pc, answer>> /\ steady' = FALSE
    BY <1>6 DEF Other, Lapse
  <2> QED
    BY <1>0, <2>1, <2>2, BecomesKeeps DEF IInv, Settled
<1>7. CASE UNCHANGED vars
  BY <1>7 DEF IInv, TypeOK, SeesKey, UnderWay, LostRace, AnswerWasThere, Settled, Answered, vars
<1> QED
  BY <1>1, <1>2, <1>3, <1>4, <1>5, <1>6, <1>7 DEF Next, Step

LEMMA Inductive == Spec => []IInv
BY InitInv, InvStep, PTL DEF Spec

\* Every answer is a value the key held during the call, or what the caller's own
\* loader made when what another had stored is gone again.
THEOREM AnswerWasThereEver == Spec => []AnswerWasThere
<1>1. IInv => AnswerWasThere
  BY DEF IInv
<1> QED
  BY <1>1, Inductive, PTL

\* While nobody else touches the key and it does not expire, all callers that
\* answer a value answer the winner's.
THEOREM AnswersAgreeEver == Spec => []AnswersAgree
<1>1. IInv => AnswersAgree
  BY DEF IInv, Settled, AnswersAgree
<1> QED
  BY <1>1, Inductive, PTL

-----------------------------------------------------------------------------
(***************************************************************************)
(* The lock.                                                               *)
(***************************************************************************)
\* A holder is none of the key's other values, and no client's having no Lease.
LEMMA HoldersApart ==
  Absent \notin Holders /\ Free \notin Holders /\ NoLease \notin Holders
BY LeaseAssumption DEF Holders, Absent, Free, NoLease

\* A Lock that the bound allows goes by a holder.
LEMMA HolderOfIsHolder ==
  ASSUME leaseCalls \in 0 .. MaxCalls, leaseCalls < MaxCalls, NEW name \in Given
  PROVE  HolderOf(name) \in Holders
<1>1. leaseCalls + 1 \in 1 .. MaxCalls
  BY LeaseAssumption
<1>2. CASE name = ""
  BY <1>1, <1>2 DEF Holders, HolderOf
<1>3. CASE name # ""
  BY <1>3 DEF Holders, HolderOf
<1> QED
  BY <1>2, <1>3

-----------------------------------------------------------------------------
\* One call keeps the types.
LEMMA LeaseTypeStep == LeaseTypeOK /\ [LeaseNext]_leaseVars => LeaseTypeOK'
<1> SUFFICES ASSUME LeaseTypeOK, [LeaseNext]_leaseVars PROVE LeaseTypeOK'
  OBVIOUS
<1> USE HoldersApart, LeaseAssumption
<1>1. ASSUME NEW c \in Clients, NEW name \in Given, Lock(c, name) PROVE LeaseTypeOK'
  <2>1. HolderOf(name) \in Holders
    BY <1>1, HolderOfIsHolder DEF LeaseTypeOK, Lock, Call
  <2>2. PICK taken \in BOOLEAN :
          /\ lock(HolderOf(name), taken)
          /\ IF taken
               THEN /\ lease' = [lease EXCEPT ![c] = HolderOf(name)]
                    /\ stored' = [stored EXCEPT ![c] = HolderOf(name)]
                    /\ kept' = [d \in Clients |-> d = c]
                    /\ lost' = [lost EXCEPT ![c] = FALSE]
                    /\ Answer(c, "taken")
               ELSE /\ Answer(c, "refused")
                    /\ UNCHANGED <<lease, stored, kept, lost>>
    BY <1>1 DEF Lock
  <2>3. lockKey' \in {Absent, Free} \cup Holders /\ expires' \in BOOLEAN
    BY <2>1, <2>2 DEF LeaseTypeOK, lock
  <2>4. /\ lease' \in [Clients -> Holders \cup {NoLease}]
        /\ stored' \in [Clients -> Holders \cup {NoLease}]
        /\ lost' \in [Clients -> BOOLEAN]
    <3>1. CASE taken
      <4>1. [lost EXCEPT ![c] = FALSE] \in [Clients -> BOOLEAN]
        BY DEF LeaseTypeOK
      <4>2. lost' = [lost EXCEPT ![c] = FALSE]
        BY <2>2, <3>1
      <4>3. lost' \in [Clients -> BOOLEAN]
        BY <4>1, <4>2, Zenon
      <4>4. /\ lease' = [lease EXCEPT ![c] = HolderOf(name)]
            /\ stored' = [stored EXCEPT ![c] = HolderOf(name)]
        BY <2>2, <3>1
      <4> QED
        BY <2>1, <4>3, <4>4 DEF LeaseTypeOK
    <3>2. CASE ~taken
      BY <2>2, <3>2 DEF LeaseTypeOK
    <3> QED
      BY <3>1, <3>2
  <2>5. kept' \in [Clients -> BOOLEAN]
    <3>1. CASE taken
      BY <2>2, <3>1, Zenon
    <3>2. CASE ~taken
      BY <2>2, <3>2 DEF LeaseTypeOK
    <3> QED
      BY <3>1, <3>2
  <2>6. leaseAnswer' \in [who : Clients, what : Answers]
    BY <2>2 DEF Answer, Answers
  <2> QED
    BY <1>1, <2>3, <2>4, <2>5, <2>6 DEF LeaseTypeOK, Lock, Call
<1>2. ASSUME NEW c \in Clients, NEW name \in Given, LockFails(c, name) PROVE LeaseTypeOK'
  <2>1. HolderOf(name) \in Holders
    BY <1>2, HolderOfIsHolder DEF LeaseTypeOK, LockFails, Call
  <2>2. CASE UNCHANGED <<lockKey, expires, kept>>
    BY <1>2, <2>2 DEF LeaseTypeOK, LockFails, Call, Answer, Answers
  <2>3. CASE \E taken \in BOOLEAN :
               /\ lock(HolderOf(name), taken)
               /\ kept' = IF taken THEN [d \in Clients |-> FALSE] ELSE kept
    <3>1. PICK taken \in BOOLEAN :
            /\ lock(HolderOf(name), taken)
            /\ kept' = IF taken THEN [d \in Clients |-> FALSE] ELSE kept
      BY <2>3
    <3>2. lockKey' \in {Absent, Free} \cup Holders /\ expires' \in BOOLEAN
      BY <2>1, <3>1 DEF LeaseTypeOK, lock
    <3>3. [d \in Clients |-> FALSE] \in [Clients -> BOOLEAN]
      BY Zenon
    <3>4. kept' \in [Clients -> BOOLEAN]
      BY <3>1, <3>3, Zenon DEF LeaseTypeOK
    <3> QED
      BY <1>2, <3>2, <3>4 DEF LeaseTypeOK, LockFails, Call, Answer, Answers
  <2> QED
    BY <1>2, <2>2, <2>3 DEF LockFails
<1>3. ASSUME NEW c \in Clients, LeaseOf(c) PROVE LeaseTypeOK'
  BY <1>3 DEF LeaseTypeOK, LeaseOf, Answer, Answers
<1>4. ASSUME NEW c \in Clients, Extend(c) PROVE LeaseTypeOK'
  BY <1>4 DEF LeaseTypeOK, Extend, extend, Call, Answer, Answers
<1>5. ASSUME NEW c \in Clients, ExtendFails(c) PROVE LeaseTypeOK'
  BY <1>5 DEF LeaseTypeOK, ExtendFails, extend, Call, Answer, Answers
<1>6. ASSUME NEW c \in Clients, Release(c) PROVE LeaseTypeOK'
  BY <1>6 DEF LeaseTypeOK, Release, release, Call, Answer, Answers
<1>7. ASSUME NEW c \in Clients, ReleaseFails(c) PROVE LeaseTypeOK'
  BY <1>7 DEF LeaseTypeOK, ReleaseFails, release, Call, Answer, Answers
<1>8. ASSUME NEW c \in Clients, Crash(c) PROVE LeaseTypeOK'
  BY <1>8 DEF LeaseTypeOK, Crash, Answer, Answers
<1>9. CASE LeaseExpires
  BY <1>9 DEF LeaseTypeOK, LeaseExpires, Answers
<1>10. CASE UNCHANGED leaseVars
  BY <1>10 DEF LeaseTypeOK, leaseVars
<1> QED
  BY <1>1, <1>2, <1>3, <1>4, <1>5, <1>6, <1>7, <1>8, <1>9, <1>10 DEF LeaseNext

LEMMA LeaseInitTypes == LeaseInit => LeaseTypeOK
<1> SUFFICES ASSUME LeaseInit PROVE LeaseTypeOK
  OBVIOUS
<1>1. kept \in [Clients -> BOOLEAN] /\ lost \in [Clients -> BOOLEAN]
  BY Zenon DEF LeaseInit
<1>2. 0 \in 0 .. MaxCalls
  BY LeaseAssumption
<1>3. leaseAnswer \in [who : Clients, what : Answers]
  BY DEF LeaseInit, Answers
<1> QED
  BY <1>1, <1>2, <1>3 DEF LeaseInit, LeaseTypeOK

\* Every variable keeps its type.
THEOREM LeaseTypeCorrect == LeaseSpec => []LeaseTypeOK
BY LeaseInitTypes, LeaseTypeStep, PTL DEF LeaseSpec

-----------------------------------------------------------------------------
(***************************************************************************)
(* The inductive invariant.  What a lease guards rests on the holders: the *)
(* one a client goes by is the one it stored, it is nobody else's and no   *)
(* newer than the last call, so that the key holds it only while nobody    *)
(* else has taken the lock since.                                          *)
(***************************************************************************)
\* Every Lock asks for a fresh holder.
FreshHolders == Given = {""}

GoesByStored == \A c \in Clients : lease[c] \in {NoLease, stored[c]}

\* The call that made a holder; 0 for a given one.
Number(h) == h[2]

HoldersAreOld ==
  /\ \A c \in Clients : stored[c] # NoLease => Number(stored[c]) <= leaseCalls
  /\ lockKey \in Holders => Number(lockKey) <= leaseCalls

HoldersDiffer ==
  \A c, d \in Clients : c # d /\ stored[c] # NoLease => stored[c] # stored[d]

HeldIsKept ==
  \A c \in Clients : stored[c] # NoLease /\ lockKey = stored[c] => kept[c] /\ ~lost[c]

ExtendedIsKept ==
  leaseAnswer.what = "extended" => kept[leaseAnswer.who] /\ ~lost[leaseAnswer.who]

LeaseIInv ==
  /\ LeaseTypeOK
  /\ GoesByStored
  /\ HoldersAreOld
  /\ HoldersDiffer
  /\ HeldIsKept
  /\ ExtendedIsKept

LEMMA OlderHolder ==
  \A n \in Nat : \A g, h :
     Number(g) \in Nat /\ Number(g) <= n /\ Number(h) = n + 1 => g # h
OBVIOUS

LEMMA PairNumber == \A x, n : Number(<<x, n>>) = n
BY DEF Number

\* A holder is numbered, and calls are counted.
LEMMA HolderNumbers == \A h \in Holders : Number(h) \in Nat
<1> SUFFICES ASSUME NEW h \in Holders PROVE h[2] \in Nat
  BY DEF Number
<1>1. CASE h \in (Given \ {""}) \X {0}
  <2>1. h[2] \in {0}
    BY <1>1
  <2> QED
    BY <2>1
<1>2. CASE h \in {""} \X (1 .. MaxCalls)
  <2>1. h[2] \in 1 .. MaxCalls
    BY <1>2
  <2> QED
    BY <2>1, LeaseAssumption DEF LeaseAssumption
<1> QED
  BY <1>1, <1>2 DEF Holders

LEMMA CallsCount == LeaseTypeOK => leaseCalls \in Nat
<1> SUFFICES ASSUME LeaseTypeOK PROVE leaseCalls \in Nat
  OBVIOUS
<1>1. leaseCalls \in 0 .. MaxCalls
  BY DEF LeaseTypeOK
<1> QED
  BY <1>1, LeaseAssumption DEF LeaseAssumption

\* A fresh holder is nobody's yet and not what the key holds; its number is the
\* call's.
LEMMA FreshHolder ==
  ASSUME LeaseIInv, FreshHolders, NEW name \in Given
  PROVE  /\ Number(HolderOf(name)) = leaseCalls + 1
         /\ \A d \in Clients : stored[d] # NoLease => stored[d] # HolderOf(name)
<1>1. HolderOf(name) = <<"", leaseCalls + 1>>
  BY DEF HolderOf, FreshHolders
<1>2. \A d \in Clients : stored[d] # NoLease => Number(stored[d]) <= leaseCalls
  BY DEF LeaseIInv, HoldersAreOld
<1>3. leaseCalls \in Nat
  BY CallsCount DEF LeaseIInv
<1>4. Number(HolderOf(name)) = leaseCalls + 1
  BY <1>1, Zenon, PairNumber
<1>5. ASSUME NEW d \in Clients, stored[d] # NoLease PROVE stored[d] # HolderOf(name)
  <2>1. Number(stored[d]) <= leaseCalls /\ stored[d] \in Holders
    BY <1>2, <1>5 DEF LeaseIInv, LeaseTypeOK
  <2>2. Number(stored[d]) \in Nat
    BY <2>1, HolderNumbers
  <2> QED
    BY <1>3, <1>4, <2>1, <2>2, OlderHolder, Zenon
<1> QED
  BY <1>4, <1>5

\* A Lock that takes the lock gives the client a holder of its own.
LEMMA LockStep ==
  ASSUME LeaseIInv, FreshHolders, NEW c \in Clients, NEW name \in Given, Lock(c, name)
  PROVE  LeaseIInv'
<1> DEFINE h == HolderOf(name)
<1> USE HoldersApart, LeaseAssumption
<1>1. LeaseTypeOK'
  BY LeaseTypeStep DEF LeaseIInv, LeaseNext
<1>2. /\ h \in Holders
      /\ Number(h) = leaseCalls + 1
      /\ \A d \in Clients : stored[d] # NoLease => stored[d] # h
  BY FreshHolder, HolderOfIsHolder DEF LeaseIInv, LeaseTypeOK, Lock, Call
<1>3. leaseCalls \in Nat /\ leaseCalls' = leaseCalls + 1
  BY CallsCount DEF LeaseIInv, Lock, Call
<1>4. \A d \in Clients : stored[d] # NoLease => Number(stored[d]) \in Nat /\ Number(stored[d]) <= leaseCalls
  BY HolderNumbers DEF LeaseIInv, LeaseTypeOK, HoldersAreOld
<1> HIDE DEF h
<1>5. PICK taken \in BOOLEAN :
        /\ lock(h, taken)
        /\ IF taken
             THEN /\ lease' = [lease EXCEPT ![c] = h]
                  /\ stored' = [stored EXCEPT ![c] = h]
                  /\ kept' = [d \in Clients |-> d = c]
                  /\ lost' = [lost EXCEPT ![c] = FALSE]
                  /\ Answer(c, "taken")
             ELSE /\ Answer(c, "refused")
                  /\ UNCHANGED <<lease, stored, kept, lost>>
  BY DEF Lock, h
<1>6. CASE taken
  <2>1. /\ lease' = [lease EXCEPT ![c] = h]
        /\ stored' = [stored EXCEPT ![c] = h]
        /\ kept' = [d \in Clients |-> d = c]
        /\ lost' = [lost EXCEPT ![c] = FALSE]
        /\ lockKey' = h
        /\ leaseAnswer' = [who |-> c, what |-> "taken"]
    BY <1>5, <1>6 DEF Answer, lock
  <2>2. GoesByStored'
    BY <2>1 DEF LeaseIInv, LeaseTypeOK, GoesByStored
  <2>3. HoldersAreOld'
    <3> SUFFICES ASSUME NEW d \in Clients, stored'[d] # NoLease
                 PROVE  Number(stored'[d]) <= leaseCalls'
      BY <1>2, <1>3, <2>1 DEF HoldersAreOld
    <3>1. CASE d = c
      BY <1>2, <1>3, <2>1, <3>1 DEF LeaseIInv, LeaseTypeOK
    <3>2. CASE d # c
      <4>1. stored'[d] = stored[d]
        BY <2>1, <3>2 DEF LeaseIInv, LeaseTypeOK
      <4> QED
        BY <1>3, <1>4, <4>1
    <3> QED
      BY <3>1, <3>2
  <2>4. HoldersDiffer'
    BY <1>2, <2>1 DEF LeaseIInv, LeaseTypeOK, HoldersDiffer
  <2>5. kept'[c] /\ ~lost'[c]
    BY <2>1 DEF LeaseIInv, LeaseTypeOK
  <2>6. \A d \in Clients : stored'[d] # NoLease /\ lockKey' = stored'[d] => d = c
    BY <1>2, <2>1 DEF LeaseIInv, LeaseTypeOK
  <2>7. HeldIsKept'
    BY <2>5, <2>6 DEF HeldIsKept
  <2>8. ExtendedIsKept'
    BY <2>1 DEF ExtendedIsKept
  <2> QED
    BY <1>1, <2>2, <2>3, <2>4, <2>7, <2>8 DEF LeaseIInv
<1>7. CASE ~taken
  <2>1. /\ UNCHANGED <<lockKey, lease, stored, kept, lost>>
        /\ leaseAnswer'.what = "refused"
    BY <1>5, <1>7 DEF Answer, lock
  <2>2. GoesByStored' /\ HoldersDiffer' /\ HeldIsKept' /\ ExtendedIsKept'
    BY <2>1 DEF LeaseIInv, GoesByStored, HoldersDiffer, HeldIsKept, ExtendedIsKept
  <2>3. HoldersAreOld'
    <3>1. lockKey \in Holders => Number(lockKey) \in Nat /\ Number(lockKey) <= leaseCalls
      BY HolderNumbers DEF LeaseIInv, HoldersAreOld
    <3> QED
      BY <1>3, <1>4, <2>1, <3>1 DEF HoldersAreOld
  <2> QED
    BY <1>1, <2>2, <2>3 DEF LeaseIInv
<1> QED
  BY <1>6, <1>7

\* A Lock that failed may have left the key under a holder nobody goes by.
LEMMA LockFailsStep ==
  ASSUME LeaseIInv, FreshHolders, NEW c \in Clients, NEW name \in Given, LockFails(c, name)
  PROVE  LeaseIInv'
<1> DEFINE h == HolderOf(name)
<1> USE HoldersApart, LeaseAssumption
<1>1. LeaseTypeOK'
  BY LeaseTypeStep DEF LeaseIInv, LeaseNext
<1>2. /\ h \in Holders
      /\ Number(h) = leaseCalls + 1
      /\ \A d \in Clients : stored[d] # NoLease => stored[d] # h
  BY FreshHolder, HolderOfIsHolder DEF LeaseIInv, LeaseTypeOK, LockFails, Call
<1>3. leaseCalls \in Nat /\ leaseCalls' = leaseCalls + 1
  BY CallsCount DEF LeaseIInv, LockFails, Call
<1>4. \A d \in Clients : stored[d] # NoLease => Number(stored[d]) \in Nat /\ Number(stored[d]) <= leaseCalls
  BY HolderNumbers DEF LeaseIInv, LeaseTypeOK, HoldersAreOld
<1>5. /\ UNCHANGED <<lease, stored, lost>>
      /\ leaseAnswer'.what = "error"
      /\ UNCHANGED <<lockKey, kept>> \/ lockKey' = h \/ UNCHANGED <<lockKey, kept>>
  BY DEF LockFails, Answer, lock, h
<1> HIDE DEF h
<1>6. GoesByStored' /\ HoldersDiffer' /\ ExtendedIsKept'
  BY <1>5 DEF LeaseIInv, GoesByStored, HoldersDiffer, ExtendedIsKept
<1>7. HoldersAreOld'
  <2>1. lockKey \in Holders => Number(lockKey) \in Nat /\ Number(lockKey) <= leaseCalls
    BY HolderNumbers DEF LeaseIInv, HoldersAreOld
  <2> QED
    BY <1>2, <1>3, <1>4, <1>5, <2>1 DEF HoldersAreOld
<1>8. HeldIsKept'
  BY <1>2, <1>5 DEF LeaseIInv, HeldIsKept
<1> QED
  BY <1>1, <1>6, <1>7, <1>8 DEF LeaseIInv

\* A step that takes the lock for nobody: the key stays, or holds no holder.
LEMMA OtherStep ==
  ASSUME LeaseIInv, LeaseTypeOK', GoesByStored', ExtendedIsKept',
         leaseCalls' \in {leaseCalls, leaseCalls + 1},
         \A c \in Clients : stored'[c] \in {NoLease, stored[c]},
         lockKey' \in {lockKey, Absent, Free},
         UNCHANGED kept,
         \A c \in Clients : lost'[c] = lost[c] \/ lockKey' # stored'[c]
  PROVE  LeaseIInv'
<1> USE HoldersApart, LeaseAssumption
<1>1. leaseCalls \in Nat
  BY DEF LeaseIInv, LeaseTypeOK
<1>2. \A c \in Clients : stored[c] # NoLease => stored[c] \in Holders
  BY DEF LeaseIInv, LeaseTypeOK
<1>3. HoldersAreOld'
  BY <1>1, <1>2, HolderNumbers DEF LeaseIInv, HoldersAreOld
<1>4. HoldersDiffer'
  BY DEF LeaseIInv, HoldersDiffer
<1>5. HeldIsKept'
  <2> SUFFICES ASSUME NEW c \in Clients, stored'[c] # NoLease, lockKey' = stored'[c]
               PROVE  kept'[c] /\ ~lost'[c]
    BY DEF HeldIsKept
  <2>1. stored'[c] = stored[c] /\ lockKey' = lockKey /\ lost'[c] = lost[c]
    BY <1>2
  <2> QED
    BY <2>1 DEF LeaseIInv, HeldIsKept
<1> QED
  BY <1>3, <1>4, <1>5 DEF LeaseIInv

-----------------------------------------------------------------------------
LEMMA LeaseIInvInit == LeaseInit => LeaseIInv
<1> SUFFICES ASSUME LeaseInit PROVE LeaseIInv
  OBVIOUS
<1>1. LeaseTypeOK
  BY LeaseInitTypes
<1> QED
  BY <1>1, HoldersApart
     DEF LeaseInit, LeaseIInv, GoesByStored, HoldersAreOld, HoldersDiffer, HeldIsKept, ExtendedIsKept

LEMMA LeaseIInvStep == FreshHolders /\ LeaseIInv /\ [LeaseNext]_leaseVars => LeaseIInv'
<1> SUFFICES ASSUME FreshHolders, LeaseIInv, [LeaseNext]_leaseVars PROVE LeaseIInv'
  OBVIOUS
<1> USE HoldersApart
<1>0. LeaseTypeOK /\ LeaseTypeOK'
  BY LeaseTypeStep DEF LeaseIInv
<1>1. ASSUME NEW c \in Clients, NEW name \in Given, Lock(c, name) PROVE LeaseIInv'
  BY <1>1, LockStep
<1>2. ASSUME NEW c \in Clients, NEW name \in Given, LockFails(c, name) PROVE LeaseIInv'
  BY <1>2, LockFailsStep
<1>3. ASSUME NEW c \in Clients, LeaseOf(c) PROVE LeaseIInv'
  <2>1. GoesByStored' /\ ExtendedIsKept'
    BY <1>0, <1>3 DEF LeaseIInv, LeaseTypeOK, LeaseOf, Answer, GoesByStored, ExtendedIsKept
  <2> QED
    BY <1>0, <1>3, <2>1, OtherStep DEF LeaseOf
<1>4. ASSUME NEW c \in Clients, Extend(c) PROVE LeaseIInv'
  <2>1. lease[c] = stored[c] /\ stored[c] # NoLease
    BY <1>4 DEF LeaseIInv, GoesByStored, Extend
  <2>2. PICK held \in BOOLEAN :
          /\ held = (lockKey = stored[c])
          /\ Answer(c, IF held THEN "extended" ELSE "notExtended")
          /\ lost' = [lost EXCEPT ![c] = @ \/ ~held]
    BY <1>4, <2>1 DEF Extend, extend
  <2>3. /\ UNCHANGED <<lockKey, lease, stored, kept>>
        /\ leaseCalls' = leaseCalls + 1
    BY <1>4 DEF Extend, extend, Call
  <2>4. CASE held
    <3>1. lockKey = stored[c] /\ leaseAnswer' = [who |-> c, what |-> "extended"]
      BY <2>2, <2>4 DEF Answer
    <3>2. kept[c] /\ ~lost[c]
      BY <2>1, <3>1 DEF LeaseIInv, HeldIsKept
    <3>3. \A d \in Clients : lost'[d] = lost[d]
      <4>1. lost' = [lost EXCEPT ![c] = @ \/ FALSE]
        BY <2>2, <2>4
      <4>2. lost[c] = FALSE
        BY <1>0, <3>2 DEF LeaseTypeOK
      <4>3. lost' = [lost EXCEPT ![c] = FALSE]
        BY <4>1, <4>2
      <4> QED
        BY <1>0, <4>2, <4>3 DEF LeaseTypeOK
    <3>4. GoesByStored' /\ ExtendedIsKept'
      BY <2>3, <3>1, <3>2, <3>3 DEF LeaseIInv, GoesByStored, ExtendedIsKept
    <3> QED
      BY <1>0, <2>3, <3>3, <3>4, OtherStep
  <2>5. CASE ~held
    <3>1. lockKey # stored[c] /\ leaseAnswer'.what = "notExtended"
      BY <2>2, <2>5 DEF Answer
    <3>2. \A d \in Clients : d # c => lost'[d] = lost[d]
      BY <1>0, <2>2 DEF LeaseTypeOK
    <3>3. GoesByStored' /\ ExtendedIsKept'
      BY <2>3, <3>1 DEF LeaseIInv, GoesByStored, ExtendedIsKept
    <3> QED
      BY <1>0, <2>3, <3>1, <3>2, <3>3, OtherStep
  <2> QED
    BY <2>4, <2>5
<1>5. ASSUME NEW c \in Clients, ExtendFails(c) PROVE LeaseIInv'
  <2>1. /\ UNCHANGED <<lockKey, lease, stored, kept, lost>>
        /\ leaseCalls' = leaseCalls + 1
        /\ leaseAnswer'.what = "error"
    BY <1>5 DEF ExtendFails, extend, Call, Answer
  <2>2. GoesByStored' /\ ExtendedIsKept'
    BY <2>1 DEF LeaseIInv, GoesByStored, ExtendedIsKept
  <2> QED
    BY <1>0, <2>1, <2>2, OtherStep
<1>6. ASSUME NEW c \in Clients, Release(c) PROVE LeaseIInv'
  <2>1. /\ lockKey' \in {lockKey, Free}
        /\ UNCHANGED <<kept, lost>>
        /\ leaseCalls' = leaseCalls + 1
        /\ leaseAnswer'.what # "extended"
        /\ lease' = [lease EXCEPT ![c] = NoLease]
        /\ stored' = [stored EXCEPT ![c] = NoLease]
    <3>1. PICK held \in BOOLEAN :
            /\ release(lease[c], held)
            /\ Answer(c, IF held THEN "released" ELSE "notReleased")
      BY <1>6 DEF Release
    <3>2. lockKey' \in {lockKey, Free}
      BY <3>1 DEF release
    <3>3. leaseAnswer'.what # "extended"
      BY <3>1 DEF Answer
    <3> QED
      BY <1>6, <3>2, <3>3 DEF Release, Call
  <2>2. GoesByStored' /\ ExtendedIsKept'
    BY <1>0, <2>1 DEF LeaseIInv, LeaseTypeOK, GoesByStored, ExtendedIsKept
  <2>3. \A d \in Clients : stored'[d] \in {NoLease, stored[d]}
    BY <1>0, <2>1 DEF LeaseTypeOK
  <2> QED
    BY <1>0, <2>1, <2>2, <2>3, OtherStep
<1>7. ASSUME NEW c \in Clients, ReleaseFails(c) PROVE LeaseIInv'
  <2>1. /\ lockKey' \in {lockKey, Free}
        /\ UNCHANGED <<lease, stored, kept, lost>>
        /\ leaseCalls' = leaseCalls + 1
        /\ leaseAnswer'.what = "error"
    BY <1>7 DEF ReleaseFails, release, Call, Answer
  <2>2. GoesByStored' /\ ExtendedIsKept'
    BY <2>1 DEF LeaseIInv, GoesByStored, ExtendedIsKept
  <2> QED
    BY <1>0, <2>1, <2>2, OtherStep
<1>8. ASSUME NEW c \in Clients, Crash(c) PROVE LeaseIInv'
  <2>1. GoesByStored' /\ ExtendedIsKept'
    BY <1>0, <1>8 DEF LeaseIInv, LeaseTypeOK, Crash, Answer, GoesByStored, ExtendedIsKept
  <2> QED
    BY <1>0, <1>8, <2>1, OtherStep DEF Crash
<1>9. CASE LeaseExpires
  <2>1. GoesByStored' /\ ExtendedIsKept'
    BY <1>0, <1>9 DEF LeaseIInv, LeaseTypeOK, LeaseExpires, GoesByStored, ExtendedIsKept
  <2> QED
    BY <1>0, <1>9, <2>1, OtherStep DEF LeaseExpires
<1>10. CASE UNCHANGED leaseVars
  <2>1. GoesByStored' /\ ExtendedIsKept'
    BY <1>10 DEF LeaseIInv, leaseVars, GoesByStored, ExtendedIsKept
  <2> QED
    BY <1>0, <1>10, <2>1, OtherStep DEF leaseVars
<1> QED
  BY <1>1, <1>2, <1>3, <1>4, <1>5, <1>6, <1>7, <1>8, <1>9, <1>10 DEF LeaseNext

\* With fresh holders the invariant holds throughout.
LEMMA LeaseInvariance == ASSUME Given = {""} PROVE LeaseSpec => []LeaseIInv
<1>1. LeaseIInv /\ [LeaseNext]_leaseVars => LeaseIInv'
  BY LeaseIInvStep DEF FreshHolders
<1> QED
  BY <1>1, LeaseIInvInit, PTL DEF LeaseSpec

-----------------------------------------------------------------------------
(***************************************************************************)
(* Extend answers true only to a client whose lease nobody else has had.   *)
(***************************************************************************)
THEOREM ExtendMeansNeverLostEver ==
  ASSUME Given = {""} PROVE LeaseSpec => []ExtendMeansNeverLost
<1>1. LeaseIInv => ExtendMeansNeverLost
  BY DEF LeaseIInv, ExtendedIsKept, ExtendMeansNeverLost
<1> QED
  BY <1>1, LeaseInvariance, PTL

(***************************************************************************)
(* A client that was told its lease is lost is not told otherwise later.   *)
(***************************************************************************)
THEOREM LostForGoodEver ==
  ASSUME Given = {""} PROVE LeaseSpec => []LostForGood
<1>1. LeaseIInv => LostForGood
  BY DEF LeaseIInv, ExtendedIsKept, LostForGood
<1> QED
  BY <1>1, LeaseInvariance, PTL

(***************************************************************************)
(* No call of a client that lost its lease touches the lock of another.    *)
(***************************************************************************)
THEOREM ReleaseFreesOnlyOwnEver ==
  ASSUME Given = {""} PROVE LeaseSpec => ReleaseFreesOnlyOwn
<1>1. LeaseIInv /\ LeaseIInv' /\ [LeaseNext]_leaseVars
      => [\A c \in Clients : lease[c] # NoLease /\ ~kept[c] /\ leaseCalls' # leaseCalls
            /\ leaseAnswer'.who = c => lockKey' = lockKey]_leaseVars
  <2> SUFFICES ASSUME LeaseIInv, LeaseNext, NEW c \in Clients, lease[c] # NoLease, ~kept[c],
                      leaseCalls' # leaseCalls, leaseAnswer'.who = c
               PROVE  lockKey' = lockKey
    BY DEF leaseVars
  <2>1. lockKey # lease[c]
    BY DEF LeaseIInv, GoesByStored, HeldIsKept
  <2>3. ASSUME NEW d \in Clients, NEW name \in Given, Lock(d, name) \/ LockFails(d, name)
        PROVE  FALSE
    <3>1. lease[d] = NoLease
      BY <2>3 DEF Lock, LockFails
    <3>2. PICK what \in Answers : leaseAnswer' = [who |-> d, what |-> what]
      BY <2>3 DEF Lock, LockFails, Answer, Answers
    <3>3. leaseAnswer'.who = d
      BY <3>2
    <3>4. d = c
      BY <3>3, Zenon
    <3> QED
      BY <3>1, <3>4
  <2>4. ASSUME NEW d \in Clients, LeaseOf(d) \/ Crash(d) PROVE FALSE
    BY <2>4 DEF LeaseOf, Crash
  <2>5. ASSUME NEW d \in Clients, Extend(d) \/ ExtendFails(d) PROVE lockKey' = lockKey
    BY <2>5 DEF Extend, ExtendFails, extend
  <2>6. ASSUME NEW d \in Clients, Release(d) \/ ReleaseFails(d) PROVE lockKey' = lockKey
    <3>0. PICK what \in Answers : leaseAnswer' = [who |-> d, what |-> what]
      BY <2>6 DEF Release, ReleaseFails, Answer, Answers
    <3>1. d = c
      <4>1. leaseAnswer'.who = d
        BY <3>0
      <4> QED
        BY <4>1, Zenon
    <3>2. UNCHANGED lockKey \/ \E held \in BOOLEAN : release(lease[c], held)
      BY <2>6, <3>1 DEF Release, ReleaseFails
    <3> QED
      BY <2>1, <3>2 DEF release
  <2>7. CASE LeaseExpires
    BY <2>7 DEF LeaseExpires
  <2> QED
    BY <2>3, <2>4, <2>5, <2>6, <2>7 DEF LeaseNext
<1> QED
  BY <1>1, LeaseInvariance, PTL DEF LeaseSpec, ReleaseFreesOnlyOwn
=============================================================================
