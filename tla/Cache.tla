-------------------------------- MODULE Cache --------------------------------
(***************************************************************************)
(* A key of a space used as a cache and a counter (cache.go: Get, Set,     *)
(* SetIfAbsent, SetIfPresent, CompareAndSet, Delete, Incr, TTL, Expire,    *)
(* Persist, GetOrSet).  The lock is in module Lease.                       *)
(*                                                                         *)
(* Every call is one statement but GetOrSet, which reads, runs a loader,   *)
(* stores and reads again: callers race each other, the calls of anybody   *)
(* else and the key's expiry.  Any answer may be lost after the statement  *)
(* was carried out.                                                        *)
(*                                                                         *)
(* The store is external: it carries out one statement at a time and       *)
(* removes a key whose time has passed.                                    *)
(***************************************************************************)
EXTENDS Integers

CONSTANTS
  Callers,     \* goroutines inside GetOrSet, a connection each
  Made,        \* what each caller's loader makes
  MaxValue,    \* bound on the numbers kept under the key
  MaxWrites,   \* bound on the statements of other callers
  MaxLapses    \* bound on the times the key expires

ASSUME CacheAssumption ==
  /\ MaxValue \in Nat
  /\ Made \in [Callers -> 0 .. MaxValue]
  /\ MaxWrites \in Nat
  /\ MaxLapses \in Nat

VARIABLES
  key,      \* what is under the key, and its ttl: 0 if it has none
  pc,       \* where each GetOrSet is
  answer,   \* what it answered
  seen,     \* what the key held since the call began
  gone,     \* has the key lost a value since the call began
  steady,   \* has nothing but GetOrSet touched the key
  writes,   \* statements of other callers so far
  lapses    \* times the key expired

calls == <<pc, answer>>
vars == <<key, calls, seen, gone, steady, writes, lapses>>

Values == 0 .. MaxValue

\* NONE: no such key.  The client tells it from every value, NULL included.
None == -1

Error == -2

Nothing == [value |-> None, ttl |-> 0]

TypeOK ==
  /\ key \in [value : Values, ttl : {0, 1}] \cup {Nothing}
  /\ pc \in [Callers -> {"idle", "reading", "loading", "storing", "again", "returned"}]
  /\ answer \in [Callers -> Values \cup {None, Error}]
  /\ seen \in [Callers -> SUBSET Values]
  /\ gone \in [Callers -> BOOLEAN]
  /\ steady \in BOOLEAN
  /\ writes \in 0 .. MaxWrites
  /\ lapses \in 0 .. MaxLapses

Init ==
  /\ key = Nothing
  /\ pc = [c \in Callers |-> "idle"]
  /\ answer = [c \in Callers |-> None]
  /\ seen = [c \in Callers |-> {}]
  /\ gone = [c \in Callers |-> FALSE]
  /\ steady = TRUE
  /\ writes = 0
  /\ lapses = 0

-----------------------------------------------------------------------------
(***************************************************************************)
(* The arguments: a ttl of zero is none where it is optional, and a        *)
(* negative one is refused with nothing sent.                              *)
(***************************************************************************)
Ttls == {-1, 0, 1}

required == {t \in Ttls : t > 0}

optional == {t \in Ttls : t >= 0}

-----------------------------------------------------------------------------
(***************************************************************************)
(* The statements, as the store carries them out.                          *)
(***************************************************************************)
\* The key comes to hold e; every call on its way sees it.
Becomes(e) ==
  /\ key' = e
  /\ seen' = [c \in Callers |->
                IF pc[c] \in {"idle", "returned"} \/ e = Nothing THEN seen[c]
                                                  ELSE seen[c] \cup {e.value}]
  /\ gone' = [c \in Callers |->
                gone[c] \/ (pc[c] \notin {"idle", "returned"} /\ e = Nothing)]

\* SET [IF ...] [EXPIRE $t]: the new value brings its own expiry or none.
Written(v, ttl) == [value |-> v, ttl |-> ttl]

Set == \E v \in Values, ttl \in optional : Becomes(Written(v, ttl))

SetIfPresent ==
  \E v \in Values, ttl \in optional : key # Nothing /\ Becomes(Written(v, ttl))

CompareAndSet ==
  \E e, v \in Values, ttl \in optional : key.value = e /\ Becomes(Written(v, ttl))

Delete == key # Nothing /\ Becomes(Nothing)

\* INCR: a missing key counts from zero, and an expiry is kept.
Incr ==
  LET from == IF key = Nothing THEN 0 ELSE key.value
  IN  from < MaxValue /\ Becomes([key EXCEPT !.value = from + 1])

Expire == key # Nothing /\ \E ttl \in required : Becomes([key EXCEPT !.ttl = ttl])

Persist == key # Nothing /\ Becomes([key EXCEPT !.ttl = 0])

\* A call of somebody else, answered or not.  Get and TTL change nothing.
Other ==
  /\ writes < MaxWrites
  /\ writes' = writes + 1
  /\ \/ Set
     \/ SetIfPresent
     \/ CompareAndSet
     \/ Delete
     \/ Incr
     \/ Expire
     \/ Persist
  /\ steady' = FALSE
  /\ UNCHANGED <<calls, lapses>>

\* The key's time has passed.
Lapse ==
  /\ key # Nothing
  /\ key.ttl > 0
  /\ lapses < MaxLapses
  /\ lapses' = lapses + 1
  /\ Becomes(Nothing)
  /\ steady' = FALSE
  /\ UNCHANGED <<calls, writes>>

-----------------------------------------------------------------------------
(***************************************************************************)
(* GetOrSet.                                                               *)
(***************************************************************************)
Goto(c, place) == pc' = [pc EXCEPT ![c] = place]

Return(c, a) ==
  /\ Goto(c, "returned")
  /\ answer' = [answer EXCEPT ![c] = a]

Frame == UNCHANGED <<steady, writes, lapses>>

\* A ttl that is not positive is refused before anything is sent.
GetOrSet(c) ==
  /\ pc[c] = "idle"
  /\ \E ttl \in Ttls :
       IF ttl \in required THEN Goto(c, "reading") /\ UNCHANGED answer
                           ELSE Return(c, Error)
  /\ seen' = [seen EXCEPT ![c] = IF key = Nothing THEN {} ELSE {key.value}]
  /\ UNCHANGED <<key, gone>>
  /\ Frame

Get(c) ==
  /\ pc[c] = "reading"
  /\ \/ key # Nothing /\ Return(c, key.value)
     \/ key = Nothing /\ Goto(c, "loading") /\ UNCHANGED answer
     \/ Return(c, Error)
  /\ UNCHANGED <<key, seen, gone>>
  /\ Frame

Load(c) ==
  /\ pc[c] = "loading"
  /\ \/ Goto(c, "storing") /\ UNCHANGED answer
     \/ Return(c, Error)
  /\ UNCHANGED <<key, seen, gone>>
  /\ Frame

\* Fault: what the loader made is stored whatever is there.
StoreAnyway(c) ==
  /\ pc[c] = "storing"
  /\ \E ttl \in required : Becomes(Written(Made[c], ttl))
  /\ Return(c, Made[c])
  /\ Frame

\* Fault: the caller that lost the race answers what it made itself.
StoreOnly(c) ==
  /\ pc[c] = "storing"
  /\ IF key = Nothing THEN \E ttl \in required : Becomes(Written(Made[c], ttl))
                      ELSE UNCHANGED <<key, seen, gone>>
  /\ Return(c, Made[c])
  /\ Frame

\* SetIfAbsent, with a ttl that is positive.
SetIfAbsent(c) ==
  /\ pc[c] = "storing"
  /\ \/ /\ key = Nothing
        /\ \E ttl \in required : Becomes(Written(Made[c], ttl))
        /\ Return(c, Made[c]) \/ Return(c, Error)
     \/ /\ key # Nothing
        /\ Goto(c, "again")
        /\ UNCHANGED <<answer, key, seen, gone>>
     \/ Return(c, Error) /\ UNCHANGED <<key, seen, gone>>
  /\ Frame

\* Fault: a key that was absent before is what is answered.
GetAgainOnly(c) ==
  /\ pc[c] = "again"
  /\ Return(c, key.value) \/ Return(c, Error)
  /\ UNCHANGED <<key, seen, gone>>
  /\ Frame

\* Somebody stored first; what they stored may be gone again.
GetAgain(c) ==
  /\ pc[c] = "again"
  /\ \/ Return(c, IF key = Nothing THEN Made[c] ELSE key.value)
     \/ Return(c, Error)
  /\ UNCHANGED <<key, seen, gone>>
  /\ Frame

Step(c) == Get(c) \/ Load(c) \/ SetIfAbsent(c) \/ GetAgain(c)

Next ==
  \/ \E c \in Callers : GetOrSet(c) \/ Step(c)
  \/ Other
  \/ Lapse

Spec == Init /\ [][Next]_vars

-----------------------------------------------------------------------------
Answered(c) == pc[c] = "returned" /\ answer[c] # Error

(***************************************************************************)
(* Racing callers agree: while nobody else touches the key and it does not *)
(* expire, all that answer a value answer the one that is stored, the      *)
(* winner's.                                                               *)
(***************************************************************************)
AnswersAgree == steady => \A c \in Callers : Answered(c) => answer[c] = key.value

(***************************************************************************)
(* Every answer is a value: one the key held during the call or, when what *)
(* another had stored is gone again before it could be read, what this     *)
(* caller's loader made.                                                   *)
(***************************************************************************)
AnswerWasThere ==
  \A c \in Callers : Answered(c) =>
    answer[c] \in seen[c] \/ (answer[c] = Made[c] /\ gone[c])

(***************************************************************************)
(* GetOrSet never replaces a value, never changes an expiry, and leaves no *)
(* key behind that does not expire.                                        *)
(***************************************************************************)
OnlyFillsGaps ==
  [][\A c \in Callers : pc'[c] # pc[c] /\ key' # key => key = Nothing /\ key'.ttl > 0]_vars

=============================================================================
