----------------------------- MODULE HttpSession -----------------------------
(***************************************************************************)
(* The session token of HTTPClient and the requests that present it        *)
(* (http.go: OpenSession, CloseSession, send, attempt).                    *)
(*                                                                         *)
(* Goroutines share one client.  mu guards only the token and is held for  *)
(* one read or write of it, so each such section is a step of its own and  *)
(* everything else of a call interleaves with the calls of the others: a   *)
(* token read before a request may be gone when its answer comes.          *)
(*                                                                         *)
(* The node is external.  It cuts tokens for the right password, accepts a *)
(* token until it lapses (it expires, the node restarts, it is given back, *)
(* the user record changes), and answers anything else 401.  An answer may *)
(* be lost after the node did what it was asked.                           *)
(***************************************************************************)
EXTENDS Naturals, FiniteSets

CONSTANTS
  Callers,         \* goroutines that share the client
  HasCredentials,  \* does the client hold a user and a password
  Calls,           \* the methods callers choose from
  MaxCalls,        \* bound on the calls made
  MaxLapses        \* bound on the tokens' lapsing by themselves

ASSUME HttpSessionAssumption ==
  /\ HasCredentials \in BOOLEAN
  /\ Calls \subseteq {"send", "OpenSession", "CloseSession"}
  /\ MaxCalls \in Nat
  /\ MaxLapses \in Nat

\* Tokens are numbered as the node cuts them; 0 is the empty token.
NoToken == 0

VARIABLES
  token,     \* HTTPClient.token
  pc,        \* where each caller is
  op,        \* the method each caller is in
  auth,      \* what the caller's request in flight presents
  held,      \* the local held, or the token a session answer carried
  done,      \* how often the node carried out the caller's request
  result,    \* what each caller's last call returned
  lapsed,    \* did a token stop working while the caller's call was under way
  alone,     \* was no other call under way during the caller's
  calls,     \* calls made so far
  valid,     \* the tokens the node accepts
  cut,       \* how many tokens it cut so far
  givenBack, \* the tokens CloseSession took to give back
  right,     \* is the client's password the right one
  lapses     \* tokens that lapsed by themselves so far

callerVars == <<pc, op, auth, held, done, result>>
nodeVars == <<valid, cut, right, lapses>>
vars == <<token, callerVars, lapsed, alone, calls, givenBack, nodeVars>>

Places ==
  {"idle", "attempt", "sent", "unauthorized", "discard", "opening", "store",
   "again", "resent", "closing"}

TypeOK ==
  /\ token \in 0 .. cut
  /\ pc \in [Callers -> Places]
  /\ op \in [Callers -> {"none", "send", "OpenSession", "CloseSession"}]
  /\ auth \in [Callers -> {"none", "basic", "bearer"} \X Nat]
  /\ held \in [Callers -> 0 .. cut]
  /\ done \in [Callers -> Nat]
  /\ result \in [Callers -> {"none", "answer", "401", "error", "opened", "notOpened",
                             "closed"}]
  /\ lapsed \in [Callers -> BOOLEAN]
  /\ alone \in [Callers -> BOOLEAN]
  /\ calls \in Nat
  /\ valid \subseteq 1 .. cut
  /\ cut \in Nat
  /\ givenBack \subseteq 1 .. cut
  /\ right \in BOOLEAN
  /\ lapses \in Nat

Init ==
  /\ token = NoToken
  /\ pc = [c \in Callers |-> "idle"]
  /\ op = [c \in Callers |-> "none"]
  /\ auth = [c \in Callers |-> <<"none", NoToken>>]
  /\ held = [c \in Callers |-> NoToken]
  /\ done = [c \in Callers |-> 0]
  /\ result = [c \in Callers |-> "none"]
  /\ lapsed = [c \in Callers |-> FALSE]
  /\ alone = [c \in Callers |-> TRUE]
  /\ calls = 0
  /\ valid = {}
  /\ cut = 0
  /\ givenBack = {}
  /\ right \in BOOLEAN
  /\ lapses = 0

-----------------------------------------------------------------------------
Goto(c, place) == pc' = [pc EXCEPT ![c] = place]

Return(c, how) ==
  /\ Goto(c, "idle")
  /\ op' = [op EXCEPT ![c] = "none"]
  /\ auth' = [auth EXCEPT ![c] = <<"none", NoToken>>]
  /\ held' = [held EXCEPT ![c] = NoToken]
  /\ result' = [result EXCEPT ![c] = how]

Begin(c, method, place) ==
  /\ pc[c] = "idle"
  /\ method \in Calls
  /\ calls < MaxCalls
  /\ calls' = calls + 1
  /\ Goto(c, place)
  /\ op' = [op EXCEPT ![c] = method]
  /\ done' = [done EXCEPT ![c] = 0]
  /\ result' = [result EXCEPT ![c] = "none"]
  /\ lapsed' = [lapsed EXCEPT ![c] = FALSE]
  /\ alone' = [d \in Callers |->
                IF d = c THEN \A e \in Callers : pc[e] = "idle"
                         ELSE alone[d] /\ pc[d] = "idle"]

\* A token of the node's stops working, which every call under way lives through.
Lapse(t) ==
  /\ valid' = valid \ t
  /\ lapsed' = [c \in Callers |-> lapsed[c] \/ (pc[c] # "idle" /\ t \cap valid # {})]
  /\ UNCHANGED alone

-----------------------------------------------------------------------------
(***************************************************************************)
(* send: Script, Backup and every other request.                           *)
(***************************************************************************)
BeginSend(c) ==
  /\ Begin(c, "send", "attempt")
  /\ UNCHANGED <<token, auth, held, givenBack, nodeVars>>

\* attempt reads the token under mu and sends the request: the token if there is
\* one, else the password.
attempt(c) ==
  /\ pc[c] \in {"attempt", "again"}
  /\ auth' = [auth EXCEPT ![c] =
                IF token # NoToken THEN <<"bearer", token>>
                ELSE IF HasCredentials THEN <<"basic", NoToken>>
                ELSE <<"none", NoToken>>]
  /\ Goto(c, IF pc[c] = "attempt" THEN "sent" ELSE "resent")
  /\ UNCHANGED <<token, op, held, done, result, lapsed, alone, calls, givenBack, nodeVars>>

\* What the node makes of what a request presents.
Accepts(a) ==
  \/ a[1] = "bearer" /\ a[2] \in valid
  \/ a[1] = "basic" /\ right

\* The node carries the request out and answers, with whatever status but 401.
Answered(c) ==
  /\ pc[c] \in {"sent", "resent"}
  /\ Accepts(auth[c])
  /\ done' = [done EXCEPT ![c] = @ + 1]
  /\ Return(c, "answer")
  /\ UNCHANGED <<token, lapsed, alone, calls, givenBack, valid, cut, right, lapses>>

\* Fault: a 401 on the retry is taken for another reason to retry.
UnauthorizedRetries(c) ==
  /\ pc[c] \in {"sent", "resent"}
  /\ ~Accepts(auth[c])
  /\ Goto(c, IF pc[c] = "sent" THEN "unauthorized" ELSE "again")
  /\ UNCHANGED <<token, op, auth, held, done, result, lapsed, alone, calls, givenBack,
                 valid, cut, right, lapses>>

\* The node answers 401: the first time send looks at the token, the second time
\* the caller gets the answer.
Unauthorized(c) ==
  /\ pc[c] \in {"sent", "resent"}
  /\ ~Accepts(auth[c])
  /\ IF pc[c] = "sent"
       THEN Goto(c, "unauthorized") /\ UNCHANGED <<op, auth, held, result>>
       ELSE Return(c, "401")
  /\ UNCHANGED <<token, done, lapsed, alone, calls, givenBack, valid, cut, right, lapses>>

\* Fault: a request that failed in transport is retried as a 401 is.
SendFailsRetried(c) ==
  /\ pc[c] \in {"sent", "resent"}
  /\ Accepts(auth[c])
  /\ done' = [done EXCEPT ![c] = @ + 1]
  /\ IF pc[c] = "sent"
       THEN Goto(c, "again") /\ UNCHANGED <<op, auth, held, result>>
       ELSE Return(c, "error")
  /\ UNCHANGED <<token, lapsed, alone, calls, givenBack, valid, cut, right, lapses>>

\* The request fails in transport, before the node carried it out or after.
SendFails(c) ==
  /\ pc[c] \in {"sent", "resent"}
  /\ \/ UNCHANGED done
     \/ Accepts(auth[c]) /\ done' = [done EXCEPT ![c] = @ + 1]
  /\ Return(c, "error")
  /\ UNCHANGED <<token, lapsed, alone, calls, givenBack, valid, cut, right, lapses>>

\* send reads the token as it is now; with none there the caller gets the 401.
ReadHeld(c) ==
  /\ pc[c] = "unauthorized"
  /\ IF token = NoToken
       THEN Return(c, "401")
       ELSE /\ held' = [held EXCEPT ![c] = token]
            /\ Goto(c, "discard")
            /\ UNCHANGED <<op, auth, result>>
  /\ UNCHANGED <<token, done, lapsed, alone, calls, givenBack, nodeVars>>

\* Fault: the token is kept until OpenSession stores another.
DiscardNothing(c) ==
  /\ pc[c] = "discard"
  /\ Goto(c, "opening")
  /\ UNCHANGED <<token, op, auth, held, done, result, lapsed, alone, calls, givenBack,
                 nodeVars>>

\* It discards the token it read, if it is still there, and signs in again.
Discard(c) ==
  /\ pc[c] = "discard"
  /\ token' = IF token = held[c] THEN NoToken ELSE token
  /\ Goto(c, "opening")
  /\ UNCHANGED <<op, auth, held, done, result, lapsed, alone, calls, givenBack, nodeVars>>

-----------------------------------------------------------------------------
(***************************************************************************)
(* OpenSession, called or within send.                                     *)
(***************************************************************************)
BeginOpen(c) ==
  /\ Begin(c, "OpenSession", "opening")
  /\ UNCHANGED <<token, auth, held, givenBack, nodeVars>>

\* OpenSession is over: send goes on to its second attempt whatever came of it.
AfterOpen(c, how) ==
  IF op[c] = "send"
    THEN Goto(c, "again") /\ UNCHANGED <<op, auth, held, result>>
    ELSE Return(c, how)

\* POST /session with the right password: the answer carries a new token.
SessionCut(c) ==
  /\ pc[c] = "opening"
  /\ HasCredentials
  /\ right
  /\ cut' = cut + 1
  /\ valid' = valid \cup {cut + 1}
  /\ held' = [held EXCEPT ![c] = cut + 1]
  /\ Goto(c, "store")
  /\ UNCHANGED <<token, op, auth, done, result, lapsed, alone, calls, givenBack, right,
                 lapses>>

\* Without credentials nothing is asked; with the wrong ones the answer is 401.
SessionDeclined(c) ==
  /\ pc[c] = "opening"
  /\ ~HasCredentials \/ ~right
  /\ AfterOpen(c, "notOpened")
  /\ UNCHANGED <<token, done, lapsed, alone, calls, givenBack, valid, cut, right, lapses>>

\* 503, the ceiling on tokens; or the answer, and with it a token, is lost.
SessionFails(c) ==
  /\ pc[c] = "opening"
  /\ HasCredentials
  /\ \/ UNCHANGED <<cut, valid>>
     \/ right /\ cut' = cut + 1 /\ valid' = valid \cup {cut + 1}
  /\ AfterOpen(c, "error")
  /\ UNCHANGED <<token, done, lapsed, alone, calls, givenBack, right, lapses>>

\* The token is stored, over whatever is there.
Store(c) ==
  /\ pc[c] = "store"
  /\ token' = held[c]
  /\ AfterOpen(c, "opened")
  /\ UNCHANGED <<done, lapsed, alone, calls, givenBack, nodeVars>>

-----------------------------------------------------------------------------
(***************************************************************************)
(* CloseSession takes the token away under mu, then gives it back.         *)
(***************************************************************************)
\* Fault: the token stays in place while it is given back.
BeginCloseKeeps(c) ==
  /\ Begin(c, "CloseSession", "closing")
  /\ held' = [held EXCEPT ![c] = token]
  /\ givenBack' = IF token = NoToken THEN givenBack ELSE givenBack \cup {token}
  /\ UNCHANGED <<token, auth, nodeVars>>

BeginClose(c) ==
  /\ Begin(c, "CloseSession", "closing")
  /\ held' = [held EXCEPT ![c] = token]
  /\ token' = NoToken
  /\ givenBack' = IF token = NoToken THEN givenBack ELSE givenBack \cup {token}
  /\ UNCHANGED <<auth, nodeVars>>

GiveBack(c) ==
  /\ pc[c] = "closing"
  /\ Return(c, "closed")
  /\ Lapse({held[c]})
  /\ UNCHANGED <<token, done, calls, givenBack, cut, right, lapses>>

\* The request, or its answer, is lost.
GiveBackFails(c) ==
  /\ pc[c] = "closing"
  /\ held[c] # NoToken
  /\ Return(c, "error")
  /\ Lapse({}) \/ Lapse({held[c]})
  /\ UNCHANGED <<token, done, calls, givenBack, cut, right, lapses>>

-----------------------------------------------------------------------------
\* Tokens lapse by themselves: one expires, or the node restarts.
TokensLapse ==
  /\ lapses < MaxLapses
  /\ \E t \in {{x} : x \in valid} \cup {valid} : t # {} /\ Lapse(t)
  /\ lapses' = lapses + 1
  /\ UNCHANGED <<token, callerVars, calls, givenBack, cut, right>>

\* The user record changes: its tokens lapse and the password is another.
UserChanges ==
  /\ lapses < MaxLapses
  /\ right
  /\ right' = FALSE
  /\ Lapse(valid)
  /\ lapses' = lapses + 1
  /\ UNCHANGED <<token, callerVars, calls, givenBack, cut>>

CallerStep(c) ==
  \/ attempt(c)
  \/ Answered(c)
  \/ Unauthorized(c)
  \/ SendFails(c)
  \/ ReadHeld(c)
  \/ Discard(c)
  \/ SessionCut(c)
  \/ SessionDeclined(c)
  \/ SessionFails(c)
  \/ Store(c)
  \/ GiveBack(c)
  \/ GiveBackFails(c)

Next ==
  \/ \E c \in Callers :
       BeginSend(c) \/ BeginOpen(c) \/ BeginClose(c) \/ CallerStep(c)
  \/ TokensLapse
  \/ UserChanges

Spec == Init /\ [][Next]_vars

\* A request is answered or fails, and a goroutine runs on.
FairSpec == Spec /\ \A c \in Callers : WF_vars(CallerStep(c))

-----------------------------------------------------------------------------
(***************************************************************************)
(* Properties                                                              *)
(***************************************************************************)
\* The node carries a request out at most once for each call of send: only a
\* 401, which means it was not carried out, is retried, and a request that failed
\* in transport is not, whatever the node made of it.
CarriedOutOnce == \A c \in Callers : done[c] <= 1

\* A token CloseSession took to give back is never the client's token again, so
\* no attempt that starts afterwards presents it, whatever OpenSession calls of
\* other goroutines store meanwhile and even when giving it back fails.
GivenBackStaysGivenBack == token \notin givenBack

\* With the right password a caller sees a 401 only when a token stopped working
\* while its own call was under way: one that stopped before is discarded, and
\* send signs in again and retries, by password when no token can be had.
UnauthorizedOnlyIfLapsed ==
  \A c \in Callers : HasCredentials /\ right /\ result[c] = "401" => lapsed[c]

\* So it is for a call of send that no other call of the client runs beside.
RecoversAlone ==
  \A c \in Callers :
    HasCredentials /\ right /\ result[c] = "401" /\ alone[c] => lapsed[c]

\* Every call returns: one retry and no more, whatever the node answers and
\* however often tokens lapse.
CallsReturn == \A c \in Callers : pc[c] # "idle" ~> pc[c] = "idle"
=============================================================================
