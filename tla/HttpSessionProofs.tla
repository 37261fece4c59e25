-------------------------- MODULE HttpSessionProofs --------------------------
(***************************************************************************)
(* Proofs about HttpSession: for any goroutines and any number of calls    *)
(* and lapses, the types, that a call of send is carried out at most once, *)
(* and that a token given back is never presented again.                   *)
(***************************************************************************)
EXTENDS HttpSession, TLAPS

Methods == {"none", "send", "OpenSession", "CloseSession"}

Results == {"none", "answer", "401", "error", "opened", "notOpened", "closed"}

\* What requests present is kept apart from the steps that only pass it on.
Presented == {"none", "basic", "bearer"} \X Nat

-----------------------------------------------------------------------------
(***************************************************************************)
(* The pieces that actions share.                                          *)
(***************************************************************************)
LEMMA GotoTypes ==
  ASSUME TypeOK, NEW c \in Callers, NEW place \in Places, Goto(c, place)
  PROVE  pc' \in [Callers -> Places]
BY DEF TypeOK, Goto

LEMMA ReturnTypes ==
  ASSUME TypeOK, NEW c \in Callers, NEW how \in Results, Return(c, how)
  PROVE  /\ pc' \in [Callers -> Places]
         /\ op' \in [Callers -> Methods]
         /\ auth' \in [Callers -> Presented]
         /\ held' \in [Callers -> 0 .. cut]
         /\ result' \in [Callers -> Results]
<1>1. "idle" \in Places /\ NoToken \in 0 .. cut /\ NoToken \in Nat
  BY DEF TypeOK, Places, NoToken
<1>2. <<"none", NoToken>> \in Presented
  BY <1>1 DEF Presented
<1> QED
  BY <1>1, <1>2 DEF TypeOK, Return, Goto, Methods, Results, Presented

LEMMA BeginTypes ==
  ASSUME TypeOK, NEW c \in Callers, NEW method \in Methods, NEW place \in Places,
         Begin(c, method, place)
  PROVE  /\ pc' \in [Callers -> Places]
         /\ op' \in [Callers -> Methods]
         /\ done' \in [Callers -> Nat]
         /\ result' \in [Callers -> Results]
         /\ lapsed' \in [Callers -> BOOLEAN]
         /\ alone' \in [Callers -> BOOLEAN]
         /\ calls' \in Nat
<1>1. lapsed' \in [Callers -> BOOLEAN]
  <2>1. lapsed \in [Callers -> BOOLEAN] /\ lapsed' = [lapsed EXCEPT ![c] = FALSE]
    BY DEF TypeOK, Begin
  <2> QED
    BY <2>1, Zenon
<1>2. alone' \in [Callers -> BOOLEAN]
  <2>1. alone' = [d \in Callers |->
                    IF d = c THEN \A e \in Callers : pc[e] = "idle"
                             ELSE alone[d] /\ pc[d] = "idle"]
    BY DEF Begin
  <2>2. ASSUME NEW d \in Callers
        PROVE  (IF d = c THEN \A e \in Callers : pc[e] = "idle"
                         ELSE alone[d] /\ pc[d] = "idle") \in BOOLEAN
    BY Zenon
  <2> QED
    BY <2>1, <2>2, Zenon
<1>3. /\ pc' \in [Callers -> Places] /\ op' \in [Callers -> Methods]
      /\ done' \in [Callers -> Nat] /\ result' \in [Callers -> Results]
      /\ calls' \in Nat
  BY DEF TypeOK, Begin, Goto, Methods, Results
<1> QED
  BY <1>1, <1>2, <1>3

LEMMA LapseTypes ==
  ASSUME TypeOK, NEW t, Lapse(t)
  PROVE  /\ lapsed' \in [Callers -> BOOLEAN]
         /\ alone' \in [Callers -> BOOLEAN]
         /\ valid' \subseteq valid
<1>1. lapsed' = [c \in Callers |-> lapsed[c] \/ (pc[c] # "idle" /\ t \cap valid # {})]
  BY DEF Lapse
<1>2. ASSUME NEW c \in Callers
      PROVE  (lapsed[c] \/ (pc[c] # "idle" /\ t \cap valid # {})) \in BOOLEAN
  BY Zenon
<1>3. lapsed' \in [Callers -> BOOLEAN]
  BY <1>1, <1>2, Zenon
<1> QED
  BY <1>3 DEF TypeOK, Lapse

LEMMA AfterOpenTypes ==
  ASSUME TypeOK, NEW c \in Callers, NEW how \in Results, AfterOpen(c, how)
  PROVE  /\ pc' \in [Callers -> Places]
         /\ op' \in [Callers -> Methods]
         /\ auth' \in [Callers -> Presented]
         /\ held' \in [Callers -> 0 .. cut]
         /\ result' \in [Callers -> Results]
<1>1. CASE op[c] = "send"
  BY <1>1 DEF TypeOK, AfterOpen, Goto, Places, Methods, Results, Presented
<1>2. CASE op[c] # "send"
  BY <1>2, ReturnTypes DEF AfterOpen
<1> QED
  BY <1>1, <1>2

-----------------------------------------------------------------------------
LEMMA TypeStep == TypeOK /\ [Next]_vars => TypeOK'
<1> SUFFICES ASSUME TypeOK, [Next]_vars PROVE TypeOK'
  OBVIOUS
<1> USE DEF NoToken, nodeVars, callerVars
<1>1. ASSUME NEW c \in Callers, BeginSend(c) PROVE TypeOK'
  <2>1. Begin(c, "send", "attempt") /\ UNCHANGED <<token, auth, held, givenBack, nodeVars>>
    BY <1>1 DEF BeginSend
  <2>2. "attempt" \in Places /\ "send" \in Methods
    BY DEF Places, Methods
  <2> QED
    BY <2>1, <2>2, BeginTypes DEF TypeOK, Methods, Results
<1>2. ASSUME NEW c \in Callers, BeginOpen(c) PROVE TypeOK'
  <2>1. Begin(c, "OpenSession", "opening") /\ UNCHANGED <<token, auth, held, givenBack, nodeVars>>
    BY <1>2 DEF BeginOpen
  <2>2. "opening" \in Places /\ "OpenSession" \in Methods
    BY DEF Places, Methods
  <2> QED
    BY <2>1, <2>2, BeginTypes DEF TypeOK, Methods, Results
<1>3. ASSUME NEW c \in Callers, BeginClose(c) PROVE TypeOK'
  <2>1. Begin(c, "CloseSession", "closing")
    BY <1>3 DEF BeginClose
  <2>2. "closing" \in Places /\ "CloseSession" \in Methods
    BY DEF Places, Methods
  <2>3. token' \in 0 .. cut /\ held' \in [Callers -> 0 .. cut] /\ givenBack' \subseteq 1 .. cut
    BY <1>3 DEF TypeOK, BeginClose
  <2> QED
    BY <1>3, <2>1, <2>2, <2>3, BeginTypes DEF TypeOK, BeginClose, Methods, Results
<1>4. ASSUME NEW c \in Callers, attempt(c) PROVE TypeOK'
  <2>1. auth' \in [Callers -> Presented]
    <3>1. <<"bearer", token>> \in Presented /\ <<"basic", NoToken>> \in Presented
          /\ <<"none", NoToken>> \in Presented
      BY DEF TypeOK, Presented
    <3> QED
      BY <1>4, <3>1 DEF TypeOK, attempt, Presented
  <2>2. pc' \in [Callers -> Places]
    BY <1>4, GotoTypes DEF attempt, Places
  <2> QED
    BY <1>4, <2>1, <2>2 DEF TypeOK, attempt, Presented
<1>5. ASSUME NEW c \in Callers, Answered(c) PROVE TypeOK'
  <2>1. Return(c, "answer") /\ "answer" \in Results
    BY <1>5 DEF Answered, Results
  <2>2. done' \in [Callers -> Nat]
    BY <1>5 DEF TypeOK, Answered
  <2> QED
    BY <1>5, <2>1, <2>2, ReturnTypes DEF TypeOK, Answered, Methods, Results, Presented
<1>6. ASSUME NEW c \in Callers, Unauthorized(c) PROVE TypeOK'
  <2>1. CASE pc[c] = "sent"
    <3>1. Goto(c, "unauthorized") /\ "unauthorized" \in Places
      BY <1>6, <2>1 DEF Unauthorized, Places
    <3> QED
      BY <1>6, <2>1, <3>1, GotoTypes DEF TypeOK, Unauthorized
  <2>2. CASE pc[c] # "sent"
    <3>1. Return(c, "401") /\ "401" \in Results
      BY <1>6, <2>2 DEF Unauthorized, Results
    <3> QED
      BY <1>6, <3>1, ReturnTypes DEF TypeOK, Unauthorized, Methods, Results, Presented
  <2> QED
    BY <2>1, <2>2
<1>7. ASSUME NEW c \in Callers, SendFails(c) PROVE TypeOK'
  <2>1. Return(c, "error") /\ "error" \in Results
    BY <1>7 DEF SendFails, Results
  <2>2. done' \in [Callers -> Nat]
    BY <1>7 DEF TypeOK, SendFails
  <2> QED
    BY <1>7, <2>1, <2>2, ReturnTypes DEF TypeOK, SendFails, Methods, Results, Presented
<1>8. ASSUME NEW c \in Callers, ReadHeld(c) PROVE TypeOK'
  <2>1. CASE token = NoToken
    <3>1. Return(c, "401") /\ "401" \in Results
      BY <1>8, <2>1 DEF ReadHeld, Results
    <3> QED
      BY <1>8, <3>1, ReturnTypes DEF TypeOK, ReadHeld, Methods, Results, Presented
  <2>2. CASE token # NoToken
    <3>1. Goto(c, "discard") /\ "discard" \in Places
      BY <1>8, <2>2 DEF ReadHeld, Places
    <3> QED
      BY <1>8, <2>2, <3>1, GotoTypes DEF TypeOK, ReadHeld
  <2> QED
    BY <2>1, <2>2
<1>9. ASSUME NEW c \in Callers, Discard(c) PROVE TypeOK'
  <2>1. Goto(c, "opening") /\ "opening" \in Places
    BY <1>9 DEF Discard, Places
  <2> QED
    BY <1>9, <2>1, GotoTypes DEF TypeOK, Discard
<1>10. ASSUME NEW c \in Callers, SessionCut(c) PROVE TypeOK'
  <2>1. Goto(c, "store") /\ "store" \in Places
    BY <1>10 DEF SessionCut, Places
  <2>2. pc' \in [Callers -> Places]
    BY <2>1, GotoTypes
  <2>3. held' \in [Callers -> 0 .. cut']
    BY <1>10 DEF TypeOK, SessionCut
  <2> QED
    BY <1>10, <2>2, <2>3 DEF TypeOK, SessionCut
<1>11. ASSUME NEW c \in Callers, SessionDeclined(c) PROVE TypeOK'
  <2>1. AfterOpen(c, "notOpened") /\ "notOpened" \in Results
    BY <1>11 DEF SessionDeclined, Results
  <2> QED
    BY <1>11, <2>1, AfterOpenTypes DEF TypeOK, SessionDeclined, Methods, Results, Presented
<1>12. ASSUME NEW c \in Callers, SessionFails(c) PROVE TypeOK'
  <2>1. AfterOpen(c, "error") /\ "error" \in Results
    BY <1>12 DEF SessionFails, Results
  <2>2. cut' \in Nat /\ valid' \subseteq 1 .. cut' /\ givenBack' \subseteq 1 .. cut'
    BY <1>12 DEF TypeOK, SessionFails
  <2> QED
    BY <1>12, <2>1, <2>2, AfterOpenTypes DEF TypeOK, SessionFails, Methods, Results, Presented
<1>13. ASSUME NEW c \in Callers, Store(c) PROVE TypeOK'
  <2>1. AfterOpen(c, "opened") /\ "opened" \in Results
    BY <1>13 DEF Store, Results
  <2> QED
    BY <1>13, <2>1, AfterOpenTypes DEF TypeOK, Store, Methods, Results, Presented
<1>14. ASSUME NEW c \in Callers, GiveBack(c) PROVE TypeOK'
  <2>1. Return(c, "closed") /\ "closed" \in Results /\ Lapse({held[c]})
    BY <1>14 DEF GiveBack, Results
  <2> QED
    BY <1>14, <2>1, ReturnTypes, LapseTypes
    DEF TypeOK, GiveBack, Methods, Results, Presented
<1>15. ASSUME NEW c \in Callers, GiveBackFails(c) PROVE TypeOK'
  <2>1. Return(c, "error") /\ "error" \in Results
    BY <1>15 DEF GiveBackFails, Results
  <2>2. PICK t \in {{}, {held[c]}} : Lapse(t)
    BY <1>15 DEF GiveBackFails
  <2> QED
    BY <1>15, <2>1, <2>2, ReturnTypes, LapseTypes
    DEF TypeOK, GiveBackFails, Methods, Results, Presented
<1>16. CASE TokensLapse
  <2>1. PICK t : Lapse(t)
    BY <1>16 DEF TokensLapse
  <2>2. UNCHANGED <<token, pc, op, auth, held, done, result, calls, givenBack, cut>>
    BY <1>16 DEF TokensLapse
  <2>3. lapsed' \in [Callers -> BOOLEAN] /\ alone' \in [Callers -> BOOLEAN] /\ valid' \subseteq valid
    BY <2>1, LapseTypes
  <2>4. right' \in BOOLEAN /\ lapses' \in Nat
    BY <1>16 DEF TypeOK, TokensLapse
  <2> QED
    BY <2>2, <2>3, <2>4 DEF TypeOK
<1>17. CASE UserChanges
  <2>1. Lapse(valid)
    BY <1>17 DEF UserChanges
  <2>2. UNCHANGED <<token, pc, op, auth, held, done, result, calls, givenBack, cut>>
    BY <1>17 DEF UserChanges
  <2>3. lapsed' \in [Callers -> BOOLEAN] /\ alone' \in [Callers -> BOOLEAN] /\ valid' \subseteq valid
    BY <2>1, LapseTypes
  <2>4. right' \in BOOLEAN
    BY <1>17, Zenon DEF UserChanges
  <2>5. lapses' \in Nat
    BY <1>17 DEF TypeOK, UserChanges
  <2> QED
    BY <2>2, <2>3, <2>4, <2>5 DEF TypeOK
<1>18. CASE UNCHANGED vars
  BY <1>18 DEF TypeOK, vars
<1> QED
  BY <1>1, <1>2, <1>3, <1>4, <1>5, <1>6, <1>7, <1>8, <1>9, <1>10, <1>11, <1>12, <1>13,
     <1>14, <1>15, <1>16, <1>17, <1>18 DEF Next, CallerStep

LEMMA InitTypes == Init => TypeOK
<1> SUFFICES ASSUME Init PROVE TypeOK
  OBVIOUS
<1>1. lapsed \in [Callers -> BOOLEAN] /\ alone \in [Callers -> BOOLEAN]
  BY Zenon DEF Init
<1>2. right \in BOOLEAN
  BY DEF Init
<1>3. auth \in [Callers -> {"none", "basic", "bearer"} \X Nat]
  BY DEF Init, NoToken
<1> QED
  BY <1>1, <1>2, <1>3 DEF Init, TypeOK, Places, NoToken

\* Every variable keeps its type: no token is held, given back or accepted that
\* the node did not cut.
THEOREM TypeCorrect == Spec => []TypeOK
BY InitTypes, TypeStep, PTL DEF Spec

-----------------------------------------------------------------------------
(***************************************************************************)
(* The inductive invariant.  A request that was carried out ends its call, *)
(* so that nothing was carried out yet for a call under way; and a token   *)
(* on its way from a session answer to the client is as yet nobody else's. *)
(***************************************************************************)
NothingDoneYet == \A c \in Callers : pc[c] # "idle" => done[c] = 0

Fresh ==
  \A c \in Callers : pc[c] = "store" =>
    /\ held[c] # NoToken
    /\ held[c] # token
    /\ held[c] \notin givenBack
    /\ \A d \in Callers \ {c} : pc[d] = "store" => held[d] # held[c]

IInv ==
  /\ TypeOK
  /\ NothingDoneYet
  /\ CarriedOutOnce
  /\ Fresh
  /\ GivenBackStaysGivenBack

LEMMA InitInv == Init => IInv
<1> SUFFICES ASSUME Init PROVE IInv
  OBVIOUS
<1>1. TypeOK
  BY InitTypes
<1> QED
  BY <1>1 DEF Init, IInv, NothingDoneYet, CarriedOutOnce, Fresh, GivenBackStaysGivenBack

LEMMA DoneStep ==
  IInv /\ [Next]_vars => NothingDoneYet' /\ CarriedOutOnce'
<1> SUFFICES ASSUME IInv, [Next]_vars PROVE NothingDoneYet' /\ CarriedOutOnce'
  OBVIOUS
<1> USE DEF IInv, TypeOK, NothingDoneYet, CarriedOutOnce
<1>1. ASSUME NEW c \in Callers, BeginSend(c) PROVE NothingDoneYet' /\ CarriedOutOnce'
  BY <1>1 DEF BeginSend, Begin, Goto
<1>2. ASSUME NEW c \in Callers, BeginOpen(c) PROVE NothingDoneYet' /\ CarriedOutOnce'
  BY <1>2 DEF BeginOpen, Begin, Goto
<1>3. ASSUME NEW c \in Callers, BeginClose(c) PROVE NothingDoneYet' /\ CarriedOutOnce'
  BY <1>3 DEF BeginClose, Begin, Goto
<1>4. ASSUME NEW c \in Callers, attempt(c) PROVE NothingDoneYet' /\ CarriedOutOnce'
  BY <1>4 DEF attempt, Goto
<1>5. ASSUME NEW c \in Callers, Answered(c) PROVE NothingDoneYet' /\ CarriedOutOnce'
  BY <1>5 DEF Answered, Return, Goto
<1>6. ASSUME NEW c \in Callers, Unauthorized(c) PROVE NothingDoneYet' /\ CarriedOutOnce'
  BY <1>6 DEF Unauthorized, Return, Goto
<1>7. ASSUME NEW c \in Callers, SendFails(c) PROVE NothingDoneYet' /\ CarriedOutOnce'
  BY <1>7 DEF SendFails, Return, Goto
<1>8. ASSUME NEW c \in Callers, ReadHeld(c) PROVE NothingDoneYet' /\ CarriedOutOnce'
  BY <1>8 DEF ReadHeld, Return, Goto
<1>9. ASSUME NEW c \in Callers, Discard(c) PROVE NothingDoneYet' /\ CarriedOutOnce'
  BY <1>9 DEF Discard, Goto
<1>10. ASSUME NEW c \in Callers, SessionCut(c) PROVE NothingDoneYet' /\ CarriedOutOnce'
  BY <1>10 DEF SessionCut, Goto
<1>11. ASSUME NEW c \in Callers, SessionDeclined(c) PROVE NothingDoneYet' /\ CarriedOutOnce'
  BY <1>11 DEF SessionDeclined, AfterOpen, Return, Goto
<1>12. ASSUME NEW c \in Callers, SessionFails(c) PROVE NothingDoneYet' /\ CarriedOutOnce'
  BY <1>12 DEF SessionFails, AfterOpen, Return, Goto
<1>13. ASSUME NEW c \in Callers, Store(c) PROVE NothingDoneYet' /\ CarriedOutOnce'
  BY <1>13 DEF Store, AfterOpen, Return, Goto
<1>14. ASSUME NEW c \in Callers, GiveBack(c) PROVE NothingDoneYet' /\ CarriedOutOnce'
  BY <1>14 DEF GiveBack, Return, Goto
<1>15. ASSUME NEW c \in Callers, GiveBackFails(c) PROVE NothingDoneYet' /\ CarriedOutOnce'
  BY <1>15 DEF GiveBackFails, Return, Goto
<1>16. CASE TokensLapse \/ UserChanges \/ UNCHANGED vars
  BY <1>16 DEF TokensLapse, UserChanges, vars, callerVars
<1> QED
  BY <1>1, <1>2, <1>3, <1>4, <1>5, <1>6, <1>7, <1>8, <1>9, <1>10, <1>11, <1>12, <1>13, <1>14, <1>15, <1>16 DEF Next, CallerStep

\* A step that brings no token, gives none back and starts no storing.
LEMMA FreshKept ==
  ASSUME IInv, token' \in {token, NoToken}, givenBack' = givenBack,
         \A d \in Callers : pc'[d] = "store" => pc[d] = "store" /\ held'[d] = held[d]
  PROVE  Fresh' /\ GivenBackStaysGivenBack'
BY DEF IInv, TypeOK, Fresh, GivenBackStaysGivenBack, NoToken

LEMMA FreshStep ==
  IInv /\ [Next]_vars => Fresh' /\ GivenBackStaysGivenBack'
<1> SUFFICES ASSUME IInv, [Next]_vars PROVE Fresh' /\ GivenBackStaysGivenBack'
  OBVIOUS
<1> DEFINE Kept ==
      /\ token' \in {token, NoToken}
      /\ givenBack' = givenBack
      /\ \A d \in Callers : pc'[d] = "store" => pc[d] = "store" /\ held'[d] = held[d]
<1>1. ASSUME NEW c \in Callers, BeginSend(c) PROVE Kept
  BY <1>1 DEF IInv, TypeOK, BeginSend, Begin, Goto
<1>2. ASSUME NEW c \in Callers, BeginOpen(c) PROVE Kept
  BY <1>2 DEF IInv, TypeOK, BeginOpen, Begin, Goto
<1>3. ASSUME NEW c \in Callers, attempt(c) PROVE Kept
  BY <1>3 DEF IInv, TypeOK, attempt, Goto
<1>4. ASSUME NEW c \in Callers, Answered(c) PROVE Kept
  BY <1>4 DEF IInv, TypeOK, Answered, Return, Goto
<1>5. ASSUME NEW c \in Callers, Unauthorized(c) PROVE Kept
  BY <1>5 DEF IInv, TypeOK, Unauthorized, Return, Goto
<1>6. ASSUME NEW c \in Callers, SendFails(c) PROVE Kept
  BY <1>6 DEF IInv, TypeOK, SendFails, Return, Goto
<1>7. ASSUME NEW c \in Callers, ReadHeld(c) PROVE Kept
  BY <1>7 DEF IInv, TypeOK, ReadHeld, Return, Goto
<1>8. ASSUME NEW c \in Callers, Discard(c) PROVE Kept
  BY <1>8 DEF IInv, TypeOK, Discard, Goto
<1>9. ASSUME NEW c \in Callers, SessionDeclined(c) PROVE Kept
  BY <1>9 DEF IInv, TypeOK, SessionDeclined, AfterOpen, Return, Goto
<1>10. ASSUME NEW c \in Callers, SessionFails(c) PROVE Kept
  BY <1>10 DEF IInv, TypeOK, SessionFails, AfterOpen, Return, Goto
<1>11. ASSUME NEW c \in Callers, GiveBack(c) PROVE Kept
  BY <1>11 DEF IInv, TypeOK, GiveBack, Return, Goto
<1>12. ASSUME NEW c \in Callers, GiveBackFails(c) PROVE Kept
  BY <1>12 DEF IInv, TypeOK, GiveBackFails, Return, Goto
<1>13. ASSUME TokensLapse \/ UserChanges \/ UNCHANGED vars PROVE Kept
  BY <1>13 DEF TokensLapse, UserChanges, vars, callerVars
<1>14. ASSUME NEW c \in Callers, BeginClose(c) PROVE Fresh' /\ GivenBackStaysGivenBack'
  BY <1>14 DEF IInv, TypeOK, Fresh, GivenBackStaysGivenBack, NoToken, BeginClose, Begin, Goto
<1>15. ASSUME NEW c \in Callers, SessionCut(c) PROVE Fresh' /\ GivenBackStaysGivenBack'
  BY <1>15 DEF IInv, TypeOK, Fresh, GivenBackStaysGivenBack, NoToken, SessionCut, Goto
<1>16. ASSUME NEW c \in Callers, Store(c) PROVE Fresh' /\ GivenBackStaysGivenBack'
  BY <1>16 DEF IInv, TypeOK, Fresh, GivenBackStaysGivenBack, NoToken, Store, AfterOpen, Return, Goto
<1>17. ASSUME Kept PROVE Fresh' /\ GivenBackStaysGivenBack'
  BY <1>17, FreshKept
<1> HIDE DEF Kept
<1> QED
  BY <1>1, <1>2, <1>3, <1>4, <1>5, <1>6, <1>7, <1>8, <1>9, <1>10, <1>11, <1>12, <1>13, <1>14, <1>15, <1>16, <1>17 DEF Next, CallerStep

LEMMA InvStep == IInv /\ [Next]_vars => IInv'
<1> SUFFICES ASSUME IInv, [Next]_vars PROVE IInv'
  OBVIOUS
<1>1. TypeOK'
  BY TypeStep DEF IInv
<1> QED
  BY <1>1, DoneStep, FreshStep DEF IInv

LEMMA Inductive == Spec => []IInv
BY InitInv, InvStep, PTL DEF Spec

\* The node carries a request out at most once for each call of send, however
\* many goroutines share the client and whatever lapses or is lost.
THEOREM CarriedOutOnceEver == Spec => []CarriedOutOnce
<1>1. IInv => CarriedOutOnce
  BY DEF IInv
<1> QED
  BY <1>1, Inductive, PTL

\* A token CloseSession took to give back is never the client's token again.
THEOREM GivenBackEver == Spec => []GivenBackStaysGivenBack
<1>1. IInv => GivenBackStaysGivenBack
  BY DEF IInv
<1> QED
  BY <1>1, Inductive, PTL

-----------------------------------------------------------------------------
(***************************************************************************)
(* A call that no other runs beside.  With the right password, and until a *)
(* token stops working under it, what it presented on its first attempt is *)
(* the client's token or the password, and on its second one that the node *)
(* accepts.                                                                *)
(***************************************************************************)
Quiet(c) == HasCredentials /\ right /\ alone[c] /\ ~lapsed[c]

Password == <<"basic", NoToken>>

OnItsWay(c) ==
  /\ pc[c] = "sent" => auth[c] = Password \/ (auth[c] = <<"bearer", token>> /\ token # NoToken)
  /\ pc[c] = "unauthorized" => token # NoToken
  /\ pc[c] = "discard" => held[c] = token
  /\ pc[c] = "opening" /\ op[c] = "send" => token = NoToken
  /\ pc[c] = "store" => held[c] \in valid
  /\ pc[c] = "again" => token = NoToken \/ token \in valid
  /\ pc[c] = "resent" =>
       auth[c] = Password \/ (auth[c][1] = "bearer" /\ auth[c][2] \in valid)

Recovering(c) ==
  Quiet(c) =>
    /\ result[c] # "401"
    /\ pc[c] # "idle" => \A d \in Callers \ {c} : pc[d] = "idle"
    /\ OnItsWay(c)

Recover == TypeOK /\ \A c \in Callers : Recovering(c)

LEMMA PasswordAccepted == right => Accepts(Password)
BY DEF Accepts, Password

\* What a step of one caller leaves of the others.
LEMMA OthersRecover ==
  ASSUME Recover, NEW c \in Callers, pc[c] # "idle",
         NEW d \in Callers, d # c,
         right' = right, alone' = alone,
         lapsed'[d] = FALSE => lapsed[d] = FALSE,
         pc'[d] = pc[d], result'[d] = result[d]
  PROVE  Recovering(d)'
<1>1. CASE pc[d] = "idle"
  BY <1>1 DEF Recover, TypeOK, Recovering, Quiet, OnItsWay
<1>2. CASE pc[d] # "idle"
  <2>1. ~Quiet(d)
    BY <1>2 DEF Recover, Recovering
  <2> QED
    BY <2>1 DEF Recover, TypeOK, Recovering, Quiet
<1> QED
  BY <1>1, <1>2

LEMMA RecoverStep == Recover /\ [Next]_vars => Recover'
<1> SUFFICES ASSUME Recover, [Next]_vars PROVE Recover'
  OBVIOUS
<1> USE HttpSessionAssumption DEF nodeVars, callerVars
<1>0. TypeOK'
  BY TypeStep DEF Recover
<1>1. ASSUME NEW c \in Callers, BeginSend(c), NEW d \in Callers PROVE Recovering(d)'
  BY <1>1 DEF Recover, TypeOK, Recovering, Quiet, OnItsWay, BeginSend, Begin, Goto
<1>2. ASSUME NEW c \in Callers, BeginOpen(c), NEW d \in Callers PROVE Recovering(d)'
  BY <1>2 DEF Recover, TypeOK, Recovering, Quiet, OnItsWay, BeginOpen, Begin, Goto
<1>3. ASSUME NEW c \in Callers, BeginClose(c), NEW d \in Callers PROVE Recovering(d)'
  BY <1>3 DEF Recover, TypeOK, Recovering, Quiet, OnItsWay, BeginClose, Begin, Goto
<1>4. ASSUME NEW c \in Callers, attempt(c), NEW d \in Callers PROVE Recovering(d)'
  <2>1. CASE d = c
    BY <1>4, <2>1 DEF Recover, TypeOK, Recovering, Quiet, OnItsWay, Password, attempt, Goto
  <2>2. CASE d # c
    <3>1. /\ pc[c] # "idle" /\ right' = right /\ alone' = alone
          /\ lapsed'[d] = FALSE => lapsed[d] = FALSE
          /\ pc'[d] = pc[d] /\ result'[d] = result[d]
      BY <1>4, <2>2 DEF Recover, TypeOK, attempt, Goto
    <3> QED
      BY <2>2, <3>1, OthersRecover
  <2> QED
    BY <2>1, <2>2
<1>5. ASSUME NEW c \in Callers, Answered(c), NEW d \in Callers PROVE Recovering(d)'
  <2>1. CASE d = c
    BY <1>5, <2>1 DEF Recover, TypeOK, Recovering, Quiet, OnItsWay, Answered, Return, Goto, Accepts
  <2>2. CASE d # c
    <3>1. /\ pc[c] # "idle" /\ right' = right /\ alone' = alone
          /\ lapsed'[d] = FALSE => lapsed[d] = FALSE
          /\ pc'[d] = pc[d] /\ result'[d] = result[d]
      BY <1>5, <2>2 DEF Recover, TypeOK, Answered, Return, Goto, Accepts
    <3> QED
      BY <2>2, <3>1, OthersRecover
  <2> QED
    BY <2>1, <2>2
<1>6. ASSUME NEW c \in Callers, Unauthorized(c), NEW d \in Callers PROVE Recovering(d)'
  <2>1. CASE d = c
    BY <1>6, <2>1, PasswordAccepted DEF Recover, TypeOK, Recovering, Quiet, OnItsWay, Unauthorized, Return, Goto, Accepts
  <2>2. CASE d # c
    <3>1. /\ pc[c] # "idle" /\ right' = right /\ alone' = alone
          /\ lapsed'[d] = FALSE => lapsed[d] = FALSE
          /\ pc'[d] = pc[d] /\ result'[d] = result[d]
      BY <1>6, <2>2 DEF Recover, TypeOK, Unauthorized, Return, Goto, Accepts
    <3> QED
      BY <2>2, <3>1, OthersRecover
  <2> QED
    BY <2>1, <2>2
<1>7. ASSUME NEW c \in Callers, SendFails(c), NEW d \in Callers PROVE Recovering(d)'
  <2>1. CASE d = c
    BY <1>7, <2>1 DEF Recover, TypeOK, Recovering, Quiet, OnItsWay, SendFails, Return, Goto
  <2>2. CASE d # c
    <3>1. /\ pc[c] # "idle" /\ right' = right /\ alone' = alone
          /\ lapsed'[d] = FALSE => lapsed[d] = FALSE
          /\ pc'[d] = pc[d] /\ result'[d] = result[d]
      BY <1>7, <2>2 DEF Recover, TypeOK, SendFails, Return, Goto
    <3> QED
      BY <2>2, <3>1, OthersRecover
  <2> QED
    BY <2>1, <2>2
<1>8. ASSUME NEW c \in Callers, ReadHeld(c), NEW d \in Callers PROVE Recovering(d)'
  <2>1. CASE d = c
    BY <1>8, <2>1 DEF Recover, TypeOK, Recovering, Quiet, OnItsWay, ReadHeld, Return, Goto
  <2>2. CASE d # c
    <3>1. /\ pc[c] # "idle" /\ right' = right /\ alone' = alone
          /\ lapsed'[d] = FALSE => lapsed[d] = FALSE
          /\ pc'[d] = pc[d] /\ result'[d] = result[d]
      BY <1>8, <2>2 DEF Recover, TypeOK, ReadHeld, Return, Goto
    <3> QED
      BY <2>2, <3>1, OthersRecover
  <2> QED
    BY <2>1, <2>2
<1>9. ASSUME NEW c \in Callers, Discard(c), NEW d \in Callers PROVE Recovering(d)'
  <2>1. CASE d = c
    BY <1>9, <2>1 DEF Recover, TypeOK, Recovering, Quiet, OnItsWay, Discard, Goto
  <2>2. CASE d # c
    <3>1. /\ pc[c] # "idle" /\ right' = right /\ alone' = alone
          /\ lapsed'[d] = FALSE => lapsed[d] = FALSE
          /\ pc'[d] = pc[d] /\ result'[d] = result[d]
      BY <1>9, <2>2 DEF Recover, TypeOK, Discard, Goto
    <3> QED
      BY <2>2, <3>1, OthersRecover
  <2> QED
    BY <2>1, <2>2
<1>10. ASSUME NEW c \in Callers, SessionCut(c), NEW d \in Callers PROVE Recovering(d)'
  <2>1. CASE d = c
    BY <1>10, <2>1 DEF Recover, TypeOK, Recovering, Quiet, OnItsWay, SessionCut, Goto
  <2>2. CASE d # c
    <3>1. /\ pc[c] # "idle" /\ right' = right /\ alone' = alone
          /\ lapsed'[d] = FALSE => lapsed[d] = FALSE
          /\ pc'[d] = pc[d] /\ result'[d] = result[d]
      BY <1>10, <2>2 DEF Recover, TypeOK, SessionCut, Goto
    <3> QED
      BY <2>2, <3>1, OthersRecover
  <2> QED
    BY <2>1, <2>2
<1>11. ASSUME NEW c \in Callers, SessionDeclined(c), NEW d \in Callers PROVE Recovering(d)'
  <2>1. CASE d = c
    BY <1>11, <2>1 DEF Recover, TypeOK, Recovering, Quiet, OnItsWay, SessionDeclined, AfterOpen, Return, Goto
  <2>2. CASE d # c
    <3>1. /\ pc[c] # "idle" /\ right' = right /\ alone' = alone
          /\ lapsed'[d] = FALSE => lapsed[d] = FALSE
          /\ pc'[d] = pc[d] /\ result'[d] = result[d]
      BY <1>11, <2>2 DEF Recover, TypeOK, SessionDeclined, AfterOpen, Return, Goto
    <3> QED
      BY <2>2, <3>1, OthersRecover
  <2> QED
    BY <2>1, <2>2
<1>12. ASSUME NEW c \in Callers, SessionFails(c), NEW d \in Callers PROVE Recovering(d)'
  <2>1. CASE d = c
    BY <1>12, <2>1 DEF Recover, TypeOK, Recovering, Quiet, OnItsWay, SessionFails, AfterOpen, Return, Goto
  <2>2. CASE d # c
    <3>1. /\ pc[c] # "idle" /\ right' = right /\ alone' = alone
          /\ lapsed'[d] = FALSE => lapsed[d] = FALSE
          /\ pc'[d] = pc[d] /\ result'[d] = result[d]
      BY <1>12, <2>2 DEF Recover, TypeOK, SessionFails, AfterOpen, Return, Goto
    <3> QED
      BY <2>2, <3>1, OthersRecover
  <2> QED
    BY <2>1, <2>2
<1>13. ASSUME NEW c \in Callers, Store(c), NEW d \in Callers PROVE Recovering(d)'
  <2>1. CASE d = c
    BY <1>13, <2>1 DEF Recover, TypeOK, Recovering, Quiet, OnItsWay, Store, AfterOpen, Return, Goto
  <2>2. CASE d # c
    <3>1. /\ pc[c] # "idle" /\ right' = right /\ alone' = alone
          /\ lapsed'[d] = FALSE => lapsed[d] = FALSE
          /\ pc'[d] = pc[d] /\ result'[d] = result[d]
      BY <1>13, <2>2 DEF Recover, TypeOK, Store, AfterOpen, Return, Goto
    <3> QED
      BY <2>2, <3>1, OthersRecover
  <2> QED
    BY <2>1, <2>2
<1>14. ASSUME NEW c \in Callers, GiveBack(c), NEW d \in Callers PROVE Recovering(d)'
  <2>1. CASE d = c
    BY <1>14, <2>1 DEF Recover, TypeOK, Recovering, Quiet, OnItsWay, GiveBack, Return, Goto, Lapse
  <2>2. CASE d # c
    <3>1. /\ pc[c] # "idle" /\ right' = right /\ alone' = alone
          /\ lapsed'[d] = FALSE => lapsed[d] = FALSE
          /\ pc'[d] = pc[d] /\ result'[d] = result[d]
      BY <1>14, <2>2 DEF Recover, TypeOK, GiveBack, Return, Goto, Lapse
    <3> QED
      BY <2>2, <3>1, OthersRecover
  <2> QED
    BY <2>1, <2>2
<1>15. ASSUME NEW c \in Callers, GiveBackFails(c), NEW d \in Callers PROVE Recovering(d)'
  <2>1. CASE d = c
    BY <1>15, <2>1 DEF Recover, TypeOK, Recovering, Quiet, OnItsWay, GiveBackFails, Return, Goto, Lapse
  <2>2. CASE d # c
    <3>1. /\ pc[c] # "idle" /\ right' = right /\ alone' = alone
          /\ lapsed'[d] = FALSE => lapsed[d] = FALSE
          /\ pc'[d] = pc[d] /\ result'[d] = result[d]
      BY <1>15, <2>2 DEF Recover, TypeOK, GiveBackFails, Return, Goto, Lapse
    <3> QED
      BY <2>2, <3>1, OthersRecover
  <2> QED
    BY <2>1, <2>2
<1>16. ASSUME TokensLapse \/ UserChanges, NEW d \in Callers PROVE Recovering(d)'
  <2>1. CASE UserChanges
    <3>1. right' = FALSE
      BY <2>1 DEF UserChanges
    <3> QED
      BY <3>1 DEF Recovering, Quiet
  <2>2. CASE TokensLapse
    <3>1. PICK t : Lapse(t)
      BY <2>2 DEF TokensLapse
    <3>2. UNCHANGED <<token, pc, op, auth, held, result, right, alone>>
      BY <2>2, <3>1 DEF TokensLapse, Lapse
    <3>3. lapsed'[d] <=> lapsed[d] \/ (pc[d] # "idle" /\ t \cap valid # {})
      BY <3>1, Zenon DEF Lapse
    <3>4. CASE pc[d] # "idle" /\ t \cap valid # {}
      BY <3>3, <3>4 DEF Recovering, Quiet
    <3>5. CASE pc[d] = "idle"
      BY <3>2, <3>3, <3>5 DEF Recover, Recovering, Quiet, OnItsWay
    <3>6. CASE t \cap valid = {}
      <4>1. valid' = valid
        BY <3>1, <3>6 DEF Lapse
      <4> QED
        BY <3>2, <3>3, <3>6, <4>1 DEF Recover, Recovering, Quiet, OnItsWay
    <3> QED
      BY <3>4, <3>5, <3>6
  <2> QED
    BY <1>16, <2>1, <2>2
<1>17. ASSUME UNCHANGED vars, NEW d \in Callers PROVE Recovering(d)'
  BY <1>17 DEF Recover, Recovering, Quiet, OnItsWay, vars
<1> QED
  BY <1>0, <1>1, <1>2, <1>3, <1>4, <1>5, <1>6, <1>7, <1>8, <1>9, <1>10, <1>11, <1>12, <1>13, <1>14, <1>15, <1>16, <1>17 DEF Next, CallerStep, Recover

LEMMA InitRecover == Init => Recover
BY InitTypes DEF Init, Recover, Recovering, OnItsWay

\* A call that no other of the client runs beside sees a 401, with the right
\* password, only when a token stopped working under it.
THEOREM RecoversAloneEver == Spec => []RecoversAlone
<1>1. Recover => RecoversAlone
  BY DEF Recover, Recovering, Quiet, RecoversAlone
<1> QED
  BY <1>1, InitRecover, RecoverStep, PTL DEF Spec
=============================================================================
