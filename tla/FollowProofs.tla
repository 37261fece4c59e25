---------------------------- MODULE FollowProofs ----------------------------
(***************************************************************************)
(* What is proved of module Follow, for every set of nodes, of epochs and  *)
(* of names and any number of calls.                                       *)
(***************************************************************************)
EXTENDS Follow, TLAPS

-----------------------------------------------------------------------------
(***************************************************************************)
(* Facts about tenancies and connections that every step uses.             *)
(***************************************************************************)
LEMMA NoTenancyType == NoTenancy \in Tenancy
  BY DEF NoTenancy, Tenancy

\* What is selected where nothing was is what the script selects, and a script
\* that selects nothing leaves everything as it is.
LEMMA UnderType ==
  ASSUME NEW t \in Tenancy, NEW s \in Tenancy
  PROVE  /\ Under(t, s) \in Tenancy
         /\ Under(NoTenancy, s) = s
         /\ Under(t, NoTenancy) = t
<1>1. Under(t, s) \in Tenancy
  BY DEF Under, Tenancy
<1>2. Under(NoTenancy, s) = s
  BY DEF Under, Tenancy, NoTenancy
<1>3. Under(t, NoTenancy) = t
  BY DEF Under, Tenancy, NoTenancy
<1> QED
  BY <1>1, <1>2, <1>3

\* A script may be cut off before it selects anything and after it has all.
LEMMA PartlyType ==
  ASSUME NEW s \in Tenancy
  PROVE  Partly(s) \subseteq Tenancy /\ s \in Partly(s) /\ NoTenancy \in Partly(s)
  BY NoTenancyType DEF Partly, NoTenancy

\* A connection just dialled is a connection.
LEMMA DialledType ==
  ASSUME NEW n \in Nodes
  PROVE  Dialled(n) \in Connection
  BY NoTenancyType, FollowAssumption DEF Dialled, Connection

\* An ask leaves a connection a connection, to the same node and tenancy.
LEMMA AskedType ==
  ASSUME NEW k \in Connection
  PROVE  /\ Asked(k) \in Connection
         /\ Asked(k).node = k.node
         /\ Asked(k).tenancy = k.tenancy
         /\ Whole(k) => Whole(Asked(k))
<1> DEFINE spent == [k EXCEPT !.spent = TRUE]
           shown == [spent EXCEPT !.shown = @ + 1]
           Kept(c) == /\ c \in Connection /\ c.node = k.node /\ c.tenancy = k.tenancy
                      /\ c.reader = k.reader /\ c.peerMinor = k.peerMinor
<1>1. Kept(spent)
  BY DEF Connection
<1>2. Kept(shown)
  <2> HIDE DEF spent
  <2> QED
    BY <1>1 DEF Connection
<1>3. [k EXCEPT !.spent = TRUE, !.shown = @ + 1] = shown
  BY DEF Connection
<1> QED
  BY <1>2, <1>3 DEF Asked, Whole

\* So do losing it, marking its credential spent, and selecting.
LEMMA LostType ==
  ASSUME NEW k \in Connection
  PROVE  /\ Lost(k) \in Connection
         /\ Lost(k).node = k.node
         /\ Lost(k).tenancy = k.tenancy
         /\ Lost(k).spent = k.spent
         /\ Lost(k).shown = k.shown
         /\ Whole(k) => Whole(Lost(k))
  BY DEF Lost, Connection, Whole

Spent(k) == [k EXCEPT !.spent = @ \/ HasCredentials]

LEMMA SpentType ==
  ASSUME NEW k \in Connection
  PROVE  /\ Spent(k) \in Connection
         /\ Spent(k).node = k.node
         /\ Spent(k).tenancy = k.tenancy
         /\ Spent(k).spent = (k.spent \/ HasCredentials)
         /\ Spent(k).shown = k.shown
         /\ Whole(k) => Whole(Spent(k))
<1>1. k.spent \in BOOLEAN /\ (k.spent \/ HasCredentials) \in BOOLEAN
  BY FollowAssumption DEF Connection
<1> QED
  BY <1>1 DEF Spent, Connection, Whole

LEMMA UsingType ==
  ASSUME NEW k \in Connection, NEW s \in Tenancy
  PROVE  /\ Using(k, s) \in Connection
         /\ Using(k, s).node = k.node
         /\ Using(k, s).tenancy = Under(k.tenancy, s)
         /\ Using(k, s).spent = k.spent
         /\ Using(k, s).shown = k.shown
         /\ Whole(k) => Whole(Using(k, s))
<1>1. Under(k.tenancy, s) \in Tenancy
  BY UnderType DEF Connection
<1> QED
  BY <1>1 DEF Using, Connection, Whole

\* The last of some redirects is a redirect.
LEMMA LastRedirect ==
  ASSUME NEW s \in Seq(Redirect), s # <<>>
  PROVE  s[Len(s)] \in Redirect /\ s[Len(s)].epoch \in Nat
<1>1. s[Len(s)] \in Redirect
  OBVIOUS
<1> QED
  BY <1>1, FollowAssumption DEF Redirect

-----------------------------------------------------------------------------
(***************************************************************************)
(* The types hold together with two facts: the count of open sockets never *)
(* falls below the one of the caller, and follow has a redirect to follow. *)
(***************************************************************************)
Following == {"context", "choosing", "arriving", "selecting", "sending"}

Typed ==
  /\ TypeOK
  /\ NoSocketLeaks
  /\ at \in Following => redirects # <<>>

LEMMA TypedCorrect == Spec => []Typed
<1>1. Init => Typed
  <2> SUFFICES ASSUME Init PROVE Typed
    OBVIOUS
  <2>1. conn \in Connection /\ there \in Connection /\ before \in Connection
    BY DialledType DEF Init
  <2>2. bare \in BOOLEAN
    BY Zenon DEF Init
  <2>3. at \in Places /\ open \in Nat /\ hops \in Nat /\ floor \in Nat /\ calls \in Nat
    BY DEF Init, Places
  <2>4. script \in Tenancy /\ selecting \in Tenancy
    BY NoTenancyType DEF Init
  <2>5. /\ redirects \in Seq(Redirect)
        /\ runs \in Seq([node : Nodes, tenancy : Tenancy, signed : BOOLEAN])
    BY DEF Init
  <2>6. result \in Errors \cup {"none", "answer"}
    BY DEF Init
  <2>7. TypeOK
    BY <2>1, <2>2, <2>3, <2>4, <2>5, <2>6 DEF TypeOK
  <2> QED
    BY <2>7 DEF Init, Typed, NoSocketLeaks, Following
<1>2. Typed /\ [Next]_vars => Typed'
  <2> SUFFICES ASSUME Typed, [Next]_vars PROVE Typed'
    OBVIOUS
  <2> USE DEF Typed, TypeOK, NoSocketLeaks, Following
  <2> DEFINE Here == Asked(conn)
             Hop == Asked(there)
  <2>1. /\ Here \in Connection /\ Hop \in Connection
        /\ Lost(Here) \in Connection
        /\ Spent(conn) \in Connection
        /\ Using(Here, script) \in Connection
        /\ \A done \in Partly(script) : Using(Here, done) \in Connection
        /\ Using(Hop, script) \in Connection
        /\ Using(Hop, selecting) \in Connection
        /\ [node |-> Here.node, tenancy |-> Under(Here.tenancy, script),
            signed |-> Here.shown > 0]
             \in [node : Nodes, tenancy : Tenancy, signed : BOOLEAN]
        /\ [node |-> Hop.node, tenancy |-> Under(Hop.tenancy, script),
            signed |-> Hop.shown > 0]
             \in [node : Nodes, tenancy : Tenancy, signed : BOOLEAN]
    <3>1. Here \in Connection /\ Hop \in Connection
      BY AskedType
    <3>2. /\ Lost(Here) \in Connection /\ Spent(conn) \in Connection
          /\ Using(Here, script) \in Connection
          /\ \A done \in Partly(script) : Using(Here, done) \in Connection
          /\ Using(Hop, script) \in Connection /\ Using(Hop, selecting) \in Connection
      BY <3>1, LostType, SpentType, UsingType, PartlyType
    <3>3. Under(Here.tenancy, script) \in Tenancy /\ Under(Hop.tenancy, script) \in Tenancy
      <4> HIDE DEF Here, Hop
      <4> QED
        BY <3>1, UnderType DEF Connection
    <3>4. Here.node \in Nodes /\ Hop.node \in Nodes
      <4> HIDE DEF Here, Hop
      <4> QED
        BY <3>1 DEF Connection
    <3>5. (Here.shown > 0) \in BOOLEAN /\ (Hop.shown > 0) \in BOOLEAN
      OBVIOUS
    <3> HIDE DEF Here, Hop
    <3>6. /\ [node |-> Here.node, tenancy |-> Under(Here.tenancy, script),
              signed |-> Here.shown > 0]
               \in [node : Nodes, tenancy : Tenancy, signed : BOOLEAN]
          /\ [node |-> Hop.node, tenancy |-> Under(Hop.tenancy, script),
              signed |-> Hop.shown > 0]
               \in [node : Nodes, tenancy : Tenancy, signed : BOOLEAN]
      BY <3>3, <3>4, <3>5
    <3> QED
      BY <3>1, <3>2, <3>6
  <2>1a. at \in Following => redirect \in Redirect /\ redirect.epoch \in Nat
    BY LastRedirect DEF redirect
  <2>2. CASE UNCHANGED vars
    BY <2>2 DEF vars, pathVars, callVars
  <2>3. ASSUME NEW s \in Scripts, Execute(s) PROVE Typed'
    <3>1. bare' \in BOOLEAN
      BY <2>3, Zenon DEF Execute
    <3>2. script' \in Tenancy /\ selecting' \in Tenancy
      BY <2>3, FollowAssumption, NoTenancyType DEF Execute
    <3> QED
      BY <2>3, <3>1, <3>2 DEF Execute, Places
  <2>4. CASE AskAnswered
    BY <2>1, <2>1a, <2>4, DialledType DEF AskAnswered, Run, Return, CloseThere, Moved, Places, Errors,
       Unsent, callVars, pathVars, Redirect
  <2>5. CASE AskRefused
    <3>3. PICK done \in Partly(script) :
            conn' = Using(Here, done) /\ (UNCHANGED runs \/ Run(Here))
      BY <2>5 DEF AskRefused
    <3>1. CASE UNCHANGED runs
      BY <2>1, <2>5, <3>3, <3>1 DEF AskRefused, Run, Return, CloseThere, Places, Errors,
         Unsent, callVars, pathVars
    <3>2. CASE Run(Asked(conn))
      BY <2>1, <2>5, <3>3, <3>2 DEF AskRefused, Run, Return, CloseThere, Places, Errors,
         Unsent, callVars, pathVars
    <3> QED
      BY <3>3, <3>1, <3>2
  <2>6. CASE AskLost
    <3>1. CASE UNCHANGED runs
      BY <2>1, <2>6, <3>1 DEF AskLost, Run, Return, CloseThere, Places, Errors,
         Unsent, callVars, pathVars
    <3>2. CASE Run(Asked(conn))
      BY <2>1, <2>6, <3>2 DEF AskLost, Run, Return, CloseThere, Places, Errors,
         Unsent, callVars, pathVars
    <3> QED
      BY <2>6, <3>1, <3>2 DEF AskLost
  <2>7. ASSUME NEW r \in Redirect, AskRedirected(r) PROVE Typed'
    BY <2>1, <2>1a, <2>7, DialledType DEF AskRedirected, Run, Return, CloseThere, Moved, Places, Errors,
       Unsent, callVars, pathVars, Redirect
  <2>8. CASE ReadContext
    <3>1. CASE Selectable(conn.tenancy)
      BY <2>1, <2>8, <3>1 DEF Connection, ReadContext, Run, Return, CloseThere, Places, Errors,
         Unsent, callVars, pathVars
    <3>2. CASE ~Selectable(conn.tenancy)
      BY <2>1, <2>8, <3>2 DEF ReadContext, Run, Return, CloseThere, Places, Errors,
         Unsent, callVars, pathVars
    <3> QED
      BY <2>8, <3>1, <3>2 DEF ReadContext
  <2>9. CASE ContextFails
    BY <2>1, <2>1a, <2>9, DialledType DEF ContextFails, Run, Return, CloseThere, Moved, Places, Errors,
       Unsent, callVars, pathVars, Redirect
  <2>10. CASE StopFollowing
    BY <2>1, <2>1a, <2>10, DialledType DEF StopFollowing, Run, Return, CloseThere, Moved, Places, Errors,
       Unsent, callVars, pathVars, Redirect
  <2>11. ASSUME NEW n \in Nodes, DialHop(n) PROVE Typed'
    <3>1. there' \in Connection
      BY <2>11, DialledType DEF DialHop
    <3>2. bare' \in BOOLEAN
      BY <2>11, Zenon DEF DialHop
    <3> QED
      BY <2>1a, <2>11, <3>1, <3>2 DEF DialHop, Places, callVars
  <2>12. CASE DialFails
    BY <2>1, <2>1a, <2>12, DialledType DEF DialFails, Run, Return, CloseThere, Moved, Places, Errors,
       Unsent, callVars, pathVars, Redirect
  <2>13. CASE Arrive
    BY <2>1, <2>1a, <2>13, DialledType DEF Arrive, Run, Return, CloseThere, Moved, Places, Errors,
       Unsent, callVars, pathVars, Redirect
  <2>14. CASE SelectThere
    BY <2>1, <2>1a, <2>14, DialledType DEF SelectThere, Run, Return, CloseThere, Moved, Places, Errors,
       Unsent, callVars, pathVars, Redirect
  <2>15. CASE ArriveFails
    BY <2>1, <2>1a, <2>15, DialledType DEF ArriveFails, Run, Return, CloseThere, Moved, Places, Errors,
       Unsent, callVars, pathVars, Redirect
  <2>16. CASE SendAnswered
    BY <2>1, <2>1a, <2>16, DialledType DEF SendAnswered, Run, Return, CloseThere, Moved, Places, Errors,
       Unsent, callVars, pathVars, Redirect
  <2>17. CASE SendFails
    <3>1. CASE UNCHANGED runs
      BY <2>1, <2>17, <3>1 DEF SendFails, Run, Return, CloseThere, Places, Errors,
         Unsent, callVars, pathVars
    <3>2. CASE Run(Asked(there))
      BY <2>1, <2>17, <3>2 DEF SendFails, Run, Return, CloseThere, Places, Errors,
         Unsent, callVars, pathVars
    <3> QED
      BY <2>17, <3>1, <3>2 DEF SendFails
  <2>18. ASSUME NEW r \in Redirect, SendRedirected(r) PROVE Typed'
    BY <2>1, <2>1a, <2>18, DialledType DEF SendRedirected, Run, Return, CloseThere, Moved, Places, Errors,
       Unsent, callVars, pathVars, Redirect
  <2>19. CASE AskUnsent
    BY <2>1, <2>19 DEF AskUnsent, Spent, Return, Errors, Unsent, Places, callVars, pathVars
  <2> QED
    BY <2>2, <2>3, <2>4, <2>5, <2>6, <2>7, <2>8, <2>9, <2>10, <2>11, <2>12, <2>13, <2>14, <2>15, <2>16, <2>17, <2>18, <2>19 DEF Next, Proceed
<1> QED
  BY <1>1, <1>2, PTL DEF Spec

(***************************************************************************)
(* The type invariant of Follow holds in every reachable state, for all    *)
(* values of the constants.                                                *)
(***************************************************************************)
THEOREM TypeCorrect == Spec => []TypeOK
  BY TypedCorrect, PTL DEF Typed

(***************************************************************************)
(* However a call ends, one socket is open between calls, and two during a *)
(* hop (follow and arrive close what they dialled).                        *)
(***************************************************************************)
THEOREM NoSocketLeaksEver == Spec => []NoSocketLeaks
  BY TypedCorrect, PTL DEF Typed

-----------------------------------------------------------------------------
(***************************************************************************)
(* The credential.  A node was shown it once, and only by a client that    *)
(* has marked it spent; on a hop the mark means that it was shown.  The    *)
(* parts of a Conn belong together.                                        *)
(***************************************************************************)
Sound(k) ==
  /\ k.shown <= 1
  /\ k.shown > 0 => k.spent
  /\ k.spent => HasCredentials
  /\ Whole(k)

Sessions == Sound(conn) /\ Sound(there) /\ ~Unshown(there)

\* After an ask the node was shown the credential if there is one, unless the mark
\* was set without.
LEMMA AskedSound ==
  ASSUME NEW k \in Connection, Sound(k)
  PROVE  /\ Sound(Asked(k))
         /\ Asked(k).shown > 0 <=> HasCredentials /\ ~Unshown(k)
         /\ ~Unshown(k) => ~Unshown(Asked(k))
<1>1. CASE HasCredentials /\ ~k.spent
  <2>1. Asked(k) = [k EXCEPT !.spent = TRUE, !.shown = @ + 1]
    BY <1>1 DEF Asked
  <2>2. Asked(k).spent = TRUE /\ Asked(k).shown = k.shown + 1
    BY <2>1 DEF Connection
  <2>3. k.shown = 0 /\ ~Unshown(k)
    BY <1>1 DEF Sound, Unshown, Connection
  <2> QED
    BY <1>1, <2>2, <2>3, AskedType DEF Sound, Unshown
<1>2. CASE ~(HasCredentials /\ ~k.spent)
  BY <1>2 DEF Asked, Sound, Unshown, Connection
<1> QED
  BY <1>1, <1>2

LEMMA DialledSound ==
  ASSUME NEW n \in Nodes
  PROVE  Sound(Dialled(n)) /\ ~Unshown(Dialled(n))
  BY DEF Sound, Dialled, Unshown, Whole

\* To select a tenancy changes nothing of that.
LEMMA UsingSound ==
  ASSUME NEW k \in Connection, NEW t \in Tenancy, Sound(k)
  PROVE  Sound(Using(k, t)) /\ (~Unshown(k) => ~Unshown(Using(k, t)))
<1> DEFINE u == Using(k, t)
<1>1. u.spent = k.spent /\ u.shown = k.shown /\ Whole(u)
  BY UsingType DEF Sound
<1> HIDE DEF u
<1>2. Sound(u)
  BY <1>1 DEF Sound
<1>3. ~Unshown(k) => ~Unshown(u)
  BY <1>1 DEF Unshown
<1> QED
  BY <1>2, <1>3 DEF u

LEMMA SessionsCorrect == Spec => []Sessions
<1>1. Init => Sessions
  BY DialledSound DEF Init, Sessions
<1>2. Typed /\ Sessions /\ [Next]_vars => Sessions'
  <2> SUFFICES ASSUME Typed, Sessions, [Next]_vars PROVE Sessions'
    OBVIOUS
  <2> DEFINE Here == Asked(conn)
             Hop == Asked(there)
  <2>1. /\ Here \in Connection /\ Hop \in Connection
        /\ conn \in Connection /\ there \in Connection
        /\ Sound(conn) /\ Sound(there) /\ Sound(Here) /\ Sound(Hop)
        /\ ~Unshown(there) /\ ~Unshown(Hop)
        /\ script \in Tenancy /\ selecting \in Tenancy
    BY AskedType, AskedSound DEF Typed, TypeOK, Sessions
  <2>2. /\ Sound(Lost(Here))
        /\ Sound(Spent(conn))
        /\ Sound(Using(Here, script)) /\ Sound(Using(Hop, script))
        /\ Sound(Using(Hop, selecting)) /\ ~Unshown(Using(Hop, selecting))
        /\ \A done \in Partly(script) : Sound(Using(Here, done))
    <3> HIDE DEF Here, Hop
    <3>1. Sound(Lost(Here))
      BY <2>1, LostType DEF Sound
    <3>2. \A t \in Tenancy :
            /\ Sound(Using(Here, t)) /\ Sound(Using(Hop, t))
            /\ ~Unshown(Using(Hop, t))
      BY <2>1, UsingSound
    <3>3. Sound(Spent(conn))
      BY <2>1, SpentType DEF Sound, Connection
    <3> QED
      BY <2>1, <3>1, <3>2, <3>3, PartlyType
  <2>3. CASE UNCHANGED vars
    BY <2>1, <2>3 DEF vars, Sessions
  <2>4. ASSUME NEW s \in Scripts, Execute(s) PROVE Sessions'
    BY <2>1, <2>4 DEF Execute, Sessions
  <2>5. CASE AskAnswered
    BY <2>1, <2>2, <2>5, DialledSound DEF AskAnswered, Moved, Sessions
  <2>6. CASE AskRefused
    BY <2>1, <2>2, <2>6 DEF AskRefused, Sessions
  <2>7. CASE AskLost
    BY <2>1, <2>2, <2>7, DialledSound DEF AskLost, Moved, Sessions
  <2>8. ASSUME NEW r \in Redirect, AskRedirected(r) PROVE Sessions'
    BY <2>1, <2>2, <2>8, DialledSound DEF AskRedirected, Moved, Sessions
  <2>9. CASE ReadContext
    BY <2>1, <2>2, <2>9, DialledSound DEF ReadContext, Moved, Sessions
  <2>10. CASE ContextFails
    BY <2>1, <2>2, <2>10, DialledSound DEF ContextFails, Moved, Sessions
  <2>11. CASE StopFollowing
    BY <2>1, <2>2, <2>11, DialledSound DEF StopFollowing, Moved, Sessions
  <2>12. ASSUME NEW n \in Nodes, DialHop(n) PROVE Sessions'
    BY <2>1, <2>2, <2>12, DialledSound DEF DialHop, Moved, Sessions
  <2>13. CASE DialFails
    BY <2>1, <2>2, <2>13, DialledSound DEF DialFails, Moved, Sessions
  <2>14. CASE Arrive
    BY <2>1, <2>2, <2>14, DialledSound DEF Arrive, Moved, Sessions
  <2>15. CASE SelectThere
    BY <2>1, <2>2, <2>15, DialledSound DEF SelectThere, Moved, Sessions
  <2>16. CASE ArriveFails
    BY <2>1, <2>2, <2>16, DialledSound DEF ArriveFails, Moved, Sessions
  <2>17. CASE SendAnswered
    BY <2>1, <2>2, <2>17, DialledSound DEF SendAnswered, Moved, Sessions
  <2>18. CASE SendFails
    BY <2>1, <2>2, <2>18, DialledSound DEF SendFails, Moved, Sessions
  <2>19. ASSUME NEW r \in Redirect, SendRedirected(r) PROVE Sessions'
    BY <2>1, <2>2, <2>19, DialledSound DEF SendRedirected, Moved, Sessions
  <2>20. CASE AskUnsent
    BY <2>1, <2>2, <2>20 DEF AskUnsent, Spent, Sessions
  <2> QED
    BY <2>3, <2>4, <2>5, <2>6, <2>7, <2>8, <2>9, <2>10, <2>11, <2>12, <2>13, <2>14, <2>15, <2>16, <2>17, <2>18, <2>19, <2>20 DEF Next, Proceed
<1> QED
  BY <1>1, <1>2, TypedCorrect, PTL DEF Spec

(***************************************************************************)
(* The credential is presented at most once on every connection, the one   *)
(* the caller's Conn moved to included.                                    *)
(***************************************************************************)
THEOREM CredentialOnce == Spec => []CredentialPresentedOnce
<1>1. Sessions => CredentialPresentedOnce
  BY DEF Sessions, Sound, CredentialPresentedOnce
<1> QED
  BY <1>1, SessionsCorrect, PTL

-----------------------------------------------------------------------------
(***************************************************************************)
(* The path.  While a redirect is followed it is the last of the list, the *)
(* ones before it were followed, and the floor is above all of those.      *)
(***************************************************************************)
Path ==
  /\ hops \in 0 .. mostHops
  /\ at = "asking" => redirects = <<>> /\ hops = 0
  /\ at = "context" => hops = 0
  /\ at \in Following => Len(redirects) = hops + 1
  /\ at \in {"arriving", "selecting", "sending"} =>
       hops < mostHops /\ floor = redirect.epoch
  /\ \A i \in 1 .. hops : redirects[i].epoch <= floor
  /\ \A i, j \in 1 .. hops : i <= j => redirects[i].epoch <= redirects[j].epoch

LEMMA PathCorrect == Spec => []Path
<1>1. Init => Path
  BY DEF Init, Path, mostHops, Following
<1>2. Typed /\ Path /\ [Next]_vars => Path'
  <2> SUFFICES ASSUME Typed, Path, [Next]_vars PROVE Path'
    OBVIOUS
  <2>1. /\ redirects \in Seq(Redirect) /\ hops \in Nat /\ floor \in Nat
        /\ at \in Following => redirects # <<>>
        /\ \A i \in 1 .. Len(redirects) : redirects[i].epoch \in Nat
    <3>1. /\ redirects \in Seq(Redirect) /\ hops \in Nat /\ floor \in Nat
          /\ at \in Following => redirects # <<>>
      BY DEF Typed, TypeOK
    <3>2. \A r \in Redirect : r.epoch \in Nat
      BY FollowAssumption DEF Redirect
    <3>3. \A i \in 1 .. Len(redirects) : redirects[i] \in Redirect
      BY <3>1
    <3> QED
      BY <3>1, <3>2, <3>3
  <2> USE DEF Path, mostHops, Following, redirect
  <2>2. CASE UNCHANGED vars
    BY <2>2 DEF vars, pathVars
  <2>3. ASSUME NEW s \in Scripts, Execute(s) PROVE Path'
    BY <2>3 DEF Execute
  <2>4. CASE AskAnswered
    BY <2>1, <2>4 DEF AskAnswered, Return, pathVars
  <2>5. CASE AskRefused
    BY <2>1, <2>5 DEF AskRefused, Return, pathVars
  <2>6. CASE AskLost
    BY <2>1, <2>6 DEF AskLost, Return, pathVars
  <2>7. ASSUME NEW r \in Redirect, AskRedirected(r) PROVE Path'
    BY <2>1, <2>7 DEF AskRedirected, Return, pathVars
  <2>8. CASE ReadContext
    BY <2>1, <2>8 DEF ReadContext, Return, pathVars
  <2>9. CASE ContextFails
    BY <2>1, <2>9 DEF ContextFails, Return, pathVars
  <2>10. CASE StopFollowing
    BY <2>1, <2>10 DEF StopFollowing, Return, pathVars
  <2>11. ASSUME NEW n \in Nodes, DialHop(n) PROVE Path'
    BY <2>1, <2>11 DEF DialHop, Return, pathVars
  <2>12. CASE DialFails
    BY <2>1, <2>12 DEF DialFails, Return, pathVars
  <2>13. CASE Arrive
    BY <2>1, <2>13 DEF Arrive, Return, pathVars
  <2>14. CASE SelectThere
    BY <2>1, <2>14 DEF SelectThere, Return, pathVars
  <2>15. CASE ArriveFails
    BY <2>1, <2>15 DEF ArriveFails, Return, pathVars
  <2>16. CASE SendAnswered
    BY <2>1, <2>16 DEF SendAnswered, Return, pathVars
  <2>17. CASE SendFails
    BY <2>1, <2>17 DEF SendFails, Return, pathVars
  <2>18. ASSUME NEW r \in Redirect, SendRedirected(r) PROVE Path'
    BY <2>1, <2>18 DEF SendRedirected, Return, pathVars
  <2>19. CASE AskUnsent
    BY <2>1, <2>19 DEF AskUnsent, Return, pathVars
  <2> QED
    BY <2>2, <2>3, <2>4, <2>5, <2>6, <2>7, <2>8, <2>9, <2>10, <2>11, <2>12, <2>13, <2>14, <2>15, <2>16, <2>17, <2>18, <2>19 DEF Next, Proceed
<1> QED
  BY <1>1, <1>2, TypedCorrect, PTL DEF Spec

(***************************************************************************)
(* At most three redirects are followed, and their epochs never go back,   *)
(* whatever the nodes send.                                                *)
(***************************************************************************)
THEOREM PathForward == Spec => []PathGoesForward
<1>1. Path => PathGoesForward
  BY DEF Path, PathGoesForward, mostHops
<1> QED
  BY <1>1, PathCorrect, PTL

-----------------------------------------------------------------------------
(***************************************************************************)
(* The call.  Until it ends nothing was carried out and the caller's       *)
(* connection is as the call found it; on a hop the node was checked, and  *)
(* its session given the caller's tenancy unless it redirected the USE,    *)
(* before the script is sent.  How a call that ended relates to what it    *)
(* did is the rest.                                                        *)
(***************************************************************************)
UnderWay ==
  /\ at # "idle" =>
       /\ runs = <<>>
       /\ result = "none"
       /\ conn.tenancy = before.tenancy
       /\ conn.node = before.node
  /\ at = "asking" => conn = before /\ ~bare
  /\ at \in {"choosing", "arriving", "selecting", "sending"} =>
       selecting = conn.tenancy
  /\ at \in {"arriving", "selecting"} => there.tenancy = NoTenancy
  /\ at \in {"selecting", "sending"} => there.node = redirect.node
  /\ at = "sending" => there.tenancy = IF bare THEN NoTenancy ELSE selecting

Ended ==
  /\ CarriedOutOnce
  /\ RunsInTheSession
  /\ RunsWhereNamed
  /\ ConnectionStaysOrMoves

\* A script carried out on a sound connection runs as that connection is.
LEMMA OneRun ==
  ASSUME NEW k \in Connection, Sound(k), runs = <<>>, Run(Asked(k))
  PROVE  /\ Len(runs') = 1
         /\ \A i \in 1 .. Len(runs') : i = 1
         /\ runs'[1].node = k.node
         /\ runs'[1].tenancy = Under(k.tenancy, script)
         /\ runs'[1].signed = (HasCredentials /\ ~Unshown(k))
<1>1. /\ Asked(k).node = k.node /\ Asked(k).tenancy = k.tenancy
      /\ (Asked(k).shown > 0) = (HasCredentials /\ ~Unshown(k))
  BY AskedType, AskedSound
<1>2. runs' = <<[node |-> Asked(k).node, tenancy |-> Under(Asked(k).tenancy, script),
                 signed |-> Asked(k).shown > 0]>>
  BY DEF Run
<1>3. /\ Len(runs') = 1
      /\ runs'[1].node = Asked(k).node
      /\ runs'[1].tenancy = Under(Asked(k).tenancy, script)
      /\ runs'[1].signed = (Asked(k).shown > 0)
  BY <1>2
<1>4. \A i \in 1 .. Len(runs') : i = 1
  BY <1>3
<1>5. runs'[1].signed = (HasCredentials /\ ~Unshown(k))
  BY <1>1, <1>3, Zenon
<1> QED
  BY <1>1, <1>3, <1>4, <1>5, Zenon

\* What a call that goes on has to keep.
LEMMA GoesOn ==
  ASSUME runs' = <<>>, result' = "none", at' # "idle"
  PROVE  Ended'
  BY DEF Ended, CarriedOutOnce, RunsInTheSession, RunsWhereNamed, ConnectionStaysOrMoves,
     Unsent

\* A call that ends where it began, the script carried out or not.
LEMMA EndsHere ==
  ASSUME Typed, Sessions, Path, UnderWay, at = "asking", at' = "idle",
         UNCHANGED <<pathVars, callVars>>,
         \/ UNCHANGED runs /\ result' \in Errors
         \/ Run(Asked(conn)) /\ result' \notin Unsent,
         conn'.node = conn.node, Whole(conn'),
         \E done \in Partly(script) : conn'.tenancy = Under(conn.tenancy, done)
  PROVE  UnderWay' /\ Ended'
<1>1. /\ runs = <<>> /\ redirects = <<>> /\ ~bare /\ conn = before
      /\ conn \in Connection /\ Sound(conn)
      /\ redirects' = redirects /\ bare' = bare /\ before' = before /\ script' = script
  BY DEF UnderWay, Path, Typed, TypeOK, Sessions, pathVars, callVars
<1>2. UnderWay'
  BY DEF UnderWay
<1>3. ConnectionStaysOrMoves'
  BY <1>1 DEF ConnectionStaysOrMoves
<1>4. CASE UNCHANGED runs /\ result' \in Errors
  <2>1. runs' = <<>> /\ result' # "answer"
    BY <1>1, <1>4 DEF Errors, Unsent
  <2> QED
    BY <1>2, <1>3, <2>1 DEF Ended, CarriedOutOnce, RunsInTheSession, RunsWhereNamed
<1>5. CASE Run(Asked(conn)) /\ result' \notin Unsent
  <2>1. /\ Len(runs') = 1
        /\ \A i \in 1 .. Len(runs') : i = 1
        /\ runs'[1].node = conn.node
        /\ runs'[1].tenancy = Under(conn.tenancy, script)
        /\ runs'[1].signed = (HasCredentials /\ ~Unshown(conn))
    BY <1>1, <1>5, OneRun
  <2>2. CarriedOutOnce'
    BY <1>5, <2>1 DEF CarriedOutOnce
  <2>3. RunsInTheSession'
    <3>1. (HasCredentials /\ ~Unshown(conn))
            = (HasCredentials /\ (redirects' = <<>> => ~Unshown(before')))
      BY <1>1
    <3>2. runs'[1].tenancy = Under(IF bare' THEN NoTenancy ELSE before'.tenancy, script')
      BY <1>1, <2>1
    <3> QED
      BY <2>1, <3>1, <3>2, Zenon DEF RunsInTheSession
  <2>4. RunsWhereNamed'
    BY <1>1, <2>1 DEF RunsWhereNamed
  <2> QED
    BY <1>2, <1>3, <2>2, <2>3, <2>4 DEF Ended
<1> QED
  BY <1>4, <1>5

\* A call that ends on a hop before the script was sent there.
LEMMA EndsUnsent ==
  ASSUME Typed, UnderWay, at \in Following, at' = "idle",
         UNCHANGED <<runs, redirects, callVars>>, result' \in Errors,
         conn'.node = conn.node, conn'.tenancy = conn.tenancy, Whole(conn')
  PROVE  UnderWay' /\ Ended'
<1>1. /\ runs' = <<>> /\ redirects' # <<>> /\ result' # "answer"
      /\ before' = before /\ conn.node = before.node /\ conn.tenancy = before.tenancy
  BY DEF UnderWay, Typed, Following, callVars, Errors, Unsent
<1>2. UnderWay'
  BY DEF UnderWay
<1>3. ConnectionStaysOrMoves'
  BY <1>1 DEF ConnectionStaysOrMoves
<1> QED
  BY <1>1, <1>2, <1>3 DEF Ended, CarriedOutOnce, RunsInTheSession, RunsWhereNamed

\* A call that ends with the script sent on a hop.
LEMMA EndsThere ==
  ASSUME Typed, Sessions, UnderWay, at = "sending", at' = "idle",
         UNCHANGED <<pathVars, callVars>>,
         \/ UNCHANGED runs /\ result' \in Errors
         \/ Run(Asked(there)) /\ result' \notin Unsent,
         conn' = IF result' = "answer" THEN Moved ELSE conn
  PROVE  UnderWay' /\ Ended'
<1>1. /\ runs = <<>> /\ redirects # <<>> /\ there.node = redirect.node
      /\ selecting = before.tenancy
      /\ there.tenancy = IF bare THEN NoTenancy ELSE before.tenancy
      /\ conn.node = before.node /\ conn.tenancy = before.tenancy
      /\ Whole(conn)
      /\ there \in Connection /\ Sound(there) /\ ~Unshown(there)
      /\ script \in Tenancy
  BY DEF UnderWay, Typed, TypeOK, Sessions, Sound, Following
<1>2. /\ redirects' = redirects /\ redirect' = redirect /\ bare' = bare /\ before' = before
      /\ script' = script
  BY DEF pathVars, callVars, redirect
<1>3. UnderWay'
  BY DEF UnderWay
<1>4. CASE UNCHANGED runs /\ result' \in Errors
  <2>1. runs' = <<>> /\ result' # "answer"
    BY <1>1, <1>4 DEF Errors, Unsent
  <2>2. ConnectionStaysOrMoves'
    BY <1>1, <1>2, <2>1 DEF ConnectionStaysOrMoves, Whole
  <2> QED
    BY <1>3, <2>1, <2>2 DEF Ended, CarriedOutOnce, RunsInTheSession, RunsWhereNamed
<1>5. CASE Run(Asked(there)) /\ result' \notin Unsent
  <2>1. /\ Len(runs') = 1
        /\ \A i \in 1 .. Len(runs') : i = 1
        /\ runs'[1].node = there.node
        /\ runs'[1].tenancy = Under(there.tenancy, script)
        /\ runs'[1].signed = (HasCredentials /\ ~Unshown(there))
    BY <1>1, <1>5, OneRun
  <2>2. CarriedOutOnce'
    BY <1>5, <2>1 DEF CarriedOutOnce
  <2>3. RunsInTheSession'
    <3>1. (HasCredentials /\ ~Unshown(there))
            = (HasCredentials /\ (redirects' = <<>> => ~Unshown(before')))
      BY <1>1, <1>2
    <3>2. runs'[1].tenancy = Under(IF bare' THEN NoTenancy ELSE before'.tenancy, script')
      BY <1>1, <1>2, <2>1
    <3> QED
      BY <2>1, <3>1, <3>2, Zenon DEF RunsInTheSession
  <2>4. RunsWhereNamed'
    BY <1>1, <1>2, <2>1 DEF RunsWhereNamed
  <2>5. ConnectionStaysOrMoves'
    <3>1. CASE result' = "answer" /\ redirect.settled
      <4>1. conn' = Using(Asked(there), script)
        BY <3>1 DEF Moved
      <4>2. /\ conn'.node = redirect.node
            /\ conn'.tenancy = Under(there.tenancy, script)
            /\ Whole(conn')
        BY <1>1, <4>1, AskedType, UsingType DEF Sound
      <4> QED
        BY <1>1, <1>2, <2>1, <3>1, <4>2 DEF ConnectionStaysOrMoves
    <3>2. CASE ~(result' = "answer" /\ redirect.settled)
      <4>1. conn' = conn
        BY <3>2 DEF Moved
      <4> QED
        BY <1>1, <1>2, <3>2, <4>1 DEF ConnectionStaysOrMoves, Whole
    <3> QED
      BY <3>1, <3>2
  <2> QED
    BY <1>3, <2>2, <2>3, <2>4, <2>5 DEF Ended
<1> QED
  BY <1>4, <1>5

LEMMA CallCorrect == Spec => [](UnderWay /\ Ended)
<1> DEFINE Call == UnderWay /\ Ended
<1>1. Init => Call
  <2> SUFFICES ASSUME Init PROVE Call
    OBVIOUS
  <2>1. UnderWay
    BY DEF Init, UnderWay
  <2>2. CarriedOutOnce /\ RunsInTheSession /\ RunsWhereNamed
    BY DEF Init, CarriedOutOnce, RunsInTheSession, RunsWhereNamed, Unsent
  <2>3. ConnectionStaysOrMoves
    <3>1. /\ conn = before /\ redirects = <<>> /\ script = NoTenancy
          /\ conn \in Connection /\ Whole(conn)
      BY DialledType, DialledSound DEF Init, Sound
    <3>2. conn.tenancy = Under(before.tenancy, script) /\ script \in Partly(script)
      BY <3>1, NoTenancyType, UnderType, PartlyType DEF Connection
    <3> QED
      BY <3>1, <3>2 DEF ConnectionStaysOrMoves
  <2> QED
    BY <2>1, <2>2, <2>3 DEF Ended
<1>2. Typed /\ Sessions /\ Path /\ Call /\ [Next]_vars => Call'
  <2> SUFFICES ASSUME Typed, Sessions, Path, Call, [Next]_vars PROVE Call'
    OBVIOUS
  <2> DEFINE Here == Asked(conn)
             Hop == Asked(there)
  <2>1. /\ conn \in Connection /\ there \in Connection
        /\ Here \in Connection /\ Hop \in Connection
        /\ script \in Tenancy /\ selecting \in Tenancy
        /\ Whole(conn)
        /\ Here.node = conn.node /\ Here.tenancy = conn.tenancy /\ Whole(Here)
        /\ Hop.node = there.node /\ Hop.tenancy = there.tenancy
    BY AskedType DEF Typed, TypeOK, Sessions, Sound
  <2>2. conn.tenancy = Under(conn.tenancy, NoTenancy)
        /\ NoTenancy \in Partly(script) /\ script \in Partly(script)
        /\ Partly(script) \subseteq Tenancy
    BY <2>1, UnderType, PartlyType DEF Connection
  <2> HIDE DEF Here, Hop
  <2>3. CASE UNCHANGED vars
    BY <2>3 DEF vars, callVars, pathVars, UnderWay, Ended, CarriedOutOnce,
       RunsInTheSession, RunsWhereNamed, ConnectionStaysOrMoves, Whole, redirect
  <2>4. ASSUME NEW s \in Scripts, Execute(s) PROVE Call'
    BY <2>4, GoesOn DEF Execute, UnderWay
  <2>5. CASE AskAnswered
    <3>1. /\ conn'.node = conn.node /\ Whole(conn')
          /\ conn'.tenancy = Under(conn.tenancy, script)
      BY <2>1, <2>5, UsingType DEF AskAnswered, Here
    <3> QED
      BY <2>2, <2>5, <3>1, EndsHere DEF AskAnswered, Return, Unsent
  <2>6. CASE AskUnsent
    <3>1. conn' = Spent(conn)
      BY <2>6 DEF AskUnsent, Spent
    <3>2. /\ conn'.node = conn.node /\ Whole(conn')
          /\ conn'.tenancy = Under(conn.tenancy, NoTenancy)
      BY <2>1, <2>2, <3>1, SpentType
    <3> QED
      BY <2>2, <2>6, <3>2, EndsHere DEF AskUnsent, Return, Errors, Unsent
  <2>7. CASE AskRefused
    <3>1. PICK done \in Partly(script) :
            /\ conn' = Using(Here, done)
            /\ UNCHANGED runs \/ Run(Asked(conn))
      BY <2>7 DEF AskRefused, Here
    <3>2. /\ conn'.node = conn.node /\ Whole(conn')
          /\ conn'.tenancy = Under(conn.tenancy, done)
      <4>1. done \in Tenancy
        BY <2>2
      <4>2. /\ Using(Here, done).node = Here.node /\ Whole(Using(Here, done))
            /\ Using(Here, done).tenancy = Under(Here.tenancy, done)
        BY <2>1, <4>1, UsingType
      <4> QED
        BY <2>1, <3>1, <4>2
    <3>3. /\ at = "asking" /\ at' = "idle" /\ UNCHANGED <<pathVars, callVars>>
          /\ result' \in Errors /\ result' \notin Unsent
      BY <2>7 DEF AskRefused, Return, Errors, Unsent
    <3> QED
      BY <3>1, <3>2, <3>3, EndsHere
  <2>8. CASE AskLost
    <3>1. /\ conn'.node = conn.node /\ Whole(conn')
          /\ conn'.tenancy = Under(conn.tenancy, NoTenancy)
      BY <2>1, <2>2, <2>8, LostType DEF AskLost, Here
    <3> QED
      BY <2>2, <2>8, <3>1, EndsHere DEF AskLost, Return, Errors, Unsent
  <2>9. ASSUME NEW r \in Redirect, AskRedirected(r) PROVE Call'
    BY <2>1, <2>9, GoesOn DEF AskRedirected, UnderWay, callVars, Here
  <2>10. CASE ReadContext
    <3>1. conn' = Here
      BY <2>10 DEF ReadContext, Here
    <3>2. CASE Selectable(conn.tenancy)
      BY <2>1, <2>10, <3>1, <3>2, GoesOn DEF ReadContext, UnderWay, callVars
    <3>3. CASE ~Selectable(conn.tenancy)
      BY <2>1, <2>10, <3>1, <3>3, EndsUnsent DEF ReadContext, Return, Following, Errors, Unsent
    <3> QED
      BY <3>2, <3>3
  <2>11. CASE ContextFails
    <3>1. /\ conn'.node = conn.node /\ conn'.tenancy = conn.tenancy /\ Whole(conn')
      BY <2>1, <2>11, LostType DEF ContextFails, Here
    <3> QED
      BY <2>11, <3>1, EndsUnsent DEF ContextFails, Return, Following, Errors, Unsent, pathVars
  <2>12. CASE StopFollowing
    BY <2>1, <2>12, EndsUnsent DEF StopFollowing, Return, Following, Errors, Unsent, pathVars,
       Whole
  <2>13. ASSUME NEW n \in Nodes, DialHop(n) PROVE Call'
    BY <2>13, GoesOn DEF DialHop, Dialled, UnderWay, callVars
  <2>14. CASE DialFails
    BY <2>1, <2>14, EndsUnsent DEF DialFails, Return, Following, Errors, Unsent, Whole
  <2>15. CASE Arrive
    <3>1. CASE there.node = redirect.node
      <4>1. /\ there' = Hop /\ at' = IF selecting = NoTenancy THEN "sending" ELSE "selecting"
            /\ at = "arriving" /\ redirect' = redirect
            /\ UNCHANGED <<conn, selecting, bare, callVars, runs, result>>
        BY <2>15, <3>1 DEF Arrive, Hop, pathVars, redirect
      <4> QED
        BY <2>1, <3>1, <4>1, GoesOn DEF UnderWay, callVars
    <3>2. CASE there.node # redirect.node
      BY <2>1, <2>15, <3>2, EndsUnsent DEF Arrive, Return, Following, Errors, Unsent, pathVars,
         Whole
    <3> QED
      BY <3>1, <3>2
  <2>16. CASE SelectThere
    <3>1. there'.node = there.node
          /\ there'.tenancy = IF bare' THEN NoTenancy ELSE selecting
      <4>1. there.tenancy = NoTenancy
        BY <2>16 DEF SelectThere, UnderWay
      <4>2. there' = IF bare' THEN Hop ELSE Using(Hop, selecting)
        BY <2>16 DEF SelectThere, Hop
      <4>3. /\ Using(Hop, selecting).node = Hop.node
            /\ Using(Hop, selecting).tenancy = Under(Hop.tenancy, selecting)
        BY <2>1, UsingType
      <4>4. Under(Hop.tenancy, selecting) = selecting
        BY <2>1, <4>1, UnderType
      <4> QED
        BY <2>1, <4>1, <4>2, <4>3, <4>4
    <3> QED
      BY <2>16, <3>1, GoesOn DEF SelectThere, UnderWay, callVars, redirect
  <2>17. CASE ArriveFails
    BY <2>1, <2>17, EndsUnsent DEF ArriveFails, Return, Following, Errors, Unsent, pathVars, Whole
  <2>18. CASE SendAnswered
    BY <2>18, EndsThere DEF SendAnswered, Return, Unsent
  <2>19. CASE SendFails
    <3>1. result' \in Errors /\ result' \notin Unsent /\ result' # "answer"
      BY <2>19 DEF SendFails, Return, Errors, Unsent
    <3> QED
      BY <2>19, <3>1, EndsThere DEF SendFails, Return
  <2>20. ASSUME NEW r \in Redirect, SendRedirected(r) PROVE Call'
    BY <2>20, GoesOn DEF SendRedirected, UnderWay, callVars
  <2> QED
    BY <2>3, <2>4, <2>5, <2>6, <2>7, <2>8, <2>9, <2>10, <2>11, <2>12, <2>13, <2>14, <2>15,
       <2>16, <2>17, <2>18, <2>19, <2>20 DEF Next, Proceed
<1> QED
  BY <1>1, <1>2, TypedCorrect, SessionsCorrect, PathCorrect, PTL DEF Spec

(***************************************************************************)
(* A script is carried out at most once in a call, whatever it is sent to  *)
(* and whatever is lost on the way.                                        *)
(***************************************************************************)
THEOREM CarriedOutOnceEver == Spec => []CarriedOutOnce
  BY CallCorrect, PTL DEF Ended

(***************************************************************************)
(* Wherever it is carried out, it is in the session of the caller, with    *)
(* the two exceptions that RunsInTheSession names and no other.            *)
(***************************************************************************)
THEOREM RunsInTheSessionEver == Spec => []RunsInTheSession
  BY CallCorrect, PTL DEF Ended

(***************************************************************************)
(* It is carried out by no node but the one a redirect named.              *)
(***************************************************************************)
THEOREM RunsWhereNamedEver == Spec => []RunsWhereNamed
  BY CallCorrect, PTL DEF Ended

(***************************************************************************)
(* Between calls the connection is where the rules of a settled and of a   *)
(* transient redirect leave it, with its tenancy, and all its parts are of *)
(* one socket.                                                             *)
(***************************************************************************)
THEOREM ConnectionStaysOrMovesEver == Spec => []ConnectionStaysOrMoves
  BY CallCorrect, PTL DEF Ended

-----------------------------------------------------------------------------
(***************************************************************************)
(* The refinement: a step of Execute is a step of the exchange the caller  *)
(* was promised, or none.                                                  *)
(***************************************************************************)
Ran == [i \in 1 .. Len(runs) |-> runs[i].tenancy]

\* Tenancies are the same on either side.
LEMMA SameTenancies ==
  /\ Promise!Tenancy = Tenancy
  /\ Promise!NoTenancy = NoTenancy
  /\ \A t, u : Promise!Under(t, u) = Under(t, u)
  /\ \A u : Promise!Partly(u) = Partly(u)
  BY DEF Promise!Tenancy, Tenancy, Promise!NoTenancy, NoTenancy, Promise!Under, Under,
     Promise!Partly, Partly, Promise!Parts, Parts

LEMMA RanOnce ==
  ASSUME NEW k \in Connection, Sound(k), runs = <<>>, Run(Asked(k))
  PROVE  Ran' = <<Under(k.tenancy, script)>>
<1>1. Len(runs') = 1 /\ runs'[1].tenancy = Under(k.tenancy, script)
  BY OneRun
<1> QED
  BY <1>1 DEF Ran

\* A call that fails with nothing carried out fails as promised.
LEMMA FailedQuietly ==
  ASSUME Typed, UnderWay, at # "idle", UNCHANGED <<runs, script>>, at' = "idle",
         result' \in Errors, conn'.tenancy = conn.tenancy
  PROVE  Promise!Next
<1>1. Ran' = Ran /\ Ran' = <<>>
  BY DEF Ran, UnderWay
<1>2. CASE result' \in Unsent
  BY <1>1, <1>2 DEF Promise!Next, Promise!FailUndone, Ran
<1>3. CASE result' \notin Unsent
  <2>1. conn'.tenancy = Under(conn.tenancy, NoTenancy) /\ NoTenancy \in Partly(script)
    BY UnderType, PartlyType DEF Typed, TypeOK, Connection
  <2>2. conn'.tenancy = Promise!Under(conn.tenancy, NoTenancy)
        /\ NoTenancy \in Promise!Partly(script)
    BY <2>1, SameTenancies
  <2> QED
    BY <1>1, <1>3, <2>2 DEF Promise!Next, Promise!Fail, Ran
<1> QED
  BY <1>2, <1>3

\* Neither does a step within a call show.
LEMMA Unseen ==
  ASSUME at # "idle", at' # "idle", UNCHANGED <<runs, script, result>>,
         conn'.tenancy = conn.tenancy
  PROVE  UNCHANGED Promise!vars
  BY DEF Promise!vars

(***************************************************************************)
(* Execute, with every redirect it follows, implements the exchange of     *)
(* module Exchange.                                                        *)
(***************************************************************************)
THEOREM FollowKeepsItsPromise == Spec => KeepsItsPromise
<1>1. Init => Promise!Init
  <2> SUFFICES ASSUME Init PROVE Promise!Init
    OBVIOUS
  <2>1. conn.tenancy \in Promise!Tenancy /\ script = Promise!NoTenancy
    BY DialledType, SameTenancies DEF Init, Connection
  <2> QED
    BY <2>1 DEF Init, Promise!Init
<1>2. Typed /\ Sessions /\ UnderWay /\ [Next]_vars => [Promise!Next]_(Promise!vars)
  <2> SUFFICES ASSUME Typed, Sessions, UnderWay, [Next]_vars
               PROVE  [Promise!Next]_(Promise!vars)
    OBVIOUS
  <2> DEFINE Here == Asked(conn)
             Hop == Asked(there)
  <2>1. /\ conn \in Connection /\ there \in Connection
        /\ script \in Tenancy /\ selecting \in Tenancy
        /\ Here \in Connection /\ Hop \in Connection
        /\ Here.tenancy = conn.tenancy /\ Lost(Here).tenancy = conn.tenancy
        /\ Spent(conn).tenancy = conn.tenancy
        /\ Hop.tenancy = there.tenancy
    BY AskedType, LostType, SpentType DEF Typed, TypeOK
  <2>2. /\ at # "idle" /\ Run(Here) => Ran' = <<Under(conn.tenancy, script)>>
        /\ at # "idle" /\ Run(Hop) => Ran' = <<Under(there.tenancy, script)>>
    BY <2>1, RanOnce DEF UnderWay, Sessions
  <2>3. /\ conn.tenancy = Under(conn.tenancy, NoTenancy)
        /\ NoTenancy \in Partly(script) /\ Partly(script) \subseteq Tenancy
    BY <2>1, UnderType, PartlyType DEF Connection
  <2>4. at # "idle" /\ UNCHANGED runs => Ran' = Ran
    BY DEF Ran
  <2> HIDE DEF Here, Hop
  <2>5. CASE UNCHANGED vars
    BY <2>5 DEF vars, callVars, pathVars, Promise!vars
  <2>6. ASSUME NEW s \in Scripts, Execute(s) PROVE Promise!Start
    <3>1. Ran' = <<>>
      BY <2>6 DEF Execute, Ran
    <3>2. script' \in Promise!Tenancy
      BY <2>6, FollowAssumption, SameTenancies DEF Execute
    <3> QED
      BY <2>6, <3>1, <3>2 DEF Execute, Promise!Start, Ran
  <2>7. CASE AskAnswered
    <3>1. Ran' = <<Under(conn.tenancy, script)>> /\ conn'.tenancy = Under(conn.tenancy, script)
      BY <2>1, <2>2, <2>7, UsingType DEF AskAnswered, Here
    <3>2. /\ Ran' = <<Promise!Under(conn.tenancy, script)>>
          /\ conn'.tenancy = Promise!Under(conn.tenancy, script)
      BY <3>1, SameTenancies
    <3> QED
      BY <2>7, <3>2 DEF AskAnswered, Return, callVars, Promise!Next, Promise!Answer, Ran
  <2>8. CASE AskUnsent
    BY <2>1, <2>8, FailedQuietly DEF AskUnsent, Spent, Return, callVars, Errors, Unsent
  <2>9. CASE AskRefused
    <3>1. PICK done \in Partly(script) :
            conn' = Using(Here, done) /\ (UNCHANGED runs \/ Run(Here))
      BY <2>9 DEF AskRefused, Here
    <3>2. Ran' = Ran \/ Ran' = <<Promise!Under(conn.tenancy, script)>>
      BY <2>2, <2>4, <2>9, <3>1, SameTenancies DEF AskRefused
    <3>3. done \in Promise!Partly(script) /\ conn'.tenancy = Promise!Under(conn.tenancy, done)
      <4>1. done \in Tenancy
        BY <2>3
      <4>2. Using(Here, done).tenancy = Under(Here.tenancy, done)
        BY <2>1, <4>1, UsingType
      <4>3. conn'.tenancy = Under(conn.tenancy, done)
        BY <2>1, <3>1, <4>2
      <4> QED
        BY <4>3, SameTenancies
    <3>4. at = "asking" /\ at' = "idle" /\ script' = script /\ result' \in Errors \ Unsent
      BY <2>9 DEF AskRefused, Return, callVars, Errors, Unsent
    <3> QED
      BY <3>2, <3>3, <3>4 DEF Promise!Next, Promise!Fail, Ran
  <2>10. CASE AskLost
    <3>1. Ran' = Ran \/ Ran' = <<Promise!Under(conn.tenancy, script)>>
      BY <2>2, <2>4, <2>10, SameTenancies DEF AskLost, Here
    <3>2. NoTenancy \in Promise!Partly(script)
          /\ conn'.tenancy = Promise!Under(conn.tenancy, NoTenancy)
      BY <2>1, <2>3, <2>10, SameTenancies DEF AskLost, Here
    <3>3. at = "asking" /\ at' = "idle" /\ script' = script /\ result' \in Errors \ Unsent
      BY <2>10 DEF AskLost, Return, callVars, Errors, Unsent
    <3> QED
      BY <3>1, <3>2, <3>3 DEF Promise!Next, Promise!Fail, Ran
  <2>11. ASSUME NEW r \in Redirect, AskRedirected(r) PROVE UNCHANGED Promise!vars
    BY <2>1, <2>11, Unseen DEF AskRedirected, callVars, Here
  <2>12. CASE ReadContext
    <3>1. conn'.tenancy = conn.tenancy
      BY <2>1, <2>12 DEF ReadContext, Here
    <3>2. CASE Selectable(conn.tenancy)
      BY <2>12, <3>1, <3>2, Unseen DEF ReadContext, callVars
    <3>3. CASE ~Selectable(conn.tenancy)
      BY <2>12, <3>1, <3>3, FailedQuietly DEF ReadContext, callVars, Return, Errors, Unsent
    <3> QED
      BY <3>2, <3>3
  <2>13. CASE ContextFails
    BY <2>1, <2>13, FailedQuietly DEF ContextFails, callVars, Here, Return, Errors, Unsent
  <2>14. CASE StopFollowing
    BY <2>14, FailedQuietly DEF StopFollowing, callVars, Return, Errors, Unsent
  <2>15. ASSUME NEW n \in Nodes, DialHop(n) PROVE UNCHANGED Promise!vars
    BY <2>15, Unseen DEF DialHop, callVars
  <2>16. CASE DialFails
    BY <2>16, FailedQuietly DEF DialFails, callVars, Return, Errors, Unsent
  <2>17. CASE Arrive
    <3>1. CASE there.node = redirect.node
      BY <2>17, <3>1, Unseen DEF Arrive, callVars
    <3>2. CASE there.node # redirect.node
      BY <2>17, <3>2, FailedQuietly DEF Arrive, callVars, Return, Errors, Unsent
    <3> QED
      BY <3>1, <3>2
  <2>18. CASE SelectThere
    BY <2>18, Unseen DEF SelectThere, callVars
  <2>19. CASE ArriveFails
    BY <2>19, FailedQuietly DEF ArriveFails, callVars, Return, Errors, Unsent
  <2>20. CASE SendAnswered
    <3>1. there.tenancy \in {conn.tenancy, NoTenancy}
      BY <2>20 DEF SendAnswered, UnderWay
    <3>2. Ran' = <<Under(there.tenancy, script)>>
      BY <2>2, <2>20 DEF SendAnswered, Hop
    <3>3. conn'.tenancy \in {conn.tenancy, Under(there.tenancy, script)}
      BY <2>1, <2>20, UsingType DEF SendAnswered, Moved, Hop
    <3>4. \E t \in {conn.tenancy, Promise!NoTenancy} :
            /\ Ran' = <<Promise!Under(t, script)>>
            /\ conn'.tenancy \in {conn.tenancy, Promise!Under(t, script)}
      BY <3>1, <3>2, <3>3, SameTenancies
    <3> QED
      BY <2>20, <3>4 DEF SendAnswered, Return, callVars, Promise!Next, Promise!Answer, Ran
  <2>21. CASE SendFails
    <3>1. there.tenancy \in {conn.tenancy, NoTenancy}
      BY <2>21 DEF SendFails, UnderWay
    <3>2. Ran' = Ran \/ Ran' = <<Under(there.tenancy, script)>>
      BY <2>2, <2>4, <2>21 DEF SendFails, Hop
    <3>3. Ran' = Ran \/ \E t \in {conn.tenancy, Promise!NoTenancy} :
                          Ran' = <<Promise!Under(t, script)>>
      BY <3>1, <3>2, SameTenancies
    <3>4. NoTenancy \in Promise!Partly(script)
          /\ conn'.tenancy = Promise!Under(conn.tenancy, NoTenancy)
      BY <2>1, <2>3, <2>21, SameTenancies DEF SendFails
    <3>5. at = "sending" /\ at' = "idle" /\ script' = script /\ result' \in Errors \ Unsent
      BY <2>21 DEF SendFails, Return, callVars, Errors, Unsent
    <3> QED
      BY <3>3, <3>4, <3>5 DEF Promise!Next, Promise!Fail, Ran
  <2>22. ASSUME NEW r \in Redirect, SendRedirected(r) PROVE UNCHANGED Promise!vars
    BY <2>22, Unseen DEF SendRedirected, callVars
  <2> QED
    BY <2>5, <2>6, <2>7, <2>8, <2>9, <2>10, <2>11, <2>12, <2>13, <2>14, <2>15, <2>16, <2>17,
       <2>18, <2>19, <2>20, <2>21, <2>22 DEF Next, Proceed, Promise!Next
<1> QED
  BY <1>1, <1>2, TypedCorrect, SessionsCorrect, CallCorrect, PTL
     DEF Spec, KeepsItsPromise, Promise!Spec
=============================================================================
