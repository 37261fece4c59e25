------------------------------- MODULE Follow -------------------------------
(***************************************************************************)
(* Conn.Execute and the redirects it follows (conn.go, follow.go).         *)
(*                                                                         *)
(* A script is asked on the caller's connection.  A node that redirects it *)
(* names a node, an epoch and whether the move is settled; the client      *)
(* reads its own session's tenancy, dials the endpoint, checks which node  *)
(* took the connection, selects the tenancy there and asks again, for at   *)
(* most three redirects.                                                   *)
(*                                                                         *)
(* One ask (a frame written and a frame read, module Conn) is one step, so *)
(* the cluster may change between any two.  The nodes are external and     *)
(* free: any node may redirect to any node under any epoch, any address    *)
(* may be answered by any node, and any connection may be lost before or   *)
(* after the node carried the script out.  A node that redirects a script  *)
(* has not carried it out.                                                 *)
(***************************************************************************)
EXTENDS Naturals, Sequences, Tenancies

CONSTANTS
  Nodes,           \* node identities
  Epochs,          \* leadership epochs a redirect may be dated by
  MinorOf,         \* the protocol minor in each node's greeting
  PlainNames,      \* the names that match plainName
  Scripts,         \* what the scripts that are called with select
  HasCredentials,  \* was the connection dialled with credentials
  MaxCalls         \* bound on the calls made

ASSUME FollowAssumption ==
  /\ Epochs \subseteq Nat
  /\ MinorOf \in [Nodes -> Nat]
  /\ PlainNames \subseteq Names /\ Unset \notin Names
  /\ Scripts \subseteq Tenancy
  /\ HasCredentials \in BOOLEAN
  /\ MaxCalls \in Nat

mostHops == 3

Redirect == [node : Nodes, epoch : Epochs, settled : BOOLEAN]

\* A connection: the node that took it, the node whose answers c.r reads, the
\* minor kept from its greeting, the tenancy its session has selected, the
\* client's spent flag, how often the credential was presented on it, and
\* whether it still carries frames.
Connection ==
  [node : Nodes, reader : Nodes, peerMinor : Nat, tenancy : Tenancy,
   spent : BOOLEAN, shown : Nat, up : BOOLEAN]

Dialled(n) ==
  [node |-> n, reader |-> n, peerMinor |-> MinorOf[n], tenancy |-> NoTenancy,
   spent |-> FALSE, shown |-> 0, up |-> TRUE]

VARIABLES
  conn,       \* the caller's connection: c
  there,      \* the connection of the hop under way, when there is one
  open,       \* sockets open
  at,         \* where Execute is
  script,     \* what the script of the call selects before it works
  redirects,  \* the redirects the call was sent, in order
  hops,       \* redirects followed before the last one
  floor,      \* the epoch of the last one followed
  selecting,  \* the tenancy to select on arrival
  bare,       \* was that USE redirected, on the hop under way
  runs,       \* the times a node carried the script out
  before,     \* the connection as the call found it
  result,     \* what the last call returned
  calls       \* calls made so far

pathVars == <<redirects, hops, floor, selecting, bare>>
callVars == <<script, before, calls>>
vars == <<conn, there, open, at, pathVars, callVars, runs, result>>

\* A request that could not be written, and the errors of follow that come before
\* the script is sent on a hop.
Unsent == {"unsent", "loop", "stale", "wrongNode", "notFollowable", "dial"}
Errors == Unsent \cup {"refusal", "lost", "protocol"}

Places == {"idle", "asking", "context", "choosing", "arriving", "selecting", "sending"}

TypeOK ==
  /\ conn \in Connection
  /\ there \in Connection
  /\ open \in Nat
  /\ at \in Places
  /\ script \in Tenancy
  /\ redirects \in Seq(Redirect)
  /\ hops \in Nat
  /\ floor \in Nat
  /\ selecting \in Tenancy
  /\ bare \in BOOLEAN
  /\ runs \in Seq([node : Nodes, tenancy : Tenancy, signed : BOOLEAN])
  /\ before \in Connection
  /\ result \in Errors \cup {"none", "answer"}
  /\ calls \in Nat

Init ==
  /\ conn \in {Dialled(n) : n \in Nodes}
  /\ there = conn
  /\ open = 1
  /\ at = "idle"
  /\ script = NoTenancy
  /\ redirects = <<>>
  /\ hops = 0
  /\ floor = 0
  /\ selecting = NoTenancy
  /\ bare = FALSE
  /\ runs = <<>>
  /\ before = conn
  /\ result = "none"
  /\ calls = 0

-----------------------------------------------------------------------------
\* The redirect to follow next.
redirect == redirects[Len(redirects)]

\* An ask presents the credential the first time, and marks it spent.
Asked(k) ==
  IF HasCredentials /\ ~k.spent THEN [k EXCEPT !.spent = TRUE, !.shown = @ + 1] ELSE k

Lost(k) == [k EXCEPT !.up = FALSE]

\* A script that selects leaves its tenancy selected.
Using(k, selects) == [k EXCEPT !.tenancy = Under(k.tenancy, selects)]

\* The node at the end of k carries the script out.
Run(k) ==
  runs' = Append(runs, [node |-> k.node, tenancy |-> Under(k.tenancy, script),
                        signed |-> k.shown > 0])

\* Execute ends; the goroutine lets c.mu go.
Return(how) ==
  /\ at' = "idle"
  /\ result' = how

-----------------------------------------------------------------------------
(***************************************************************************)
(* Execute: the script on the caller's connection.                         *)
(***************************************************************************)
Execute(s) ==
  /\ at = "idle"
  /\ calls < MaxCalls
  /\ calls' = calls + 1
  /\ at' = "asking"
  /\ script' = s
  /\ before' = conn
  /\ result' = "none"
  /\ runs' = <<>>
  /\ redirects' = <<>>
  /\ hops' = 0
  /\ floor' = 0
  /\ selecting' = NoTenancy
  /\ bare' = FALSE
  /\ UNCHANGED <<conn, there, open>>

\* The node answers: the script was carried out.
AskAnswered ==
  /\ at = "asking"
  /\ conn.up
  /\ Run(Asked(conn))
  /\ conn' = Using(Asked(conn), script)
  /\ Return("answer")
  /\ UNCHANGED <<there, open, pathVars, callVars>>

\* A parameter does not encode, or the frame would exceed the ceiling: nothing is
\* written, and a credential that was in it is spent.
AskUnsent ==
  /\ at = "asking"
  /\ conn' = [conn EXCEPT !.spent = @ \/ HasCredentials]
  /\ Return("unsent")
  /\ UNCHANGED <<there, open, pathVars, callVars, runs>>

\* The node refuses a statement, those before it carried out; or its answer does
\* not decode.
AskRefused ==
  /\ at = "asking"
  /\ conn.up
  /\ \E done \in Partly(script) :
       /\ conn' = Using(Asked(conn), done)
       /\ \/ UNCHANGED runs
          \/ done = script /\ Run(Asked(conn))
  /\ Return("refusal") \/ Return("protocol")
  /\ UNCHANGED <<there, open, pathVars, callVars>>

\* The connection is lost, before the node carried the script out or after.
AskLost ==
  /\ at = "asking"
  /\ \/ /\ UNCHANGED runs
     \/ /\ conn.up
        /\ Run(Asked(conn))
  /\ conn' = Lost(Asked(conn))
  /\ Return("lost")
  /\ UNCHANGED <<there, open, pathVars, callVars>>

\* The node redirects: follow begins.
AskRedirected(r) ==
  /\ at = "asking"
  /\ conn.up
  /\ conn' = Asked(conn)
  /\ redirects' = <<r>>
  /\ at' = "context"
  /\ UNCHANGED <<there, open, hops, floor, selecting, bare, callVars, runs, result>>

-----------------------------------------------------------------------------
(***************************************************************************)
(* follow: this session's tenancy first, then hop after hop.               *)
(***************************************************************************)
\* selection skips a name that is not set and declines one that is not plain.
Selectable(t) == \A p \in Parts : t[p] \in PlainNames \cup {Unset}

\* Fault: the USE is of the first name alone.
SelectionOfOne ==
  /\ at = "context"
  /\ conn' = Asked(conn)
  /\ IF Selectable(conn.tenancy)
       THEN /\ selecting' = [conn.tenancy EXCEPT !["database"] = Unset]
            /\ at' = "choosing"
            /\ UNCHANGED result
       ELSE /\ Return("notFollowable")
            /\ UNCHANGED selecting
  /\ UNCHANGED <<there, open, redirects, hops, floor, bare, callVars, runs>>

\* c.context() and selection.
ReadContext ==
  /\ at = "context"
  /\ conn' = Asked(conn)
  /\ IF Selectable(conn.tenancy)
       THEN /\ selecting' = conn.tenancy
            /\ at' = "choosing"
            /\ UNCHANGED result
       ELSE /\ Return("notFollowable")
            /\ UNCHANGED selecting
  /\ UNCHANGED <<there, open, redirects, hops, floor, bare, callVars, runs>>

\* c.context() is refused, answered with something else or a redirect, or lost.
ContextFails ==
  /\ at = "context"
  /\ \/ conn' = Asked(conn) /\ Return("refusal")
     \/ conn' = Asked(conn) /\ Return("protocol")
     \/ conn' = Lost(Asked(conn)) /\ Return("lost")
  /\ UNCHANGED <<there, open, pathVars, callVars, runs>>

\* The bound on the hops, then the floor under the epochs.
StopFollowing ==
  /\ at = "choosing"
  /\ \/ hops >= mostHops /\ Return("loop")
     \/ hops < mostHops /\ redirect.epoch < floor /\ Return("stale")
  /\ UNCHANGED <<conn, there, open, pathVars, callVars, runs>>

\* The endpoint is dialled; n is whichever node answers at that address.
DialHop(n) ==
  /\ at = "choosing"
  /\ hops < mostHops
  /\ redirect.epoch >= floor
  /\ floor' = redirect.epoch
  /\ there' = Dialled(n)
  /\ open' = open + 1
  /\ bare' = FALSE
  /\ at' = "arriving"
  /\ UNCHANGED <<conn, redirects, hops, selecting, callVars, runs, result>>

DialFails ==
  /\ at = "choosing"
  /\ hops < mostHops
  /\ redirect.epoch >= floor
  /\ floor' = redirect.epoch
  /\ Return("dial")
  /\ UNCHANGED <<conn, there, open, redirects, hops, selecting, bare, callVars, runs>>

-----------------------------------------------------------------------------
(***************************************************************************)
(* arrive: every error closes the connection there.                        *)
(***************************************************************************)
CloseThere == open' = open - 1

\* Fault: whichever node took the connection is taken for the one named.
ArriveUnchecked ==
  /\ at = "arriving"
  /\ there' = Asked(there)
  /\ at' = IF selecting = NoTenancy THEN "sending" ELSE "selecting"
  /\ UNCHANGED <<conn, open, result, pathVars, callVars, runs>>

\* Fault: the socket to a wrong node stays open.
ArriveLeaks ==
  /\ at = "arriving"
  /\ there' = Asked(there)
  /\ UNCHANGED open
  /\ IF there.node = redirect.node
       THEN /\ at' = IF selecting = NoTenancy THEN "sending" ELSE "selecting"
            /\ UNCHANGED result
       ELSE Return("wrongNode")
  /\ UNCHANGED <<conn, pathVars, callVars, runs>>

\* there.context() names the node that took the connection.
Arrive ==
  /\ at = "arriving"
  /\ there' = Asked(there)
  /\ IF there.node = redirect.node
       THEN /\ at' = IF selecting = NoTenancy THEN "sending" ELSE "selecting"
            /\ UNCHANGED <<open, result>>
       ELSE /\ Return("wrongNode")
            /\ CloseThere
  /\ UNCHANGED <<conn, pathVars, callVars, runs>>

\* The tenancy is selected there, unless the node redirects the USE too: arrive
\* does not look.
SelectThere ==
  /\ at = "selecting"
  /\ bare' \in BOOLEAN
  /\ there' = IF bare' THEN Asked(there) ELSE Using(Asked(there), selecting)
  /\ at' = "sending"
  /\ UNCHANGED <<conn, open, redirects, hops, floor, selecting, callVars, runs, result>>

\* The check or the selection is refused, makes no sense, or is lost.
ArriveFails ==
  /\ at \in {"arriving", "selecting"}
  /\ \E how \in {"refusal", "protocol", "lost"} : Return(how)
  /\ there' = Asked(there)
  /\ CloseThere
  /\ UNCHANGED <<conn, pathVars, callVars, runs>>

\* Fault: c keeps the minor of the node it moved away from.
MovedInPart ==
  IF redirect.settled
    THEN [Using(Asked(there), script) EXCEPT !.peerMinor = conn.peerMinor]
    ELSE conn

\* The node there answers.  A settled redirect moves the connection: the old
\* socket is closed and c takes the one there, with its reader, its minor and its
\* spent flag; a transient one closes it.
Moved == IF redirect.settled THEN Using(Asked(there), script) ELSE conn

SendAnswered ==
  /\ at = "sending"
  /\ Run(Asked(there))
  /\ there' = Asked(there)
  /\ conn' = Moved
  /\ open' = open - 1
  /\ Return("answer")
  /\ UNCHANGED <<pathVars, callVars>>

\* Fault: a lost answer is a reason to go round again.
SendFailsRetried ==
  /\ at = "sending"
  /\ \/ UNCHANGED runs
     \/ Run(Asked(there))
  /\ there' = Asked(there)
  /\ CloseThere
  /\ hops' = hops + 1
  /\ at' = "choosing"
  /\ UNCHANGED <<conn, redirects, floor, selecting, bare, callVars, result>>

SendFails ==
  /\ at = "sending"
  /\ \/ UNCHANGED runs
     \/ Run(Asked(there))
  /\ there' = Asked(there)
  /\ CloseThere
  /\ \E how \in {"refusal", "protocol", "lost"} : Return(how)
  /\ UNCHANGED <<conn, pathVars, callVars>>

\* Fault: the next redirect is followed by a follow of its own.
SendRedirectedAfresh(r) ==
  /\ at = "sending"
  /\ there' = Asked(there)
  /\ CloseThere
  /\ redirects' = <<r>>
  /\ hops' = 0
  /\ floor' = 0
  /\ at' = "choosing"
  /\ UNCHANGED <<conn, selecting, bare, callVars, runs, result>>

SendRedirected(r) ==
  /\ at = "sending"
  /\ there' = Asked(there)
  /\ CloseThere
  /\ redirects' = Append(redirects, r)
  /\ hops' = hops + 1
  /\ at' = "choosing"
  /\ UNCHANGED <<conn, floor, selecting, bare, callVars, runs, result>>

-----------------------------------------------------------------------------
\* Everything but the caller's decision to call.
Proceed ==
  \/ AskAnswered
  \/ AskUnsent
  \/ AskRefused
  \/ AskLost
  \/ \E r \in Redirect : AskRedirected(r)
  \/ ReadContext
  \/ ContextFails
  \/ StopFollowing
  \/ \E n \in Nodes : DialHop(n)
  \/ DialFails
  \/ Arrive
  \/ SelectThere
  \/ ArriveFails
  \/ SendAnswered
  \/ SendFails
  \/ \E r \in Redirect : SendRedirected(r)

Next ==
  \/ \E s \in Scripts : Execute(s)
  \/ Proceed

Spec == Init /\ [][Next]_vars

\* A node answers or its connection is lost: no ask takes for ever.
FairSpec == Spec /\ WF_vars(Proceed)

-----------------------------------------------------------------------------
(***************************************************************************)
(* A script is carried out at most once in a call, over all the nodes it   *)
(* is sent to and whatever is lost; when follow stops with an error of its *)
(* own it was not carried out anywhere, and an answer means it was         *)
(* (follow, arrive: only a redirect leads to another send).                *)
(***************************************************************************)
CarriedOutOnce ==
  /\ Len(runs) <= 1
  /\ result \in Unsent => runs = <<>>
  /\ result = "answer" => Len(runs) = 1

\* The flag is set and no node was shown the credential.
Unshown(k) == k.spent /\ k.shown = 0

(***************************************************************************)
(* Wherever a script is carried out, it is in the caller's own session:    *)
(* from the tenancy selected when the call began on, what the script       *)
(* itself selects coming last, and signed in with the credentials (context, *)
(* selection, arrive).  Two things the code lets happen are the exceptions. *)
(* A node that redirects the USE of a hop carries the script out in a      *)
(* session that has selected nothing; and a connection on which the first  *)
(* request was never written stays unsigned, until a redirect moves it.    *)
(***************************************************************************)
RunsInTheSession ==
  \A i \in 1 .. Len(runs) :
    /\ runs[i].tenancy = Under(IF bare THEN NoTenancy ELSE before.tenancy, script)
    /\ runs[i].signed = (HasCredentials /\ (redirects = <<>> => ~Unshown(before)))

(***************************************************************************)
(* A script is carried out only by the node the caller is connected to or  *)
(* by the node the last redirect named, whoever answers at the address     *)
(* (arrive: session::context() says which node this is).                   *)
(***************************************************************************)
RunsWhereNamed ==
  \A i \in 1 .. Len(runs) :
    runs[i].node = IF redirects = <<>> THEN before.node ELSE redirect.node

(***************************************************************************)
(* The redirects followed are at most three and dated by epochs that never *)
(* go backwards (mostHops, floor).                                         *)
(***************************************************************************)
PathGoesForward ==
  /\ hops <= mostHops
  /\ \A i, j \in 1 .. hops : i <= j => redirects[i].epoch <= redirects[j].epoch

\* The Conn's parts are those of one socket.
Whole(k) == k.reader = k.node /\ k.peerMinor = MinorOf[k.node]

(***************************************************************************)
(* Between calls the connection is where it was, unless a settled redirect *)
(* answered, and then at the node named, with all its parts; its session's *)
(* tenancy is then the one the script was carried out in, and otherwise    *)
(* what it was: a script that selects changes it only when no redirect     *)
(* was followed, as far as it was carried out (follow).                    *)
(***************************************************************************)
ConnectionStaysOrMoves ==
  at = "idle" =>
    LET moved == result = "answer" /\ redirects # <<>> /\ redirect.settled
    IN  /\ conn.node = IF moved THEN redirect.node ELSE before.node
        /\ conn.tenancy \in
             IF moved THEN {runs[1].tenancy}
             ELSE IF redirects = <<>> THEN {Under(before.tenancy, done) : done \in Partly(script)}
             ELSE {before.tenancy}
        /\ Whole(conn)

(***************************************************************************)
(* Between calls one socket is open, however the last call ended (follow   *)
(* closes the hop's connection, or the one it moves away from).            *)
(***************************************************************************)
NoSocketLeaks == open = IF at \in {"arriving", "selecting", "sending"} THEN 2 ELSE 1

\* Credentials are presented at most once on each connection, also on one the
\* caller's Conn moved to (c.spent moves with it).
CredentialPresentedOnce == conn.shown <= 1 /\ there.shown <= 1

\* Execute returns: no cluster can keep a call going round, whatever it redirects
\* and to where (follow counts its hops over the whole call).
ExecuteReturns == at # "idle" ~> at = "idle"

(***************************************************************************)
(* Execute keeps what module Exchange promises: to its caller a call that  *)
(* is redirected is a call.                                                *)
(***************************************************************************)
Promise == INSTANCE Exchange WITH
  Unrun <- Unsent,
  busy <- at # "idle",
  tenancy <- conn.tenancy,
  selects <- script,
  ran <- [i \in 1 .. Len(runs) |-> runs[i].tenancy]

KeepsItsPromise == Promise!Spec
=============================================================================
