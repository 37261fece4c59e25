-------------------------------- MODULE Conn --------------------------------
(***************************************************************************)
(* One wire connection of the client (conn.go, frame.go, narrowed.go and   *)
(* vault_frame.go) and the node at its other end.                          *)
(*                                                                         *)
(* Goroutines call the methods of one Conn.  A call waits for mu, makes    *)
(* the checks the method makes, writes at most one frame and, unless it is *)
(* a subscription, reads one frame back before it lets mu go.  A           *)
(* subscription starts the goroutine of deliver, which then is the only    *)
(* reader of the connection.  Close takes no lock.                         *)
(*                                                                         *)
(* The node is external: it takes the frames in order, answers a statement *)
(* with one frame, feeds a subscriber, and may hang up between frames or   *)
(* die, inside a frame or between two.  It keeps the 16 MiB ceiling on     *)
(* what it sends; the ceiling on what this client sends is modelled.       *)
(***************************************************************************)
EXTENDS Naturals, Sequences

CONSTANTS
  Callers,         \* goroutines that share the connection
  NoOne,           \* the holder of mu when it is free
  HasCredentials,  \* was the connection dialled with credentials
  Greetings,       \* greetings the address may answer with
  Calls,           \* the operations callers choose from
  MaxCalls,        \* bound on the calls made on the connection
  MaxFrames        \* bound on the frames of a feed

(***************************************************************************)
(* A call is a method and what becomes of its body: "bad" holds a          *)
(* parameter Encode refuses, "long" is above the ceiling.                  *)
(***************************************************************************)
Operation ==
  [method : {"ask", "narrowed"}, body : {"good", "bad", "long"}]
    \cup [method : {"subscribe", "vault", "declare"}, body : {"good", "long"}]

NoOperation == [method |-> "none", body |-> "good"]

ASSUME ConnAssumption ==
  /\ NoOne \notin Callers
  /\ HasCredentials \in BOOLEAN
  /\ Greetings \subseteq [magic : BOOLEAN, major : Nat, minor : Nat]
  /\ Calls \subseteq Operation
  /\ MaxCalls \in Nat
  /\ MaxFrames \in Nat

\* The version this client speaks, and the minors some calls need.
major == 1
vaultMinor == 2
conditionMinor == 4
declareMinor == 6

\* A frame this client writes: the method and the call it is of, and whether
\* the credential rides in it.
Request ==
  [of : {"ask", "vault", "declare", "subscribe", "narrowed"},
   call : Nat, signed : BOOLEAN]

(***************************************************************************)
(* A frame of the node.  call is the call it answers, 0 in a feed; n is    *)
(* its place in a feed.  kind "other" is any kind this build does not      *)
(* know.  body "cut" is a frame the node died inside, "bad" one whose      *)
(* bytes do not decode.                                                    *)
(***************************************************************************)
Frame ==
  [kind : {"answer", "refusal", "elsewhere", "change", "progress", "other"},
   call : Nat, n : Nat, body : {"good", "bad", "cut"}]

NoFrame == [kind |-> "other", call |-> 0, n |-> 0, body |-> "cut"]

statementFrames == {"answer", "refusal", "elsewhere"}
changeFrames == {"change", "refusal"}
narrowedFrames == {"change", "progress", "refusal"}

Errors == {"none", "subscribed", "tooOld", "encode", "tooLarge", "write", "eof",
           "truncated", "unknownFrame", "refusal", "protocol"}

\* What a call returned, and the call the frame it read was an answer to (0
\* when it read none).
Result == [call : Nat, err : Errors, answers : Nat]

NoResult == [call |-> 0, err |-> "none", answers |-> 0]

VARIABLES
  link,       \* the socket
  peerMinor,  \* Conn.peerMinor
  spent,      \* Conn.spent
  subscribed, \* Conn.subscribed
  mu,         \* who holds Conn.mu
  pc,         \* where each caller is
  op,         \* the operation each caller is in
  call,       \* the number of the call each caller is in
  calls,      \* calls made so far
  result,     \* what each caller's last call returned
  toNode,     \* frames the node has not taken yet
  toClient,   \* frames this client has not read yet
  sent,       \* every frame written on a live socket, in order
  feed,       \* the goroutine of deliver: place, kinds, item, fail channel
  handed,     \* what the receiver of the items channel got, in order
  published   \* the node's feed: is it on, and how many frames it sent

connVars == <<link, peerMinor, spent, subscribed>>
callVars == <<mu, pc, op, call, calls, result>>
wireVars == <<toNode, toClient, sent>>
feedVars == <<feed, handed>>
vars == <<connVars, callVars, wireVars, feedVars, published>>

NoFeed == [at |-> "none", kinds |-> {}, item |-> NoFrame, fail |-> "none"]

TypeOK ==
  /\ link \in {"none", "up", "goodbye", "reset", "closed", "failed"}
  /\ peerMinor \in Nat
  /\ spent \in BOOLEAN
  /\ subscribed \in BOOLEAN
  /\ mu \in Callers \cup {NoOne}
  /\ pc \in [Callers -> {"idle", "waiting", "locked", "reading"}]
  /\ op \in [Callers -> Operation \cup {NoOperation}]
  /\ call \in [Callers -> Nat]
  /\ calls \in Nat
  /\ result \in [Callers -> Result]
  /\ toNode \in Seq(Request)
  /\ toClient \in Seq(Frame)
  /\ sent \in Seq(Request)
  /\ feed \in [at : {"none", "reading", "handing", "ended"},
               kinds : SUBSET {"change", "progress", "refusal"},
               item : Frame, fail : Errors]
  /\ handed \in Seq(Frame)
  /\ published \in [on : BOOLEAN, sent : Nat]

Init ==
  /\ link = "none"
  /\ peerMinor = 0
  /\ spent = FALSE
  /\ subscribed = FALSE
  /\ mu = NoOne
  /\ pc = [c \in Callers |-> "idle"]
  /\ op = [c \in Callers |-> NoOperation]
  /\ call = [c \in Callers |-> 0]
  /\ calls = 0
  /\ result = [c \in Callers |-> NoResult]
  /\ toNode = <<>>
  /\ toClient = <<>>
  /\ sent = <<>>
  /\ feed = NoFeed
  /\ handed = <<>>
  /\ published = [on |-> FALSE, sent |-> 0]

-----------------------------------------------------------------------------
\* readGreeting: the magic is judged before the major, and a minor is never a
\* refusal.
readGreeting(g) ==
  CASE ~g.magic         -> "notThisProtocol"
    [] g.magic /\ g.major # major -> "wrongVersion"
    [] OTHER            -> "none"

(***************************************************************************)
(* dial: the socket, this client's greeting, the peer's.  Every failure    *)
(* closes the socket and leaves no Conn.                                   *)
(***************************************************************************)
Dial ==
  /\ link = "none"
  /\ \/ /\ link' = "failed"          \* unreachable, or no whole greeting came
        /\ UNCHANGED peerMinor
     \/ \E g \in Greetings :
          IF readGreeting(g) = "none"
            THEN link' = "up" /\ peerMinor' = g.minor
            ELSE link' = "failed" /\ UNCHANGED peerMinor
  /\ UNCHANGED <<spent, subscribed, callVars, wireVars, feedVars, published>>

\* Close takes no lock and may come at any time.
Close ==
  /\ link \in {"up", "goodbye", "reset"}
  /\ link' = "closed"
  /\ UNCHANGED <<peerMinor, spent, subscribed, callVars, wireVars, feedVars,
                 published>>

-----------------------------------------------------------------------------
\* A caller enters a method and asks for mu.
Begin(c, o) ==
  /\ pc[c] = "idle"
  /\ link \notin {"none", "failed"}
  /\ calls < MaxCalls
  /\ calls' = calls + 1
  /\ call' = [call EXCEPT ![c] = calls + 1]
  /\ op' = [op EXCEPT ![c] = o]
  /\ pc' = [pc EXCEPT ![c] = "waiting"]
  /\ UNCHANGED <<connVars, mu, result, wireVars, feedVars, published>>

\* Fault: the method forgets to take mu.
LockWithoutMutex(c) ==
  /\ pc[c] = "waiting"
  /\ mu' = c
  /\ pc' = [pc EXCEPT ![c] = "locked"]
  /\ UNCHANGED <<connVars, op, call, calls, result, wireVars, feedVars, published>>

Lock(c) ==
  /\ pc[c] = "waiting"
  /\ mu = NoOne
  /\ mu' = c
  /\ pc' = [pc EXCEPT ![c] = "locked"]
  /\ UNCHANGED <<connVars, op, call, calls, result, wireVars, feedVars, published>>

\* Fault: a return that forgets to unlock.
ReturnStillLocked(c, err, answers) ==
  /\ result' = [result EXCEPT ![c] =
                  [call |-> call[c], err |-> err, answers |-> answers]]
  /\ op' = [op EXCEPT ![c] = NoOperation]
  /\ pc' = [pc EXCEPT ![c] = "idle"]
  /\ UNCHANGED mu

\* Returning lets mu go.
Return(c, err, answers) ==
  /\ result' = [result EXCEPT ![c] =
                  [call |-> call[c], err |-> err, answers |-> answers]]
  /\ op' = [op EXCEPT ![c] = NoOperation]
  /\ mu' = NoOne
  /\ pc' = [pc EXCEPT ![c] = "idle"]

(***************************************************************************)
(* writeFrame: the ceiling first, then one Write.  A peer that is gone may *)
(* take the bytes in vain; a socket this client closed takes none.         *)
(***************************************************************************)
writeFrame(body) ==
  CASE body = "long"                        -> {"tooLarge"}
    [] body # "long" /\ link = "up"         -> {"none"}
    [] body # "long" /\ link = "closed"     -> {"write"}
    [] OTHER                                -> {"none", "write"}

\* The frame is on its way to the node.
Carry(f, err) ==
  IF err = "none" /\ link = "up"
    THEN /\ toNode' = Append(toNode, f)
         /\ sent' = Append(sent, f)
    ELSE UNCHANGED <<toNode, sent>>

FrameOf(c, signed) ==
  [of |-> op[c].method, call |-> call[c], signed |-> signed]

\* Fault: the credential rides in every request.
PresentAlways == HasCredentials

(***************************************************************************)
(* The credential goes into the first statement's frame and is marked      *)
(* spent while the body is built: before the parameters are encoded and    *)
(* before anything is written.                                             *)
(***************************************************************************)
PresentCredential == HasCredentials /\ ~spent

SpendCredential == spent' = (spent \/ HasCredentials)

\* The frame of a statement goes out, and its caller waits for the answer.
SendStatement(c) ==
  /\ SpendCredential
  /\ \E err \in writeFrame(op[c].body) :
       /\ Carry(FrameOf(c, PresentCredential), err)
       /\ IF err = "none"
            THEN pc' = [pc EXCEPT ![c] = "reading"] /\ UNCHANGED <<mu, op, result>>
            ELSE Return(c, err, 0)

\* ask, up to the read of its answer.
ask(c) ==
  /\ pc[c] = "locked"
  /\ op[c].method = "ask"
  /\ \/ /\ subscribed
        /\ Return(c, "subscribed", 0)
        /\ UNCHANGED <<spent, toNode, sent>>
     \/ /\ ~subscribed
        /\ op[c].body = "bad"
        /\ SpendCredential
        /\ Return(c, "encode", 0)
        /\ UNCHANGED <<toNode, sent>>
     \/ /\ ~subscribed
        /\ op[c].body # "bad"
        /\ SendStatement(c)
  /\ UNCHANGED <<link, peerMinor, subscribed, call, calls, toClient, feedVars,
                 published>>

TooOldForVault(c) ==
  \/ peerMinor < vaultMinor
  \/ op[c].method = "declare" /\ peerMinor < declareMinor

\* vaultFrame, up to the read of its answer.
vaultFrame(c) ==
  /\ pc[c] = "locked"
  /\ op[c].method \in {"vault", "declare"}
  /\ \/ /\ TooOldForVault(c)
        /\ Return(c, "tooOld", 0)
        /\ UNCHANGED <<spent, toNode, sent>>
     \/ /\ ~TooOldForVault(c)
        /\ subscribed
        /\ Return(c, "subscribed", 0)
        /\ UNCHANGED <<spent, toNode, sent>>
     \/ /\ ~TooOldForVault(c)
        /\ ~subscribed
        /\ SendStatement(c)
  /\ UNCHANGED <<link, peerMinor, subscribed, call, calls, toClient, feedVars,
                 published>>

\* Fault: the connection is not marked as consumed.
SubscribeUnmarked(c, kinds) ==
  \E err \in writeFrame(op[c].body) :
    /\ Carry(FrameOf(c, FALSE), err)
    /\ Return(c, err, 0)
    /\ UNCHANGED subscribed
    /\ IF err = "none"
         THEN feed' = [NoFeed EXCEPT !.at = "reading", !.kinds = kinds]
         ELSE UNCHANGED feed

\* The Subscribe frame goes out; once it is written the connection is consumed
\* and the goroutine of deliver reads it.  The frame carries no credential.
SendSubscribe(c, kinds) ==
  \E err \in writeFrame(op[c].body) :
    /\ Carry(FrameOf(c, FALSE), err)
    /\ Return(c, err, 0)
    /\ IF err = "none"
         THEN /\ subscribed' = TRUE
              /\ feed' = [NoFeed EXCEPT !.at = "reading", !.kinds = kinds]
         ELSE UNCHANGED <<subscribed, feed>>

\* Changes and ChangesAt.
subscribe(c) ==
  /\ pc[c] = "locked"
  /\ op[c].method = "subscribe"
  /\ \/ /\ subscribed
        /\ Return(c, "subscribed", 0)
        /\ UNCHANGED <<subscribed, feed, toNode, sent>>
     \/ /\ ~subscribed
        /\ SendSubscribe(c, changeFrames)
  /\ UNCHANGED <<link, peerMinor, spent, call, calls, toClient, handed,
                 published>>

\* ChangesWhere and ChangesWhereAt.
narrowed(c) ==
  /\ pc[c] = "locked"
  /\ op[c].method = "narrowed"
  /\ \/ /\ subscribed
        /\ Return(c, "subscribed", 0)
        /\ UNCHANGED <<subscribed, feed, toNode, sent>>
     \/ /\ ~subscribed
        /\ peerMinor < conditionMinor
        /\ Return(c, "tooOld", 0)
        /\ UNCHANGED <<subscribed, feed, toNode, sent>>
     \/ /\ ~subscribed
        /\ peerMinor >= conditionMinor
        /\ op[c].body = "bad"
        /\ Return(c, "encode", 0)
        /\ UNCHANGED <<subscribed, feed, toNode, sent>>
     \/ /\ ~subscribed
        /\ peerMinor >= conditionMinor
        /\ op[c].body # "bad"
        /\ SendSubscribe(c, narrowedFrames)
  /\ UNCHANGED <<link, peerMinor, spent, call, calls, toClient, handed,
                 published>>

-----------------------------------------------------------------------------
\* Fault: the end of the stream is never told apart from a quiet peer.
readUntilData(known) ==
  IF toClient = <<>> THEN {}
    ELSE {[frame |-> Head(toClient),
           err |-> IF Head(toClient).kind \notin known THEN "unknownFrame" ELSE "none"]}

(***************************************************************************)
(* readFrame: what a read may come to.  A frame is taken whole, also one   *)
(* of a kind that is not expected here; the goodbye of the peer between    *)
(* frames is io.EOF, any other end is ErrTruncated.  A socket that was     *)
(* closed here or reset may lose what had arrived.                         *)
(***************************************************************************)
readFrame(known) ==
  (IF toClient = <<>> THEN {}
     ELSE {[frame |-> Head(toClient),
            err |-> CASE Head(toClient).body = "cut" -> "truncated"
                      [] Head(toClient).body # "cut"
                         /\ Head(toClient).kind \notin known -> "unknownFrame"
                      [] OTHER -> "none"]})
  \cup (IF link \in {"closed", "reset"}
          THEN {[frame |-> NoFrame, err |-> "truncated"]} ELSE {})
  \cup (IF link = "goodbye" /\ toClient = <<>>
          THEN {[frame |-> NoFrame, err |-> "eof"]} ELSE {})

\* Fault: an unexpected kind is left in the stream for the next reader.
ConsumeExpected ==
  toClient' = IF toClient = <<>> \/ Head(toClient).kind = "other"
                THEN toClient ELSE Tail(toClient)

Consume == toClient' = IF toClient = <<>> THEN <<>> ELSE Tail(toClient)

\* What a whole, expected frame tells the reader.  A refusal always reads; a
\* vault frame answered by a redirect is a protocol error.
Judge(f, redirectable) ==
  CASE f.kind = "refusal"                            -> "refusal"
    [] f.kind # "refusal" /\ f.body = "bad"          -> "protocol"
    [] f.kind = "elsewhere" /\ f.body # "bad" /\ ~redirectable -> "protocol"
    [] OTHER                                         -> "none"

\* ask and vaultFrame, from the read on.  No error closes the connection.
ReadReply(c) ==
  /\ pc[c] = "reading"
  /\ \E r \in readFrame(statementFrames) :
       Return(c,
              IF r.err # "none" THEN r.err
                ELSE Judge(r.frame, op[c].method = "ask"),
              r.frame.call)
  /\ Consume
  /\ UNCHANGED <<connVars, call, calls, toNode, sent, feedVars, published>>

\* Fault: deliver steps over a frame of an unknown kind.
DeliverSkipsUnknown ==
  /\ feed.at = "reading"
  /\ \E r \in readFrame(feed.kinds) :
       LET err == IF r.err # "none" THEN r.err ELSE Judge(r.frame, FALSE)
       IN  feed' = CASE err = "unknownFrame" -> feed
                     [] err = "eof"  -> [feed EXCEPT !.at = "ended"]
                     [] err = "none" -> [feed EXCEPT !.at = "handing",
                                                     !.item = r.frame]
                     [] OTHER -> [feed EXCEPT !.at = "ended", !.fail = err]
  /\ Consume
  /\ UNCHANGED <<connVars, callVars, toNode, sent, handed, published>>

(***************************************************************************)
(* The goroutine of deliver.  It ends with an error in the fail channel,   *)
(* or with none when the peer said goodbye; both channels are closed then. *)
(***************************************************************************)
DeliverReads ==
  /\ feed.at = "reading"
  /\ \E r \in readFrame(feed.kinds) :
       LET err == IF r.err # "none" THEN r.err ELSE Judge(r.frame, FALSE)
       IN  feed' = CASE err = "eof"  -> [feed EXCEPT !.at = "ended"]
                     [] err = "none" -> [feed EXCEPT !.at = "handing",
                                                     !.item = r.frame]
                     [] OTHER -> [feed EXCEPT !.at = "ended", !.fail = err]
  /\ Consume
  /\ UNCHANGED <<connVars, callVars, toNode, sent, handed, published>>

\* The items channel is unbuffered: deliver waits until the item is received.
Receive ==
  /\ feed.at = "handing"
  /\ feed' = [feed EXCEPT !.at = "reading", !.item = NoFrame]
  /\ handed' = Append(handed, feed.item)
  /\ UNCHANGED <<connVars, callVars, wireVars, published>>

-----------------------------------------------------------------------------
(***************************************************************************)
(* The node (external).                                                    *)
(***************************************************************************)
NodeSends(kind, about, n, body) ==
  /\ toClient' = Append(toClient, [kind |-> kind, call |-> about, n |-> n,
                                   body |-> body])
  /\ link' = IF body = "cut" THEN "reset" ELSE link

\* A statement is answered with one frame, of this protocol's or of a newer
\* node's kinds.
NodeAnswers ==
  /\ link = "up"
  /\ toNode # <<>>
  /\ Head(toNode).of \in {"ask", "vault", "declare"}
  /\ \E kind \in statementFrames \cup {"other"}, body \in {"good", "bad", "cut"} :
       NodeSends(kind, Head(toNode).call, 0, body)
  /\ toNode' = Tail(toNode)
  /\ UNCHANGED <<peerMinor, spent, subscribed, callVars, sent, feedVars, published>>

NodeSubscribes ==
  /\ link = "up"
  /\ toNode # <<>>
  /\ Head(toNode).of \in {"subscribe", "narrowed"}
  /\ toNode' = Tail(toNode)
  /\ published' = [published EXCEPT !.on = TRUE]
  /\ UNCHANGED <<connVars, callVars, toClient, sent, feedVars>>

\* One frame of the feed; a refusal ends it.
NodeFeeds ==
  /\ link = "up"
  /\ published.on
  /\ published.sent < MaxFrames
  /\ \E kind \in narrowedFrames \cup {"other"}, body \in {"good", "bad", "cut"} :
       /\ NodeSends(kind, 0, published.sent + 1, body)
       /\ published' = [on |-> kind # "refusal", sent |-> published.sent + 1]
  /\ UNCHANGED <<peerMinor, spent, subscribed, callVars, toNode, sent, feedVars>>

\* The node hangs up between frames, or dies there, and what it sent may be
\* lost with it.
NodeLeaves ==
  /\ link = "up"
  /\ \/ link' = "goodbye" /\ UNCHANGED toClient
     \/ link' = "reset" /\ toClient' \in {toClient, <<>>}
  /\ toNode' = <<>>
  /\ UNCHANGED <<peerMinor, spent, subscribed, callVars, sent, feedVars, published>>

-----------------------------------------------------------------------------
CallerStep(c) ==
  \/ Lock(c)
  \/ ask(c)
  \/ vaultFrame(c)
  \/ subscribe(c)
  \/ narrowed(c)
  \/ ReadReply(c)

NodeStep == NodeAnswers \/ NodeSubscribes \/ NodeFeeds \/ NodeLeaves

Next ==
  \/ Dial
  \/ Close
  \/ \E c \in Callers : CallerStep(c) \/ \E o \in Calls : Begin(c, o)
  \/ DeliverReads
  \/ Receive
  \/ NodeStep

(***************************************************************************)
(* Goroutines run, Go's mutex starves no one, the receiver drains the      *)
(* items channel as Changes asks it to, and a live node answers what it    *)
(* takes.  Nobody has to make a call, to close, or to hang up.             *)
(***************************************************************************)
Fairness ==
  /\ \A c \in Callers : WF_vars(CallerStep(c))
  /\ WF_vars(DeliverReads)
  /\ WF_vars(Receive)
  /\ WF_vars(NodeAnswers)

Spec == Init /\ [][Next]_vars
FairSpec == Spec /\ Fairness

-----------------------------------------------------------------------------
(***************************************************************************)
(* An answer is the answer to its own call: whatever frame a call read     *)
(* back, good, refused, unreadable or of an unknown kind, the node sent it *)
(* for that call, however many goroutines share the connection and however *)
(* earlier calls on it failed (ask, vaultFrame: one frame read per frame   *)
(* written, under mu).                                                     *)
(***************************************************************************)
AnswerMatches ==
  \A c \in Callers : result[c].answers \in {0, result[c].call}

(***************************************************************************)
(* A subscription consumes the connection: nothing is written after a      *)
(* Subscribe frame, and no caller reads replies off the connection that    *)
(* the goroutine of deliver is reading (c.subscribed).                     *)
(***************************************************************************)
SubscriptionConsumes ==
  /\ \A i \in 1 .. Len(sent) :
       sent[i].of \in {"subscribe", "narrowed"} => i = Len(sent)
  /\ feed.at # "none" => \A c \in Callers : pc[c] # "reading"

(***************************************************************************)
(* Credentials are presented at most once per connection, and never after  *)
(* a statement that went without them (c.spent).                           *)
(***************************************************************************)
CredentialPresentedOnce ==
  \A i \in 1 .. Len(sent) : sent[i].signed =>
    \A j \in 1 .. i - 1 : sent[j].of \in {"subscribe", "narrowed"}

(***************************************************************************)
(* A feed never skips: what the receiver got is the node's frames from the *)
(* first, none missing, doubled or out of order, and a feed that closes    *)
(* with nothing on its error channel handed over every frame the node sent *)
(* (deliver).                                                              *)
(***************************************************************************)
FeedIsWhole ==
  /\ \A i \in 1 .. Len(handed) : handed[i].n = i
  /\ feed.at = "ended" /\ feed.fail = "none" => Len(handed) = published.sent

(***************************************************************************)
(* Every call returns, whatever else is called, closed or lost (mu is let  *)
(* go on every path and no call waits for an answer that cannot come).     *)
(***************************************************************************)
CallsReturn == \A c \in Callers : pc[c] # "idle" ~> pc[c] = "idle"

(***************************************************************************)
(* The goroutine of deliver ends once the socket is gone, as long as the   *)
(* receiver keeps draining the channel.                                    *)
(***************************************************************************)
FeedEnds == feed.at # "none" /\ link # "up" ~> feed.at = "ended"

-----------------------------------------------------------------------------
(***************************************************************************)
(* What the documentation says and the code does not do.                   *)
(***************************************************************************)

\* conn.go: the credential is in the first request of the connection.
FirstStatementIsSigned ==
  HasCredentials /\ sent # <<>> /\ sent[1].of \in {"ask", "vault", "declare"}
    => sent[1].signed
=============================================================================
