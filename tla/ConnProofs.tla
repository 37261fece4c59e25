----------------------------- MODULE ConnProofs -----------------------------
(***************************************************************************)
(* Proofs about Conn: for any callers, greetings, calls and bounds, the    *)
(* types, that an answer is the answer to its own call, that a             *)
(* subscription consumes the connection, that the credential is presented  *)
(* once, that a node can read what it is sent, and that a feed is whole.   *)
(***************************************************************************)
EXTENDS Conn, SequenceTheorems, TLAPS

Links == {"none", "up", "goodbye", "reset", "closed", "failed"}

Places == {"idle", "waiting", "locked", "reading"}

Feeds == [at : {"none", "reading", "handing", "ended"},
          kinds : SUBSET {"change", "progress", "refusal"}, item : Frame, fail : Errors]

Publications == [on : BOOLEAN, sent : Nat]

LEMMA SplitSeq ==
  ASSUME NEW S, NEW s \in Seq(S), s # <<>>
  PROVE  /\ Len(s) \in Nat \ {0}
         /\ Head(s) = s[1] /\ Head(s) \in S
         /\ Tail(s) \in Seq(S)
         /\ Len(Tail(s)) = Len(s) - 1
         /\ \A i \in 1 .. Len(s) - 1 : Tail(s)[i] = s[i + 1]
OBVIOUS

LEMMA OneMore ==
  ASSUME NEW S, NEW s \in Seq(S), NEW e \in S
  PROVE  /\ Append(s, e) \in Seq(S) /\ Append(s, e) # <<>>
         /\ Len(Append(s, e)) = Len(s) + 1
         /\ Append(s, e)[Len(s) + 1] = e
         /\ \A i \in 1 .. Len(s) : Append(s, e)[i] = s[i]
         /\ s = <<>> => Head(Append(s, e)) = e
OBVIOUS

-----------------------------------------------------------------------------
(***************************************************************************)
(* Types.                                                                  *)
(***************************************************************************)
LEMMA NoFrameType == NoFrame \in Frame
BY DEF NoFrame, Frame

LEMMA ReadFrameTypes ==
  ASSUME TypeOK, NEW known, NEW r \in readFrame(known)
  PROVE  /\ r.frame \in Frame /\ r.err \in Errors
         /\ \/ r.frame = NoFrame /\ link \in {"closed", "reset"} /\ r.err = "truncated"
            \/ r.frame = NoFrame /\ link = "goodbye" /\ toClient = <<>> /\ r.err = "eof"
            \/ toClient # <<>> /\ r.frame = Head(toClient)
               /\ r.err \in {"none", "truncated", "unknownFrame"}
<1>1. toClient # <<>> => Head(toClient) \in Frame
  BY SplitSeq DEF TypeOK
<1> QED
  BY <1>1, NoFrameType DEF readFrame, Errors

LEMMA ConsumeTypes ==
  ASSUME TypeOK, Consume
  PROVE  toClient' \in Seq(Frame)
BY SplitSeq DEF TypeOK, Consume

LEMMA JudgeTypes ==
  ASSUME NEW f, NEW redirectable
  PROVE  Judge(f, redirectable) \in {"refusal", "protocol", "none"}
BY DEF Judge

LEMMA WriteTypes ==
  ASSUME NEW body, NEW err \in writeFrame(body)
  PROVE  err \in {"tooLarge", "none", "write"} /\ err \in Errors
BY DEF writeFrame, Errors

LEMMA CarryTypes ==
  ASSUME TypeOK, NEW f \in Request, NEW err, Carry(f, err)
  PROVE  toNode' \in Seq(Request) /\ sent' \in Seq(Request)
<1>1. toNode \in Seq(Request) /\ sent \in Seq(Request)
  BY DEF TypeOK
<1>2. Append(toNode, f) \in Seq(Request) /\ Append(sent, f) \in Seq(Request)
  BY <1>1, OneMore
<1> QED
  BY <1>1, <1>2 DEF Carry

LEMMA FrameOfTypes ==
  ASSUME TypeOK, NEW c \in Callers, NEW signed \in BOOLEAN,
         op[c].method \in {"ask", "vault", "declare", "subscribe", "narrowed"}
  PROVE  FrameOf(c, signed) \in Request
BY DEF TypeOK, FrameOf, Request

LEMMA ReturnTypes ==
  ASSUME TypeOK, NEW c \in Callers, NEW err \in Errors, NEW answers \in Nat,
         Return(c, err, answers)
  PROVE  /\ result' \in [Callers -> Result]
         /\ op' \in [Callers -> Operation \cup {NoOperation}]
         /\ mu' \in Callers \cup {NoOne}
         /\ pc' \in [Callers -> Places]
<1>1. [call |-> call[c], err |-> err, answers |-> answers] \in Result
  BY DEF TypeOK, Result
<1> QED
  BY <1>1 DEF TypeOK, Return, Places

LEMMA PresentTypes == PresentCredential \in BOOLEAN
BY Zenon DEF PresentCredential

LEMMA SpendTypes ==
  ASSUME TypeOK, SpendCredential
  PROVE  spent' \in BOOLEAN
<1>1. (spent \/ HasCredentials) \in BOOLEAN
  BY Zenon
<1> QED
  BY <1>1, Zenon DEF SpendCredential

LEMMA SendStatementTypes ==
  ASSUME TypeOK, NEW c \in Callers, SendStatement(c),
         op[c].method \in {"ask", "vault", "declare"}
  PROVE  /\ spent' \in BOOLEAN
         /\ toNode' \in Seq(Request) /\ sent' \in Seq(Request)
         /\ result' \in [Callers -> Result]
         /\ op' \in [Callers -> Operation \cup {NoOperation}]
         /\ mu' \in Callers \cup {NoOne}
         /\ pc' \in [Callers -> Places]
<1>1. FrameOf(c, PresentCredential) \in Request
  BY FrameOfTypes, PresentTypes
<1>2. PICK err \in writeFrame(op[c].body) :
        /\ Carry(FrameOf(c, PresentCredential), err)
        /\ IF err = "none"
             THEN pc' = [pc EXCEPT ![c] = "reading"] /\ UNCHANGED <<mu, op, result>>
             ELSE Return(c, err, 0)
  BY DEF SendStatement
<1>3. toNode' \in Seq(Request) /\ sent' \in Seq(Request)
  BY <1>1, <1>2, CarryTypes
<1>4. CASE err = "none"
  BY <1>2, <1>3, <1>4, SpendTypes DEF TypeOK, Places, SendStatement
<1>5. CASE err # "none"
  BY <1>2, <1>3, <1>5, SpendTypes, WriteTypes, ReturnTypes DEF SendStatement
<1> QED
  BY <1>4, <1>5

LEMMA SendSubscribeTypes ==
  ASSUME TypeOK, NEW c \in Callers, NEW kinds \in SUBSET {"change", "progress", "refusal"},
         SendSubscribe(c, kinds), op[c].method \in {"subscribe", "narrowed"}
  PROVE  /\ subscribed' \in BOOLEAN /\ feed' \in Feeds
         /\ toNode' \in Seq(Request) /\ sent' \in Seq(Request)
         /\ result' \in [Callers -> Result]
         /\ op' \in [Callers -> Operation \cup {NoOperation}]
         /\ mu' \in Callers \cup {NoOne}
         /\ pc' \in [Callers -> Places]
<1>1. FrameOf(c, FALSE) \in Request
  BY FrameOfTypes
<1>2. PICK err \in writeFrame(op[c].body) :
        /\ Carry(FrameOf(c, FALSE), err)
        /\ Return(c, err, 0)
        /\ IF err = "none"
             THEN /\ subscribed' = TRUE
                  /\ feed' = [NoFeed EXCEPT !.at = "reading", !.kinds = kinds]
             ELSE UNCHANGED <<subscribed, feed>>
  BY DEF SendSubscribe
<1>3. [NoFeed EXCEPT !.at = "reading", !.kinds = kinds] \in Feeds
  BY NoFrameType DEF NoFeed, Feeds, Errors
<1>4. subscribed' \in BOOLEAN /\ feed' \in Feeds
  BY <1>2, <1>3 DEF TypeOK, Feeds
<1> QED
  BY <1>1, <1>2, <1>4, CarryTypes, WriteTypes, ReturnTypes

LEMMA InitTypes == Init => TypeOK
<1> SUFFICES ASSUME Init PROVE TypeOK
  OBVIOUS
<1>1. NoFeed \in Feeds /\ NoResult \in Result
  BY NoFrameType DEF NoFeed, Feeds, NoResult, Result, Errors
<1>2. <<>> \in Seq(Request) /\ <<>> \in Seq(Frame)
  OBVIOUS
<1>3. /\ pc \in [Callers -> Places] /\ op \in [Callers -> Operation \cup {NoOperation}]
      /\ call \in [Callers -> Nat] /\ result \in [Callers -> Result]
  BY <1>1 DEF Init, Places
<1>4. /\ toNode \in Seq(Request) /\ toClient \in Seq(Frame) /\ sent \in Seq(Request)
      /\ feed \in Feeds /\ handed \in Seq(Frame) /\ published \in Publications
  BY <1>1, <1>2 DEF Init, Publications
<1>5. /\ link \in Links /\ peerMinor \in Nat /\ spent \in BOOLEAN /\ subscribed \in BOOLEAN
      /\ mu \in Callers \cup {NoOne} /\ calls \in Nat
  BY DEF Init, Links
<1> QED
  BY <1>3, <1>4, <1>5 DEF TypeOK, Links, Places, Feeds, Publications

LEMMA TypeStep == TypeOK /\ [Next]_vars => TypeOK'
<1> SUFFICES ASSUME TypeOK, [Next]_vars PROVE TypeOK'
  OBVIOUS
<1> USE DEF connVars, callVars, wireVars, feedVars
<1> DEFINE Types ==
      /\ link' \in Links /\ peerMinor' \in Nat /\ spent' \in BOOLEAN /\ subscribed' \in BOOLEAN
      /\ mu' \in Callers \cup {NoOne} /\ pc' \in [Callers -> Places]
      /\ op' \in [Callers -> Operation \cup {NoOperation}]
      /\ call' \in [Callers -> Nat] /\ calls' \in Nat /\ result' \in [Callers -> Result]
      /\ toNode' \in Seq(Request) /\ toClient' \in Seq(Frame) /\ sent' \in Seq(Request)
      /\ feed' \in Feeds /\ handed' \in Seq(Frame) /\ published' \in Publications
<1>a. Types => TypeOK'
  BY DEF TypeOK, Links, Places, Feeds, Publications
<1>b. /\ link \in Links /\ peerMinor \in Nat /\ spent \in BOOLEAN /\ subscribed \in BOOLEAN
      /\ mu \in Callers \cup {NoOne} /\ pc \in [Callers -> Places]
      /\ op \in [Callers -> Operation \cup {NoOperation}]
      /\ call \in [Callers -> Nat] /\ calls \in Nat /\ result \in [Callers -> Result]
      /\ toNode \in Seq(Request) /\ toClient \in Seq(Frame) /\ sent \in Seq(Request)
      /\ feed \in Feeds /\ handed \in Seq(Frame) /\ published \in Publications
  BY DEF TypeOK, Links, Places, Feeds, Publications
<1>1. CASE Dial
  <2>1. link' \in Links
    BY <1>1 DEF Dial, Links
  <2>2. peerMinor' \in Nat
    BY <1>1, <1>b, ConnAssumption DEF Dial
  <2> QED
    BY <1>1, <1>a, <1>b, <2>1, <2>2 DEF Dial
<1>2. CASE Close
  BY <1>2, <1>a, <1>b DEF Close, Links
<1>3. ASSUME NEW c \in Callers, NEW o \in Calls, Begin(c, o) PROVE TypeOK'
  <2>1. o \in Operation
    BY ConnAssumption
  <2>2. calls' \in Nat /\ call' \in [Callers -> Nat]
    BY <1>3, <1>b DEF Begin
  <2>3. op' \in [Callers -> Operation \cup {NoOperation}]
    BY <1>3, <1>b, <2>1 DEF Begin
  <2>4. pc' \in [Callers -> Places]
    BY <1>3, <1>b DEF Begin, Places
  <2> QED
    BY <1>3, <1>a, <1>b, <2>2, <2>3, <2>4 DEF Begin
<1>4. ASSUME NEW c \in Callers, Lock(c) PROVE TypeOK'
  <2>1. pc' \in [Callers -> Places] /\ mu' \in Callers \cup {NoOne}
    BY <1>4, <1>b DEF Lock, Places
  <2> QED
    BY <1>4, <1>a, <1>b, <2>1 DEF Lock
<1>5. 0 \in Nat /\ {"subscribed", "encode", "tooOld"} \subseteq Errors
  BY DEF Errors
<1>6. ASSUME NEW c \in Callers, ask(c) PROVE TypeOK'
  <2>1. CASE Return(c, "subscribed", 0) /\ UNCHANGED <<spent, toNode, sent>>
    BY <1>5, <1>6, <1>a, <1>b, <2>1, ReturnTypes DEF ask
  <2>2. CASE SpendCredential /\ Return(c, "encode", 0) /\ UNCHANGED <<toNode, sent>>
    BY <1>5, <1>6, <1>a, <1>b, <2>2, ReturnTypes, SpendTypes DEF ask
  <2>3. CASE SendStatement(c)
    BY <1>6, <1>a, <1>b, <2>3, SendStatementTypes DEF ask
  <2> QED
    BY <1>6, <2>1, <2>2, <2>3 DEF ask
<1>7. ASSUME NEW c \in Callers, vaultFrame(c) PROVE TypeOK'
  <2>1. ASSUME NEW err \in {"tooOld", "subscribed"}, Return(c, err, 0),
               UNCHANGED <<spent, toNode, sent>>
        PROVE  TypeOK'
    BY <1>5, <1>7, <1>a, <1>b, <2>1, ReturnTypes DEF vaultFrame
  <2>2. CASE SendStatement(c)
    BY <1>7, <1>a, <1>b, <2>2, SendStatementTypes DEF vaultFrame
  <2> QED
    BY <1>7, <2>1, <2>2 DEF vaultFrame
<1>8. ASSUME NEW c \in Callers, subscribe(c) \/ narrowed(c) PROVE TypeOK'
  <2>1. /\ UNCHANGED <<link, peerMinor, spent, call, calls, toClient, handed, published>>
        /\ op[c].method \in {"subscribe", "narrowed"}
    BY <1>8 DEF subscribe, narrowed
  <2>2. ASSUME NEW err \in {"tooOld", "subscribed", "encode"}, Return(c, err, 0),
               UNCHANGED <<subscribed, feed, toNode, sent>>
        PROVE  TypeOK'
    BY <1>5, <1>8, <1>a, <1>b, <2>1, <2>2, ReturnTypes
  <2>3. ASSUME NEW kinds \in SUBSET {"change", "progress", "refusal"}, SendSubscribe(c, kinds)
        PROVE  TypeOK'
    BY <1>8, <1>a, <1>b, <2>1, <2>3, SendSubscribeTypes
  <2>4. changeFrames \in SUBSET {"change", "progress", "refusal"}
        /\ narrowedFrames \in SUBSET {"change", "progress", "refusal"}
    BY DEF changeFrames, narrowedFrames
  <2> QED
    BY <1>8, <2>2, <2>3, <2>4 DEF subscribe, narrowed
<1>9. ASSUME NEW c \in Callers, ReadReply(c) PROVE TypeOK'
  <2>1. PICK r \in readFrame(statementFrames) :
          Return(c, IF r.err # "none" THEN r.err ELSE Judge(r.frame, op[c].method = "ask"),
                 r.frame.call)
    BY <1>9 DEF ReadReply
  <2>2. r.frame.call \in Nat /\ r.err \in Errors
    BY <2>1, ReadFrameTypes DEF Frame
  <2>3. Judge(r.frame, op[c].method = "ask") \in Errors
    BY JudgeTypes DEF Errors
  <2>4. (IF r.err # "none" THEN r.err ELSE Judge(r.frame, op[c].method = "ask")) \in Errors
    BY <2>2, <2>3
  <2>5. toClient' \in Seq(Frame)
    BY <1>9, ConsumeTypes DEF ReadReply
  <2> HIDE DEF Types
  <2>6. /\ result' \in [Callers -> Result]
        /\ op' \in [Callers -> Operation \cup {NoOperation}]
        /\ mu' \in Callers \cup {NoOne} /\ pc' \in [Callers -> Places]
    BY <1>9, <2>1, <2>2, <2>4, ReturnTypes
  <2> QED
    BY <1>9, <1>a, <1>b, <2>5, <2>6 DEF ReadReply, Types
<1>10. CASE DeliverReads
  <2>1. PICK r \in readFrame(feed.kinds) :
          LET err == IF r.err # "none" THEN r.err ELSE Judge(r.frame, FALSE)
          IN  feed' = CASE err = "eof"  -> [feed EXCEPT !.at = "ended"]
                        [] err = "none" -> [feed EXCEPT !.at = "handing", !.item = r.frame]
                        [] OTHER -> [feed EXCEPT !.at = "ended", !.fail = err]
    BY <1>10 DEF DeliverReads
  <2> DEFINE err == IF r.err # "none" THEN r.err ELSE Judge(r.frame, FALSE)
  <2>2. r.frame \in Frame /\ err \in Errors
    BY ReadFrameTypes, JudgeTypes DEF Errors
  <2>3. feed' \in {[feed EXCEPT !.at = "ended"],
                   [feed EXCEPT !.at = "handing", !.item = r.frame],
                   [feed EXCEPT !.at = "ended", !.fail = err]}
    BY <2>1
  <2> HIDE DEF err
  <2>4. feed' \in Feeds
    BY <1>b, <2>2, <2>3 DEF Feeds
  <2>5. toClient' \in Seq(Frame)
    BY <1>10, ConsumeTypes DEF DeliverReads
  <2> QED
    BY <1>10, <1>a, <1>b, <2>4, <2>5 DEF DeliverReads
<1>11. CASE Receive
  <2>1. feed' \in Feeds
    BY <1>11, <1>b, NoFrameType DEF Receive, Feeds
  <2>2. feed.item \in Frame
    BY <1>b DEF Feeds
  <2>3. handed' \in Seq(Frame)
    BY <1>11, <1>b, <2>2, OneMore DEF Receive
  <2> QED
    BY <1>11, <1>a, <1>b, <2>1, <2>3 DEF Receive
<1>12. ASSUME NEW kind \in {"answer", "refusal", "elsewhere", "change", "progress", "other"},
              NEW about \in Nat, NEW n \in Nat, NEW body \in {"good", "bad", "cut"},
              NodeSends(kind, about, n, body)
       PROVE  toClient' \in Seq(Frame) /\ link' \in Links
  <2>1. [kind |-> kind, call |-> about, n |-> n, body |-> body] \in Frame
    BY DEF Frame
  <2> QED
    BY <1>12, <1>b, <2>1, OneMore DEF NodeSends, Links
<1>13. CASE NodeAnswers
  <2>1. Head(toNode) \in Request /\ Tail(toNode) \in Seq(Request)
    BY <1>13, <1>b, SplitSeq DEF NodeAnswers
  <2>2. Head(toNode).call \in Nat
    BY <2>1 DEF Request
  <2>3. toClient' \in Seq(Frame) /\ link' \in Links
    BY <1>12, <1>13, <2>2 DEF NodeAnswers, statementFrames
  <2> QED
    BY <1>13, <1>a, <1>b, <2>1, <2>3 DEF NodeAnswers
<1>14. CASE NodeSubscribes
  <2>1. toNode' \in Seq(Request)
    BY <1>14, <1>b, SplitSeq DEF NodeSubscribes
  <2>2. published' \in Publications
    BY <1>14, <1>b DEF NodeSubscribes, Publications
  <2> QED
    BY <1>14, <1>a, <1>b, <2>1, <2>2 DEF NodeSubscribes
<1>15. CASE NodeFeeds
  <2>1. PICK kind \in narrowedFrames \cup {"other"}, body \in {"good", "bad", "cut"} :
          /\ NodeSends(kind, 0, published.sent + 1, body)
          /\ published' = [on |-> kind # "refusal", sent |-> published.sent + 1]
    BY <1>15 DEF NodeFeeds
  <2>2. published.sent + 1 \in Nat
    BY <1>b DEF Publications
  <2>3. toClient' \in Seq(Frame) /\ link' \in Links
    BY <1>12, <2>1, <2>2 DEF narrowedFrames
  <2>4. (kind # "refusal") \in BOOLEAN
    OBVIOUS
  <2>5. published' \in Publications
    BY <2>1, <2>2, <2>4 DEF Publications
  <2> QED
    BY <1>15, <1>a, <1>b, <2>3, <2>5 DEF NodeFeeds
<1>16. CASE NodeLeaves
  <2>1. toClient' \in Seq(Frame) /\ toNode' \in Seq(Request) /\ link' \in Links
    <3>1. <<>> \in Seq(Frame) /\ <<>> \in Seq(Request)
      OBVIOUS
    <3> QED
      BY <1>16, <1>b, <3>1 DEF NodeLeaves, Links
  <2> QED
    BY <1>16, <1>a, <1>b, <2>1 DEF NodeLeaves
<1>17. CASE UNCHANGED vars
  BY <1>17 DEF vars, TypeOK
<1> QED
  BY <1>1, <1>2, <1>3, <1>4, <1>6, <1>7, <1>8, <1>9, <1>10, <1>11, <1>13, <1>14, <1>15, <1>16,
     <1>17 DEF Next, CallerStep, NodeStep

\* Every variable keeps its type, also the frames under way in either direction.
THEOREM TypeCorrect == Spec => []TypeOK
BY InitTypes, TypeStep, PTL DEF Spec

-----------------------------------------------------------------------------
(***************************************************************************)
(* Whose turn it is: until a subscription, what is under way in either     *)
(* direction is the request or the answer of the one caller that reads;    *)
(* after one, no caller reads and nothing more is written.                 *)
(***************************************************************************)
statements == {"ask", "vault", "declare"}

subscribes == {"subscribe", "narrowed"}

Live == link \in {"none", "up"}

Holds == \A c \in Callers : pc[c] \in {"locked", "reading"} => mu = c

Awaited(n) == \E c \in Callers : pc[c] = "reading" /\ call[c] = n

Unfed == published.on = FALSE /\ published.sent = 0 /\ feed.at = "none" /\ handed = <<>>

Quiet ==
  ~subscribed =>
    /\ Unfed
    /\ Len(toClient) <= 1
    /\ toClient # <<>> => Awaited(Head(toClient).call)
    /\ Live /\ toNode # <<>> =>
         /\ toClient = <<>> /\ Len(toNode) = 1
         /\ Awaited(Head(toNode).call) /\ Head(toNode).of \in statements
    /\ \A i \in 1 .. Len(sent) : sent[i].of \in statements

Consumed ==
  subscribed =>
    /\ \A c \in Callers : pc[c] # "reading"
    /\ Live => \A i \in 1 .. Len(toNode) : toNode[i].of \in subscribes
    /\ \A i \in 1 .. Len(sent) : sent[i].of \in subscribes => i = Len(sent)

Turns == TypeOK /\ Holds /\ Quiet /\ Consumed /\ AnswerMatches

\* A caller that has mu and has written nothing finds nothing under way.
LEMMA LockedAlone ==
  ASSUME Turns, NEW c \in Callers, pc[c] = "locked"
  PROVE  /\ mu = c
         /\ \A o \in Callers : pc[o] # "reading" /\ (o # c => pc[o] # "locked")
         /\ ~subscribed => toClient = <<>> /\ (Live => toNode = <<>>)
<1>1. mu = c /\ \A o \in Callers : pc[o] # "reading" /\ (o # c => pc[o] # "locked")
  BY DEF Turns, Holds
<1> QED
  BY <1>1 DEF Turns, Quiet, Awaited

LEMMA ReturnEffect ==
  ASSUME TypeOK, NEW c \in Callers, NEW err, NEW answers, Return(c, err, answers)
  PROVE  /\ pc'[c] = "idle" /\ \A o \in Callers \ {c} : pc'[o] = pc[o]
         /\ mu' = NoOne
         /\ result'[c].call = call[c] /\ result'[c].answers = answers
         /\ \A o \in Callers \ {c} : result'[o] = result[o]
BY DEF TypeOK, Return

\* Returning keeps mu with one caller, and every result an answer of its own call.
LEMMA ReturnTurns ==
  ASSUME Turns, NEW c \in Callers, pc[c] \in {"locked", "reading"}, NEW err,
         NEW answers \in {0, call[c]}, Return(c, err, answers)
  PROVE  /\ Holds' /\ AnswerMatches'
         /\ \A o \in Callers : pc'[o] = "reading" => FALSE
<1>1. mu = c
  BY DEF Turns, Holds
<1>2. \A o \in Callers \ {c} : pc[o] \notin {"locked", "reading"}
  BY <1>1 DEF Turns, Holds
<1>3. /\ pc'[c] = "idle" /\ \A o \in Callers \ {c} : pc'[o] = pc[o]
      /\ result'[c].call = call[c] /\ result'[c].answers = answers
      /\ \A o \in Callers \ {c} : result'[o] = result[o]
  BY ReturnEffect DEF Turns
<1>4. Holds' /\ \A o \in Callers : pc'[o] = "reading" => FALSE
  BY <1>2, <1>3 DEF Holds
<1>5. AnswerMatches'
  BY <1>3 DEF Turns, AnswerMatches
<1> QED
  BY <1>4, <1>5

\* A method that returns before it writes leaves the wire as it was.
LEMMA RefusedTurns ==
  ASSUME Turns, TypeOK', NEW c \in Callers, pc[c] = "locked", NEW err, Return(c, err, 0),
         UNCHANGED <<link, subscribed, toNode, toClient, sent, feed, handed, published>>
  PROVE  Turns'
<1>1. Holds' /\ AnswerMatches' /\ \A o \in Callers : pc'[o] = "reading" => FALSE
  BY ReturnTurns
<1>2. Quiet'
  BY LockedAlone DEF Turns, Quiet, Unfed, Live
<1>3. Consumed'
  BY <1>1 DEF Turns, Consumed, Live
<1> QED
  BY <1>1, <1>2, <1>3 DEF Turns

\* What a write puts on the wire.
LEMMA CarryEffect ==
  ASSUME TypeOK, NEW f \in Request, NEW err, Carry(f, err)
  PROVE  \/ UNCHANGED <<toNode, sent>> /\ (err = "none" => link # "up")
         \/ /\ err = "none" /\ link = "up"
            /\ Len(toNode') = Len(toNode) + 1 /\ toNode'[Len(toNode) + 1] = f
            /\ \A i \in 1 .. Len(toNode) : toNode'[i] = toNode[i]
            /\ toNode = <<>> => Head(toNode') = f
            /\ Len(sent') = Len(sent) + 1 /\ sent'[Len(sent) + 1] = f
            /\ \A i \in 1 .. Len(sent) : sent'[i] = sent[i]
            /\ Len(toNode) \in Nat /\ Len(sent) \in Nat
<1>1. toNode \in Seq(Request) /\ sent \in Seq(Request)
  BY DEF TypeOK
<1>2. CASE err = "none" /\ link = "up"
  <2>1. toNode' = Append(toNode, f) /\ sent' = Append(sent, f)
    BY <1>2 DEF Carry
  <2> QED
    BY <1>1, <1>2, <2>1, OneMore
<1>3. CASE ~(err = "none" /\ link = "up")
  BY <1>3 DEF Carry
<1> QED
  BY <1>2, <1>3

LEMMA SendStatementTurns ==
  ASSUME Turns, TypeOK', NEW c \in Callers, pc[c] = "locked", ~subscribed,
         op[c].method \in statements, SendStatement(c),
         UNCHANGED <<link, subscribed, call, toClient, feed, handed, published>>
  PROVE  Turns'
<1>a. TypeOK
  BY DEF Turns
<1> DEFINE f == FrameOf(c, PresentCredential)
<1>1. f \in Request /\ f.call = call[c] /\ f.of \in statements
  <2>1. f \in Request
    BY <1>a, FrameOfTypes, PresentTypes DEF statements
  <2> QED
    BY <2>1 DEF FrameOf
<1>2. PICK err \in writeFrame(op[c].body) :
        /\ Carry(f, err)
        /\ IF err = "none"
             THEN pc' = [pc EXCEPT ![c] = "reading"] /\ UNCHANGED <<mu, op, result>>
             ELSE Return(c, err, 0)
  BY DEF SendStatement
<1> HIDE DEF f
<1>3. CASE err # "none"
  <2>1. UNCHANGED <<toNode, sent>>
    BY <1>2, <1>3 DEF Carry
  <2> QED
    BY <1>2, <1>3, <2>1, RefusedTurns
<1>4. CASE err = "none"
  <2>1. /\ pc'[c] = "reading" /\ \A o \in Callers \ {c} : pc'[o] = pc[o]
        /\ UNCHANGED <<mu, result>>
    BY <1>a, <1>2, <1>4 DEF TypeOK
  <2>2. Holds' /\ AnswerMatches' /\ Awaited(call[c])'
    BY <2>1 DEF Turns, Holds, AnswerMatches, Awaited
  <2>3. toClient' = <<>> /\ Len(toClient') = 0 /\ (Live => toNode = <<>> /\ Len(toNode) = 0)
    BY LockedAlone
  <2>4. Quiet'
    <3>1. CASE UNCHANGED <<toNode, sent>> /\ link # "up"
      BY <2>3, <3>1 DEF Turns, Quiet, Unfed, Live
    <3>2. CASE /\ link = "up"
               /\ Len(toNode') = Len(toNode) + 1
               /\ toNode = <<>> => Head(toNode') = f
               /\ Len(sent') = Len(sent) + 1 /\ sent'[Len(sent) + 1] = f
               /\ \A i \in 1 .. Len(sent) : sent'[i] = sent[i]
               /\ Len(sent) \in Nat
      <4>1. Len(toNode') = 1 /\ Head(toNode') = f
        BY <2>3, <3>2 DEF Live
      <4>2. \E o \in Callers : pc'[o] = "reading" /\ call'[o] = Head(toNode').call
        BY <1>1, <2>1, <4>1
      <4>3. \A i \in 1 .. Len(sent') : sent'[i].of \in statements
        BY <1>1, <3>2 DEF Turns, Quiet
      <4> QED
        BY <1>1, <2>2, <2>3, <4>1, <4>2, <4>3 DEF Turns, Quiet, Unfed, Awaited
    <3> QED
      BY <1>1, <1>2, <1>4, <1>a, <3>1, <3>2, CarryEffect
  <2>5. Consumed'
    BY DEF Consumed
  <2> QED
    BY <2>2, <2>4, <2>5 DEF Turns
<1> QED
  BY <1>3, <1>4

LEMMA SendSubscribeTurns ==
  ASSUME Turns, TypeOK', NEW c \in Callers, pc[c] = "locked", ~subscribed,
         op[c].method \in subscribes, NEW kinds, SendSubscribe(c, kinds),
         UNCHANGED <<link, call, toClient, handed, published>>
  PROVE  Turns'
<1>a. TypeOK
  BY DEF Turns
<1> DEFINE f == FrameOf(c, FALSE)
<1>1. f \in Request /\ f.of \in subscribes
  <2>1. f \in Request
    BY <1>a, FrameOfTypes DEF subscribes
  <2> QED
    BY <2>1 DEF FrameOf
<1>2. PICK err \in writeFrame(op[c].body) :
        /\ Carry(f, err)
        /\ Return(c, err, 0)
        /\ IF err = "none"
             THEN /\ subscribed' = TRUE
                  /\ feed' = [NoFeed EXCEPT !.at = "reading", !.kinds = kinds]
             ELSE UNCHANGED <<subscribed, feed>>
  BY DEF SendSubscribe
<1> HIDE DEF f
<1>3. CASE err # "none"
  <2>1. UNCHANGED <<toNode, sent>>
    BY <1>2, <1>3 DEF Carry
  <2> QED
    BY <1>2, <1>3, <2>1, RefusedTurns
<1>4. CASE err = "none"
  <2>1. Holds' /\ AnswerMatches' /\ \A o \in Callers : pc'[o] = "reading" => FALSE
    BY <1>2, ReturnTurns
  <2>2. subscribed' = TRUE /\ (Live => Len(toNode) = 0)
    BY <1>2, <1>4, LockedAlone
  <2>3. \A i \in 1 .. Len(sent) : sent[i].of \in statements /\ sent[i].of \notin subscribes
    BY DEF Turns, Quiet, statements, subscribes
  <2>4. Consumed'
    <3>1. CASE UNCHANGED <<toNode, sent>> /\ link # "up"
      BY <2>1, <2>2, <2>3, <3>1 DEF Consumed, Live
    <3>2. CASE /\ link = "up"
               /\ Len(toNode') = Len(toNode) + 1 /\ toNode'[Len(toNode) + 1] = f
               /\ Len(sent') = Len(sent) + 1
               /\ \A i \in 1 .. Len(sent) : sent'[i] = sent[i]
               /\ Len(sent) \in Nat
      <4>1. \A i \in 1 .. Len(toNode') : toNode'[i].of \in subscribes
        BY <1>1, <2>2, <3>2 DEF Live
      <4>2. \A i \in 1 .. Len(sent') : sent'[i].of \in subscribes => i = Len(sent')
        BY <2>3, <3>2
      <4> QED
        BY <2>1, <4>1, <4>2 DEF Consumed
    <3> QED
      BY <1>1, <1>2, <1>4, <1>a, <3>1, <3>2, CarryEffect
  <2>5. Quiet'
    BY <2>2 DEF Quiet
  <2> QED
    BY <2>1, <2>4, <2>5 DEF Turns
<1> QED
  BY <1>3, <1>4

\* A step that neither moves a caller nor touches what is under way.
LEMMA TurnsKept ==
  ASSUME Turns, TypeOK',
         UNCHANGED <<subscribed, mu, pc, call, result, toNode, toClient, sent>>,
         Live' => Live, ~subscribed => UNCHANGED <<feed, handed, published>>
  PROVE  Turns'
<1>1. Holds' /\ AnswerMatches'
  BY DEF Turns, Holds, AnswerMatches
<1>2. Quiet'
  BY DEF Turns, Quiet, Unfed, Awaited
<1>3. Consumed'
  BY DEF Turns, Consumed
<1> QED
  BY <1>1, <1>2, <1>3 DEF Turns

\* On a consumed connection only what was written may be disturbed.
LEMMA ConsumedKept ==
  ASSUME Turns, TypeOK', subscribed, UNCHANGED <<subscribed, mu, pc, result, sent>>,
         Live' => Live /\ \A i \in 1 .. Len(toNode') : toNode'[i].of \in subscribes
  PROVE  Turns'
<1>1. Holds' /\ AnswerMatches'
  BY DEF Turns, Holds, AnswerMatches
<1>2. Quiet' /\ Consumed'
  BY DEF Turns, Quiet, Consumed
<1> QED
  BY <1>1, <1>2 DEF Turns

LEMMA TurnsStep == Turns /\ [Next]_vars => Turns'
<1> SUFFICES ASSUME Turns, [Next]_vars PROVE Turns'
  OBVIOUS
<1> USE DEF connVars, callVars, wireVars, feedVars
<1>a. TypeOK /\ TypeOK'
  BY TypeStep DEF Turns
<1>1. CASE Dial \/ Close
  BY <1>1, <1>a, TurnsKept DEF Dial, Close, Live
<1>2. ASSUME NEW c \in Callers, NEW o \in Calls, Begin(c, o) PROVE Turns'
  <2>1. /\ pc[c] = "idle" /\ pc'[c] = "waiting" /\ \A v \in Callers \ {c} : pc'[v] = pc[v]
        /\ \A v \in Callers \ {c} : call'[v] = call[v]
        /\ UNCHANGED <<connVars, mu, result, wireVars, feedVars, published>>
    BY <1>2, <1>a DEF TypeOK, Begin
  <2>2. Holds' /\ AnswerMatches'
    BY <2>1 DEF Turns, Holds, AnswerMatches
  <2>3. \A n : Awaited(n) => Awaited(n)'
    <3>1. ASSUME NEW n, NEW v \in Callers, pc[v] = "reading", call[v] = n
          PROVE  pc'[v] = "reading" /\ call'[v] = n
      BY <2>1, <3>1
    <3> QED
      BY <3>1 DEF Awaited
  <2>4. Quiet'
    <3>1. toClient # <<>> /\ ~subscribed => Awaited(Head(toClient).call)'
      BY <2>3, <2>1 DEF Turns, Quiet, Awaited
    <3>2. Live /\ toNode # <<>> /\ ~subscribed => Awaited(Head(toNode).call)'
      BY <2>3, <2>1 DEF Turns, Quiet, Awaited
    <3> QED
      BY <2>1, <3>1, <3>2 DEF Turns, Quiet, Unfed, Live
  <2>5. Consumed'
    BY <2>1 DEF Turns, Consumed, Live
  <2> QED
    BY <1>a, <2>2, <2>4, <2>5 DEF Turns
<1>3. ASSUME NEW c \in Callers, Lock(c) PROVE Turns'
  <2>1. /\ pc[c] = "waiting" /\ pc'[c] = "locked" /\ \A v \in Callers \ {c} : pc'[v] = pc[v]
        /\ mu = NoOne /\ mu' = c
        /\ UNCHANGED <<connVars, call, result, wireVars, feedVars, published>>
    BY <1>3, <1>a DEF TypeOK, Lock
  <2>2. \A v \in Callers : pc[v] \notin {"locked", "reading"}
    BY <2>1, ConnAssumption DEF Turns, Holds
  <2>3. Holds' /\ AnswerMatches' /\ \A v \in Callers : pc'[v] # "reading"
    BY <2>1, <2>2 DEF Turns, Holds, AnswerMatches
  <2>4. Quiet'
    BY <2>1, <2>2 DEF Turns, Quiet, Awaited, Unfed, Live
  <2>5. Consumed'
    BY <2>1, <2>3 DEF Turns, Consumed, Live
  <2> QED
    BY <1>a, <2>3, <2>4, <2>5 DEF Turns
<1>4. ASSUME NEW c \in Callers, ask(c) PROVE Turns'
  <2>1. CASE \E err \in {"subscribed", "encode"} : Return(c, err, 0) /\ UNCHANGED <<toNode, sent>>
    BY <1>4, <1>a, <2>1, RefusedTurns DEF ask
  <2>2. CASE ~subscribed /\ SendStatement(c)
    BY <1>4, <1>a, <2>2, SendStatementTurns DEF ask, statements
  <2> QED
    BY <1>4, <2>1, <2>2 DEF ask
<1>5. ASSUME NEW c \in Callers, vaultFrame(c) PROVE Turns'
  <2>1. CASE \E err \in {"subscribed", "tooOld"} : Return(c, err, 0) /\ UNCHANGED <<toNode, sent>>
    BY <1>5, <1>a, <2>1, RefusedTurns DEF vaultFrame
  <2>2. CASE ~subscribed /\ SendStatement(c)
    BY <1>5, <1>a, <2>2, SendStatementTurns DEF vaultFrame, statements
  <2> QED
    BY <1>5, <2>1, <2>2 DEF vaultFrame
<1>6. ASSUME NEW c \in Callers, subscribe(c) \/ narrowed(c) PROVE Turns'
  <2>1. /\ UNCHANGED <<link, call, toClient, handed, published>>
        /\ pc[c] = "locked" /\ op[c].method \in subscribes
    BY <1>6 DEF subscribe, narrowed, subscribes
  <2>2. CASE \E err \in {"subscribed", "tooOld", "encode"} :
               Return(c, err, 0) /\ UNCHANGED <<subscribed, feed, toNode, sent>>
    BY <1>a, <2>1, <2>2, RefusedTurns
  <2>3. CASE ~subscribed /\ \E kinds \in {changeFrames, narrowedFrames} : SendSubscribe(c, kinds)
    BY <1>a, <2>1, <2>3, SendSubscribeTurns
  <2> QED
    BY <1>6, <2>2, <2>3 DEF subscribe, narrowed
<1>7. ASSUME NEW c \in Callers, ReadReply(c) PROVE Turns'
  <2>1. PICK r \in readFrame(statementFrames) :
          Return(c, IF r.err # "none" THEN r.err ELSE Judge(r.frame, op[c].method = "ask"),
                 r.frame.call)
    BY <1>7 DEF ReadReply
  <2>2. pc[c] = "reading" /\ ~subscribed /\ \A o \in Callers \ {c} : pc[o] # "reading"
    BY <1>7 DEF ReadReply, Turns, Consumed, Holds
  <2>3. r.frame.call \in {0, call[c]}
    <3>1. toClient # <<>> => Head(toClient).call = call[c]
      BY <2>2 DEF Turns, Quiet, Awaited
    <3>2. NoFrame.call = 0
      BY DEF NoFrame
    <3> QED
      BY <1>a, <2>1, <3>1, <3>2, ReadFrameTypes
  <2>4. Holds' /\ AnswerMatches' /\ \A o \in Callers : pc'[o] = "reading" => FALSE
    BY <2>1, <2>2, <2>3, ReturnTurns
  <2>5. toClient' = <<>> /\ Len(toClient') = 0
    <3>a. toClient \in Seq(Frame)
      BY <1>a DEF TypeOK
    <3>b. Len(toClient) <= 1
      BY <2>2 DEF Turns, Quiet
    <3>1. ASSUME toClient # <<>>
          PROVE  Len(Tail(toClient)) = 0 /\ Tail(toClient) \in Seq(Frame)
      <4>1. /\ Len(toClient) \in Nat \ {0} /\ Len(Tail(toClient)) = Len(toClient) - 1
            /\ Tail(toClient) \in Seq(Frame)
        BY <3>a, <3>1, SplitSeq
      <4> QED
        BY <3>b, <4>1
    <3>2. Tail(toClient) = <<>> \/ toClient = <<>>
      BY <3>1, EmptySeq
    <3> QED
      BY <1>7, <3>2 DEF ReadReply, Consume
  <2>6. Live => toNode = <<>>
    BY <1>a, <2>1, <2>2, ReadFrameTypes DEF Live, Turns, Quiet
  <2>7. Quiet'
    BY <1>7, <2>2, <2>5, <2>6 DEF ReadReply, Turns, Quiet, Unfed, Live
  <2>8. Consumed'
    BY <1>7, <2>2 DEF ReadReply, Consumed
  <2> QED
    BY <1>a, <2>4, <2>7, <2>8 DEF Turns
<1>8. CASE DeliverReads \/ Receive
  <2>1. subscribed
    BY <1>8 DEF DeliverReads, Receive, Turns, Quiet, Unfed
  <2>2. UNCHANGED <<subscribed, mu, pc, result, sent, toNode, link>>
    BY <1>8 DEF DeliverReads, Receive
  <2>3. Live' => Live /\ \A i \in 1 .. Len(toNode') : toNode'[i].of \in subscribes
    <3>1. Live' => Live
      BY <2>2 DEF Live
    <3>2. toNode' = toNode
      BY <2>2
    <3>3. Live => \A i \in 1 .. Len(toNode) : toNode[i].of \in subscribes
      BY <1>a, <2>1 DEF Turns, Consumed
    <3> QED
      BY <3>1, <3>2, <3>3, Zenon
  <2> QED
    BY <1>a, <2>1, <2>2, <2>3, ConsumedKept, Zenon
<1>9. CASE NodeAnswers
  <2>1. toNode \in Seq(Request) /\ toNode # <<>> /\ link = "up" /\ Head(toNode).of \in statements
    BY <1>9, <1>a DEF NodeAnswers, TypeOK, statements
  <2>2. Len(toNode) \in Nat \ {0} /\ Head(toNode) = toNode[1] /\ Len(Tail(toNode)) = Len(toNode) - 1
        /\ Tail(toNode) \in Seq(Request)
    BY <2>1, SplitSeq
  <2>3. ~subscribed
    BY <2>1, <2>2 DEF Turns, Consumed, Live, statements, subscribes
  <2>4. Len(toNode) = 1 /\ toClient = <<>> /\ Awaited(Head(toNode).call)
    BY <2>1, <2>3 DEF Turns, Quiet, Live
  <2>5. toNode' = <<>>
    BY <1>9, <2>2, <2>4, EmptySeq DEF NodeAnswers
  <2>6. PICK kind \in statementFrames \cup {"other"}, body \in {"good", "bad", "cut"} :
          NodeSends(kind, Head(toNode).call, 0, body)
    BY <1>9 DEF NodeAnswers
  <2> DEFINE g == [kind |-> kind, call |-> Head(toNode).call, n |-> 0, body |-> body]
  <2>7. g \in Frame
    <3>a. Head(toNode) \in Request
      BY <2>1, SplitSeq
    <3>1. Head(toNode).call \in Nat
      BY <3>a DEF Request
    <3> QED
      BY <3>1 DEF Frame, statementFrames
  <2>8. toClient' = Append(<<>>, g) /\ g.call = Head(toNode).call
    BY <2>4, <2>6 DEF NodeSends
  <2> HIDE DEF g
  <2>9. Len(toClient') = 1 /\ Head(toClient') = g
    BY <2>7, <2>8
  <2>10. UNCHANGED <<subscribed, mu, pc, call, result, sent, feed, handed, published>>
    BY <1>9 DEF NodeAnswers
  <2>11. Quiet'
    BY <2>3, <2>4, <2>5, <2>8, <2>9, <2>10 DEF Turns, Quiet, Unfed, Awaited
  <2>12. Holds' /\ AnswerMatches' /\ Consumed'
    BY <2>3, <2>10 DEF Turns, Holds, AnswerMatches, Consumed
  <2> QED
    BY <1>a, <2>11, <2>12 DEF Turns
<1>10. CASE NodeSubscribes
  <2>1. toNode \in Seq(Request) /\ toNode # <<>> /\ link = "up" /\ Head(toNode).of \in subscribes
    BY <1>10, <1>a DEF NodeSubscribes, TypeOK, subscribes
  <2>2. Len(toNode) \in Nat \ {0} /\ Len(toNode') = Len(toNode) - 1
        /\ \A i \in 1 .. Len(toNode) - 1 : toNode'[i] = toNode[i + 1]
    BY <1>10, <2>1, SplitSeq DEF NodeSubscribes
  <2>3. subscribed
    BY <2>1 DEF Turns, Quiet, Live, statements, subscribes
  <2>4. \A i \in 1 .. Len(toNode') : toNode'[i].of \in subscribes
    BY <2>1, <2>2, <2>3 DEF Turns, Consumed, Live
  <2> QED
    BY <1>10, <1>a, <2>3, <2>4, ConsumedKept DEF NodeSubscribes, Live
<1>11. CASE NodeFeeds
  <2>1. subscribed
    BY <1>11 DEF NodeFeeds, Turns, Quiet, Unfed
  <2>2. UNCHANGED <<subscribed, mu, pc, result, sent, toNode>> /\ link = "up"
    BY <1>11 DEF NodeFeeds
  <2>3. \A i \in 1 .. Len(toNode') : toNode'[i].of \in subscribes
    BY <2>1, <2>2 DEF Live, Turns, Consumed
  <2> QED
    BY <1>a, <2>1, <2>2, <2>3, ConsumedKept DEF Live
<1>12. CASE NodeLeaves
  <2>1. /\ ~Live' /\ toNode' = <<>> /\ toClient' \in {toClient, <<>>}
        /\ UNCHANGED <<subscribed, mu, pc, call, result, sent, feed, handed, published>>
    BY <1>12 DEF NodeLeaves, Live
  <2>2. Holds' /\ AnswerMatches' /\ Consumed'
    BY <2>1 DEF Turns, Holds, AnswerMatches, Consumed
  <2>3. Quiet'
    BY <2>1 DEF Turns, Quiet, Unfed, Awaited
  <2> QED
    BY <1>a, <2>2, <2>3 DEF Turns
<1>13. CASE UNCHANGED vars
  BY <1>13, <1>a, TurnsKept DEF vars, Live
<1> QED
  BY <1>1, <1>2, <1>3, <1>4, <1>5, <1>6, <1>7, <1>8, <1>9, <1>10, <1>11, <1>12, <1>13
     DEF Next, CallerStep, NodeStep

LEMMA InitTurns == Init => Turns
<1> SUFFICES ASSUME Init PROVE Turns
  OBVIOUS
<1>1. Holds /\ Quiet /\ Consumed
  BY DEF Init, Holds, Quiet, Consumed, Unfed, NoFeed
<1>2. AnswerMatches
  BY DEF Init, AnswerMatches, NoResult
<1> QED
  BY <1>1, <1>2, InitTypes DEF Turns

\* An answer is the answer to its own call, however many goroutines share the
\* connection and however earlier calls on it failed.
THEOREM AnswerMatchesEver == Spec => []AnswerMatches
<1>1. Turns => AnswerMatches
  BY DEF Turns
<1> QED
  BY <1>1, InitTurns, TurnsStep, PTL DEF Spec

\* A subscription consumes the connection: nothing is written after it, and no
\* caller reads beside the goroutine of deliver.
THEOREM SubscriptionConsumesEver == Spec => []SubscriptionConsumes
<1>1. Turns => SubscriptionConsumes
  <2> SUFFICES ASSUME Turns PROVE SubscriptionConsumes
    OBVIOUS
  <2>1. \A i \in 1 .. Len(sent) : sent[i].of \in {"subscribe", "narrowed"} => i = Len(sent)
    BY DEF Turns, Quiet, Consumed, statements, subscribes
  <2>2. feed.at # "none" => \A c \in Callers : pc[c] # "reading"
    BY DEF Turns, Quiet, Consumed, Unfed
  <2> QED
    BY <2>1, <2>2 DEF SubscriptionConsumes
<1> QED
  BY <1>1, InitTurns, TurnsStep, PTL DEF Spec

-----------------------------------------------------------------------------
(***************************************************************************)
(* What was written: as long as a credential is there to be presented, no  *)
(* statement went out.                                                     *)
(***************************************************************************)
Unsigned == HasCredentials /\ ~spent => \A i \in 1 .. Len(sent) : sent[i].of \in subscribes

Written ==
  /\ TypeOK
  /\ Unsigned
  /\ CredentialPresentedOnce

\* Nothing is written, and the credential is not taken back.
Silent ==
  /\ sent' = sent
  /\ HasCredentials /\ ~spent' => ~spent

\* One frame is written.
Writes(f) ==
  /\ sent' = Append(sent, f)
  /\ f.signed => HasCredentials /\ ~spent
  /\ f.of \in subscribes \/ ~(HasCredentials /\ ~spent')
  /\ HasCredentials /\ ~spent' => ~spent

LEMMA SpendEffect ==
  ASSUME SpendCredential
  PROVE  ~(HasCredentials /\ ~spent')
BY Zenon DEF SpendCredential

LEMMA PresentEffect ==
  ASSUME PresentCredential
  PROVE  HasCredentials /\ ~spent
BY Zenon DEF PresentCredential

LEMMA CarryWrites ==
  ASSUME NEW f, NEW err, Carry(f, err)
  PROVE  sent' = sent \/ sent' = Append(sent, f)
BY DEF Carry

LEMMA SendStatementWrites ==
  ASSUME TypeOK, NEW c \in Callers, op[c].method \in statements, SendStatement(c)
  PROVE  Silent \/ \E f \in Request : Writes(f)
<1> DEFINE f == FrameOf(c, PresentCredential)
<1>1. f \in Request
  BY FrameOfTypes, PresentTypes DEF statements
<1>2. f.signed = PresentCredential
  BY DEF FrameOf
<1>3. ~(HasCredentials /\ ~spent')
  BY SpendEffect DEF SendStatement
<1>4. sent' = sent \/ sent' = Append(sent, f)
  BY CarryWrites DEF SendStatement
<1>5. f.signed => HasCredentials /\ ~spent
  BY <1>2, PresentEffect
<1> HIDE DEF f
<1>6. CASE sent' = sent
  BY <1>3, <1>6 DEF Silent
<1>7. CASE sent' = Append(sent, f)
  BY <1>1, <1>3, <1>5, <1>7 DEF Writes
<1> QED
  BY <1>4, <1>6, <1>7

LEMMA SendSubscribeWrites ==
  ASSUME TypeOK, NEW c \in Callers, op[c].method \in subscribes, NEW kinds,
         SendSubscribe(c, kinds), UNCHANGED spent
  PROVE  Silent \/ \E f \in Request : Writes(f)
<1> DEFINE f == FrameOf(c, FALSE)
<1>1. f \in Request
  BY FrameOfTypes DEF subscribes
<1>2. f.signed = FALSE /\ f.of = op[c].method
  BY DEF FrameOf
<1>3. sent' = sent \/ sent' = Append(sent, f)
  BY CarryWrites DEF SendSubscribe
<1> HIDE DEF f
<1>4. f.of \in subscribes
  BY <1>2
<1>5. CASE sent' = sent
  BY <1>5 DEF Silent
<1>6. CASE sent' = Append(sent, f)
  BY <1>1, <1>2, <1>4, <1>6 DEF Writes
<1> QED
  BY <1>3, <1>5, <1>6

\* A step writes nothing or one frame.
LEMMA StepWrites ==
  ASSUME TypeOK, [Next]_vars
  PROVE  Silent \/ \E f \in Request : Writes(f)
<1> USE DEF connVars, callVars, wireVars, feedVars
<1>1. CASE Dial \/ Close
  BY <1>1 DEF Dial, Close, Silent
<1>2. ASSUME NEW c \in Callers, NEW o \in Calls, Begin(c, o) PROVE Silent
  BY <1>2 DEF Begin, Silent
<1>3. ASSUME NEW c \in Callers, Lock(c) \/ ReadReply(c) PROVE Silent
  BY <1>3 DEF Lock, ReadReply, Silent
<1>4. ASSUME NEW c \in Callers, ask(c) PROVE Silent \/ \E f \in Request : Writes(f)
  <2>1. op[c].method \in statements
    BY <1>4 DEF ask, statements
  <2>2. CASE SendStatement(c)
    BY <2>1, <2>2, SendStatementWrites
  <2>3. CASE UNCHANGED <<spent, sent>>
    BY <2>3 DEF Silent
  <2>4. CASE SpendCredential /\ UNCHANGED sent
    BY <2>4, SpendEffect DEF Silent
  <2> QED
    BY <1>4, <2>2, <2>3, <2>4 DEF ask
<1>5. ASSUME NEW c \in Callers, vaultFrame(c) PROVE Silent \/ \E f \in Request : Writes(f)
  <2>1. op[c].method \in statements
    BY <1>5 DEF vaultFrame, statements
  <2>2. CASE SendStatement(c)
    BY <2>1, <2>2, SendStatementWrites
  <2>3. CASE UNCHANGED <<spent, sent>>
    BY <2>3 DEF Silent
  <2> QED
    BY <1>5, <2>2, <2>3 DEF vaultFrame
<1>6. ASSUME NEW c \in Callers, subscribe(c) \/ narrowed(c)
      PROVE  Silent \/ \E f \in Request : Writes(f)
  <2>1. op[c].method \in subscribes /\ UNCHANGED spent
    <3>1. op[c].method \in {"subscribe", "narrowed"}
      BY <1>6, Zenon DEF subscribe, narrowed
    <3>2. UNCHANGED spent
      BY <1>6, Zenon DEF subscribe, narrowed
    <3> QED
      BY <3>1, <3>2 DEF subscribes
  <2>2. CASE UNCHANGED sent
    BY <2>1, <2>2 DEF Silent
  <2>3. ASSUME NEW kinds, SendSubscribe(c, kinds)
        PROVE  Silent \/ \E f \in Request : Writes(f)
    BY <2>1, <2>3, SendSubscribeWrites, Zenon
  <2> QED
    BY <1>6, <2>2, <2>3 DEF subscribe, narrowed
<1>7. CASE DeliverReads \/ Receive
  BY <1>7 DEF DeliverReads, Receive, Silent
<1>8. CASE NodeStep
  <2>1. UNCHANGED <<sent, spent>>
    BY <1>8 DEF NodeStep, NodeAnswers, NodeSubscribes, NodeFeeds, NodeLeaves
  <2> QED
    BY <2>1 DEF Silent
<1>9. CASE UNCHANGED vars
  BY <1>9 DEF vars, Silent
<1> QED
  BY <1>1, <1>2, <1>3, <1>4, <1>5, <1>6, <1>7, <1>8, <1>9 DEF Next, CallerStep

LEMMA InitWritten == Init => Written
BY InitTypes DEF Init, Written, Unsigned, CredentialPresentedOnce

LEMMA WrittenStep == Written /\ [Next]_vars => Written'
<1> SUFFICES ASSUME Written, [Next]_vars PROVE Written'
  OBVIOUS
<1>a. TypeOK /\ TypeOK'
  BY TypeStep DEF Written
<1>1. CASE Silent
  <2>1. Unsigned' /\ CredentialPresentedOnce'
    BY <1>1 DEF Silent, Written, Unsigned, CredentialPresentedOnce
  <2> QED
    BY <1>a, <2>1 DEF Written
<1>2. ASSUME NEW f \in Request, Writes(f) PROVE Written'
  <2>1. /\ Len(sent) \in Nat /\ Len(sent') = Len(sent) + 1 /\ sent'[Len(sent) + 1] = f
        /\ \A i \in 1 .. Len(sent) : sent'[i] = sent[i]
    <3>1. sent \in Seq(Request)
      BY <1>a DEF TypeOK
    <3>2. Append(sent, f) = sent'
      BY <1>2 DEF Writes
    <3> QED
      BY <3>1, <3>2, OneMore
  <2>2. ASSUME NEW i \in 1 .. Len(sent') PROVE i \in 1 .. Len(sent) \/ i = Len(sent) + 1
    BY <2>1
  <2>3. Unsigned'
    <3> SUFFICES ASSUME HasCredentials, ~spent' PROVE \A i \in 1 .. Len(sent') : sent'[i].of \in subscribes
      BY DEF Unsigned
    <3>1. f.of \in subscribes /\ \A i \in 1 .. Len(sent) : sent[i].of \in subscribes
      BY <1>2 DEF Writes, Written, Unsigned
    <3> QED
      BY <2>1, <2>2, <3>1
  <2>4. CredentialPresentedOnce'
    <3> SUFFICES ASSUME NEW i \in 1 .. Len(sent'), sent'[i].signed, NEW j \in 1 .. i - 1
                 PROVE  sent'[j].of \in {"subscribe", "narrowed"}
      BY DEF CredentialPresentedOnce
    <3>1. j \in 1 .. Len(sent) /\ sent'[j] = sent[j]
      BY <2>1, <2>2
    <3>2. CASE i \in 1 .. Len(sent)
      BY <2>1, <3>1, <3>2 DEF Written, CredentialPresentedOnce
    <3>3. CASE i = Len(sent) + 1
      <4>1. HasCredentials /\ ~spent
        BY <1>2, <2>1, <3>3 DEF Writes
      <4> QED
        BY <3>1, <4>1 DEF Written, Unsigned, subscribes
    <3> QED
      BY <2>2, <3>2, <3>3
  <2> QED
    BY <1>a, <2>3, <2>4 DEF Written
<1> QED
  BY <1>a, <1>1, <1>2, StepWrites

\* A connection presents its credential at most once, in front of every
\* statement that goes without it.
THEOREM CredentialPresentedOnceEver == Spec => []CredentialPresentedOnce
<1>1. Written => CredentialPresentedOnce
  BY DEF Written
<1> QED
  BY <1>1, InitWritten, WrittenStep, PTL DEF Spec

-----------------------------------------------------------------------------
(***************************************************************************)
(* A feed: its frames are numbered through what was handed over, what is   *)
(* being handed, what has arrived and, as long as nothing was lost, what   *)
(* the node published.                                                     *)
(***************************************************************************)
Open == feed.at \in {"reading", "handing"}

Taken == Len(handed) + (IF feed.at = "handing" THEN 1 ELSE 0)

Numbered(s, from) == \A i \in 1 .. Len(s) : s[i].n = from + i

Intact == link \in {"none", "up", "goodbye"}

Fed ==
  /\ subscribed => feed.at # "none"
  /\ Numbered(handed, 0)
  /\ feed.at = "handing" => feed.item.n = Len(handed) + 1
  /\ Open => Numbered(toClient, Taken)
  /\ Open /\ Intact => published.sent = Taken + Len(toClient)
  /\ feed.at = "ended" /\ feed.fail = "none" =>
       ~Live /\ Len(handed) = published.sent

Whole == Turns /\ Fed

LEMMA Lengths ==
  ASSUME TypeOK
  PROVE  /\ toClient \in Seq(Frame) /\ handed \in Seq(Frame)
         /\ Len(toClient) \in Nat /\ Len(handed) \in Nat /\ published.sent \in Nat
         /\ Taken \in Nat
BY DEF TypeOK, Taken

\* A connection without a subscription has no feed.
LEMMA UnfedFed ==
  ASSUME ~subscribed', Unfed'
  PROVE  Fed'
BY DEF Unfed, Fed, Open, Numbered

\* A step that leaves the feed alone may only lose what had arrived.
LEMMA FedKept ==
  ASSUME Whole, UNCHANGED <<subscribed, feed, handed, published>>,
         toClient' = toClient \/ (toClient' = <<>> /\ ~Intact'),
         Intact' => Intact, Live' => Live
  PROVE  Fed'
<1>1. Taken' = Taken /\ Open' = Open
  BY DEF Taken, Open
<1>2. Numbered(toClient, Taken) => Numbered(toClient', Taken')
  BY <1>1 DEF Numbered
<1>3. Open' /\ Intact' => published'.sent = Taken' + Len(toClient')
  BY <1>1 DEF Whole, Fed
<1>4. Numbered(handed', 0)
  BY DEF Whole, Fed, Numbered
<1> QED
  BY <1>1, <1>2, <1>3, <1>4 DEF Whole, Fed

\* A subscription begins on a connection where nothing is under way.
LEMMA SubscribeFed ==
  ASSUME Whole, TypeOK', NEW c \in Callers, pc[c] = "locked", ~subscribed, NEW kinds,
         SendSubscribe(c, kinds), UNCHANGED <<link, toClient, handed, published>>
  PROVE  Fed'
<1>1. toClient = <<>> /\ Unfed
  BY LockedAlone DEF Whole, Turns, Quiet
<1>2. CASE UNCHANGED <<subscribed, feed>>
  BY <1>1, <1>2, UnfedFed DEF Unfed
<1>3. CASE subscribed' = TRUE /\ feed' = [NoFeed EXCEPT !.at = "reading", !.kinds = kinds]
  <2>1. feed'.at = "reading"
    BY <1>3 DEF NoFeed
  <2>2. handed' = <<>> /\ toClient' = <<>> /\ published'.sent = 0
    BY <1>1 DEF Unfed
  <2> QED
    BY <2>1, <2>2 DEF Fed, Open, Taken, Numbered
<1> QED
  BY <1>2, <1>3 DEF SendSubscribe

LEMMA DeliverFed ==
  ASSUME Whole, TypeOK', DeliverReads
  PROVE  Fed'
<1>a. TypeOK /\ Fed
  BY DEF Whole, Turns
<1>b. /\ feed.at = "reading" /\ Consume
      /\ UNCHANGED <<link, subscribed, handed, published>>
  BY DEF DeliverReads, connVars, callVars
<1>c. Taken = Len(handed) /\ Open /\ Numbered(handed', 0)
  BY <1>a, <1>b, Lengths DEF Taken, Open, Fed, Numbered
<1>1. PICK r \in readFrame(feed.kinds) :
        LET err == IF r.err # "none" THEN r.err ELSE Judge(r.frame, FALSE)
        IN  feed' = CASE err = "eof"  -> [feed EXCEPT !.at = "ended"]
                      [] err = "none" -> [feed EXCEPT !.at = "handing", !.item = r.frame]
                      [] OTHER -> [feed EXCEPT !.at = "ended", !.fail = err]
  BY DEF DeliverReads
<1> DEFINE err == IF r.err # "none" THEN r.err ELSE Judge(r.frame, FALSE)
<1>2. err = "eof" => r.err = "eof"
  BY JudgeTypes
<1>3. err = "none" => r.err = "none"
  OBVIOUS
<1>4. feed \in Feeds
  BY <1>a DEF TypeOK, Feeds
<1>5. feed' = CASE err = "eof"  -> [feed EXCEPT !.at = "ended"]
                [] err = "none" -> [feed EXCEPT !.at = "handing", !.item = r.frame]
                [] OTHER -> [feed EXCEPT !.at = "ended", !.fail = err]
  BY <1>1
<1> HIDE DEF err
<1>6. CASE err = "eof"
  <2>1. feed'.at = "ended"
    BY <1>4, <1>5, <1>6 DEF Feeds
  <2>2. link = "goodbye" /\ toClient = <<>>
    BY <1>2, <1>6, <1>a, ReadFrameTypes
  <2>3. published.sent = Len(handed)
    BY <1>a, <1>c, <2>2, Lengths DEF Fed, Intact
  <2> QED
    BY <1>b, <1>c, <2>1, <2>2, <2>3 DEF Fed, Open, Live
<1>7. CASE err = "none"
  <2>1. feed'.at = "handing" /\ feed'.item = r.frame
    BY <1>4, <1>5, <1>7 DEF Feeds
  <2>2. toClient # <<>> /\ r.frame = Head(toClient)
    BY <1>3, <1>7, <1>a, ReadFrameTypes
  <2>3. /\ Len(toClient) \in Nat \ {0} /\ Head(toClient) = toClient[1]
        /\ Len(toClient') = Len(toClient) - 1
        /\ \A i \in 1 .. Len(toClient) - 1 : toClient'[i] = toClient[i + 1]
    BY <1>a, <1>b, <2>2, Lengths, SplitSeq DEF Consume
  <2>4. Len(handed) \in Nat /\ \A i \in 1 .. Len(toClient) : toClient[i].n = Len(handed) + i
    BY <1>a, <1>c, Lengths DEF Fed, Numbered
  <2>5. feed'.item.n = Len(handed) + 1
    BY <2>1, <2>2, <2>3, <2>4
  <2>6. Taken' = Len(handed) + 1
    BY <1>b, <2>1 DEF Taken
  <2>7. Numbered(toClient', Taken')
    <3>1. ASSUME NEW i \in 1 .. Len(toClient') PROVE toClient'[i].n = Taken' + i
      <4>1. i \in 1 .. Len(toClient) - 1 /\ i + 1 \in 1 .. Len(toClient)
        BY <2>3
      <4>2. toClient'[i].n = Len(handed) + (i + 1)
        BY <2>3, <2>4, <4>1
      <4> QED
        BY <2>4, <2>6, <4>1, <4>2
    <3> QED
      BY <3>1 DEF Numbered
  <2>8. Intact' => published'.sent = Taken' + Len(toClient')
    <3>1. Intact => published.sent = Len(handed) + Len(toClient)
      BY <1>a, <1>c DEF Fed
    <3> QED
      BY <1>b, <2>3, <2>4, <2>6, <3>1 DEF Intact
  <2> QED
    BY <1>b, <1>c, <2>1, <2>5, <2>7, <2>8 DEF Fed
<1>8. CASE err \notin {"eof", "none"}
  <2>1. feed'.at = "ended" /\ feed'.fail # "none"
    BY <1>4, <1>5, <1>8 DEF Feeds
  <2> QED
    BY <1>c, <2>1 DEF Fed, Open
<1> QED
  BY <1>6, <1>7, <1>8

LEMMA ReceiveFed ==
  ASSUME Whole, TypeOK', Receive
  PROVE  Fed'
<1>a. TypeOK /\ Fed
  BY DEF Whole, Turns
<1>1. /\ feed.at = "handing" /\ feed'.at = "reading" /\ feed.item \in Frame
      /\ handed' = Append(handed, feed.item)
      /\ UNCHANGED <<link, subscribed, toClient, published>>
  BY <1>a DEF Receive, connVars, wireVars, TypeOK
<1>2. /\ Len(handed) \in Nat /\ Len(handed') = Len(handed) + 1
      /\ handed'[Len(handed) + 1] = feed.item
      /\ \A i \in 1 .. Len(handed) : handed'[i] = handed[i]
  BY <1>a, <1>1, Lengths, OneMore
<1>3. Taken' = Taken /\ Open /\ Open'
  BY <1>1, <1>2 DEF Taken, Open
<1>4. Numbered(handed', 0)
  BY <1>a, <1>1, <1>2 DEF Fed, Numbered
<1>5. Numbered(toClient', Taken') /\ (Intact' => published'.sent = Taken' + Len(toClient'))
  BY <1>a, <1>1, <1>3 DEF Fed, Numbered, Intact
<1> QED
  BY <1>1, <1>4, <1>5 DEF Fed

LEMMA NodeFeedsFed ==
  ASSUME Whole, TypeOK', NodeFeeds
  PROVE  Fed'
<1>a. TypeOK /\ Fed
  BY DEF Whole, Turns
<1>1. PICK kind \in narrowedFrames \cup {"other"}, body \in {"good", "bad", "cut"} :
        /\ NodeSends(kind, 0, published.sent + 1, body)
        /\ published' = [on |-> kind # "refusal", sent |-> published.sent + 1]
  BY DEF NodeFeeds
<1> DEFINE g == [kind |-> kind, call |-> 0, n |-> published.sent + 1, body |-> body]
<1>2. g \in Frame
  BY Lengths, <1>a DEF Frame, narrowedFrames
<1>3. toClient' = Append(toClient, g) /\ g.n = published.sent + 1
  BY <1>1 DEF NodeSends
<1> HIDE DEF g
<1>4. /\ link = "up" /\ published'.sent = published.sent + 1
      /\ UNCHANGED <<subscribed, feed, handed>>
  BY <1>1 DEF NodeFeeds, feedVars
<1>5. /\ Len(toClient') = Len(toClient) + 1 /\ toClient'[Len(toClient) + 1] = g
      /\ \A i \in 1 .. Len(toClient) : toClient'[i] = toClient[i]
  BY <1>2, <1>3, <1>a, Lengths, OneMore
<1>6. Taken' = Taken /\ Open' = Open /\ Numbered(handed', 0)
  BY <1>4, <1>a DEF Taken, Open, Fed, Numbered
<1>7. ASSUME Open PROVE Numbered(toClient', Taken') /\ published'.sent = Taken' + Len(toClient')
  <2>1. published.sent = Taken + Len(toClient) /\ Numbered(toClient, Taken)
    BY <1>4, <1>7, <1>a DEF Fed, Intact
  <2>2. published'.sent = Taken' + Len(toClient')
    BY <1>4, <1>5, <1>6, <1>a, <2>1, Lengths
  <2>3. ASSUME NEW i \in 1 .. Len(toClient') PROVE toClient'[i].n = Taken' + i
    <3>1. /\ Len(toClient) \in Nat /\ Taken \in Nat
          /\ i \in 1 .. Len(toClient) \/ i = Len(toClient) + 1
      BY <1>5, <1>a, Lengths
    <3>2. CASE i \in 1 .. Len(toClient)
      BY <1>5, <1>6, <2>1, <3>2 DEF Numbered
    <3>3. CASE i = Len(toClient) + 1
      <4>1. toClient'[i].n = published.sent + 1
        BY <1>3, <1>5, <3>3
      <4> QED
        BY <1>6, <2>1, <3>1, <3>3, <4>1
    <3> QED
      BY <3>1, <3>2, <3>3
  <2> QED
    BY <2>2, <2>3 DEF Numbered
<1>8. ~(feed.at = "ended" /\ feed.fail = "none")
  BY <1>4, <1>a DEF Fed, Live
<1> QED
  BY <1>4, <1>6, <1>7, <1>8, <1>a DEF Fed

LEMMA WholeStep == Whole /\ [Next]_vars => Whole'
<1> SUFFICES ASSUME Whole, [Next]_vars PROVE Fed'
  BY TurnsStep DEF Whole
<1> USE DEF connVars, callVars, wireVars, feedVars
<1>a. Turns' /\ TypeOK /\ TypeOK'
  BY TurnsStep DEF Whole, Turns
<1>1. CASE Dial \/ Close
  BY <1>1, FedKept DEF Dial, Close, Intact, Live
<1>2. ASSUME NEW c \in Callers, NEW o \in Calls, Begin(c, o) PROVE Fed'
  BY <1>2, FedKept DEF Begin, Intact, Live
<1>3. ASSUME NEW c \in Callers, Lock(c) PROVE Fed'
  BY <1>3, FedKept DEF Lock, Intact, Live
<1>4. ASSUME NEW c \in Callers, ask(c) \/ vaultFrame(c) PROVE Fed'
  BY <1>4, FedKept DEF ask, vaultFrame, Intact, Live
<1>5. ASSUME NEW c \in Callers, subscribe(c) \/ narrowed(c) PROVE Fed'
  <2>1. pc[c] = "locked" /\ UNCHANGED <<link, toClient, handed, published>>
    BY <1>5 DEF subscribe, narrowed
  <2>2. CASE UNCHANGED <<subscribed, feed>>
    BY <2>1, <2>2, FedKept DEF Intact, Live
  <2>3. CASE ~subscribed /\ \E kinds \in {changeFrames, narrowedFrames} : SendSubscribe(c, kinds)
    BY <1>a, <2>1, <2>3, SubscribeFed
  <2> QED
    BY <1>5, <2>2, <2>3 DEF subscribe, narrowed
<1>6. ASSUME NEW c \in Callers, ReadReply(c) PROVE Fed'
  <2>1. ~subscribed
    BY <1>6 DEF ReadReply, Whole, Turns, Consumed
  <2>2. UNCHANGED <<subscribed, feed, handed, published>>
    BY <1>6 DEF ReadReply
  <2> QED
    BY <2>1, <2>2, UnfedFed DEF Whole, Turns, Quiet, Unfed
<1>7. CASE DeliverReads
  BY <1>7, <1>a, DeliverFed
<1>8. CASE Receive
  BY <1>8, <1>a, ReceiveFed
<1>9. CASE NodeAnswers
  <2>1. ~subscribed
    <3>1. toNode \in Seq(Request) /\ toNode # <<>> /\ link = "up" /\ Head(toNode).of \in statements
      BY <1>9, <1>a DEF NodeAnswers, TypeOK, statements
    <3>2. Len(toNode) \in Nat \ {0} /\ Head(toNode) = toNode[1]
      BY <3>1, SplitSeq
    <3> QED
      BY <3>1, <3>2 DEF Whole, Turns, Consumed, Live, statements, subscribes
  <2>2. UNCHANGED <<subscribed, feed, handed, published>>
    BY <1>9 DEF NodeAnswers
  <2> QED
    BY <2>1, <2>2, UnfedFed DEF Whole, Turns, Quiet, Unfed
<1>10. CASE NodeSubscribes
  <2>1. subscribed
    <3>1. toNode # <<>> /\ link = "up" /\ Head(toNode).of \in subscribes
      BY <1>10 DEF NodeSubscribes, subscribes
    <3> QED
      BY <3>1 DEF Whole, Turns, Quiet, Live, statements, subscribes
  <2>2. /\ UNCHANGED <<link, subscribed, feed, handed, toClient>>
        /\ published'.sent = published.sent
    BY <1>10, <1>a DEF NodeSubscribes, TypeOK
  <2>3. Taken' = Taken /\ Open' = Open /\ Intact' = Intact /\ Live' = Live
    BY <2>2 DEF Taken, Open, Intact, Live
  <2> QED
    BY <2>2, <2>3 DEF Whole, Fed, Numbered
<1>11. CASE NodeFeeds
  BY <1>11, <1>a, NodeFeedsFed
<1>12. CASE NodeLeaves
  BY <1>12, FedKept DEF NodeLeaves, Intact, Live
<1>13. CASE UNCHANGED vars
  BY <1>13, FedKept DEF vars, Intact, Live
<1> QED
  BY <1>1, <1>2, <1>3, <1>4, <1>5, <1>6, <1>7, <1>8, <1>9, <1>10, <1>11, <1>12, <1>13
     DEF Next, CallerStep, NodeStep

LEMMA InitWhole == Init => Whole
<1> SUFFICES ASSUME Init PROVE Fed
  BY InitTurns DEF Whole
<1> QED
  BY DEF Init, Fed, Open, Numbered, NoFeed

\* A feed never skips, and one that closes without an error handed over every
\* frame its node published.
THEOREM FeedIsWholeEver == Spec => []FeedIsWhole
<1>1. Whole => FeedIsWhole
  <2> SUFFICES ASSUME Whole PROVE FeedIsWhole
    OBVIOUS
  <2>1. \A i \in 1 .. Len(handed) : handed[i].n = i
    BY Lengths DEF Whole, Turns, Fed, Numbered
  <2> QED
    BY <2>1 DEF Whole, Fed, FeedIsWhole
<1> QED
  BY <1>1, InitWhole, WholeStep, PTL DEF Spec
=============================================================================
