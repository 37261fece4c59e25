------------------------------- MODULE MCConn -------------------------------
(***************************************************************************)
(* Conn for TLC: greetings of a stranger, of another major and of nodes    *)
(* below and at the minors its calls need.                                 *)
(***************************************************************************)
EXTENDS Conn

CONSTANTS a, b

MCCallers == {a, b}

\* Every method, and every way its body can fail.
EveryCall == Operation

\* Statements alone, with every way their body can fail.
AskCalls == [method : {"ask"}, body : {"good", "bad", "long"}]

\* A node of this client's own version.
OneGreeting == [magic : {TRUE}, major : {1}, minor : {4}]

MCGreetings ==
  [magic : {FALSE}, major : {1}, minor : {4}]
    \cup [magic : {TRUE}, major : {2}, minor : {0}]
    \cup [magic : {TRUE}, major : {1}, minor : {3, 6}]
=============================================================================
