------------------------------ MODULE Exchange ------------------------------
(***************************************************************************)
(* What Execute promises its caller (conn.go, Execute), with no word of    *)
(* redirects: a script is carried out at most once, or the call fails; an  *)
(* answer means it was carried out, and some failures mean that nothing    *)
(* came of it.  It is carried out in the caller's session, or in one that  *)
(* has selected nothing, when the node that carries it out would not       *)
(* select for the client: a script that selects both names is carried out  *)
(* where it says in either case.                                           *)
(*                                                                         *)
(* What an answered script selects may be selected afterwards or not: the  *)
(* answer may come from another node than the one the session is on.       *)
(***************************************************************************)
EXTENDS Tenancies

CONSTANTS
  Errors,   \* the errors a call can fail with
  Unrun     \* those that promise that nothing came of the script

VARIABLES
  busy,     \* is a call under way
  tenancy,  \* what the caller's session has selected
  selects,  \* what the script under way selects
  ran,      \* the tenancies the last script was carried out under, in order
  result    \* what the last call returned

vars == <<busy, tenancy, selects, ran, result>>

Init ==
  /\ busy = FALSE
  /\ tenancy \in Tenancy
  /\ selects = NoTenancy
  /\ ran = <<>>
  /\ result = "none"

\* A call.
Start ==
  /\ ~busy
  /\ busy' = TRUE
  /\ selects' \in Tenancy
  /\ ran' = <<>>
  /\ result' = "none"
  /\ UNCHANGED tenancy

\* The script was carried out, once.
Answer ==
  /\ busy
  /\ busy' = FALSE
  /\ \E t \in {tenancy, NoTenancy} :
       /\ ran' = <<Under(t, selects)>>
       /\ tenancy' \in {tenancy, Under(t, selects)}
  /\ result' = "answer"
  /\ UNCHANGED selects

\* The call failed with nothing done.
FailUndone ==
  /\ busy
  /\ busy' = FALSE
  /\ result' \in Unrun
  /\ UNCHANGED <<tenancy, selects, ran>>

\* The call failed, and how much of the script was done is not known.
Fail ==
  /\ busy
  /\ busy' = FALSE
  /\ result' \in Errors \ Unrun
  /\ \/ UNCHANGED ran
     \/ \E t \in {tenancy, NoTenancy} : ran' = <<Under(t, selects)>>
  /\ \E done \in Partly(selects) : tenancy' = Under(tenancy, done)
  /\ UNCHANGED selects

Next == Start \/ Answer \/ FailUndone \/ Fail

Spec == Init /\ [][Next]_vars
=============================================================================
