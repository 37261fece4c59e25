------------------------------ MODULE Tenancies ------------------------------
(***************************************************************************)
(* What a session has selected: a namespace and a database, each perhaps   *)
(* not yet.  USE selects one part and leaves the other as it is; that is   *)
(* the node's work, and external.                                          *)
(***************************************************************************)
CONSTANTS
  Names,  \* names of namespaces and databases
  Unset   \* none is selected

Parts == {"namespace", "database"}

Tenancy == [Parts -> Names \cup {Unset}]

NoTenancy == [p \in Parts |-> Unset]

\* What is selected once a script that selects s was carried out in t.
Under(t, s) == [p \in Parts |-> IF s[p] = Unset THEN t[p] ELSE s[p]]

\* What a script that selects s may have selected when it is cut off.
Partly(s) == {q \in Tenancy : \A p \in Parts : q[p] \in {Unset, s[p]}}
=============================================================================
