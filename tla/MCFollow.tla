------------------------------ MODULE MCFollow ------------------------------
(***************************************************************************)
(* Follow for TLC: two nodes of two builds, so that a request can go round *)
(* and an address can be answered by a node it does not name; two epochs,  *)
(* so that one can lie before the other; a name that can be selected on a  *)
(* hop and one that cannot; scripts that select nothing, one part or both. *)
(***************************************************************************)
EXTENDS Follow, TLC

CONSTANTS na, nb

MCNodes == {na, nb}

MCMinorOf == (na :> 4) @@ (nb :> 7)

MCScripts ==
  {NoTenancy, [p \in Parts |-> "prod"], [NoTenancy EXCEPT !["namespace"] = "pr-od"]}
=============================================================================
