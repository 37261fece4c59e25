------------------------------- MODULE MCCache -------------------------------
(***************************************************************************)
(* Cache for TLC: three callers whose loaders make different values, and   *)
(* others that write the key and let it expire.                            *)
(***************************************************************************)
EXTENDS Cache, TLC

CONSTANTS a, b, d

MCCallers == {a, b, d}
MCMade == (a :> 0) @@ (b :> 1) @@ (d :> 2)
=============================================================================
