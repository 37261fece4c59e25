--------------------------- MODULE MCHttpSession ---------------------------
(***************************************************************************)
(* HttpSession for TLC: two goroutines that share the client.                *)
(***************************************************************************)
EXTENDS HttpSession

CONSTANTS a, b

TwoCallers == {a, b}
=============================================================================
