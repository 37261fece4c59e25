-------------------------------- MODULE Transit --------------------------------
(***************************************************************************)
(* A wire between its writer and its reader, and what a failing connection *)
(* or a peer of another build may make of it (external).                   *)
(***************************************************************************)
EXTENDS Wire

VARIABLES
  wire,     \* the bytes
  state,    \* what happened to them
  got       \* what the reader made of them

\* The last bytes do not arrive.
CutShort ==
  /\ state = "written"
  /\ \E n \in 0 .. Len(wire) - 1 : wire' = SubSeq(wire, 1, n)
  /\ state' = "cut"
  /\ UNCHANGED got

\* One cell is another.
CellAltered ==
  /\ state = "written"
  /\ \E i \in 1 .. Len(wire), c \in Cells : c # wire[i] /\ wire' = [wire EXCEPT ![i] = c]
  /\ state' = "altered"
  /\ UNCHANGED got
=============================================================================
