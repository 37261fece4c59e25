----------------------------- MODULE AtLeastOnce -----------------------------
(***************************************************************************)
(* What handing out work promises: an item is settled only after some      *)
(* handler finished it, and both are for good.  Nothing is said of how     *)
(* often or by whom an item is handled.                                    *)
(***************************************************************************)
CONSTANT Items

VARIABLES
  finished,   \* the items some handler finished
  settled     \* the items the store was told are done with

Init == finished = {} /\ settled = {}

Finish == \E i \in Items : finished' = finished \cup {i} /\ UNCHANGED settled

Settle == \E items \in SUBSET finished :
  settled' = settled \cup items /\ UNCHANGED finished

Spec == Init /\ [][Finish \/ Settle]_<<finished, settled>>
=============================================================================
