----------------------------- MODULE MCConsumer -----------------------------
(***************************************************************************)
(* Consumer for TLC: two members and two messages in batches of up to two,  *)
(* so that a batch has one in hand and one to come, or each member one.    *)
(***************************************************************************)
EXTENDS Consumer

CONSTANTS a, b

MCMembers == {a, b}
MCPositions == 1 .. 2
=============================================================================
