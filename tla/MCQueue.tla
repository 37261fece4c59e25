------------------------------ MODULE MCQueue ------------------------------
(***************************************************************************)
(* Queue for TLC: two processes under one worker name and two jobs, so     *)
(* that a batch has one in hand and one unseen.                            *)
(***************************************************************************)
EXTENDS Queue

CONSTANTS a, b, j, k

MCWorkers == {a, b}
MCJobs == {j, k}

Siblings == [w \in MCWorkers |-> "resizer"]
=============================================================================
