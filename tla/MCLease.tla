------------------------------ MODULE MCLease ------------------------------
(***************************************************************************)
(* Lease for TLC: three clients, so that one can lose the lock to a second *)
(* while a third waits.                                                    *)
(***************************************************************************)
EXTENDS Lease

CONSTANTS a, b, c

MCClients == {a, b, c}
=============================================================================
