------------------------------ MODULE MCJobWait ------------------------------
(* A small instance of JobWait: waits below, inside and above the bounds. *)
EXTENDS JobWait

MCWaits == {-1, 2, 5}
=============================================================================
