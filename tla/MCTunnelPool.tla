----------------------------- MODULE MCTunnelPool -----------------------------
(* A small instance of TunnelPool. *)
EXTENDS TunnelPool

CONSTANTS c1, c2, k1, k2, p1, p2
=============================================================================
