---------------------------- MODULE MCServerProcess ----------------------------
(* A small instance of ServerProcess: two clusters and the pod's own. *)
EXTENDS ServerProcess

CONSTANTS c1, c2, A, B

MCKubeconfig ==
  {[current |-> A,    usable |-> {A, B}],
   [current |-> B,    usable |-> {A, B}],
   [current |-> None, usable |-> {}],           \* no kubeconfig, or not readable
   [current |-> None, usable |-> {InCluster}]}  \* none, but in a pod
=============================================================================
