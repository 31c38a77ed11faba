----------------------------- MODULE TunnelCache -----------------------------
(***************************************************************************)
(* What the pool of port-forward tunnels promises: one tunnel per cluster, *)
(* established only when the cluster has none.                             *)
(***************************************************************************)
CONSTANT Key    \* clusters, by namespace and name

VARIABLE tunnel   \* the tunnel to each cluster

TypeOK == tunnel \in [Key -> {"none", "up", "lost"}]

Init == tunnel = [k \in Key |-> "none"]

Establish(k) == tunnel[k] = "none" /\ tunnel' = [tunnel EXCEPT ![k] = "up"]

(* The stream to the head pod breaks. *)
Lose(k) == tunnel[k] = "up" /\ tunnel' = [tunnel EXCEPT ![k] = "lost"]

(* Tunnels are torn down, because they are lost, idle, or the pool closes. *)
TearDown(ks) == tunnel' = [k \in Key |-> IF k \in ks THEN "none" ELSE tunnel[k]]

Next ==
  \/ \E k \in Key : Establish(k) \/ Lose(k)
  \/ \E ks \in SUBSET Key : TearDown(ks)

Spec == Init /\ [][Next]_tunnel
=============================================================================
