-------------------------- MODULE ClusterWriteClaims --------------------------
(***************************************************************************)
(* A statement the documents make about the RayCluster write path and the  *)
(* code does not keep, checked by a run that ends in a counterexample.     *)
(***************************************************************************)
EXTENDS ClusterWrite

(* The fields a call's caller asked to change. *)
Named(r, f) ==
  \/ r.op = "create"
  \/ r.op = "update" /\ f \in DOMAIN r.set
  \/ r.op = "update" /\ f \in {"head", "groups"} /\ r.image # Absent
  \/ r.op = "scale" /\ f = "groups"

(***************************************************************************)
(* An apply that needed no force changes no field its caller did not name. *)
(* docs/specs/ray-mcp-design.md:472-477 calls update and scale             *)
(* "concurrency-safe via SSA" because "another agent might write too" and  *)
(* a get-modify-put "silently clobbers".  Two calls of this server share   *)
(* one field manager and send no resourceVersion, so the second reverts    *)
(* what the first just wrote, with no conflict.                            *)
(***************************************************************************)
UnforcedKeepsUnnamed ==
  [][\A c \in Call : Commits(c) /\ ~call[c].force /\ live.exists =>
       \A f \in Field : Named(call[c].req, f) \/ live'.val[f] = live.val[f]]_vars
=============================================================================
