-------------------------- MODULE ServiceWriteClaims --------------------------
(***************************************************************************)
(* A statement of the repository about the RayService write path that the  *)
(* code does not keep, checked by a run that ends in a counterexample.     *)
(***************************************************************************)
EXTENDS ServiceWrite

(***************************************************************************)
(* An update that only appends worker groups is predicted to stay in       *)
(* place: "if the only difference is one or more worker groups APPENDED at *)
(* the end ..., KubeRay updates the EXISTING cluster in place"             *)
(* (service_write.go:392-396, and :424-432).  A head-only service decodes  *)
(* without a workerGroupSpecs key, the truncated list is an empty one, and *)
(* reflect.DeepEqual tells the two apart: the first group is predicted to  *)
(* swap the cluster.                                                       *)
(***************************************************************************)
AppendIsInPlace ==
  [][\A c \in Call :
       call[c].phase = "read" /\ call'[c].phase = "preview"
         /\ OnlyAppends(Decoded(live.val), call'[c].body)
       => call'[c].predicted = "append"]_vars
=============================================================================
