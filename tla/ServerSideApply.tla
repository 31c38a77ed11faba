--------------------------- MODULE ServerSideApply ---------------------------
(***************************************************************************)
(* The part of the Kubernetes API server that ray-mcp's write path depends *)
(* on: Server-Side Apply with per-field ownership, and ordinary writes by  *)
(* other managers.  External to the repository; modelled from how          *)
(* adapters/kuberay/apply.go calls it and from the behaviour that          *)
(* domain/cluster_update.go states as verified against a real API server.  *)
(*                                                                         *)
(* An object is a record with                                              *)
(*   val : its field values, Absent for a field it does not carry;         *)
(*   own : for each field, the managers that own it.                       *)
(* A field is a unit of ownership: a scalar, one annotation, or a whole    *)
(* atomic list (spec.workerGroupSpecs is one).                             *)
(***************************************************************************)
CONSTANTS
  Field,      \* units of ownership
  Manager,    \* field managers
  Absent      \* the value of a field the object does not carry

(* The values and owners of an object that does not exist. *)
NoValues == [f \in Field |-> Absent]
NoOwners == [f \in Field |-> {}]

(***************************************************************************)
(* The fields on which an apply of body by manager m conflicts: it would   *)
(* change them and somebody else owns them.                                *)
(***************************************************************************)
Conflicts(o, m, body) ==
  {f \in Field : /\ body[f] # Absent
                 /\ body[f] # o.val[f]
                 /\ o.own[f] \ {m} # {}}

(***************************************************************************)
(* An apply the server accepts.  A field of the body takes the body's      *)
(* value; equal values are co-owned, a changed field belongs to m alone.   *)
(* A field m owned and no longer sends is pruned, unless a co-owner keeps  *)
(* it.                                                                     *)
(***************************************************************************)
AppliedValue(o, m, body, f) ==
  IF body[f] # Absent THEN body[f]
  ELSE IF o.own[f] = {m} THEN Absent
  ELSE o.val[f]

AppliedOwners(o, m, body, f) ==
  IF body[f] = Absent THEN o.own[f] \ {m}
  ELSE IF body[f] = o.val[f] THEN o.own[f] \union {m}
  ELSE {m}

(***************************************************************************)
(* A write of whole values by an Update-type manager (kubectl edit, the    *)
(* autoscaler's JSON patch): it owns what it changed.                      *)
(***************************************************************************)
WrittenOwners(o, m, val, f) ==
  IF val[f] = o.val[f] THEN o.own[f]
  ELSE IF val[f] = Absent THEN {}
  ELSE {m}
=============================================================================
