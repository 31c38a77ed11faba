------------------------------ MODULE SpecMerge ------------------------------
(***************************************************************************)
(* JSON values, and rawSpec merged over a base object (domain/merge.go).   *)
(*                                                                         *)
(* An object or a list maps keys, or indices, to values: an index is just  *)
(* another name in a path, and only the merge tells the two apart.         *)
(***************************************************************************)
EXTENDS Sequences

Scalar(x)  == [kind |-> "scalar", is |-> x]
Object(m)  == [kind |-> "object", of |-> m]
List(m)    == [kind |-> "list", of |-> m]
Null       == [kind |-> "null"]       \* in a patch only

IsComposite(v) == v.kind \in {"object", "list"}

Has(v, k) == v.kind = "object" /\ k \in DOMAIN v.of

(***************************************************************************)
(* mergePatch on the children of target: a null deletes, an object merges  *)
(* into an object, anything else replaces; an object over anything else    *)
(* starts from nothing, which strips the nulls it carries.                 *)
(***************************************************************************)
RECURSIVE MergePatch(_, _)

(* Mutant: an object replaces what is not an object as it stands. *)
KeepNulls(target, patch) ==
  [k \in {k \in DOMAIN target \union DOMAIN patch : k \in DOMAIN patch => patch[k].kind # "null"} |->
     IF k \notin DOMAIN patch THEN target[k]
     ELSE IF patch[k].kind = "object" /\ k \in DOMAIN target /\ target[k].kind = "object"
          THEN Object(MergePatch(target[k].of, patch[k].of))
     ELSE patch[k]]

MergePatch(target, patch) ==
  [k \in {k \in DOMAIN target \union DOMAIN patch : k \in DOMAIN patch => patch[k].kind # "null"} |->
     IF k \notin DOMAIN patch THEN target[k]
     ELSE IF patch[k].kind # "object" THEN patch[k]
     ELSE Object(MergePatch(IF k \in DOMAIN target /\ target[k].kind = "object"
                            THEN target[k].of ELSE <<>>,
                            patch[k].of))]

Merge(base, rawSpec) == Object(MergePatch(base.of, rawSpec.of))

(* The identity guard: the name and namespace of the result are the tool's arguments. *)
KeepsIdentity(merged, id) ==
  \A f \in {"name", "namespace"} :
    /\ Has(merged, "metadata") /\ Has(merged.of["metadata"], f)
    /\ merged.of["metadata"].of[f] = Scalar(id[f])

(* Every node of v, with its path. *)
RECURSIVE Nodes(_)
Nodes(v) ==
  {<<(<<>>), v>>} \union
  (IF IsComposite(v)
   THEN UNION {{<<(<<k>> \o n[1]), n[2]>> : n \in Nodes(v.of[k])} : k \in DOMAIN v.of}
   ELSE {})
=============================================================================
