----------------------------- MODULE MCServiceWrite -----------------------------
(***************************************************************************)
(* Small instances of ServiceWrite: the calls a client makes, the edits a  *)
(* kubectl user makes, and the object the user created.                    *)
(***************************************************************************)
EXTENDS ServiceWriteClaims, TLC

CONSTANTS c1, c2, i1, i2, NewCluster, A, B

MCScalar == {NoSwap, NewCluster, A, B}

Group(img, rep) == [img |-> img, rep |-> rep]

Service(serve, strategy, groups, label, novel) ==
  [f \in Field |-> CASE f = "serve"    -> serve
                     [] f = "strategy" -> strategy
                     [] f = "version"  -> A
                     [] f = "head"     -> i1
                     [] f = "groups"   -> groups
                     [] f = "label"    -> label
                     [] f = "novel"    -> novel]

Serving  == Service(A, Absent, <<Group(i1, 1)>>, A, Absent)
HeadOnly == Service(A, Absent, Absent, Absent, Absent)
Deployed == Service(B, NewCluster, <<Group(i1, 1)>>, Absent, A)

Deploy(obj, dry) == [op |-> "deploy", dry |-> dry, retarget |-> FALSE, set |-> obj]

Update(image, set, dry) ==
  [op |-> "update", dry |-> dry, retarget |-> FALSE, image |-> image, set |-> set]

Retarget == [op |-> "update", dry |-> FALSE, retarget |-> TRUE, image |-> i2, set |-> <<>>]

UpdateRequests ==
  {Deploy(Deployed, FALSE), Retarget, Update(Absent, <<>>, FALSE),
   Update(i2, <<>>, TRUE), Update(i2, "strategy" :> NoSwap, FALSE),
   Update(Absent, "serve" :> B, FALSE),
   Update(Absent, "groups" :> <<Group(i1, 2)>>, FALSE),
   Update(Absent, "groups" :> <<Group(i1, 1), Group(i2, 1)>>, FALSE),
   Update(Absent, "head" :> Absent @@ "label" :> B, FALSE)}
UserEdits == {"head" :> i2}

(* The first worker group of a head-only service, tried out and appended. *)
FirstGroup == {Update(Absent, "groups" :> <<Group(i1, 1)>>, dry) : dry \in BOOLEAN}
NoEdits    == {}

KnownField == Field \ {"novel"}
=============================================================================
