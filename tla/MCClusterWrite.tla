---------------------------- MODULE MCClusterWrite ----------------------------
(***************************************************************************)
(* Small instances of ClusterWrite: the calls a client makes, the edits a  *)
(* kubectl user makes, and the object the user created.                    *)
(***************************************************************************)
EXTENDS ClusterWriteClaims, TLC

CONSTANTS c1, c2, g1, i1, i2, Off, A, B

MCScalar == {On, Off, True, A, B}

Group(img, rep, min, max) == [img |-> img, rep |-> rep, min |-> min, max |-> max, wtd |-> FALSE]

Object(auto, rep, min, max, protected, label, novel) ==
  [f \in Field |-> CASE f = "auto"      -> auto
                     [] f = "head"      -> i1
                     [] f = "groups"    -> [g \in {g1} |-> Group(i1, rep, min, max)]
                     [] f = "protected" -> protected
                     [] f = "label"     -> label
                     [] f = "novel"     -> novel]

Autoscaled  == Object(On, 1, 0, 2, Absent, A, Absent)
Fixed       == Object(Off, 1, 0, 2, Absent, A, Absent)
Unlabelled  == Object(Off, 1, 0, 2, Absent, Absent, Absent)
WithNovel   == Object(On, 1, 0, 2, Absent, A, A)

Create(obj, dry) == [op |-> "create", dry |-> dry, retarget |-> FALSE, set |-> obj]

Update(image, set, dry) ==
  [op |-> "update", dry |-> dry, retarget |-> FALSE, image |-> image, set |-> set]

Retarget == [op |-> "update", dry |-> FALSE, retarget |-> TRUE, image |-> i2, set |-> <<>>]

Scale(rep, min, max, dry) ==
  [op |-> "scale", dry |-> dry, group |-> g1, rep |-> rep, min |-> min, max |-> max]

(* Two calls on an autoscaled cluster. *)
SharedRequests ==
  {Update(i2, <<>>, FALSE), Update(Absent, "label" :> B, FALSE), Scale(Absent, 1, Absent, FALSE)}
SharedEdits == {"label" :> A, "protected" :> True}

(* One call of every kind, dry runs and refusals included. *)
EveryRequest ==
  {Create(Autoscaled, FALSE), Create(Fixed, TRUE), Retarget,
   Update(Absent, <<>>, FALSE), Update(i2, <<>>, FALSE), Update(i2, <<>>, TRUE), Update(Absent, "auto" :> Off, FALSE),
   Update(i2, "protected" :> Absent, FALSE),
   Scale(2, Absent, Absent, FALSE), Scale(Absent, 2, Absent, FALSE), Scale(Absent, 1, 0, FALSE),
   Scale(0, Absent, Absent, FALSE), Scale(-1, Absent, Absent, FALSE), Scale(Absent, -1, 1, TRUE),
   [Scale(1, Absent, Absent, FALSE) EXCEPT !.group = Absent]}
EveryEdit == {"auto" :> On, "auto" :> Off, "label" :> B, "protected" :> True,
              "groups" :> [g \in {g1} |-> Group(i2, 2, 2, 2)]}

(* Two calls that name different fields. *)
TwoUpdates == {Update(Absent, "protected" :> True, FALSE), Update(Absent, "label" :> B, FALSE)}
NoEdits    == {}

KnownField  == Field \ {"novel"}
Symmetry    == Permutations(Call)
=============================================================================
