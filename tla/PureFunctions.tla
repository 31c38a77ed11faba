---------------------------- MODULE PureFunctions ----------------------------
(***************************************************************************)
(* The pure algorithms of ray-mcp on the inputs a run of the system gives  *)
(* them: those of PlainFunctions, and an object to which one rawSpec after *)
(* the other is applied, each with the summary of what changed.            *)
(***************************************************************************)
EXTENDS SpecDiff, PlainFunctions, SequencesExt

CONSTANTS
  Id,        \* the tool arguments that name the object
  Base,      \* objects to start with
  RawSpec,   \* rawSpec arguments
  Depth      \* collapse depths of a summary

VARIABLES
  live,      \* the object
  before,    \* the object before the last apply
  rawSpec    \* the argument of the last apply

patchVars == <<live, before, rawSpec>>

NoPatch == Object(<<>>)

Init ==
  /\ PlainInit
  /\ live \in Base
  /\ before = live
  /\ rawSpec = NoPatch

(* An update: merged over the live object, unless that would be another object. *)
Apply(patch) ==
  /\ PlainInit
  /\ KeepsIdentity(Merge(live, patch), Id)
  /\ live' = Merge(live, patch)
  /\ before' = live
  /\ rawSpec' = patch
  /\ UNCHANGED plainVars

Next ==
  \/ rawSpec = NoPatch /\ before = live /\ PlainNext /\ UNCHANGED patchVars
  \/ \E patch \in RawSpec : Apply(patch)

Spec == Init /\ [][Next]_<<plainVars, patchVars>>
-----------------------------------------------------------------------------
(* Properties. *)

At(v, p) == {n[2] : n \in {n \in Nodes(v) : n[1] = p}}

(* What a merge replaces whole: scalars, lists and nulls outside of lists. *)
Opaque(v) ==
  {n \in Nodes(v) : /\ n[2].kind # "object"
                    /\ \A q \in Nodes(v) : IsStrictPrefix(q[1], n[1]) => q[2].kind = "object"}

(***************************************************************************)
(* After an apply every value that rawSpec names is there and every null   *)
(* of it is gone; of the rest, what was there stays, unless rawSpec has    *)
(* put a value in its place or above it; and nothing else is there         *)
(* (merge.go: RFC 7396, lists replaced whole).                             *)
(***************************************************************************)
MergeIsExact ==
  LET named == Opaque(rawSpec)
      left  == {n \in Opaque(before) :
                  /\ At(rawSpec, n[1]) = {}
                  /\ \A p \in named : ~IsStrictPrefix(p[1], n[1])}
  IN Opaque(live) = left \union {n \in named : n[2] # Null}

(***************************************************************************)
(* At any collapse depth a summary tells every change once and only        *)
(* changes: each scalar that changed lies at or below one entry, each      *)
(* entry is right about the two objects and about their values, no entry   *)
(* is deeper than the depth, and equal objects have none (diff.go).        *)
(***************************************************************************)
Tells(c) ==
  LET b == At(before, c.path)
      a == At(live, c.path)
  IN CASE c.kind = "added"    -> b = {} /\ \E v \in a : c.new = ScalarOf(v)
       [] c.kind = "removed"  -> a = {} /\ \E v \in b : c.old = ScalarOf(v)
       [] c.kind = "modified" -> \E v \in b, w \in a : /\ v # w /\ ~SameKind(v, w)
                                                       /\ c.old = ScalarOf(v) /\ c.new = ScalarOf(w)
       [] c.kind = "subtree"  -> \E v \in b, w \in a : v # w /\ SameKind(v, w)

ScalarsOf(v) == {n \in Nodes(v) : ~IsComposite(n[2])}

ChangedScalars ==
  {n[1] : n \in (ScalarsOf(before) \ ScalarsOf(live)) \union (ScalarsOf(live) \ ScalarsOf(before))}

DiffIsExact ==
  \A d \in Depth :
    LET changes == Diff(before, live, d)
    IN /\ \A p \in ChangedScalars : Cardinality({c \in changes : IsPrefix(c.path, p)}) = 1
       /\ \A c \in changes : Tells(c) /\ Len(c.path) <= d
       /\ changes = {} <=> before = live

(***************************************************************************)
(* The headline is the number of leaves that changed, whatever was         *)
(* collapsed; a value that turned from scalar to composite, or from object *)
(* to list, is one change.  Without empty objects and lists: one that is   *)
(* added counts one, unless it is collapsed (diff.go, FieldCount).         *)
(***************************************************************************)
NoHusk(v) == \A n \in Nodes(v) : IsComposite(n[2]) => DOMAIN n[2].of # {}

Turned(p) == \E v \in At(before, p), w \in At(live, p) : v # w /\ ~SameKind(v, w)

ChangedSpots ==
  {p \in ChangedScalars \union {n[1] : n \in Nodes(live)} :
     /\ Turned(p) \/ p \in ChangedScalars
     /\ \A q \in Prefixes(p) : Turned(q) => q = p}

CollapseKeepsCount ==
  NoHusk(before) /\ NoHusk(live) =>
    \A d \in Depth : FieldCount(Diff(before, live, d)) = Cardinality(ChangedSpots)
=============================================================================
