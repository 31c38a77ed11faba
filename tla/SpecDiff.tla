------------------------------- MODULE SpecDiff -------------------------------
(***************************************************************************)
(* The summary of an apply: the changes from one object to another, with   *)
(* what lies too deep collapsed to a count (domain/diff.go).               *)
(***************************************************************************)
EXTENDS SpecMerge, Integers, FiniteSetsExt

(* A change carries the values of its scalar sides and counts the leaves of the others. *)
Change(path, kind, old, new, count) ==
  [path |-> path, kind |-> kind, old |-> old, new |-> new, count |-> count]

ScalarOf(v) == IF IsComposite(v) THEN Null ELSE v

(* The same keys, or a list of as many elements, need not be on both sides. *)
SameKind(b, a) == IsComposite(b) /\ a.kind = b.kind

(* Mutant: lists and objects are compared on what both have. *)
CommonKeys(b, a) == DOMAIN b.of \intersect DOMAIN a.of

UnionKeys(b, a) == DOMAIN b.of \union DOMAIN a.of

RECURSIVE CountLeaves(_)
CountLeaves(v) ==
  IF IsComposite(v) THEN MapThenSumSet(LAMBDA k : CountLeaves(v.of[k]), DOMAIN v.of) ELSE 1

RECURSIVE CountChanges(_, _)

(* Mutant: an element on one side only counts as one change. *)
CountElements(b, a) ==
  IF b = a THEN 0
  ELSE IF SameKind(b, a)
       THEN MapThenSumSet(LAMBDA k : IF k \notin DOMAIN a.of \/ k \notin DOMAIN b.of THEN 1
                                     ELSE CountChanges(b.of[k], a.of[k]),
                          UnionKeys(b, a))
  ELSE 1

CountChanges(b, a) ==
  IF b = a THEN 0
  ELSE IF SameKind(b, a)
       THEN MapThenSumSet(LAMBDA k : IF k \notin DOMAIN a.of THEN CountLeaves(b.of[k])
                                     ELSE IF k \notin DOMAIN b.of THEN CountLeaves(a.of[k])
                                     ELSE CountChanges(b.of[k], a.of[k]),
                          UnionKeys(b, a))
  ELSE 1

(* emitPresence: a key or an index that one side has. *)
Removed(path, v) == Change(path, "removed", ScalarOf(v), Null, IF IsComposite(v) THEN CountLeaves(v) ELSE 0)
Added(path, v)   == Change(path, "added", Null, ScalarOf(v), IF IsComposite(v) THEN CountLeaves(v) ELSE 0)

RECURSIVE WalkDiff(_, _, _, _)
WalkDiff(path, maxDepth, b, a) ==
  IF b = a THEN {}
  ELSE IF SameKind(b, a) /\ Len(path) >= maxDepth
       THEN {Change(path, "subtree", Null, Null, CountChanges(b, a))}
  ELSE IF SameKind(b, a)
       THEN UNION {IF k \notin DOMAIN a.of THEN {Removed(Append(path, k), b.of[k])}
                   ELSE IF k \notin DOMAIN b.of THEN {Added(Append(path, k), a.of[k])}
                   ELSE WalkDiff(Append(path, k), maxDepth, b.of[k], a.of[k]) : k \in UnionKeys(b, a)}
  ELSE {Change(path, "modified", ScalarOf(b), ScalarOf(a),
               IF IsComposite(b) \/ IsComposite(a) THEN CountChanges(b, a) ELSE 0)}

Diff(before, after, maxDepth) == WalkDiff(<<>>, maxDepth, before, after)

(* The headline of a summary. *)
FieldCount(changes) ==
  MapThenSumSet(LAMBDA c : IF c.kind = "subtree" \/ c.count > 0 THEN c.count ELSE 1, changes)
=============================================================================
