------------------------------ MODULE EventBound ------------------------------
(***************************************************************************)
(* The events of a RayCluster: those of the namespace's first page that    *)
(* are about the cluster or one of its pods, the Warnings first, then the  *)
(* newest, up to a limit (adapters/kuberay/events.go).                     *)
(*                                                                         *)
(* An event has a time for each of the four fields that may carry one; 0   *)
(* is a field that is not set.                                             *)
(***************************************************************************)
EXTENDS Integers, Sequences, FiniteSets

CONSTANTS
  DefaultEventLimit,   \* for a limit of zero or less
  EventListCap         \* events of a namespace that are listed

ASSUME EventAssumption == DefaultEventLimit \in Nat \ {0} /\ EventListCap \in Nat \ {0}

Event == [about : STRING, warning : BOOLEAN, last : Nat, observed : Nat, time : Nat, first : Nat]

EventLastSeen(e) ==
  CASE e.last # 0                                     -> e.last
    [] e.last = 0 /\ e.observed # 0                   -> e.observed
    [] e.last = 0 /\ e.observed = 0 /\ e.time # 0     -> e.time
    [] e.last = 0 /\ e.observed = 0 /\ e.time = 0     -> e.first

(* Warnings first, then the most recent. *)
Precedes(e, f) ==
  IF e.warning # f.warning THEN e.warning ELSE EventLastSeen(e) > EventLastSeen(f)

(* A stable sort: ties stay as they were listed. *)
Ahead(list, i, j) ==
  Precedes(list[i], list[j]) \/ (~Precedes(list[j], list[i]) /\ i < j)

(* The positions of a list that are in S, in the order of their events. *)
Sorted(list, S) ==
  CHOOSE place \in [1 .. Cardinality(S) -> S] :
    \A p, q \in DOMAIN place : p < q => Ahead(list, place[p], place[q])

First(s, n) == IF Len(s) > n THEN SubSeq(s, 1, n) ELSE s

(* Mutant: the limit is a limit of the list, as it is for clusters and jobs. *)
BoundThenSort(list, S, limit) ==
  Sorted(list, {i \in S : Cardinality({j \in S : j <= i}) <= limit})

BoundEvents(list, S, limit) == First(Sorted(list, S), limit)

(* Events: the page of the namespace, filtered by name and bounded. *)
Events(list, targets, limit) ==
  LET matching == {i \in DOMAIN First(list, EventListCap) : list[i].about \in targets}
      shown    == BoundEvents(list, matching, IF limit <= 0 THEN DefaultEventLimit ELSE limit)
  IN [p \in DOMAIN shown |-> list[shown[p]]]
=============================================================================
