----------------------------- MODULE ClusterWrite -----------------------------
(***************************************************************************)
(* The RayCluster write path: ray_cluster_create, ray_cluster_update and   *)
(* ray_cluster_scale, as concurrent tool calls against one RayCluster that *)
(* the Ray autoscaler and kubectl users write as well.                     *)
(*                                                                         *)
(* A call reads the live object, overlays what its caller asked for, runs  *)
(* an unconditional server-side dry run, commits with Server-Side Apply    *)
(* and writes its audit record; an ownership conflict is retried once,     *)
(* forced, from a fresh read.  The server may act between any two steps.   *)
(***************************************************************************)
EXTENDS Integers, Sequences

CONSTANTS
  Call,              \* tool calls, each served by its own goroutine
  GroupName,         \* worker groups of the cluster
  Image,             \* container images
  Absent,            \* a field or an argument that is not there
  Scalar,            \* values of the scalar fields, On and True among them
  On,                \* enableInTreeAutoscaling: true
  True,              \* ray-mcp/protected: "true"
  TypedField,        \* fields the compiled rayv1 types can decode
  AllowDestructive,  \* the --allow-destructive tier
  Request,           \* tool calls a client may make
  UserEdit,          \* edits a kubectl user may make
  UserObject,        \* the object a kubectl user creates
  MaxRevision        \* bound: the environment writes only below this revision

(***************************************************************************)
(* The ownership units of a RayCluster: spec.enableInTreeAutoscaling, the  *)
(* head group's image, spec.workerGroupSpecs (one atomic list), the        *)
(* ray-mcp/protected annotation, any other label, and a field newer than   *)
(* the compiled types.                                                     *)
(***************************************************************************)
Field == {"auto", "head", "groups", "protected", "label", "novel"}

RayMcp     == "ray-mcp"
Autoscaler == "autoscaler"
Kubectl    == "kubectl"
Manager    == {RayMcp, Autoscaler, Kubectl}

Server == INSTANCE ServerSideApply

WorkerGroup == [img : Image, rep : Int, min : Int, max : Int, wtd : BOOLEAN]
GroupList   == [GroupName -> WorkerGroup]
Value       == {Absent} \union Scalar \union Image \union GroupList

(* Values for some of the fields. *)
IsOverlay(s) == DOMAIN s \subseteq Field /\ s \in [DOMAIN s -> Value]

(***************************************************************************)
(* Decoded arguments.  set is the overlay of the curated deltas and of     *)
(* rawSpec (Absent: a null, which deletes the key); retarget marks a       *)
(* rawSpec that names another object.                                      *)
(***************************************************************************)
CreateRequest == [op : {"create"}, dry : BOOLEAN, retarget : BOOLEAN,
                  set : [Field -> Value]]
IsUpdateRequest(r) ==
  /\ r \in [op : {"update"}, dry : BOOLEAN, retarget : BOOLEAN,
            image : Image \union {Absent}, set : {r.set}]
  /\ IsOverlay(r.set)
ScaleRequest  == [op : {"scale"}, dry : BOOLEAN, group : GroupName \union {Absent},
                  rep : Int \union {Absent}, min : Int \union {Absent},
                  max : Int \union {Absent}]

ASSUME AbsentAssumption  == Absent \notin Scalar \union GroupList \union Int \union Image
ASSUME ScalarAssumption  == /\ {On, True} \subseteq Scalar
                            /\ \A v \in Scalar \union Image : v \notin GroupList
ASSUME RequestAssumption ==
  \A r \in Request : r \in CreateRequest \/ r \in ScaleRequest \/ IsUpdateRequest(r)
ASSUME TypedAssumption   == TypedField \subseteq Field
ASSUME UserAssumption    == /\ UserObject \in [Field -> Value]
                            /\ \A e \in UserEdit : IsOverlay(e)
ASSUME TierAssumption    == AllowDestructive \in BOOLEAN
ASSUME BoundAssumption   == MaxRevision \in Nat

VARIABLES
  live,   \* the RayCluster in etcd, and the revision that last changed each field
  rv,     \* etcd's revision counter
  call,   \* the state of each tool call
  audit   \* the audit records each call has written, oldest first

vars == <<live, rv, call, audit>>

Phase   == {"idle", "read", "preview", "commit", "emit", "done", "crashed"}
Outcome == {"none", "ok", "conflict", "notFound", "refused", "error"}

NoCall == [phase |-> "idle", req |-> Absent, force |-> FALSE,
           body |-> Server!NoValues, out |-> "none",
           base |-> 0,        \* history: revision of the read the body is built from
           contended |-> 0,   \* history: revision at the conflict being retried
           commits |-> 0]     \* history: applies the server persisted for this call

InFlight(c) == call[c].phase \in {"read", "preview", "commit", "emit"}

TypeOK ==
  /\ live \in [exists : BOOLEAN, uid : Nat, val : [Field -> Value],
               own : [Field -> SUBSET Manager], touched : [Field -> Nat]]
  /\ rv \in Nat
  /\ call \in [Call -> [phase : Phase, req : Request \union {Absent}, force : BOOLEAN,
                        body : [Field -> Value], out : Outcome, base : Nat,
                        contended : Nat, commits : Nat]]
  /\ audit \in [Call -> Seq([dry : BOOLEAN, ok : BOOLEAN])]

-----------------------------------------------------------------------------
(* Pure steps of the build closures. *)

(***************************************************************************)
(* stripWorkersToDelete: the autoscaler's pending deletions are dropped    *)
(* from every group of the list.                                           *)
(***************************************************************************)
StripWorkersToDelete(v) ==
  IF v \in GroupList THEN [g \in GroupName |-> [v[g] EXCEPT !.wtd = FALSE]] ELSE v

(* setClusterImage: the image of the head's and of every worker group's first container. *)
SetClusterImage(f, v, image) ==
  IF image # Absent /\ f = "head" /\ v # Absent THEN image
  ELSE IF image # Absent /\ f = "groups" /\ v \in GroupList
       THEN [g \in GroupName |-> [v[g] EXCEPT !.img = image]]
  ELSE v

SpecIsAutoscaling(val) == val["auto"] = On

Provided(x, default) == IF x = Absent THEN default ELSE x

(* The scaled group: provided bounds overlay the live ones. *)
ScaledGroup(r, wg) ==
  [wg EXCEPT !.rep = Provided(r.rep, @), !.min = Provided(r.min, @), !.max = Provided(r.max, @)]

(* Mutant: min and max are not compared. *)
BoundsWithoutOrder(wg) == wg.min >= 0 /\ wg.max >= 0 /\ wg.rep <= wg.max

ValidateWorkerBounds(wg) ==
  wg.min >= 0 /\ wg.max >= 0 /\ wg.min <= wg.max /\ wg.rep <= wg.max

(***************************************************************************)
(* What request r makes of one field whose value is v: the body an apply   *)
(* sends is Intent of every field of the object as read.                   *)
(***************************************************************************)
Intent(r, f, v) ==
  CASE r.op = "create" -> r.set[f]
    [] r.op = "update" ->
         IF f \in DOMAIN r.set THEN r.set[f]
         ELSE SetClusterImage(f, StripWorkersToDelete(v), r.image)
    [] r.op = "scale" ->
         IF f = "groups" /\ v \in GroupList /\ r.group \in GroupName
         THEN [StripWorkersToDelete(v) EXCEPT ![r.group] = ScaledGroup(r, @)]
         ELSE StripWorkersToDelete(v)

(***************************************************************************)
(* GetCluster decodes into the compiled types, so a field they do not know *)
(* is not in the object that readForWrite hands to build.                  *)
(***************************************************************************)
Decoded(val) == [f \in Field |-> IF f \in TypedField THEN val[f] ELSE Absent]

(* The apply body: the whole object as read, overlaid. *)
Body(r, val) == [f \in Field |-> Intent(r, f, val[f])]

(* The refusals of the scale build closure, on the object it read. *)
ScaleRefused(r, val) ==
  LET found == r.group \in GroupName /\ val["groups"] \in GroupList
  IN \/ ~found
     \/ r.rep # Absent /\ SpecIsAutoscaling(val)
     \/ r.rep = 0 /\ ~AllowDestructive
     \/ found /\ ~ValidateWorkerBounds(ScaledGroup(r, val["groups"][r.group]))

BuildRefused(r, val) ==
  IF r.op = "scale" THEN ScaleRefused(r, val) ELSE r.retarget

(* Update's hasChange, and Merge's identity guard on a create. *)
RefusedUnread(r) ==
  \/ r.op = "create" /\ r.retarget
  \/ r.op = "update" /\ r.image = Absent /\ DOMAIN r.set = {} /\ ~r.retarget

-----------------------------------------------------------------------------
(* The server's state changes. *)

(***************************************************************************)
(* Persist values and owners: every changed field is stamped with the new  *)
(* revision.  A write that changes nothing makes no revision.              *)
(***************************************************************************)
Persist(exists, val, own) ==
  LET changed == exists # live.exists \/ val # live.val \/ own # live.own
      next    == rv + 1
  IN IF ~changed
     THEN UNCHANGED <<live, rv>>
     ELSE /\ rv' = next
          /\ live' = [exists  |-> exists,
                      uid     |-> IF exists /\ ~live.exists THEN next ELSE live.uid,
                      val     |-> val,
                      own     |-> own,
                      touched |-> [f \in Field |-> IF val[f] = live.val[f]
                                                   THEN live.touched[f] ELSE next]]

Init ==
  /\ live = [exists |-> TRUE, uid |-> 0, val |-> UserObject,
             own |-> [f \in Field |-> IF UserObject[f] = Absent THEN {} ELSE {Kubectl}],
             touched |-> [f \in Field |-> 0]]
  /\ rv = 0
  /\ call = [c \in Call |-> NoCall]
  /\ audit = [c \in Call |-> <<>>]

(* An Update-type write by another manager. *)
Write(m, val) ==
  /\ live.exists /\ rv < MaxRevision
  /\ val # live.val
  /\ Persist(TRUE, val, [f \in Field |-> Server!WrittenOwners(live, m, val, f)])
  /\ UNCHANGED <<call, audit>>

(* Group g of the list gets n replicas; scaling down names the workers to delete. *)
Rescaled(list, g, n) == [list EXCEPT ![g] = [@ EXCEPT !.rep = n, !.wtd = n < list[g].rep]]

(* The in-tree autoscaler patches replicas within the bounds. *)
AutoscalerScale ==
  /\ SpecIsAutoscaling(live.val) /\ live.val["groups"] \in GroupList
  /\ \E g \in GroupName : \E n \in live.val["groups"][g].min .. live.val["groups"][g].max :
       Write(Autoscaler, [live.val EXCEPT !["groups"] = Rescaled(@, g, n)])

KubectlEdit ==
  \E e \in UserEdit :
    Write(Kubectl, [f \in Field |-> IF f \in DOMAIN e THEN e[f] ELSE live.val[f]])

KubectlDelete ==
  /\ live.exists /\ rv < MaxRevision
  /\ Persist(FALSE, Server!NoValues, Server!NoOwners)
  /\ UNCHANGED <<call, audit>>

KubectlCreate ==
  /\ ~live.exists /\ rv < MaxRevision
  /\ Persist(TRUE, UserObject, [f \in Field |-> IF UserObject[f] = Absent THEN {} ELSE {Kubectl}])
  /\ UNCHANGED <<call, audit>>

-----------------------------------------------------------------------------
(* The tool calls. *)

(* The call's state becomes next; the other calls stay. *)
Becomes(c, next) == call' = [call EXCEPT ![c] = next]

Finish(c, out) == Becomes(c, [call[c] EXCEPT !.phase = "done", !.out = out])

Record(c, dry, ok) == audit' = [audit EXCEPT ![c] = Append(@, [dry |-> dry, ok |-> ok])]

(***************************************************************************)
(* A handler starts.  Create builds its body from the arguments alone and  *)
(* goes to the apply pipeline; update and scale read the live object.      *)
(***************************************************************************)
Begin(c, r) ==
  /\ call[c].phase = "idle"
  /\ \/ /\ RefusedUnread(r)
        /\ Becomes(c, [call[c] EXCEPT !.phase = "done", !.req = r, !.out = "refused"])
     \/ /\ ~RefusedUnread(r) /\ r.op = "create"
        /\ Becomes(c, [call[c] EXCEPT !.phase = "preview", !.req = r,
                                      !.body = r.set, !.base = rv])
     \/ /\ ~RefusedUnread(r) /\ r.op # "create"
        /\ Becomes(c, [call[c] EXCEPT !.phase = "read", !.req = r])
  /\ UNCHANGED <<live, rv, audit>>

(* GetCluster finds no cluster, or fails: forbidden, timed out, cancelled. *)
ReadFails(c) ==
  \/ ~live.exists /\ Finish(c, "notFound")
  \/ Finish(c, "error")

(* The build closure: readForWrite, the overlay and its refusals. *)
Build(c) ==
  LET r    == call[c].req
      read == Decoded(live.val)
  IN /\ call[c].phase = "read"
     /\ \/ /\ live.exists /\ ~BuildRefused(r, read)
           /\ Becomes(c, [call[c] EXCEPT !.phase = "preview", !.base = rv,
                                         !.body = Body(r, read)])
        \/ /\ live.exists /\ BuildRefused(r, read)
           /\ Finish(c, "refused")
        \/ ReadFails(c)
     /\ UNCHANGED <<live, rv, audit>>

(* Mutant: the retry forces the body that lost the race. *)
RetryStale(c) ==
  IF call[c].req.op \in {"update", "scale"} /\ ~call[c].req.dry /\ ~call[c].force
  THEN Becomes(c, [call[c] EXCEPT !.phase = "preview", !.force = TRUE, !.out = "none",
                                  !.contended = rv])
  ELSE Finish(c, "conflict")

(***************************************************************************)
(* applyWithConflictRetry on a conflict: update and scale go back to build *)
(* once, forced; a dry run, a create and a retry return the conflict.      *)
(***************************************************************************)
OnConflict(c) ==
  IF call[c].req.op \in {"update", "scale"} /\ ~call[c].req.dry /\ ~call[c].force
  THEN Becomes(c, [call[c] EXCEPT !.phase = "read", !.force = TRUE, !.out = "none",
                                  !.contended = rv])
  ELSE Finish(c, "conflict")

(* Mutant: the first attempt is forced too. *)
NeverClash(c) == FALSE

Clash(c) == ~call[c].force /\ Server!Conflicts(live, RayMcp, call[c].body) # {}

(***************************************************************************)
(* Step 1 of ApplyService.Apply: DryRunAll, forced when the commit will    *)
(* be.  It detects conflicts and changes nothing.                          *)
(***************************************************************************)
Preview(c) ==
  /\ call[c].phase = "preview"
  /\ \/ /\ ~Clash(c) /\ ~call[c].req.dry
        /\ Becomes(c, [call[c] EXCEPT !.phase = "commit"])
        /\ UNCHANGED audit
     \/ /\ ~Clash(c) /\ call[c].req.dry
        /\ Record(c, TRUE, TRUE)
        /\ Finish(c, "ok")
     \/ /\ Clash(c)
        /\ Record(c, TRUE, FALSE)
        /\ OnConflict(c)
     \/ /\ Record(c, TRUE, FALSE)      \* rejected by the schema, forbidden, timed out
        /\ Finish(c, "error")
  /\ UNCHANGED <<live, rv>>

(***************************************************************************)
(* Step 7: the commit.  The server may persist it and its answer be lost.  *)
(***************************************************************************)
Commit(c) ==
  LET body == call[c].body
  IN /\ call[c].phase = "commit"
     /\ \/ /\ ~Clash(c)
           /\ Persist(TRUE, [f \in Field |-> Server!AppliedValue(live, RayMcp, body, f)],
                            [f \in Field |-> Server!AppliedOwners(live, RayMcp, body, f)])
           /\ \E out \in {"ok", "error"} :
                Becomes(c, [call[c] EXCEPT !.phase = "emit", !.out = out, !.commits = @ + 1])
        \/ /\ Clash(c)
           /\ Becomes(c, [call[c] EXCEPT !.phase = "emit", !.out = "conflict"])
           /\ UNCHANGED <<live, rv>>
        \/ /\ Becomes(c, [call[c] EXCEPT !.phase = "emit", !.out = "error"])
           /\ UNCHANGED <<live, rv>>
     /\ UNCHANGED audit

(* Mutant: every failure is retried. *)
RetryEveryFailure(c) ==
  /\ call[c].phase = "emit"
  /\ Record(c, FALSE, call[c].out = "ok")
  /\ IF call[c].out # "ok" THEN OnConflict(c) ELSE Finish(c, call[c].out)
  /\ UNCHANGED <<live, rv>>

(* Mutant: a failed commit leaves no audit record. *)
AuditSuccessOnly(c) ==
  /\ call[c].phase = "emit"
  /\ IF call[c].out = "ok" THEN Record(c, FALSE, TRUE) ELSE UNCHANGED audit
  /\ IF call[c].out = "conflict" THEN OnConflict(c) ELSE Finish(c, call[c].out)
  /\ UNCHANGED <<live, rv>>

(* The audit record of a commit, and the answer to the caller or the retry. *)
Emit(c) ==
  /\ call[c].phase = "emit"
  /\ Record(c, FALSE, call[c].out = "ok")
  /\ IF call[c].out = "conflict" THEN OnConflict(c) ELSE Finish(c, call[c].out)
  /\ UNCHANGED <<live, rv>>

(* The process dies and restarts: it keeps no state between calls. *)
Crash ==
  /\ \E c \in Call : InFlight(c)
  /\ call' = [c \in Call |-> IF InFlight(c) THEN [call[c] EXCEPT !.phase = "crashed"] ELSE call[c]]
  /\ UNCHANGED <<live, rv, audit>>

-----------------------------------------------------------------------------
Environment == AutoscalerScale \/ KubectlEdit \/ KubectlDelete \/ KubectlCreate

Step(c) == Build(c) \/ Preview(c) \/ Commit(c) \/ Emit(c)

Next ==
  \/ Environment
  \/ Crash
  \/ \E c \in Call : Step(c) \/ \E r \in Request : Begin(c, r)

(* Every request to the API server is answered or fails, and goroutines run. *)
Fairness == \A c \in Call : WF_vars(Step(c))

Spec == Init /\ [][Next]_vars /\ Fairness
-----------------------------------------------------------------------------
(* Properties. *)

(* The server persists an apply of call c. *)
Commits(c) == call[c].phase = "commit" /\ call'[c].commits # call[c].commits

(* Request r may make w of the value v of field f: a co-owner keeps what is left out. *)
Overlays(r, f, v, w) == w = Intent(r, f, v) \/ (Intent(r, f, v) = Absent /\ w = v)

Overlaid(c, f) == Overlays(call[c].req, f, live.val[f], live'.val[f])

(***************************************************************************)
(* A commit leaves every field as if the call had read, overlaid and       *)
(* applied in one atomic step, unless somebody wrote that field after the  *)
(* read the commit is built from.  Read-modify-apply-full                  *)
(* (cluster_update.go, readForWrite) neither prunes what it was not asked  *)
(* to change nor reverts an older write; the exception is the documented   *)
(* read-to-apply gap.                                                      *)
(***************************************************************************)
AtomicUnlessRaced ==
  [][\A c \in Call : Commits(c) =>
       \A f \in TypedField : live.touched[f] <= call[c].base => Overlaid(c, f)]_vars

(***************************************************************************)
(* A forced commit reverts no write that its call had already lost a race  *)
(* to: whatever was written up to the conflict is carried over, the        *)
(* overlay aside.  applyWithConflictRetry rebuilds from a fresh read       *)
(* before it forces.                                                       *)
(***************************************************************************)
RetryKeepsTheWinner ==
  [][\A c \in Call : Commits(c) /\ call[c].force =>
       \A f \in TypedField :
         live.touched[f] <= call[c].contended => Overlaid(c, f)]_vars

(***************************************************************************)
(* A field that another manager owns changes hands only in a call that was *)
(* first refused with a conflict and audited that failure: the first       *)
(* attempt of a call is never forced.                                      *)
(***************************************************************************)
OverwriteOnlyAfterConflict ==
  [][\A c \in Call : Commits(c) =>
       \/ \A f \in Field : live.own[f] \subseteq {RayMcp} \/ live'.val[f] = live.val[f]
       \/ Len(audit[c]) = 1 /\ ~audit[c][1].ok]_vars

(***************************************************************************)
(* A call whose answer was lost may be repeated: after its commit the same *)
(* request, built from what is there now, is not refused, conflicts with   *)
(* nobody and changes no value and no owner, unless the commit lost a      *)
(* race.  The build closures overlay values, and count nothing up          *)
(* (cluster_update.go, Update and Scale; cluster_write.go, Create).        *)
(***************************************************************************)
ChangesNothing(r, object) ==
  LET body == Body(r, Decoded(object.val))
  IN /\ ~BuildRefused(r, Decoded(object.val))
     /\ Server!Conflicts(object, RayMcp, body) = {}
     /\ \A f \in Field : /\ Server!AppliedValue(object, RayMcp, body, f) = object.val[f]
                         /\ Server!AppliedOwners(object, RayMcp, body, f) = object.own[f]

RepeatIsHarmless ==
  [][\A c \in Call : Commits(c) =>
       \/ ChangesNothing(call[c].req, live')
       \/ call[c].req.op # "create" /\ \E f \in TypedField : live.touched[f] > call[c].base]_vars

(***************************************************************************)
(* A tool call persists at most one apply, retry and lost answers          *)
(* included, and a dry run persists none: only a conflict, which persisted *)
(* nothing, is retried.                                                    *)
(***************************************************************************)
CommitsAtMostOnce ==
  \A c \in Call : call[c].commits <= (IF call[c].req # Absent /\ call[c].req.dry THEN 0 ELSE 1)

(***************************************************************************)
(* The audit trail of a call tells what it did: a success is the last      *)
(* record and the only one, it is a dry-run success exactly for a dry run, *)
(* a non-dry success means the apply was persisted, and an apply persisted *)
(* by a call that returned left a non-dry record.                          *)
(***************************************************************************)
SuccessIsLast ==
  \A c \in Call : \A i \in 1 .. Len(audit[c]) :
    audit[c][i].ok => /\ i = Len(audit[c]) /\ call[c].phase = "done" /\ call[c].out = "ok"
                      /\ audit[c][i].dry = call[c].req.dry
                      /\ ~audit[c][i].dry => call[c].commits = 1

ReturnedOKIsAudited ==
  \A c \in Call : call[c].phase = "done" /\ call[c].out = "ok" =>
    Len(audit[c]) > 0 /\ audit[c][Len(audit[c])].ok

CommitIsAudited ==
  \A c \in Call : call[c].phase = "done" /\ call[c].commits > 0 =>
    Len(audit[c]) > 0 /\ ~audit[c][Len(audit[c])].dry

AuditTrail == SuccessIsLast /\ ReturnedOKIsAudited /\ CommitIsAudited

(***************************************************************************)
(* An update or a scale that is not a dry run never answers with an        *)
(* ownership conflict: the forced retry passes its own dry run, because    *)
(* the dry run inherits force.                                             *)
(***************************************************************************)
ConflictIsAbsorbed ==
  \A c \in Call : call[c].phase = "done" /\ call[c].out = "conflict" =>
    call[c].req.op = "create" \/ call[c].req.dry

(***************************************************************************)
(* Whatever bounds were left to the live group and however often the group *)
(* changed meanwhile, a scale commits a group with 0 <= min <= max and     *)
(* replicas <= max: the bounds are checked on the overlaid group and the   *)
(* atomic list carries the whole group.                                    *)
(***************************************************************************)
ScaleCommitsValidBounds ==
  [][\A c \in Call : Commits(c) /\ call[c].req.op = "scale" =>
       LET wg == live'.val["groups"][call[c].req.group]
       IN 0 <= wg.min /\ wg.min <= wg.max /\ wg.rep <= wg.max]_vars

(***************************************************************************)
(* How a call stands in the contract of write tools: it has read when it   *)
(* has a body made of what it read (a create reads nothing), and has lost  *)
(* a race for the fields that were stamped after its read, and for the     *)
(* existence of the cluster when the one it read is gone.                  *)
(***************************************************************************)
Dry(r) == r.dry

StateOf(k) ==
  IF k.phase \notin {"read", "preview", "commit", "emit"} THEN k.phase
  ELSE IF k.commits > 0 THEN "written"
  ELSE IF k.phase = "read" \/ k.req.op = "create" THEN "begun"
  ELSE "read"

Parts == TypedField \union {"exists"}

Whole(object) == [p \in Parts |-> IF p = "exists" THEN object.exists ELSE object.val[p]]

RacedSince(base, object) ==
  {p \in Parts : IF p = "exists" THEN ~object.exists \/ object.uid > base
                 ELSE object.touched[p] > base}

(* Only a create makes a cluster that is not there. *)
MakesOf(r, p, v, w) ==
  IF p = "exists" THEN w = IF r.op = "create" THEN TRUE ELSE v ELSE Overlays(r, p, v, w)

Transaction(k, object) ==
  [state  |-> StateOf(k),
   req    |-> k.req,
   raced  |-> IF StateOf(k) = "read" THEN RacedSince(k.base, object) ELSE {},
   writes |-> k.commits,
   answer |-> IF k.phase = "done" THEN k.out ELSE "none"]

Contract == INSTANCE AtomicWrite WITH
  Part <- Parts, None <- Absent, Overlays <- MakesOf,
  obj <- Whole(live), tx <- [c \in Call |-> Transaction(call[c], live)]

(***************************************************************************)
(* The tools keep the contract of write tools: at most one write per call, *)
(* its forced retry and lost answers included, atomic on every field       *)
(* nobody raced it for, and an answer that tells; and an update or a scale *)
(* makes no cluster, but in place of one that was deleted after its read   *)
(* (cluster_update.go, applyWithConflictRetry and readForWrite; apply.go,  *)
(* Apply).                                                                 *)
(***************************************************************************)
ImplementsAtomicWrite == Contract!Spec
=============================================================================
