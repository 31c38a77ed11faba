------------------------------ MODULE ServiceWrite ------------------------------
(***************************************************************************)
(* The RayService write path: ray_service_deploy and ray_service_update    *)
(* against one RayService that kubectl users write and whose clusters the  *)
(* KubeRay operator runs.                                                  *)
(*                                                                         *)
(* A deploy builds its object from the arguments; an update reads the live *)
(* object and overlays them.  Both run the pipeline of ApplyService once:  *)
(* a server-side dry run, an unforced apply, an audit record.  An          *)
(* ownership conflict is the answer: unlike the RayCluster tools nothing   *)
(* is retried or forced.  An update also predicts, from the object it read *)
(* and the one it submits, what the operator will do with the change.      *)
(***************************************************************************)
EXTENDS Integers, Sequences

CONSTANTS
  Call,          \* tool calls, each served by its own goroutine
  Image,         \* container images
  Scalar,        \* values of the scalar fields, NoSwap among them
  Absent,        \* a field or an argument that is not there
  NoSwap,        \* upgradeStrategy.type: None
  TypedField,    \* fields the compiled rayv1 types can decode
  SwapsByDefault,\* the operator's ENABLE_ZERO_DOWNTIME
  Request,       \* tool calls a client may make
  UserEdit,      \* edits a kubectl user may make
  UserObject,    \* the object a kubectl user creates
  MaxRevision    \* bound: kubectl users write only below this revision

(***************************************************************************)
(* The ownership units of a RayService: spec.serveConfigV2,                *)
(* spec.upgradeStrategy.type; of spec.rayClusterConfig its scalars         *)
(* (rayVersion, enableInTreeAutoscaling), the head group's image, the      *)
(* atomic workerGroupSpecs and a field newer than the compiled types; and  *)
(* a label.                                                                *)
(***************************************************************************)
ClusterField == {"version", "head", "groups", "novel"}
SpecField    == ClusterField \union {"serve", "strategy"}
Field        == SpecField \union {"label"}

RayMcp  == "ray-mcp"
Kubectl == "kubectl"
Manager == {RayMcp, Kubectl}

Server == INSTANCE ServerSideApply

(***************************************************************************)
(* A worker group: its image stands for all that the operator hashes, rep  *)
(* for all that it does not (replicas and bounds, workersToDelete,         *)
(* tolerations, scheduling gates).  Worker groups go by their position.    *)
(***************************************************************************)
WorkerGroup == [img : Image, rep : Int]
GroupList   == Seq(WorkerGroup) \ {<<>>}
Value       == {Absent} \union Scalar \union Image \union GroupList

(* The schema: workerGroupSpecs is a list. *)
ListsGroups(s) == "groups" \in DOMAIN s => s["groups"] \in {Absent} \union GroupList

IsOverlay(s) == DOMAIN s \subseteq Field /\ s \in [DOMAIN s -> Value] /\ ListsGroups(s)

Object == {o \in [Field -> Value] : ListsGroups(o)}

(***************************************************************************)
(* Decoded arguments.  set is the overlay of the curated deltas and of     *)
(* rawSpec (Absent: a null, which deletes the key); retarget marks a       *)
(* rawSpec that names another object.                                      *)
(***************************************************************************)
DeployRequest == [op : {"deploy"}, dry : BOOLEAN, retarget : BOOLEAN, set : Object]
IsUpdateRequest(r) ==
  /\ r \in [op : {"update"}, dry : BOOLEAN, retarget : BOOLEAN,
            image : Image \union {Absent}, set : {r.set}]
  /\ IsOverlay(r.set)

ASSUME AbsentAssumption  == Absent \notin Scalar \union Image \union GroupList \union Seq(Image)
ASSUME ScalarAssumption  == /\ NoSwap \in Scalar
                            /\ \A v \in Scalar \union Image : v \notin GroupList
ASSUME RequestAssumption == Absent \notin Request /\ \A r \in Request : r \in DeployRequest \/ IsUpdateRequest(r)
ASSUME TypedAssumption   == TypedField \subseteq Field
ASSUME UserAssumption    == /\ UserObject \in Object
                            /\ \A e \in UserEdit : IsOverlay(e)
ASSUME OperatorAssumption == SwapsByDefault \in BOOLEAN
ASSUME BoundAssumption   == MaxRevision \in Nat

VARIABLES
  live,     \* the RayService in etcd, and the revision that last changed each field
  rv,       \* etcd's revision counter
  built,    \* the spec that the operator's clusters and serve applications reflect
  forecast, \* history: the ways of the operator that would bear out the last prediction, if any
  call,     \* the state of each tool call
  audit     \* the audit records each call has written, oldest first

vars == <<live, rv, built, forecast, call, audit>>

Phase   == {"idle", "read", "preview", "commit", "emit", "done", "crashed"}
Outcome == {"none", "ok", "conflict", "notFound", "refused", "error"}
Path    == {"in-place", "append", "swap", "swap or no-op", "scale", "no change"}
Way     == {"in-place", "append", "swap", "no-op", "scale", "no change"}

NoCall == [phase |-> "idle", req |-> Absent, body |-> Server!NoValues,
           predicted |-> Absent, out |-> "none",
           base |-> 0,       \* history: revision of the read the body is built from
           commits |-> 0]    \* history: applies the server persisted for this call

InFlight(c) == call[c].phase \in {"read", "preview", "commit", "emit"}

TypeOK ==
  /\ live \in [exists : BOOLEAN, val : Object,
               own : [Field -> SUBSET Manager], touched : [Field -> Nat]]
  /\ rv \in Nat
  /\ built \in Object
  /\ forecast \in SUBSET Way
  /\ call \in [Call -> [phase : Phase, req : Request \union {Absent}, body : Object,
                        predicted : Path \union {Absent}, out : Outcome, base : Nat, commits : Nat]]
  /\ audit \in [Call -> Seq([dry : BOOLEAN, ok : BOOLEAN])]

-----------------------------------------------------------------------------
(* The classifier: what will the operator do with a change? *)

GroupsOf(val) == IF val["groups"] = Absent THEN <<>> ELSE val["groups"]

(* normalizeForHash: the cluster config without what the operator's hash leaves out. *)
NormalizeForHash(val) ==
  [f \in ClusterField |->
     IF f = "groups" /\ val[f] # Absent THEN [i \in DOMAIN val[f] |-> val[f][i].img] ELSE val[f]]

(***************************************************************************)
(* The classifier compares decoded JSON with reflect.DeepEqual, and what a *)
(* rawSpec writes is spelled as the caller spelled it: its numbers are     *)
(* float64 where the read object's are int64, and it lacks what the CRD    *)
(* defaults and the compiled types fill in (numOfHosts, zero values).  The *)
(* form of an update tells how it compares, apart from its content, with   *)
(* the read object: equal; different only in what the hash leaves out      *)
(* (replica counts); different in what is hashed as well.  The strings and *)
(* Booleans of the curated deltas are always spelled like the read ones.   *)
(***************************************************************************)
Form == {"same", "counts", "hashed"}

Respelled(r) == r.op = "update" /\ DOMAIN r.set \intersect {"head", "groups", "novel"} # {}

Forms(r) == IF Respelled(r) THEN Form ELSE {"same"}

(* reflect.DeepEqual of the two normalized configs. *)
HashEqual(val, submitted, form) ==
  form # "hashed" /\ NormalizeForHash(val) = NormalizeForHash(submitted)

(* partialHashEqual: groups were added at the end, and that is all.  Without a *)
(* list on the live side the truncated one is empty, which is not the same.    *)
PartialHashEqual(val, submitted, form) ==
  LET n == Len(GroupsOf(val))
  IN /\ Len(GroupsOf(submitted)) > n
     /\ HashEqual(val, [submitted EXCEPT !["groups"] = SubSeq(GroupsOf(submitted), 1, n)], form)

ClassifyClusterChange(submitted) ==
  IF submitted["strategy"] \in {Absent, NoSwap} THEN "swap or no-op" ELSE "swap"

ReplicasOrExcludedChanged(val, submitted, form) ==
  form # "same" \/ \E f \in ClusterField : val[f] # submitted[f]

ClassifyServiceUpdate(val, submitted, form) ==
  IF ~HashEqual(val, submitted, form)
  THEN IF PartialHashEqual(val, submitted, form) THEN "append" ELSE ClassifyClusterChange(submitted)
  ELSE IF val["serve"] # submitted["serve"] THEN "in-place"
  ELSE IF ReplicasOrExcludedChanged(val, submitted, form) THEN "scale"
  ELSE "no change"

-----------------------------------------------------------------------------
(* Pure steps of the two handlers. *)

(* setClusterImage: the image of the head's and of every worker group's first container. *)
SetClusterImage(f, v, image) ==
  IF image # Absent /\ f = "head" /\ v # Absent THEN image
  ELSE IF image # Absent /\ f = "groups" /\ v \in GroupList
       THEN [i \in DOMAIN v |-> [v[i] EXCEPT !.img = image]]
  ELSE v

(* What request r makes of one field whose value is v. *)
Intent(r, f, v) ==
  CASE r.op = "deploy" -> r.set[f]
    [] r.op = "update" -> IF f \in DOMAIN r.set THEN r.set[f] ELSE SetClusterImage(f, v, r.image)

(* GetService decodes into the compiled types: what they do not know is lost. *)
Decoded(val) == [f \in Field |-> IF f \in TypedField THEN val[f] ELSE Absent]

(* Mutant: only what the caller changes is sent, a partial apply. *)
PartialBody(r, val) ==
  [f \in Field |-> IF Intent(r, f, val[f]) = val[f] THEN Absent ELSE Intent(r, f, val[f])]

(* The apply body: the whole object as read, overlaid. *)
Body(r, val) == [f \in Field |-> Intent(r, f, val[f])]

(* The deploy's identity guard in Merge, and Update's hasChange. *)
RefusedUnread(r) ==
  \/ r.op = "deploy" /\ r.retarget
  \/ r.op = "update" /\ r.image = Absent /\ DOMAIN r.set = {} /\ ~r.retarget

-----------------------------------------------------------------------------
(* The operator. *)

(* The operator hashes what the tool's normalizeForHash keeps; no list is an empty list. *)
OperatorHash(val) ==
  [f \in ClusterField |->
     IF f = "groups" THEN [i \in DOMAIN GroupsOf(val) |-> GroupsOf(val)[i].img] ELSE val[f]]

OnlyAppends(old, goal) ==
  LET n == Len(GroupsOf(old))
  IN /\ Len(GroupsOf(goal)) > n
     /\ OperatorHash(old) =
          OperatorHash([goal EXCEPT !["groups"] = SubSeq(GroupsOf(goal), 1, n)])

(* Whether a changed cluster may be replaced: upgradeStrategy.type, or the operator's default. *)
ZeroDowntime(goal) ==
  IF goal["strategy"] = Absent THEN SwapsByDefault ELSE goal["strategy"] # NoSwap

(* What the operator, whose clusters reflect old, does with the spec goal. *)
OperatorPath(old, goal) ==
  IF OperatorHash(old) # OperatorHash(goal)
  THEN IF OnlyAppends(old, goal) THEN "append"
       ELSE IF ZeroDowntime(goal) THEN "swap" ELSE "no-op"
  ELSE IF old["serve"] # goal["serve"] THEN "in-place"
  ELSE IF \E f \in ClusterField : old[f] # goal[f] THEN "scale"
  ELSE "no change"

Unbuilt == built = Server!NoValues

Settled == ~Unbuilt /\ OperatorPath(built, live.val) = "no change"

(* The operator sees the spec and acts; the first cluster is always built. *)
Reconcile ==
  /\ live.exists
  /\ Unbuilt \/ OperatorPath(built, live.val) \notin {"no change", "no-op"}
  /\ built' = live.val
  /\ forecast' = {}
  /\ UNCHANGED <<live, rv, call, audit>>

-----------------------------------------------------------------------------
(* The server's state changes. *)

(***************************************************************************)
(* Persist values and owners: every changed field is stamped with the new  *)
(* revision.  A write that changes nothing makes no revision.              *)
(***************************************************************************)
Persist(exists, val, own) ==
  LET next == rv + 1
  IN IF exists = live.exists /\ val = live.val /\ own = live.own
     THEN UNCHANGED <<live, rv>>
     ELSE /\ rv' = next
          /\ live' = [exists |-> exists, val |-> val, own |-> own,
                      touched |-> [f \in Field |-> IF val[f] = live.val[f]
                                                   THEN live.touched[f] ELSE next]]

OwnedBy(m, val) == [f \in Field |-> IF val[f] = Absent THEN {} ELSE {m}]

(* The service was created by a kubectl user or by an earlier deploy of this server. *)
Init ==
  /\ \E m \in Manager :
       live = [exists |-> TRUE, val |-> UserObject, own |-> OwnedBy(m, UserObject),
               touched |-> [f \in Field |-> 0]]
  /\ rv = 0
  /\ built = UserObject
  /\ forecast = {}
  /\ call = [c \in Call |-> NoCall]
  /\ audit = [c \in Call |-> <<>>]

KubectlEdit ==
  /\ live.exists /\ rv < MaxRevision
  /\ \E e \in UserEdit :
       LET val == [f \in Field |-> IF f \in DOMAIN e THEN e[f] ELSE live.val[f]]
       IN /\ val # live.val
          /\ Persist(TRUE, val, [f \in Field |-> Server!WrittenOwners(live, Kubectl, val, f)])
  /\ forecast' = {}
  /\ UNCHANGED <<built, call, audit>>

(* The clusters go with the service. *)
KubectlDelete ==
  /\ live.exists /\ rv < MaxRevision
  /\ Persist(FALSE, Server!NoValues, Server!NoOwners)
  /\ built' = Server!NoValues
  /\ forecast' = {}
  /\ UNCHANGED <<call, audit>>

KubectlCreate ==
  /\ ~live.exists /\ rv < MaxRevision
  /\ Persist(TRUE, UserObject, OwnedBy(Kubectl, UserObject))
  /\ forecast' = {}
  /\ UNCHANGED <<built, call, audit>>

-----------------------------------------------------------------------------
(* The tool calls. *)

(* The call's state becomes next; the other calls stay. *)
Becomes(c, next) == call' = [call EXCEPT ![c] = next]

(* A call that is over: what it read and built is gone. *)
Over(c, phase, out) ==
  [NoCall EXCEPT !.phase = phase, !.out = out, !.req = call[c].req, !.commits = call[c].commits]

Finish(c, out) == Becomes(c, Over(c, "done", out))

Record(c, dry, ok) == audit' = [audit EXCEPT ![c] = Append(@, [dry |-> dry, ok |-> ok])]

(* A handler starts.  Deploy builds its body from the arguments; update reads first. *)
Begin(c, r) ==
  /\ call[c].phase = "idle"
  /\ \/ /\ RefusedUnread(r)
        /\ Becomes(c, [call[c] EXCEPT !.phase = "done", !.req = r, !.out = "refused"])
     \/ /\ ~RefusedUnread(r) /\ r.op = "deploy"
        /\ Becomes(c, [call[c] EXCEPT !.phase = "preview", !.req = r,
                                      !.body = r.set, !.base = rv])
     \/ /\ ~RefusedUnread(r) /\ r.op = "update"
        /\ Becomes(c, [call[c] EXCEPT !.phase = "read", !.req = r])
  /\ UNCHANGED <<live, rv, built, forecast, audit>>

(* Mutant: the deltas are written into the snapshot the classifier compares with. *)
SnapshotAliased(c) ==
  LET r == call[c].req
      read == Decoded(live.val)
  IN /\ call[c].phase = "read" /\ live.exists /\ ~r.retarget
     /\ \E form \in Forms(r) :
          Becomes(c, [call[c] EXCEPT !.phase = "preview", !.base = rv,
                                     !.body = Body(r, read),
                                     !.predicted = ClassifyServiceUpdate(Body(r, read), Body(r, read), form)])
     /\ UNCHANGED <<live, rv, built, forecast, audit>>

(* GetService finds no service, or fails: forbidden, timed out, cancelled. *)
ReadFails(c) ==
  \/ ~live.exists /\ Finish(c, "notFound")
  \/ Finish(c, "error")

(***************************************************************************)
(* Update up to the pipeline: readForWrite, the snapshot, the overlay, the *)
(* identity guard of Merge, the prediction.                                *)
(***************************************************************************)
Build(c) ==
  LET r    == call[c].req
      read == Decoded(live.val)
      body == Body(r, read)
  IN /\ call[c].phase = "read"
     /\ \/ /\ live.exists /\ ~r.retarget
           /\ \E form \in Forms(r) :
                Becomes(c, [call[c] EXCEPT !.phase = "preview", !.base = rv,
                                           !.body = body,
                                           !.predicted = ClassifyServiceUpdate(read, body, form)])
        \/ live.exists /\ r.retarget /\ Finish(c, "refused")
        \/ ReadFails(c)
     /\ UNCHANGED <<live, rv, built, forecast, audit>>

(* Mutant: the apply is forced. *)
NeverClash(c) == FALSE

Clash(c) == Server!Conflicts(live, RayMcp, call[c].body) # {}

(* Step 1 of ApplyService.Apply: the unconditional dry run, which detects conflicts. *)
Preview(c) ==
  /\ call[c].phase = "preview"
  /\ \/ /\ ~Clash(c) /\ ~call[c].req.dry
        /\ Becomes(c, [call[c] EXCEPT !.phase = "commit"])
        /\ UNCHANGED audit
     \/ /\ ~Clash(c) /\ call[c].req.dry
        /\ Record(c, TRUE, TRUE)
        /\ Finish(c, "ok")
     \/ /\ Clash(c)
        /\ Record(c, TRUE, FALSE)
        /\ Finish(c, "conflict")
     \/ /\ Record(c, TRUE, FALSE)      \* rejected by the schema, forbidden, timed out
        /\ Finish(c, "error")
  /\ UNCHANGED <<live, rv, built, forecast>>

(***************************************************************************)
(* History: a prediction can be held against the operator when nobody      *)
(* wrote the spec between the read and the apply, the operator had         *)
(* finished with the spec that was read, the compiled types know all of    *)
(* it, the spec in etcd is now the one submitted, and the service had      *)
(* worker groups (or still has none).                                      *)
(***************************************************************************)
Foreseeable(c, val) ==
  /\ call[c].req.op = "update"
  /\ Settled
  /\ \A f \in SpecField : /\ live.touched[f] <= call[c].base
                          /\ live.val[f] = Decoded(live.val)[f]
                          /\ val[f] = call[c].body[f]
  /\ live.val["groups"] # Absent \/ val["groups"] = Absent

(***************************************************************************)
(* The operator's ways that bear out the prediction given for request r.   *)
(* It is exact, but that a rawSpec spelled unlike the read object may have *)
(* been taken for more than it changes: the operator then does less.       *)
(***************************************************************************)
Milder(path) ==
  IF path \in {"swap", "swap or no-op"} THEN {"append", "in-place", "scale", "no change"}
  ELSE IF path = "scale" THEN {"no change"}
  ELSE {}

BornOut(r, path) ==
  {way \in Way : \/ way = path
                 \/ path = "swap or no-op" /\ way \in {"swap", "no-op"}
                 \/ Respelled(r) /\ way \in Milder(path)}

(* Step 7: the commit.  The server may persist it and its answer be lost. *)
Commit(c) ==
  LET body == call[c].body
      val  == [f \in Field |-> Server!AppliedValue(live, RayMcp, body, f)]
  IN /\ call[c].phase = "commit"
     /\ \/ /\ ~Clash(c)
           /\ Persist(TRUE, val, [f \in Field |-> Server!AppliedOwners(live, RayMcp, body, f)])
           /\ forecast' = IF Foreseeable(c, val) THEN BornOut(call[c].req, call[c].predicted) ELSE {}
           /\ \E out \in {"ok", "error"} :
                Becomes(c, [call[c] EXCEPT !.phase = "emit", !.out = out, !.commits = @ + 1])
        \/ /\ Clash(c)
           /\ Becomes(c, [call[c] EXCEPT !.phase = "emit", !.out = "conflict"])
           /\ UNCHANGED <<live, rv, forecast>>
        \/ /\ Becomes(c, [call[c] EXCEPT !.phase = "emit", !.out = "error"])
           /\ UNCHANGED <<live, rv, forecast>>
     /\ UNCHANGED <<built, audit>>

(* The audit record of a commit, and the answer to the caller. *)
Emit(c) ==
  /\ call[c].phase = "emit"
  /\ Record(c, FALSE, call[c].out = "ok")
  /\ Finish(c, call[c].out)
  /\ UNCHANGED <<live, rv, built, forecast>>

(* The process dies and restarts: it keeps no state between calls. *)
Crash ==
  /\ \E c \in Call : InFlight(c)
  /\ call' = [c \in Call |-> IF InFlight(c) THEN Over(c, "crashed", "none") ELSE call[c]]
  /\ UNCHANGED <<live, rv, built, forecast, audit>>

Environment == Reconcile \/ KubectlEdit \/ KubectlDelete \/ KubectlCreate

Step(c) == Build(c) \/ Preview(c) \/ Commit(c) \/ Emit(c)

Next ==
  \/ Environment
  \/ Crash
  \/ \E c \in Call : Step(c) \/ \E r \in Request : Begin(c, r)

(* Every request to the API server is answered or fails, and goroutines run. *)
Fairness == \A c \in Call : WF_vars(Step(c))

Spec == Init /\ [][Next]_vars /\ Fairness
-----------------------------------------------------------------------------
(* Properties. *)

(* The server persists an apply of call c. *)
Commits(c) == call[c].phase = "commit" /\ call'[c].commits # call[c].commits

(***************************************************************************)
(* The faithful predictor: once an update is in etcd, and until the spec   *)
(* changes again, the operator is about to do what the update predicted,   *)
(* given that the prediction is Foreseeable: for curated deltas exactly    *)
(* that, for a rawSpec never more than that.  The snapshot is taken before *)
(* the deltas, the strategy from the submitted spec, and what is submitted *)
(* is what lands (service_write.go, Update and classifyServiceUpdate).     *)
(***************************************************************************)
PredictionHolds == forecast # {} => OperatorPath(built, live.val) \in forecast

(***************************************************************************)
(* A service write never changes a field another manager owns, whenever    *)
(* that manager came to own it: nothing is forced, and the server checks   *)
(* again at the commit (apply.go: Force is left false by Deploy and        *)
(* Update).                                                                *)
(***************************************************************************)
NothingIsTaken ==
  [][\A c \in Call : Commits(c) =>
       \A f \in Field : live.own[f] \ {RayMcp} # {} => live'.val[f] = live.val[f]]_vars

(* Request r may make w of the value v of field f: a co-owner keeps what is left out. *)
Overlays(r, f, v, w) == w = Intent(r, f, v) \/ (Intent(r, f, v) = Absent /\ w = v)

Overlaid(c, f) == Overlays(call[c].req, f, live.val[f], live'.val[f])

(***************************************************************************)
(* An update leaves every field as if it had read, overlaid and applied in *)
(* one step, unless somebody wrote that field after its read: it prunes    *)
(* and reverts nothing older (service_write.go, readForWrite sends the     *)
(* whole object back).                                                     *)
(***************************************************************************)
UpdateIsAtomicUnlessRaced ==
  [][\A c \in Call : Commits(c) /\ call[c].req.op = "update" =>
       \A f \in TypedField : live.touched[f] <= call[c].base => Overlaid(c, f)]_vars

(***************************************************************************)
(* A call whose answer was lost may be repeated: after its commit the same *)
(* request, built from what is there now, is not refused, conflicts with   *)
(* nobody and changes no value and no owner, unless an update lost a race  *)
(* (service_write.go, Deploy and Update).                                  *)
(***************************************************************************)
ChangesNothing(r, object) ==
  LET body == Body(r, Decoded(object.val))
  IN /\ ~r.retarget
     /\ Server!Conflicts(object, RayMcp, body) = {}
     /\ \A f \in Field : /\ Server!AppliedValue(object, RayMcp, body, f) = object.val[f]
                         /\ Server!AppliedOwners(object, RayMcp, body, f) = object.own[f]

RepeatIsHarmless ==
  [][\A c \in Call : Commits(c) =>
       \/ ChangesNothing(call[c].req, live')
       \/ call[c].req.op # "deploy" /\ \E f \in TypedField : live.touched[f] > call[c].base]_vars

(***************************************************************************)
(* The one attempt of a call: it persists at most one apply, a call that   *)
(* returned from the pipeline left exactly one record, and the answer, the *)
(* record and etcd agree: a success that is not a dry run persisted, a     *)
(* conflict did not, and an apply whose answer was lost is on record as a  *)
(* failed write, not as a failed dry run (apply.go, Apply).                *)
(***************************************************************************)
OneAttempt ==
  \A c \in Call :
    LET k == call[c]
        a == audit[c]
    IN /\ k.commits <= 1
       /\ k.phase = "done" /\ k.out \in {"ok", "conflict"} => Len(a) = 1 /\ a[1].ok = (k.out = "ok")
       /\ k.phase = "done" /\ k.out = "ok" => k.commits = (IF k.req.dry THEN 0 ELSE 1)
       /\ k.phase = "done" /\ k.out = "conflict" => k.commits = 0
       /\ k.phase = "done" /\ k.commits = 1 => Len(a) = 1 /\ ~a[1].dry

(***************************************************************************)
(* How a call stands in the contract of write tools: it has read when it   *)
(* has a body made of what it read (a deploy reads nothing), and has lost  *)
(* a race for the fields that were stamped after its read.                 *)
(***************************************************************************)
Dry(r) == r.dry

StateOf(k) ==
  IF k.phase \notin {"read", "preview", "commit", "emit"} THEN k.phase
  ELSE IF k.commits > 0 THEN "written"
  ELSE IF k.phase = "read" \/ k.req.op = "deploy" THEN "begun"
  ELSE "read"

Transaction(k, object) ==
  [state  |-> StateOf(k),
   req    |-> k.req,
   raced  |-> IF StateOf(k) = "read" THEN {f \in TypedField : object.touched[f] > k.base} ELSE {},
   writes |-> k.commits,
   answer |-> IF k.phase = "done" THEN k.out ELSE "none"]

Contract == INSTANCE AtomicWrite WITH
  Part <- TypedField, None <- Absent,
  obj <- [f \in TypedField |-> live.val[f]], tx <- [c \in Call |-> Transaction(call[c], live)]

(***************************************************************************)
(* The tools keep the contract of write tools: at most one write, lost     *)
(* answers included, atomic on every field nobody raced it for, and an     *)
(* answer that tells of it (service_write.go, Deploy and Update; apply.go, *)
(* Apply).                                                                 *)
(***************************************************************************)
ImplementsAtomicWrite == Contract!Spec
=============================================================================
