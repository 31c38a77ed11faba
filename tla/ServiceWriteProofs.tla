-------------------------- MODULE ServiceWriteProofs --------------------------
(***************************************************************************)
(* What holds of the RayService write path for any number of calls,        *)
(* requests, worker groups and concurrent writers.                         *)
(***************************************************************************)
EXTENDS ServiceWrite, SequenceTheorems, TLAPS

Live == [exists : BOOLEAN, val : Object, own : [Field -> SUBSET Manager], touched : [Field -> Nat]]

CallRecord == [phase : Phase, req : Request \union {Absent}, body : Object,
               predicted : Path \union {Absent}, out : Outcome, base : Nat, commits : Nat]

LEMMA GroupsInField == "groups" \in Field /\ ClusterField \subseteq SpecField /\ SpecField \subseteq Field
BY DEF Field, SpecField, ClusterField

LEMMA NothingIsAnObject == Server!NoValues \in Object
BY DEF Server!NoValues, Object, ListsGroups, Value

LEMMA DecodedType ==
  ASSUME NEW val \in Object PROVE Decoded(val) \in Object
BY GroupsInField DEF Decoded, Object, ListsGroups, Value

LEMMA ImageType ==
  ASSUME NEW v \in GroupList, NEW image \in Image
  PROVE [i \in DOMAIN v |-> [v[i] EXCEPT !.img = image]] \in GroupList
<1> DEFINE w == [i \in DOMAIN v |-> [v[i] EXCEPT !.img = image]]
<1>1. v \in Seq(WorkerGroup) /\ v # <<>> /\ Len(v) \in Nat /\ DOMAIN v = 1..Len(v)
  BY LenProperties DEF GroupList
<1>2. \A i \in 1..Len(v) : v[i] \in WorkerGroup
  BY <1>1, ElementOfSeq
<1>3. \A i \in 1..Len(v) : [v[i] EXCEPT !.img = image] \in WorkerGroup
  BY <1>2 DEF WorkerGroup
<1>4. w \in [1..Len(v) -> WorkerGroup]
  BY <1>1, <1>3
<1>5. w \in Seq(WorkerGroup) /\ Len(w) = Len(v)
  <2> HIDE DEF w
  <2> QED BY <1>1, <1>4, SeqDef, LenProperties
<1>6. Len(v) # 0
  BY <1>1, EmptySeq
<1>7. w # <<>>
  BY <1>5, <1>6, EmptySeq
<1> QED BY <1>5, <1>7 DEF GroupList

LEMMA ImageOfField ==
  ASSUME NEW val \in Object, NEW f \in Field, NEW image \in Image \union {Absent}
  PROVE /\ SetClusterImage(f, val[f], image) \in Value
        /\ f = "groups" => SetClusterImage(f, val[f], image) \in {Absent} \union GroupList
<1>1. CASE image # Absent /\ f = "groups" /\ val[f] \in GroupList
  BY <1>1, ImageType DEF SetClusterImage, Value
<1>2. CASE ~(image # Absent /\ f = "groups" /\ val[f] \in GroupList)
  BY <1>2 DEF SetClusterImage, Value, Object, ListsGroups
<1> QED BY <1>1, <1>2

LEMMA BodyType ==
  ASSUME NEW r \in Request, NEW val \in Object PROVE Body(r, val) \in Object
<1> USE GroupsInField
<1>1. CASE r \in DeployRequest
  BY <1>1 DEF DeployRequest, Body, Intent, Object, ListsGroups
<1>2. CASE IsUpdateRequest(r)
  <2>1. r.op = "update" /\ r.image \in Image \union {Absent} /\ IsOverlay(r.set)
    BY <1>2 DEF IsUpdateRequest
  <2>2. \A f \in Field : Body(r, val)[f] = IF f \in DOMAIN r.set THEN r.set[f]
                                           ELSE SetClusterImage(f, val[f], r.image)
    BY <2>1 DEF Body, Intent
  <2>3. \A f \in Field : Body(r, val)[f] \in Value
    BY <2>1, <2>2, ImageOfField DEF IsOverlay
  <2>4. ListsGroups(Body(r, val))
    BY <2>1, <2>2, ImageOfField DEF IsOverlay, ListsGroups, Body
  <2> QED BY <2>3, <2>4 DEF Object, Body
<1> QED BY <1>1, <1>2, RequestAssumption

LEMMA ClassifyType ==
  ASSUME NEW val, NEW submitted, NEW form
  PROVE ClassifyServiceUpdate(val, submitted, form) \in Path
BY DEF ClassifyServiceUpdate, ClassifyClusterChange, Path

(* The server's operators keep the types of values and owners. *)
LEMMA AppliedType ==
  ASSUME live \in Live, NEW body \in Object
  PROVE /\ [f \in Field |-> Server!AppliedValue(live, RayMcp, body, f)] \in Object
        /\ [f \in Field |-> Server!AppliedOwners(live, RayMcp, body, f)] \in [Field -> SUBSET Manager]
<1> USE GroupsInField
<1>1. live.val \in Object /\ live.own \in [Field -> SUBSET Manager]
  BY DEF Live
<1>2. [f \in Field |-> Server!AppliedValue(live, RayMcp, body, f)] \in Object
  BY <1>1 DEF Server!AppliedValue, Object, ListsGroups, Value
<1>3. [f \in Field |-> Server!AppliedOwners(live, RayMcp, body, f)] \in [Field -> SUBSET Manager]
  BY <1>1 DEF Server!AppliedOwners, Manager
<1> QED BY <1>2, <1>3

LEMMA PersistType ==
  ASSUME live \in Live, rv \in Nat, NEW exists \in BOOLEAN, NEW val \in Object,
         NEW own \in [Field -> SUBSET Manager], Persist(exists, val, own)
  PROVE live' \in Live /\ rv' \in Nat
BY DEF Live, Persist

LEMMA UserObjectType ==
  /\ UserObject \in Object
  /\ \A m \in Manager : OwnedBy(m, UserObject) \in [Field -> SUBSET Manager]
BY UserAssumption DEF Manager, OwnedBy

(* A call that has begun has a request. *)
Begun == \A c \in Call : call[c].phase # "idle" => call[c].req \in Request

TypeInv == TypeOK /\ Begun

LEMMA TypeInvInit == Init => TypeInv
<1> SUFFICES ASSUME Init PROVE TypeInv
  OBVIOUS
<1>1. live \in Live /\ rv \in Nat /\ built \in Object
  BY UserObjectType DEF Init, Live
<1>2. call \in [Call -> CallRecord]
  BY NothingIsAnObject DEF Init, NoCall, CallRecord, Phase, Outcome
<1>3. audit \in [Call -> Seq([dry : BOOLEAN, ok : BOOLEAN])]
  BY DEF Init
<1>4. Begun
  BY DEF Init, NoCall, Begun
<1> QED BY <1>1, <1>2, <1>3, <1>4 DEF TypeInv, TypeOK, Live, CallRecord, Init

LEMMA MovedType ==
  ASSUME TypeInv, NEW c \in Call, NEW next \in CallRecord,
         next.phase # "idle" => next.req \in Request, Becomes(c, next)
  PROVE call' \in [Call -> CallRecord] /\ Begun'
BY DEF TypeInv, TypeOK, Begun, Becomes, CallRecord

LEMMA RecordType ==
  ASSUME TypeInv, NEW c \in Call, NEW dry \in BOOLEAN, NEW ok \in BOOLEAN, Record(c, dry, ok)
  PROVE audit' \in [Call -> Seq([dry : BOOLEAN, ok : BOOLEAN])]
BY DEF TypeInv, TypeOK, Record

LEMMA OverType ==
  ASSUME TypeInv, NEW c \in Call, NEW phase \in Phase, NEW out \in Outcome
  PROVE LET next == Over(c, phase, out)
        IN /\ next \in CallRecord
           /\ next.phase = phase /\ next.req = call[c].req /\ next.out = out
           /\ next.base = 0 /\ next.commits = call[c].commits
<1>1. call[c] \in CallRecord
  BY DEF TypeInv, TypeOK, CallRecord
<1>2. [NoCall EXCEPT !.phase = phase, !.out = out, !.req = call[c].req] \in CallRecord
  BY <1>1, NothingIsAnObject DEF NoCall, CallRecord
<1> QED BY <1>1, <1>2 DEF Over, NoCall, CallRecord

LEMMA FinishType ==
  ASSUME TypeInv, NEW c \in Call, call[c].phase # "idle", NEW out \in Outcome, Finish(c, out)
  PROVE call' \in [Call -> CallRecord] /\ Begun'
<1>1. "done" \in Phase
  BY DEF Phase
<1>2. Over(c, "done", out) \in CallRecord /\ Over(c, "done", out).req = call[c].req
  BY <1>1, OverType
<1>3. call[c].req \in Request
  BY DEF TypeInv, Begun
<1> QED BY <1>2, <1>3, MovedType DEF Finish

LEMMA BeginType ==
  ASSUME TypeInv, NEW c \in Call, NEW r \in Request, Begin(c, r) PROVE TypeInv'
<1> SUFFICES call' \in [Call -> CallRecord] /\ Begun'
  BY DEF Begin, TypeInv, TypeOK, CallRecord
<1> DEFINE refused == [call[c] EXCEPT !.phase = "done", !.req = r, !.out = "refused"]
           apply   == [call[c] EXCEPT !.phase = "preview", !.req = r, !.body = r.set, !.base = rv]
           read    == [call[c] EXCEPT !.phase = "read", !.req = r]
<1>1. CASE Becomes(c, refused)
  <2>1. refused \in CallRecord /\ refused.req = r
    BY DEF TypeInv, TypeOK, CallRecord, Phase, Outcome
  <2> QED BY <1>1, <2>1, MovedType
<1>2. CASE r.op = "deploy" /\ Becomes(c, apply)
  <2>1. r.set \in Object
    BY <1>2, RequestAssumption DEF DeployRequest, IsUpdateRequest
  <2>2. call[c] \in CallRecord /\ rv \in Nat
    BY DEF TypeInv, TypeOK, CallRecord
  <2>3. apply \in CallRecord /\ apply.req = r
    BY <2>1, <2>2 DEF CallRecord, Phase
  <2> QED BY <1>2, <2>3, MovedType
<1>3. CASE Becomes(c, read)
  <2>1. call[c] \in CallRecord
    BY DEF TypeInv, TypeOK, CallRecord
  <2>2. read \in CallRecord /\ read.req = r
    BY <2>1 DEF CallRecord, Phase
  <2> QED BY <1>3, <2>2, MovedType
<1> QED BY <1>1, <1>2, <1>3 DEF Begin

(* What the read of an update hands to the pipeline, when the update compares in this form. *)
Read(c, form) ==
  [call[c] EXCEPT !.phase = "preview", !.base = rv, !.body = Body(call[c].req, Decoded(live.val)),
                  !.predicted = ClassifyServiceUpdate(Decoded(live.val),
                                                      Body(call[c].req, Decoded(live.val)), form)]

LEMMA ReadType ==
  ASSUME TypeInv, NEW c \in Call, call[c].req \in Request, NEW form
  PROVE Read(c, form) \in CallRecord /\ Read(c, form).req = call[c].req
<1> DEFINE body == Body(call[c].req, Decoded(live.val))
           path == ClassifyServiceUpdate(Decoded(live.val), body, form)
<1>1. body \in Object
  BY DecodedType, BodyType DEF TypeInv, TypeOK
<1>2. path \in Path
  BY ClassifyType
<1>3. call[c] \in CallRecord /\ rv \in Nat
  BY DEF TypeInv, TypeOK, CallRecord
<1>4. Read(c, form) =
        [call[c] EXCEPT !.phase = "preview", !.base = rv, !.body = body, !.predicted = path]
  BY DEF Read
<1> HIDE DEF body, path
<1> QED BY <1>1, <1>2, <1>3, <1>4 DEF CallRecord, Phase

LEMMA BuildType ==
  ASSUME TypeInv, NEW c \in Call, Build(c) PROVE TypeInv'
<1> SUFFICES call' \in [Call -> CallRecord] /\ Begun'
  BY DEF Build, TypeInv, TypeOK, CallRecord
<1>1. call[c].phase = "read" /\ call[c].req \in Request
  BY DEF Build, TypeInv, Begun
<1>2. CASE \E form \in Forms(call[c].req) : Becomes(c, Read(c, form))
  BY <1>1, <1>2, ReadType, MovedType
<1>3. CASE \E out \in Outcome : Finish(c, out)
  BY <1>1, <1>3, FinishType
<1> QED BY <1>2, <1>3 DEF Build, ReadFails, Outcome, Read

LEMMA PreviewType ==
  ASSUME TypeInv, NEW c \in Call, Preview(c) PROVE TypeInv'
<1> DEFINE next == [call[c] EXCEPT !.phase = "commit"]
<1>1. call[c].phase = "preview" /\ call[c].req \in Request
  BY DEF Preview, TypeInv, Begun
<1>2. call' \in [Call -> CallRecord] /\ Begun'
  <2>1. CASE Becomes(c, next)
    <3>1. next \in CallRecord /\ next.req = call[c].req
      BY DEF TypeInv, TypeOK, CallRecord, Phase
    <3> QED BY <1>1, <2>1, <3>1, MovedType
  <2>2. CASE \E out \in Outcome : Finish(c, out)
    BY <1>1, <2>2, FinishType
  <2> QED BY <2>1, <2>2 DEF Preview, Outcome
<1>3. audit' \in [Call -> Seq([dry : BOOLEAN, ok : BOOLEAN])]
  <2>1. CASE UNCHANGED audit
    BY <2>1 DEF TypeInv, TypeOK
  <2>2. CASE \E dry, ok \in BOOLEAN : Record(c, dry, ok)
    BY <2>2, RecordType
  <2> QED BY <2>1, <2>2 DEF Preview
<1> QED BY <1>2, <1>3 DEF Preview, TypeInv, TypeOK, CallRecord

(* The two ways a commit leaves its call. *)
Failed(c, out)    == [call[c] EXCEPT !.phase = "emit", !.out = out]
Persisted(c, out) == [call[c] EXCEPT !.phase = "emit", !.out = out, !.commits = @ + 1]

LEMMA CommitMoves ==
  ASSUME NEW c \in Call, Commit(c)
  PROVE \E out \in Outcome : Becomes(c, Failed(c, out)) \/ Becomes(c, Persisted(c, out))
BY DEF Commit, Outcome, Failed, Persisted

LEMMA CommitType ==
  ASSUME TypeInv, NEW c \in Call, Commit(c) PROVE TypeInv'
<1> DEFINE body == call[c].body
<1>1. call[c].phase = "commit" /\ call[c].req \in Request
  BY DEF Commit, TypeInv, Begun
<1>2. call' \in [Call -> CallRecord] /\ Begun'
  <2>1. PICK out \in Outcome : Becomes(c, Failed(c, out)) \/ Becomes(c, Persisted(c, out))
    BY CommitMoves
  <2>2. Failed(c, out) \in CallRecord /\ Failed(c, out).req = call[c].req
    BY DEF TypeInv, TypeOK, CallRecord, Phase, Failed
  <2>3. Persisted(c, out) \in CallRecord /\ Persisted(c, out).req = call[c].req
    <3>1. call[c] \in CallRecord /\ call[c].commits + 1 \in Nat
      BY DEF TypeInv, TypeOK, CallRecord
    <3> QED BY <3>1 DEF CallRecord, Phase, Persisted
  <2>4. CASE Becomes(c, Failed(c, out))
    BY <1>1, <2>2, <2>4, MovedType
  <2>5. CASE Becomes(c, Persisted(c, out))
    BY <1>1, <2>3, <2>5, MovedType
  <2> QED BY <2>1, <2>4, <2>5
<1>3. live' \in Live /\ rv' \in Nat
  <2>1. live \in Live /\ rv \in Nat /\ body \in Object
    BY DEF TypeInv, TypeOK, Live
  <2>2. CASE UNCHANGED <<live, rv>>
    BY <2>1, <2>2
  <2>3. CASE Persist(TRUE, [f \in Field |-> Server!AppliedValue(live, RayMcp, body, f)],
                           [f \in Field |-> Server!AppliedOwners(live, RayMcp, body, f)])
    BY <2>1, <2>3, AppliedType, PersistType
  <2> QED BY <2>2, <2>3 DEF Commit
<1>4. forecast' \in SUBSET Way
  BY DEF Commit, BornOut, TypeInv, TypeOK
<1> QED BY <1>2, <1>3, <1>4 DEF Commit, TypeInv, TypeOK, CallRecord, Live

LEMMA EmitType ==
  ASSUME TypeInv, NEW c \in Call, Emit(c) PROVE TypeInv'
<1>1. call[c].phase = "emit" /\ call[c].out \in Outcome
  BY DEF Emit, TypeInv, TypeOK
<1>2. call' \in [Call -> CallRecord] /\ Begun'
  BY <1>1, FinishType DEF Emit
<1>3. audit' \in [Call -> Seq([dry : BOOLEAN, ok : BOOLEAN])]
  BY RecordType DEF Emit
<1> QED BY <1>2, <1>3 DEF Emit, TypeInv, TypeOK, CallRecord

LEMMA CrashMoves ==
  ASSUME TypeInv, Crash, NEW c \in Call
  PROVE call'[c] = call[c] \/ call'[c] = Over(c, "crashed", "none")
BY DEF Crash

LEMMA CrashType ==
  ASSUME TypeInv, Crash PROVE TypeInv'
<1>1. "crashed" \in Phase /\ "none" \in Outcome
  BY DEF Phase, Outcome
<1>2. \A c \in Call : Over(c, "crashed", "none") \in CallRecord
  BY <1>1, OverType
<1>3. call' \in [Call -> CallRecord]
  BY <1>2 DEF Crash, TypeInv, TypeOK, CallRecord
<1>4. \A c \in Call : InFlight(c) => Over(c, "crashed", "none").req \in Request
  BY <1>1, OverType DEF InFlight, TypeInv, Begun
<1>5. Begun'
  BY <1>4 DEF Crash, TypeInv, Begun
<1> QED BY <1>3, <1>5 DEF Crash, TypeInv, TypeOK, CallRecord

LEMMA EnvironmentType ==
  ASSUME TypeInv, Environment PROVE TypeInv'
<1>1. live \in Live /\ rv \in Nat /\ live.val \in Object
  BY DEF TypeInv, TypeOK, Live
<1>2. CASE Reconcile
  BY <1>1, <1>2 DEF Reconcile, TypeInv, TypeOK, Begun
<1>3. CASE KubectlEdit
  <2>1. PICK e \in UserEdit :
          LET val == [f \in Field |-> IF f \in DOMAIN e THEN e[f] ELSE live.val[f]]
          IN Persist(TRUE, val, [f \in Field |-> Server!WrittenOwners(live, Kubectl, val, f)])
    BY <1>3 DEF KubectlEdit
  <2> DEFINE val == [f \in Field |-> IF f \in DOMAIN e THEN e[f] ELSE live.val[f]]
  <2>2. val \in Object
    BY <1>1, GroupsInField, UserAssumption DEF Object, ListsGroups, IsOverlay
  <2>3. [f \in Field |-> Server!WrittenOwners(live, Kubectl, val, f)] \in [Field -> SUBSET Manager]
    BY <1>1 DEF Live, Server!WrittenOwners, Manager
  <2>4. live' \in Live /\ rv' \in Nat
    BY <1>1, <2>1, <2>2, <2>3, PersistType
  <2> QED BY <1>3, <2>4 DEF KubectlEdit, TypeInv, TypeOK, Begun, Live
<1>4. CASE KubectlDelete
  <2>1. Server!NoOwners \in [Field -> SUBSET Manager]
    BY DEF Server!NoOwners
  <2>2. live' \in Live /\ rv' \in Nat
    BY <1>1, <1>4, <2>1, NothingIsAnObject, PersistType DEF KubectlDelete
  <2> QED BY <1>4, <2>2, NothingIsAnObject DEF KubectlDelete, TypeInv, TypeOK, Begun, Live
<1>5. CASE KubectlCreate
  <2>1. live' \in Live /\ rv' \in Nat
    BY <1>1, <1>5, UserObjectType, PersistType DEF KubectlCreate, Manager
  <2> QED BY <1>5, <2>1 DEF KubectlCreate, TypeInv, TypeOK, Begun, Live
<1> QED BY <1>2, <1>3, <1>4, <1>5 DEF Environment

LEMMA TypeInvStep == TypeInv /\ [Next]_vars => TypeInv'
<1> SUFFICES ASSUME TypeInv, [Next]_vars PROVE TypeInv'
  OBVIOUS
<1>1. CASE Environment
  BY <1>1, EnvironmentType
<1>2. CASE Crash
  BY <1>2, CrashType
<1>3. CASE \E c \in Call : Step(c)
  BY <1>3, BuildType, PreviewType, CommitType, EmitType DEF Step
<1>4. CASE \E c \in Call : \E r \in Request : Begin(c, r)
  BY <1>4, BeginType
<1>5. CASE UNCHANGED vars
  BY <1>5 DEF vars, TypeInv, TypeOK, Begun
<1> QED BY <1>1, <1>2, <1>3, <1>4, <1>5 DEF Next

(***************************************************************************)
(* Whatever is requested and whoever else writes, the service, the calls   *)
(* and the audit trail keep their types.                                   *)
(***************************************************************************)
THEOREM TypeCorrect == Spec => []TypeOK
<1>1. TypeInv => TypeOK
  BY DEF TypeInv
<1> QED BY <1>1, TypeInvInit, TypeInvStep, PTL DEF Spec

-----------------------------------------------------------------------------
(***************************************************************************)
(* What a call in flight knows of the service.  Its history stamp is not   *)
(* ahead of etcd; only an update reads; a body to be applied is the        *)
(* overlay of every field nobody wrote since the read, and of all fields   *)
(* in a deploy; the request names this service, and a field that was not   *)
(* decoded has only what the caller put there; and while nobody has        *)
(* written the spec, the prediction is still the classifier's.             *)
(***************************************************************************)
BodyIsOverlay(r, service) ==
  \A f \in TypedField :
    service.touched[f] <= r.base \/ r.req.op = "deploy" =>
      r.body[f] = Intent(r.req, f, service.val[f])

SpecUnwritten(r, service) == \A f \in SpecField : service.touched[f] <= r.base

PredictionStands(r, service) ==
  r.req.op = "update" /\ SpecUnwritten(r, service) =>
    \E form \in Forms(r.req) :
      r.predicted = ClassifyServiceUpdate(Decoded(service.val), r.body, form)

PassedBuild(r) ==
  ~r.req.retarget /\ \A f \in Field \ TypedField : r.body[f] = Intent(r.req, f, Absent)

CallData(r, service, revision) ==
  /\ r.base <= revision
  /\ r.phase = "read" => r.req.op = "update"
  /\ r.phase \in {"preview", "commit"} => 
       BodyIsOverlay(r, service) /\ PassedBuild(r) /\ PredictionStands(r, service)

DataInv ==
  /\ \A f \in Field : live.touched[f] <= rv
  /\ \A c \in Call : CallData(call[c], live, rv)

(* Every write moves the revision on and stamps what it changes. *)
LiveKeeps ==
  /\ rv <= rv'
  /\ \A f \in Field : live'.touched[f] <= rv'
  /\ \A f \in Field : live'.touched[f] <= rv =>
       live'.val[f] = live.val[f] /\ live'.touched[f] = live.touched[f]

LEMMA PersistKeeps ==
  ASSUME TypeInv, DataInv, NEW exists, NEW val, NEW own, Persist(exists, val, own)
  PROVE LiveKeeps
<1>1. live \in Live /\ rv \in Nat /\ \A f \in Field : live.touched[f] \in Nat /\ live.touched[f] <= rv
  BY DEF TypeInv, TypeOK, Live, DataInv
<1>2. CASE UNCHANGED <<live, rv>>
  BY <1>1, <1>2 DEF LiveKeeps
<1>3. CASE ~UNCHANGED <<live, rv>>
  <2>1. rv' = rv + 1
    BY <1>3 DEF Persist
  <2>2. \A f \in Field : /\ live'.val[f] = val[f]
                         /\ live'.touched[f] = IF val[f] = live.val[f] THEN live.touched[f] ELSE rv + 1
    BY <1>3 DEF Persist
  <2> QED BY <1>1, <2>1, <2>2 DEF LiveKeeps
<1> QED BY <1>2, <1>3

LEMMA PersistValue ==
  ASSUME NEW exists, NEW val, NEW own, Persist(exists, val, own)
  PROVE live'.val = val
<1>1. CASE UNCHANGED <<live, rv>> /\ val = live.val
  BY <1>1
<1>2. CASE ~(UNCHANGED <<live, rv>> /\ val = live.val)
  BY <1>2 DEF Persist
<1> QED BY <1>1, <1>2

LEMMA PersistOwners ==
  ASSUME NEW exists, NEW val, NEW own, Persist(exists, val, own)
  PROVE live'.own = own
<1>1. CASE UNCHANGED <<live, rv>> /\ own = live.own
  BY <1>1
<1>2. CASE ~(UNCHANGED <<live, rv>> /\ own = live.own)
  BY <1>2 DEF Persist
<1> QED BY <1>1, <1>2

LEMMA StutterKeeps ==
  ASSUME TypeInv, DataInv, UNCHANGED <<live, rv>> PROVE LiveKeeps
BY DEF TypeInv, TypeOK, DataInv, LiveKeeps

(* The classifier looks at the spec alone. *)
LEMMA ClassifierReadsSpec ==
  ASSUME NEW a, NEW b, NEW submitted, NEW form, \A f \in SpecField : a[f] = b[f]
  PROVE ClassifyServiceUpdate(a, submitted, form) = ClassifyServiceUpdate(b, submitted, form)
<1>1. \A f \in ClusterField : a[f] = b[f]
  BY GroupsInField
<1>2. a["groups"] = b["groups"] /\ a["serve"] = b["serve"]
  BY DEF SpecField, ClusterField
<1>3. NormalizeForHash(a) = NormalizeForHash(b)
  BY <1>1 DEF NormalizeForHash
<1>4. GroupsOf(a) = GroupsOf(b)
  BY <1>2 DEF GroupsOf
<1>5. HashEqual(a, submitted, form) = HashEqual(b, submitted, form)
  BY <1>3 DEF HashEqual
<1>6. PartialHashEqual(a, submitted, form) = PartialHashEqual(b, submitted, form)
  BY <1>3, <1>4 DEF PartialHashEqual, HashEqual
<1>7. ReplicasOrExcludedChanged(a, submitted, form) = ReplicasOrExcludedChanged(b, submitted, form)
  BY <1>1 DEF ReplicasOrExcludedChanged
<1> QED BY <1>2, <1>5, <1>6, <1>7 DEF ClassifyServiceUpdate

(* A write by anybody leaves what a call knows true. *)
LEMMA DataFrame ==
  ASSUME TypeInv, TypeInv', LiveKeeps, NEW r \in CallRecord, CallData(r, live, rv)
  PROVE CallData(r, live', rv')
<1>1. r.base \in Nat /\ rv \in Nat /\ rv' \in Nat
  BY DEF CallRecord, TypeInv, TypeOK
<1>2. \A f \in Field : live'.touched[f] \in Nat
  BY DEF TypeInv, TypeOK
<1>3. r.base <= rv /\ r.base <= rv'
  BY <1>1 DEF CallData, LiveKeeps
<1>4. \A f \in Field : live'.touched[f] <= r.base =>
                      live'.val[f] = live.val[f] /\ live.touched[f] <= r.base
  BY <1>1, <1>2, <1>3 DEF LiveKeeps
<1>5. BodyIsOverlay(r, live) => BodyIsOverlay(r, live')
  <2>1. CASE r.req.op = "deploy"
    BY <2>1 DEF BodyIsOverlay, Intent
  <2>2. CASE r.req.op # "deploy"
    BY <1>4, <2>2, TypedAssumption DEF BodyIsOverlay
  <2> QED BY <2>1, <2>2
<1>6. ASSUME PredictionStands(r, live), r.req.op = "update", SpecUnwritten(r, live')
      PROVE \E form \in Forms(r.req) :
              r.predicted = ClassifyServiceUpdate(Decoded(live'.val), r.body, form)
  <2>1. \A f \in SpecField : live'.val[f] = live.val[f] /\ live.touched[f] <= r.base
    BY <1>4, <1>6, GroupsInField DEF SpecUnwritten
  <2>2. \A f \in SpecField : Decoded(live'.val)[f] = Decoded(live.val)[f]
    BY <2>1, GroupsInField DEF Decoded
  <2>3. PICK form \in Forms(r.req) :
               r.predicted = ClassifyServiceUpdate(Decoded(live.val), r.body, form)
    BY <1>6, <2>1 DEF PredictionStands, SpecUnwritten
  <2> QED BY <2>2, <2>3, ClassifierReadsSpec
<1> QED BY <1>3, <1>5, <1>6 DEF CallData, PredictionStands

LEMMA DataMove ==
  ASSUME TypeInv, TypeInv', DataInv, LiveKeeps, NEW c \in Call, NEW next,
         Becomes(c, next), CallData(next, live', rv')
  PROVE DataInv'
<1>1. \A d \in Call : CallData(call'[d], live', rv')
  <2> SUFFICES ASSUME NEW d \in Call PROVE CallData(call'[d], live', rv')
    OBVIOUS
  <2>1. call[d] \in CallRecord
    BY DEF TypeInv, TypeOK, CallRecord
  <2>2. call'[d] = IF d = c THEN next ELSE call[d]
    BY DEF Becomes, TypeInv, TypeOK
  <2> QED BY <2>1, <2>2, DataFrame DEF DataInv
<1> QED BY <1>1 DEF DataInv, LiveKeeps

LEMMA DataIdle ==
  ASSUME TypeInv, TypeInv', DataInv, LiveKeeps, UNCHANGED call PROVE DataInv'
<1>1. \A d \in Call : CallData(call'[d], live', rv')
  BY DataFrame DEF DataInv, TypeInv, TypeOK, CallRecord
<1> QED BY <1>1 DEF DataInv, LiveKeeps

LEMMA DataInvInit == Init => DataInv
BY DEF Init, NoCall, DataInv, CallData

(* A call with no body to apply knows only its date. *)
LEMMA DataOutside ==
  ASSUME TypeInv, TypeInv', DataInv, LiveKeeps, NEW c \in Call, NEW next,
         Becomes(c, next), next.base \in {0, call[c].base}, next.phase \notin {"preview", "commit"},
         next.phase = "read" => next.req.op = "update"
  PROVE DataInv'
<1>1. call[c] \in CallRecord /\ rv \in Nat /\ rv' \in Nat
  BY DEF TypeInv, TypeOK, CallRecord
<1>2. call[c].base <= rv
  BY DEF DataInv, CallData
<1>3. next.base <= rv'
  BY <1>1, <1>2 DEF LiveKeeps, CallRecord
<1>4. CallData(next, live', rv')
  BY <1>3 DEF CallData
<1> QED BY <1>4, DataMove

LEMMA FinishData ==
  ASSUME TypeInv, TypeInv', DataInv, LiveKeeps, NEW c \in Call, NEW out \in Outcome, Finish(c, out)
  PROVE DataInv'
<1>1. "done" \in Phase
  BY DEF Phase
<1>2. Over(c, "done", out).base = 0 /\ Over(c, "done", out).phase = "done"
  BY <1>1, OverType
<1> QED BY <1>2, DataOutside DEF Finish

LEMMA BeginData ==
  ASSUME TypeInv, TypeInv', DataInv, NEW c \in Call, NEW r \in Request, Begin(c, r)
  PROVE DataInv'
<1> DEFINE refused == [call[c] EXCEPT !.phase = "done", !.req = r, !.out = "refused"]
           apply   == [call[c] EXCEPT !.phase = "preview", !.req = r, !.body = r.set, !.base = rv]
           read    == [call[c] EXCEPT !.phase = "read", !.req = r]
<1>1. LiveKeeps /\ rv' = rv /\ rv \in Nat
  BY StutterKeeps DEF Begin, TypeInv, TypeOK
<1>2. CASE Becomes(c, refused)
  <2>1. refused.base = call[c].base /\ refused.phase = "done"
    BY DEF TypeInv, TypeOK
  <2> QED BY <1>1, <1>2, <2>1, DataOutside
<1>3. CASE ~RefusedUnread(r) /\ r.op = "deploy" /\ Becomes(c, apply)
  <2>1. /\ apply.base = rv /\ apply.phase = "preview" /\ apply.req = r /\ apply.body = r.set
    BY DEF TypeInv, TypeOK
  <2>2. CallData(apply, live', rv')
    BY <1>1, <1>3, <2>1 DEF CallData, BodyIsOverlay, PredictionStands, Intent, PassedBuild, RefusedUnread
  <2> QED BY <1>1, <1>3, <2>2, DataMove
<1>4. CASE r.op = "update" /\ Becomes(c, read)
  <2>1. read.base = call[c].base /\ read.phase = "read" /\ read.req = r
    BY DEF TypeInv, TypeOK
  <2> QED BY <1>1, <1>4, <2>1, DataOutside
<1> QED BY <1>2, <1>3, <1>4 DEF Begin

LEMMA BuildData ==
  ASSUME TypeInv, TypeInv', DataInv, NEW c \in Call, Build(c)
  PROVE DataInv'
<1> DEFINE r    == call[c].req
           read == Decoded(live.val)
<1>1. LiveKeeps /\ UNCHANGED <<live, rv>> /\ rv \in Nat
  BY StutterKeeps DEF Build, TypeInv, TypeOK
<1>2. ASSUME ~r.retarget, NEW form \in Forms(r), Becomes(c, Read(c, form)) PROVE DataInv'
  <2> DEFINE next == Read(c, form)
  <2>1. /\ next.phase = "preview" /\ next.base = rv
        /\ next.req = r /\ next.body = Body(r, read)
        /\ next.predicted = ClassifyServiceUpdate(read, Body(r, read), form)
    BY DEF TypeInv, TypeOK, Read
  <2> HIDE DEF next
  <2>2. \A f \in TypedField : Body(r, read)[f] = Intent(r, f, live.val[f])
    BY TypedAssumption DEF Body, Decoded
  <2>3. PassedBuild(next)
    BY <1>2, <2>1 DEF PassedBuild, Body, Decoded
  <2>4. CallData(next, live', rv')
    BY <1>1, <1>2, <2>1, <2>2, <2>3 DEF CallData, BodyIsOverlay, PredictionStands
  <2> QED BY <1>1, <1>2, <2>4, DataMove DEF next
<1>3. CASE \E out \in Outcome : Finish(c, out)
  BY <1>1, <1>3, FinishData
<1> QED BY <1>2, <1>3 DEF Build, ReadFails, Outcome, Read

LEMMA PreviewData ==
  ASSUME TypeInv, TypeInv', DataInv, NEW c \in Call, Preview(c)
  PROVE DataInv'
<1> DEFINE next == [call[c] EXCEPT !.phase = "commit"]
<1>1. LiveKeeps /\ UNCHANGED <<live, rv>> /\ call[c].phase = "preview"
  BY StutterKeeps DEF Preview
<1>2. CASE Becomes(c, next)
  <2>1. /\ next.base = call[c].base /\ next.req = call[c].req /\ next.body = call[c].body
        /\ next.predicted = call[c].predicted
    BY DEF TypeInv, TypeOK
  <2>2. CallData(call[c], live, rv)
    BY DEF DataInv
  <2>3. CallData(next, live', rv')
    BY <1>1, <2>1, <2>2 DEF CallData, BodyIsOverlay, PredictionStands, SpecUnwritten, PassedBuild
  <2> QED BY <1>1, <1>2, <2>3, DataMove
<1>3. CASE \E out \in Outcome : Finish(c, out)
  BY <1>1, <1>3, FinishData
<1> QED BY <1>2, <1>3 DEF Preview, Outcome

LEMMA CommitData ==
  ASSUME TypeInv, TypeInv', DataInv, NEW c \in Call, Commit(c)
  PROVE DataInv'
<1> DEFINE body == call[c].body
<1>1. LiveKeeps
  <2>1. CASE UNCHANGED <<live, rv>>
    BY <2>1, StutterKeeps
  <2>2. CASE Persist(TRUE, [f \in Field |-> Server!AppliedValue(live, RayMcp, body, f)],
                           [f \in Field |-> Server!AppliedOwners(live, RayMcp, body, f)])
    BY <2>2, PersistKeeps
  <2> QED BY <2>1, <2>2 DEF Commit
<1>2. PICK out \in Outcome : Becomes(c, Failed(c, out)) \/ Becomes(c, Persisted(c, out))
  BY CommitMoves
<1>3. Failed(c, out).base = call[c].base /\ Failed(c, out).phase = "emit"
  BY DEF TypeInv, TypeOK, Failed
<1>4. Persisted(c, out).base = call[c].base /\ Persisted(c, out).phase = "emit"
  BY DEF TypeInv, TypeOK, Persisted
<1> QED BY <1>1, <1>2, <1>3, <1>4, DataOutside

LEMMA EmitData ==
  ASSUME TypeInv, TypeInv', DataInv, NEW c \in Call, Emit(c)
  PROVE DataInv'
BY StutterKeeps, FinishData DEF Emit, TypeInv, TypeOK

LEMMA CrashData ==
  ASSUME TypeInv, TypeInv', DataInv, Crash
  PROVE DataInv'
<1>1. LiveKeeps /\ rv' \in Nat
  BY StutterKeeps DEF Crash, TypeInv, TypeOK
<1>2. \A d \in Call : CallData(call[d], live', rv')
  BY <1>1, DataFrame DEF DataInv, TypeInv, TypeOK, CallRecord
<1>3. \A d \in Call : CallData(Over(d, "crashed", "none"), live', rv')
  BY <1>1, OverType DEF CallData, Phase, Outcome
<1>4. \A d \in Call : CallData(call'[d], live', rv')
  BY <1>2, <1>3, CrashMoves
<1> QED BY <1>1, <1>4 DEF DataInv, LiveKeeps

LEMMA EnvironmentData ==
  ASSUME TypeInv, TypeInv', DataInv, Environment
  PROVE DataInv'
<1>1. UNCHANGED <<live, rv>> \/ \E exists, val, own : Persist(exists, val, own)
  BY DEF Environment, Reconcile, KubectlEdit, KubectlDelete, KubectlCreate
<1>2. UNCHANGED call
  BY DEF Environment, Reconcile, KubectlEdit, KubectlDelete, KubectlCreate
<1> QED BY <1>1, <1>2, PersistKeeps, StutterKeeps, DataIdle

LEMMA DataInvStep == TypeInv /\ TypeInv' /\ DataInv /\ [Next]_vars => DataInv'
<1> SUFFICES ASSUME TypeInv, TypeInv', DataInv, [Next]_vars PROVE DataInv'
  OBVIOUS
<1>1. CASE Environment
  BY <1>1, EnvironmentData
<1>2. CASE Crash
  BY <1>2, CrashData
<1>3. CASE \E c \in Call : Step(c)
  BY <1>3, BuildData, PreviewData, CommitData, EmitData DEF Step
<1>4. CASE \E c \in Call : \E r \in Request : Begin(c, r)
  BY <1>4, BeginData
<1>5. CASE UNCHANGED vars
  BY <1>5, StutterKeeps, DataIdle DEF vars
<1> QED BY <1>1, <1>2, <1>3, <1>4, <1>5 DEF Next

LEMMA Invariance == Spec => [](TypeInv /\ DataInv)
BY TypeInvInit, TypeInvStep, DataInvInit, DataInvStep, PTL DEF Spec

-----------------------------------------------------------------------------
(* Only the commit of call c counts an apply of call c. *)
LEMMA CommitsInCommit ==
  ASSUME TypeInv, [Next]_vars, NEW c \in Call, Commits(c)
  PROVE /\ ~Clash(c)
        /\ Persist(TRUE, [f \in Field |-> Server!AppliedValue(live, RayMcp, call[c].body, f)],
                         [f \in Field |-> Server!AppliedOwners(live, RayMcp, call[c].body, f)])
<1> USE DEF Commits
<1>1. \A d \in Call : call'[d] = call[d] => ~Commits(d)
  OBVIOUS
<1>2. call \in [Call -> CallRecord] /\ call[c].phase = "commit"
  BY DEF TypeInv, TypeOK, CallRecord
<1>3. CASE UNCHANGED vars
  BY <1>1, <1>3 DEF vars
<1>4. CASE Environment
  BY <1>1, <1>4 DEF Environment, Reconcile, KubectlEdit, KubectlDelete, KubectlCreate
<1>5. CASE Crash
  <2>1. "crashed" \in Phase /\ "none" \in Outcome
    BY DEF Phase, Outcome
  <2>2. Over(c, "crashed", "none").commits = call[c].commits
    BY <2>1, OverType
  <2> QED BY <1>5, <2>2, CrashMoves
<1>6. ASSUME NEW d \in Call, d # c, \E next : Becomes(d, next) PROVE FALSE
  BY <1>1, <1>2, <1>6 DEF Becomes
<1>7. ASSUME NEW d \in Call, Step(d) \/ \E r \in Request : Begin(d, r) PROVE \E next : Becomes(d, next)
  BY <1>7 DEF Step, Begin, Build, ReadFails, Preview, Commit, Emit, Finish
<1>8. CASE \E d \in Call : Step(d) \/ \E r \in Request : Begin(d, r)
  <2>1. Step(c) \/ \E r \in Request : Begin(c, r)
    BY <1>6, <1>7, <1>8
  <2>2. Commit(c)
    BY <1>2, <2>1 DEF Step, Begin, Build, Preview, Emit
  <2>3. CASE \E out \in Outcome : Becomes(c, [call[c] EXCEPT !.phase = "emit", !.out = out])
    BY <1>2, <2>3 DEF Becomes, CallRecord
  <2> QED BY <2>2, <2>3 DEF Commit, Outcome
<1> QED BY <1>3, <1>4, <1>5, <1>8 DEF Next

LEMMA CommitWrites ==
  ASSUME TypeInv, [Next]_vars, NEW c \in Call, Commits(c), NEW f \in Field
  PROVE live'.val[f] = Server!AppliedValue(live, RayMcp, call[c].body, f)
<1> DEFINE val == [g \in Field |-> Server!AppliedValue(live, RayMcp, call[c].body, g)]
           own == [g \in Field |-> Server!AppliedOwners(live, RayMcp, call[c].body, g)]
<1>1. Persist(TRUE, val, own)
  BY CommitsInCommit
<1>2. live'.val = val
  BY <1>1, PersistValue
<1> QED BY <1>2

(***************************************************************************)
(* A service write takes no field from another manager, whatever the calls *)
(* and the other writers do: the second check, at the commit, is enough.   *)
(***************************************************************************)
THEOREM NothingIsEverTaken == Spec => NothingIsTaken
<1>1. TypeInv /\ [Next]_vars =>
        [\A c \in Call : Commits(c) =>
           \A f \in Field : live.own[f] \ {RayMcp} # {} => live'.val[f] = live.val[f]]_vars
  <2> SUFFICES ASSUME TypeInv, [Next]_vars, NEW c \in Call, Commits(c),
                      NEW f \in Field, live.own[f] \ {RayMcp} # {}
               PROVE live'.val[f] = live.val[f]
    OBVIOUS
  <2>1. call[c].body[f] = Absent \/ call[c].body[f] = live.val[f]
    BY CommitsInCommit DEF Clash, Server!Conflicts
  <2>2. live'.val[f] = Server!AppliedValue(live, RayMcp, call[c].body, f)
    BY CommitWrites
  <2> QED BY <2>1, <2>2 DEF Server!AppliedValue
<1> QED BY <1>1, Invariance, PTL DEF Spec, NothingIsTaken

(***************************************************************************)
(* Read, overlay and apply of the whole object is atomic but for the       *)
(* fields written since the read.                                          *)
(***************************************************************************)
THEOREM UpdateIsAtomic == Spec => UpdateIsAtomicUnlessRaced
<1>1. TypeInv /\ DataInv /\ [Next]_vars =>
        [\A c \in Call : Commits(c) /\ call[c].req.op = "update" =>
           \A f \in TypedField : live.touched[f] <= call[c].base => Overlaid(c, f)]_vars
  <2> SUFFICES ASSUME TypeInv, DataInv, [Next]_vars, NEW c \in Call, Commits(c),
                      NEW f \in TypedField, live.touched[f] <= call[c].base
               PROVE Overlaid(c, f)
    OBVIOUS
  <2>1. call[c].body[f] = Intent(call[c].req, f, live.val[f])
    BY DEF DataInv, CallData, BodyIsOverlay, Commits
  <2>2. live'.val[f] = Server!AppliedValue(live, RayMcp, call[c].body, f)
    BY CommitWrites, TypedAssumption
  <2> QED BY <2>1, <2>2 DEF Overlaid, Overlays, Server!AppliedValue
<1> QED BY <1>1, Invariance, PTL DEF Spec, UpdateIsAtomicUnlessRaced

-----------------------------------------------------------------------------
(* What an overlay does to its own result: nothing. *)
LEMMA ImageTwice ==
  ASSUME NEW f \in Field, NEW v \in Value, NEW image \in Image \union {Absent}
  PROVE SetClusterImage(f, SetClusterImage(f, v, image), image) = SetClusterImage(f, v, image)
<1> DEFINE w == [i \in DOMAIN v |-> [v[i] EXCEPT !.img = image]]
<1>1. CASE image # Absent /\ f = "groups" /\ v \in GroupList
  <2>1. w \in GroupList /\ image \in Image
    BY <1>1, ImageType
  <2>2. \A i \in DOMAIN v : v[i] \in WorkerGroup
    BY <1>1, ElementOfSeq, LenProperties DEF GroupList
  <2>3. \A i \in DOMAIN w : [w[i] EXCEPT !.img = image] = w[i]
    BY <2>1, <2>2 DEF WorkerGroup
  <2>4. [i \in DOMAIN w |-> [w[i] EXCEPT !.img = image]] = w
    BY <2>3
  <2> HIDE DEF w
  <2>5. SetClusterImage(f, v, image) = w
    BY <1>1 DEF SetClusterImage, w
  <2>6. SetClusterImage(f, w, image) = [i \in DOMAIN w |-> [w[i] EXCEPT !.img = image]]
    BY <1>1, <2>1 DEF SetClusterImage
  <2> QED BY <2>4, <2>5, <2>6
<1>2. CASE image # Absent /\ f = "head" /\ v # Absent
  BY <1>2 DEF SetClusterImage
<1>3. CASE ~(image # Absent /\ f = "groups" /\ v \in GroupList) /\ ~(image # Absent /\ f = "head" /\ v # Absent)
  <2>1. SetClusterImage(f, v, image) = v
    BY <1>3 DEF SetClusterImage
  <2> QED BY <2>1
<1> QED BY <1>1, <1>2, <1>3

LEMMA IntentTwice ==
  ASSUME NEW r \in Request, NEW f \in Field, NEW v \in Value
  PROVE /\ Intent(r, f, Intent(r, f, v)) = Intent(r, f, v)
        /\ Intent(r, f, v) = Absent => Intent(r, f, Absent) = Absent
<1>1. CASE r \in DeployRequest
  BY <1>1 DEF DeployRequest, Intent
<1>2. CASE IsUpdateRequest(r)
  <2>1. r.op = "update" /\ r.image \in Image \union {Absent}
    BY <1>2 DEF IsUpdateRequest
  <2>2. CASE f \in DOMAIN r.set
    BY <2>1, <2>2 DEF Intent
  <2>3. CASE f \notin DOMAIN r.set
    <3>1. \A x : Intent(r, f, x) = SetClusterImage(f, x, r.image)
      BY <2>1, <2>3 DEF Intent
    <3>2. SetClusterImage(f, Absent, r.image) = Absent
      BY AbsentAssumption DEF SetClusterImage
    <3> QED BY <2>1, <3>1, <3>2, ImageTwice
  <2> QED BY <2>2, <2>3
<1> QED BY <1>1, <1>2, RequestAssumption

(* A call that lost no race would send the same body again. *)
LEMMA SameBody ==
  ASSUME TypeInv, TypeInv', DataInv, [Next]_vars, NEW c \in Call, Commits(c), NEW f \in Field,
         call[c].req.op = "deploy" \/ \A g \in TypedField : live.touched[g] <= call[c].base
  PROVE Body(call[c].req, Decoded(live'.val))[f] = call[c].body[f]
<1> DEFINE r    == call[c].req
           body == call[c].body
<1>1. /\ r \in Request /\ call[c].phase = "commit"
      /\ live.val[f] \in Value /\ live'.val[f] \in Value
  BY DEF TypeInv, Begun, TypeOK, Commits, Object
<1>2. Body(r, Decoded(live'.val))[f] = Intent(r, f, IF f \in TypedField THEN live'.val[f] ELSE Absent)
  BY DEF Body, Decoded
<1>3. BodyIsOverlay(call[c], live) /\ PassedBuild(call[c])
  BY <1>1 DEF DataInv, CallData
<1>4. CASE f \notin TypedField
  BY <1>2, <1>3, <1>4 DEF PassedBuild
<1>5. CASE f \in TypedField
  <2>1. body[f] = Intent(r, f, live.val[f])
    BY <1>3, <1>5 DEF BodyIsOverlay
  <2>2. Body(r, Decoded(live'.val))[f] = Intent(r, f, live'.val[f])
    BY <1>2, <1>5
  <2>3. CASE body[f] # Absent
    <3>1. live'.val[f] = body[f]
      BY <2>3, CommitWrites DEF Server!AppliedValue
    <3> QED BY <1>1, <2>1, <2>2, <3>1, IntentTwice
  <2>4. CASE body[f] = Absent
    <3>1. live'.val[f] \in {Absent, live.val[f]}
      BY <2>4, CommitWrites DEF Server!AppliedValue
    <3>2. Intent(r, f, Absent) = Absent
      BY <1>1, <2>1, <2>4, IntentTwice
    <3> QED BY <2>1, <2>2, <2>4, <3>1, <3>2
  <2> QED BY <2>3, <2>4
<1> QED BY <1>4, <1>5

(***************************************************************************)
(* A deploy or an update may be repeated when its answer was lost: unless  *)
(* an update lost a race, the same request is accepted again and leaves    *)
(* every value and every owner as they are.                                *)
(***************************************************************************)
THEOREM RepeatsAreHarmless == Spec => RepeatIsHarmless
<1>1. TypeInv /\ TypeInv' /\ DataInv /\ [Next]_vars =>
        [\A c \in Call : Commits(c) =>
           \/ ChangesNothing(call[c].req, live')
           \/ call[c].req.op # "deploy" /\ \E f \in TypedField : live.touched[f] > call[c].base]_vars
  <2> SUFFICES ASSUME TypeInv, TypeInv', DataInv, [Next]_vars, NEW c \in Call, Commits(c),
                      ~(call[c].req.op # "deploy" /\ \E f \in TypedField : live.touched[f] > call[c].base)
               PROVE ChangesNothing(call[c].req, live')
    OBVIOUS
  <2> DEFINE r     == call[c].req
             body  == call[c].body
             again == Body(r, Decoded(live'.val))
             own   == [g \in Field |-> Server!AppliedOwners(live, RayMcp, body, g)]
  <2>1. r.op = "deploy" \/ \A g \in TypedField : live.touched[g] <= call[c].base
    BY TypedAssumption DEF TypeInv, TypeOK
  <2>2. ~r.retarget
    BY DEF Commits, DataInv, CallData, PassedBuild
  <2>3. \A f \in Field : again[f] = body[f]
    BY <2>1, SameBody
  <2>4. live'.own = own
    BY CommitsInCommit, PersistOwners
  <2>5. \A f \in Field : live'.own[f] = Server!AppliedOwners(live, RayMcp, body, f)
    BY <2>4
  <2> HIDE DEF again, own
  <2>6. ASSUME NEW f \in Field
        PROVE /\ again[f] # Absent => again[f] = live'.val[f]
              /\ Server!AppliedValue(live', RayMcp, again, f) = live'.val[f]
              /\ Server!AppliedOwners(live', RayMcp, again, f) = live'.own[f]
    <3>1. CASE body[f] # Absent
      <4>1. live'.val[f] = body[f] /\ RayMcp \in live'.own[f]
        BY <2>5, <3>1, CommitWrites DEF Server!AppliedValue, Server!AppliedOwners
      <4> QED BY <2>3, <3>1, <4>1 DEF Server!AppliedValue, Server!AppliedOwners
    <3>2. CASE body[f] = Absent
      <4>1. live'.own[f] = live.own[f] \ {RayMcp}
        BY <2>5, <3>2 DEF Server!AppliedOwners
      <4> QED BY <2>3, <3>2, <4>1 DEF Server!AppliedValue, Server!AppliedOwners
    <3> QED BY <3>1, <3>2
  <2>7. Server!Conflicts(live', RayMcp, again) = {}
    BY <2>6 DEF Server!Conflicts
  <2> QED BY <2>2, <2>6, <2>7 DEF ChangesNothing, again
<1> QED BY <1>1, Invariance, TypeInvStep, PTL DEF Spec, RepeatIsHarmless

-----------------------------------------------------------------------------
(* The tool's hash and the operator's tell the same specs apart, once there are groups to compare. *)

ListsFrom(val, submitted) == val["groups"] # Absent \/ submitted["groups"] = Absent

Images(list) == [i \in DOMAIN list |-> list[i].img]

LEMMA ImagesType ==
  ASSUME NEW v \in GroupList PROVE Images(v) # Absent /\ Images(v) # <<>>
<1>1. v \in Seq(WorkerGroup) /\ v # <<>> /\ Len(v) \in Nat /\ DOMAIN v = 1..Len(v)
  BY LenProperties DEF GroupList
<1>2. \A i \in 1..Len(v) : v[i].img \in Image
  <2>1. \A i \in 1..Len(v) : v[i] \in WorkerGroup
    BY <1>1, ElementOfSeq
  <2> QED BY <2>1 DEF WorkerGroup
<1>3. Images(v) \in [1..Len(v) -> Image] /\ DOMAIN Images(v) = 1..Len(v)
  BY <1>1, <1>2 DEF Images
<1>4. Images(v) \in Seq(Image)
  BY <1>1, <1>3, SeqDef
<1>5. Len(Images(v)) = Len(v)
  BY <1>1, <1>3, <1>4, LenProperties
<1>6. Len(v) # 0
  BY <1>1, EmptySeq
<1> QED BY <1>4, <1>5, <1>6, EmptySeq, AbsentAssumption

LEMMA AbsentIsNoList == Absent \notin GroupList
BY AbsentAssumption

LEMMA SameHash ==
  ASSUME NEW val \in Object, NEW submitted \in Object, ListsFrom(val, submitted)
  PROVE NormalizeForHash(val) = NormalizeForHash(submitted)
          <=> OperatorHash(val) = OperatorHash(submitted)
<1> DEFINE rest(a, b) == \A f \in ClusterField \ {"groups"} : a[f] = b[f]
<1>1. "groups" \in ClusterField
  BY DEF ClusterField
<1>2. NormalizeForHash(val) = NormalizeForHash(submitted)
        <=> rest(val, submitted) /\ NormalizeForHash(val)["groups"] = NormalizeForHash(submitted)["groups"]
  BY <1>1 DEF NormalizeForHash
<1>3. OperatorHash(val) = OperatorHash(submitted)
        <=> rest(val, submitted) /\ OperatorHash(val)["groups"] = OperatorHash(submitted)["groups"]
  BY <1>1 DEF OperatorHash
<1>4. \A o \in Object :
        /\ NormalizeForHash(o)["groups"] = IF o["groups"] = Absent THEN Absent ELSE Images(o["groups"])
        /\ OperatorHash(o)["groups"] = Images(GroupsOf(o))
  BY <1>1 DEF NormalizeForHash, OperatorHash, Images
<1>5. Images(<<>>) = <<>>
  BY DEF Images
<1>6. \A o \in Object : o["groups"] \in {Absent} \union GroupList
  BY GroupsInField DEF Object, ListsGroups
<1>7. NormalizeForHash(val)["groups"] = NormalizeForHash(submitted)["groups"]
        <=> OperatorHash(val)["groups"] = OperatorHash(submitted)["groups"]
  <2>1. CASE val["groups"] = Absent
    BY <1>4, <2>1 DEF ListsFrom, GroupsOf
  <2>2. CASE val["groups"] # Absent /\ submitted["groups"] = Absent
    <3>1. val["groups"] \in GroupList
      BY <1>6, <2>2
    <3> QED BY <1>4, <1>5, <2>2, <3>1, ImagesType DEF GroupsOf
  <2>3. CASE val["groups"] # Absent /\ submitted["groups"] # Absent
    BY <1>4, <2>3 DEF GroupsOf
  <2> QED BY <2>1, <2>2, <2>3
<1> QED BY <1>2, <1>3, <1>7

LEMMA SameAppend ==
  ASSUME NEW val \in Object, NEW submitted \in Object, ListsFrom(val, submitted)
  PROVE \A form \in Form \ {"hashed"} :
          PartialHashEqual(val, submitted, form) <=> OnlyAppends(val, submitted)
<1> DEFINE n   == Len(GroupsOf(val))
           cut == [submitted EXCEPT !["groups"] = SubSeq(GroupsOf(submitted), 1, n)]
<1> SUFFICES ASSUME Len(GroupsOf(submitted)) > n
             PROVE NormalizeForHash(val) = NormalizeForHash(cut) <=> OperatorHash(val) = OperatorHash(cut)
  BY DEF PartialHashEqual, HashEqual, OnlyAppends
<1>1. val["groups"] \in {Absent} \union GroupList /\ submitted["groups"] \in {Absent} \union GroupList
  BY GroupsInField DEF Object, ListsGroups
<1>2. Len(<<>>) = 0 /\ n \in Nat
  BY <1>1, EmptySeq, LenProperties DEF GroupsOf, GroupList
<1>3. submitted["groups"] # Absent
  BY <1>2 DEF GroupsOf
<1>4. val["groups"] \in GroupList /\ submitted["groups"] \in GroupList /\ GroupsOf(submitted) = submitted["groups"]
  BY <1>1, <1>3 DEF ListsFrom, GroupsOf
<1>5. n \in Nat \ {0}
  BY <1>4, EmptySeq, AbsentIsNoList DEF GroupsOf, GroupList
<1>6. SubSeq(GroupsOf(submitted), 1, n) \in GroupList
  <2>1. GroupsOf(submitted) \in Seq(WorkerGroup) /\ n <= Len(GroupsOf(submitted)) /\ Len(GroupsOf(submitted)) \in Nat
    BY <1>2, <1>4, LenProperties DEF GroupList
  <2>2. SubSeq(GroupsOf(submitted), 1, n) \in Seq(WorkerGroup) /\ Len(SubSeq(GroupsOf(submitted), 1, n)) = n
    BY <1>5, <2>1, SubSeqProperties
  <2> QED BY <1>2, <1>5, <2>2 DEF GroupList
<1>7. cut \in Object /\ ListsFrom(val, cut)
  BY <1>4, <1>6, GroupsInField, AbsentIsNoList DEF Object, ListsGroups, ListsFrom, Value
<1> HIDE DEF cut
<1> QED BY <1>7, SameHash

LEMMA FormType ==
  ASSUME NEW r, NEW form \in Forms(r)
  PROVE form \in Form /\ (form # "same" => Respelled(r))
BY DEF Forms, Form

(* A cluster change is predicted: the operator swaps, is not allowed to, or does less. *)
LEMMA ChangeIsBornOut ==
  ASSUME NEW r, NEW val, NEW submitted,
         Respelled(r) \/ OperatorPath(val, submitted) \in {"swap", "no-op"}
  PROVE OperatorPath(val, submitted) \in BornOut(r, ClassifyClusterChange(submitted))
<1> DEFINE path == OperatorPath(val, submitted)
<1>1. path \in {"append", "in-place", "scale", "no change"}
        \/ path = IF ZeroDowntime(submitted) THEN "swap" ELSE "no-op"
  BY DEF OperatorPath
<1>2. CASE submitted["strategy"] \in {Absent, NoSwap}
  BY <1>1, <1>2 DEF ClassifyClusterChange, BornOut, Milder, Way
<1>3. CASE submitted["strategy"] \notin {Absent, NoSwap}
  BY <1>1, <1>3 DEF ClassifyClusterChange, ZeroDowntime, BornOut, Milder, Way
<1> QED BY <1>2, <1>3

(* A prediction made over the spec that the operator has, of the spec it then gets, is borne out. *)
LEMMA PredictionIsBornOut ==
  ASSUME NEW r, NEW form \in Forms(r),
         NEW val \in Object, NEW submitted \in Object, ListsFrom(val, submitted)
  PROVE OperatorPath(val, submitted) \in BornOut(r, ClassifyServiceUpdate(val, submitted, form))
<1>1. CASE ~HashEqual(val, submitted, form) /\ PartialHashEqual(val, submitted, form)
  <2>1. form \in Form \ {"hashed"}
    BY <1>1, FormType DEF PartialHashEqual, HashEqual
  <2>2. OperatorHash(val) # OperatorHash(submitted) /\ OnlyAppends(val, submitted)
    BY <1>1, <2>1, SameHash, SameAppend DEF HashEqual
  <2> QED BY <1>1, <2>2 DEF OperatorPath, ClassifyServiceUpdate, BornOut, Way
<1>2. CASE ~HashEqual(val, submitted, form) /\ ~PartialHashEqual(val, submitted, form)
  <2>1. CASE form = "hashed"
    BY <1>2, <2>1, FormType, ChangeIsBornOut DEF ClassifyServiceUpdate
  <2>2. CASE form # "hashed"
    <3>1. OperatorHash(val) # OperatorHash(submitted) /\ ~OnlyAppends(val, submitted)
      BY <1>2, <2>2, FormType, SameHash, SameAppend DEF HashEqual
    <3>2. OperatorPath(val, submitted) \in {"swap", "no-op"}
      BY <3>1 DEF OperatorPath
    <3> QED BY <1>2, <3>2, ChangeIsBornOut DEF ClassifyServiceUpdate
  <2> QED BY <2>1, <2>2
<1>3. CASE HashEqual(val, submitted, form)
  <2>1. OperatorHash(val) = OperatorHash(submitted)
    BY <1>3, SameHash DEF HashEqual
  <2>2. CASE val["serve"] # submitted["serve"]
    BY <1>3, <2>1, <2>2 DEF OperatorPath, ClassifyServiceUpdate, BornOut, Way
  <2>3. CASE val["serve"] = submitted["serve"]
    BY <1>3, <2>1, <2>3, FormType
       DEF OperatorPath, ClassifyServiceUpdate, ReplicasOrExcludedChanged, BornOut, Milder, Way
  <2> QED BY <2>2, <2>3
<1> QED BY <1>1, <1>2, <1>3

(* An operator that is done has the clusters and the serve applications of the spec. *)
LEMMA SettledMatches ==
  ASSUME Settled
  PROVE (\A f \in ClusterField : built[f] = live.val[f]) /\ built["serve"] = live.val["serve"]
BY DEF Settled, OperatorPath

LEMMA OperatorReadsSpec ==
  ASSUME NEW a, NEW b, NEW goal,
         \A f \in ClusterField : a[f] = b[f], a["serve"] = b["serve"]
  PROVE OperatorPath(a, goal) = OperatorPath(b, goal)
<1>1. GroupsOf(a) = GroupsOf(b)
  BY DEF GroupsOf, ClusterField
<1>2. OperatorHash(a) = OperatorHash(b)
  BY <1>1 DEF OperatorHash
<1>3. OnlyAppends(a, goal) = OnlyAppends(b, goal)
  BY <1>1, <1>2 DEF OnlyAppends
<1> QED BY <1>2, <1>3 DEF OperatorPath

LEMMA ClassifierReadsSubmittedSpec ==
  ASSUME NEW val, NEW a \in Object, NEW b \in Object, NEW form, \A f \in SpecField : a[f] = b[f]
  PROVE ClassifyServiceUpdate(val, a, form) = ClassifyServiceUpdate(val, b, form)
<1> USE GroupsInField
<1>1. \A f \in ClusterField : a[f] = b[f]
  OBVIOUS
<1>2. a["groups"] = b["groups"] /\ a["serve"] = b["serve"] /\ a["strategy"] = b["strategy"]
  BY DEF SpecField, ClusterField
<1>3. GroupsOf(a) = GroupsOf(b)
  BY <1>2 DEF GroupsOf
<1>4. \A list : NormalizeForHash([a EXCEPT !["groups"] = list]) = NormalizeForHash([b EXCEPT !["groups"] = list])
  BY <1>1 DEF NormalizeForHash, Object
<1>5. NormalizeForHash(a) = NormalizeForHash(b)
  BY <1>1 DEF NormalizeForHash
<1>6. HashEqual(val, a, form) = HashEqual(val, b, form)
  BY <1>5 DEF HashEqual
<1>7. PartialHashEqual(val, a, form) = PartialHashEqual(val, b, form)
  BY <1>3, <1>4 DEF PartialHashEqual, HashEqual
<1>8. ClassifyClusterChange(a) = ClassifyClusterChange(b)
  BY <1>2 DEF ClassifyClusterChange
<1>9. ReplicasOrExcludedChanged(val, a, form) = ReplicasOrExcludedChanged(val, b, form)
  BY <1>1 DEF ReplicasOrExcludedChanged
<1> QED BY <1>2, <1>6, <1>7, <1>8, <1>9 DEF ClassifyServiceUpdate

LEMMA CommitPredicts ==
  ASSUME TypeInv, DataInv, PredictionHolds, NEW c \in Call, Commit(c)
  PROVE PredictionHolds'
<1> DEFINE body == call[c].body
           val  == [f \in Field |-> Server!AppliedValue(live, RayMcp, body, f)]
           own  == [f \in Field |-> Server!AppliedOwners(live, RayMcp, body, f)]
<1>1. CASE UNCHANGED <<live, forecast>>
  BY <1>1 DEF Commit, PredictionHolds
<1>2. CASE Persist(TRUE, val, own) /\ Foreseeable(c, val)
               /\ forecast' = BornOut(call[c].req, call[c].predicted)
  <2>1. live'.val = val /\ UNCHANGED built
    BY <1>2, PersistValue DEF Commit
  <2>2. body \in Object /\ live \in Live /\ live.val \in Object
    BY DEF TypeInv, TypeOK, Live
  <2>3. val \in Object
    BY <2>2, AppliedType
  <2>4. /\ Settled /\ ListsFrom(live.val, val) /\ SpecUnwritten(call[c], live)
        /\ call[c].req.op = "update"
        /\ \A f \in SpecField : Decoded(live.val)[f] = live.val[f]
        /\ \A f \in SpecField : val[f] = body[f]
    <3> HIDE DEF val
    <3> QED BY <1>2 DEF Foreseeable, ListsFrom, SpecUnwritten
  <2>5. PICK form \in Forms(call[c].req) :
               call[c].predicted = ClassifyServiceUpdate(Decoded(live.val), body, form)
    BY <2>4 DEF Commit, DataInv, CallData, PredictionStands
  <2> HIDE DEF val, body
  <2>6. call[c].predicted = ClassifyServiceUpdate(live.val, val, form)
    BY <2>2, <2>3, <2>4, <2>5, ClassifierReadsSpec, ClassifierReadsSubmittedSpec
  <2>7. OperatorPath(built, val) = OperatorPath(live.val, val)
    BY <2>4, SettledMatches, OperatorReadsSpec
  <2>8. OperatorPath(live.val, val) \in BornOut(call[c].req, call[c].predicted)
    BY <2>2, <2>3, <2>4, <2>6, PredictionIsBornOut
  <2> QED BY <1>2, <2>1, <2>7, <2>8 DEF PredictionHolds
<1>3. CASE forecast' = {}
  BY <1>3 DEF PredictionHolds
<1> QED BY <1>1, <1>2, <1>3 DEF Commit

(***************************************************************************)
(* The prediction of an update is what the operator goes on to do, for     *)
(* every spec and every delta, when it could be foreseen.                  *)
(***************************************************************************)
THEOREM PredictionIsFaithful == Spec => []PredictionHolds
<1>1. Init => PredictionHolds
  BY DEF Init, PredictionHolds
<1>2. TypeInv /\ DataInv /\ PredictionHolds /\ [Next]_vars => PredictionHolds'
  <2> SUFFICES ASSUME TypeInv, DataInv, PredictionHolds, [Next]_vars PROVE PredictionHolds'
    OBVIOUS
  <2>1. CASE forecast' = {}
    BY <2>1 DEF PredictionHolds
  <2>2. CASE UNCHANGED <<live, built, forecast>>
    BY <2>2 DEF PredictionHolds
  <2>3. CASE \E c \in Call : Commit(c)
    BY <2>3, CommitPredicts
  <2>4. CASE Environment
    BY <2>1, <2>4 DEF Environment, Reconcile, KubectlEdit, KubectlDelete, KubectlCreate
  <2>5. CASE Crash \/ UNCHANGED vars
    BY <2>2, <2>5 DEF Crash, vars
  <2>6. CASE \E c \in Call : Step(c) \/ \E r \in Request : Begin(c, r)
    BY <2>2, <2>3, <2>6 DEF Step, Build, Preview, Emit, Begin
  <2> QED BY <2>4, <2>5, <2>6 DEF Next
<1> QED BY <1>1, <1>2, Invariance, PTL DEF Spec

-----------------------------------------------------------------------------
(* How a call in state r, with the records a, stands with its one attempt. *)
Unwritten(r, a) == r.commits = 0 /\ a = <<>>

Attempted(r, a) ==
  /\ r.phase \in {"idle", "read", "preview", "commit"} => Unwritten(r, a)
  /\ r.phase = "commit" => ~r.req.dry
  /\ r.phase = "emit" => /\ a = <<>> /\ r.commits \in {0, 1} /\ ~r.req.dry
                         /\ r.out \in {"ok", "conflict", "error"}
                         /\ r.out = "ok" => r.commits = 1
                         /\ r.out = "conflict" => r.commits = 0
  /\ r.phase = "crashed" => r.commits <= 1
  /\ r.phase = "done" =>
       \/ Unwritten(r, a) /\ r.out \notin {"ok", "conflict"}
       \/ \E dry, ok \in BOOLEAN :
            /\ a = <<[dry |-> dry, ok |-> ok]>>
            /\ ok = (r.out = "ok")
            /\ r.commits \in {0, 1} /\ (r.commits = 1 => ~dry)
            /\ r.out = "ok" => r.commits = (IF r.req.dry THEN 0 ELSE 1)
            /\ r.out = "conflict" => r.commits = 0

AttemptInv == \A c \in Call : Attempted(call[c], audit[c])

LEMMA AttemptInvInit == Init => AttemptInv
<1>1. NoCall.phase = "idle" /\ NoCall.commits = 0
  BY DEF NoCall
<1>2. Attempted(NoCall, <<>>)
  BY <1>1 DEF Attempted, Unwritten
<1> QED BY <1>2 DEF Init, AttemptInv

LEMMA AttemptMove ==
  ASSUME TypeInv, AttemptInv, NEW c \in Call, NEW next, Becomes(c, next),
         \A d \in Call : d # c => audit'[d] = audit[d], Attempted(next, audit'[c])
  PROVE AttemptInv'
<1> SUFFICES ASSUME NEW d \in Call PROVE Attempted(call'[d], audit'[d])
  BY DEF AttemptInv
<1>1. call'[d] = IF d = c THEN next ELSE call[d]
  BY DEF Becomes, TypeInv, TypeOK
<1> QED BY <1>1 DEF AttemptInv

LEMMA Recording ==
  ASSUME TypeInv, NEW c \in Call, NEW dry, NEW ok, audit[c] = <<>>, Record(c, dry, ok)
  PROVE audit'[c] = <<[dry |-> dry, ok |-> ok]>> /\ \A d \in Call : d # c => audit'[d] = audit[d]
<1>1. audit'[c] = Append(audit[c], [dry |-> dry, ok |-> ok]) /\ \A d \in Call : d # c => audit'[d] = audit[d]
  BY DEF Record, TypeInv, TypeOK
<1> QED BY <1>1

(* A call that is over with one record. *)
LEMMA FinishAttempt ==
  ASSUME TypeInv, AttemptInv, NEW c \in Call, NEW dry \in BOOLEAN, NEW ok \in BOOLEAN, NEW out \in Outcome,
         audit[c] = <<>>, Record(c, dry, ok), Finish(c, out), ok <=> out = "ok",
         call[c].commits \in {0, 1}, call[c].commits = 1 => ~dry,
         out = "ok" => call[c].commits = (IF call[c].req.dry THEN 0 ELSE 1),
         out = "conflict" => call[c].commits = 0
  PROVE AttemptInv'
<1> DEFINE next == Over(c, "done", out)
<1>1. "done" \in Phase
  BY DEF Phase
<1>2. next.phase = "done" /\ next.out = out /\ next.req = call[c].req /\ next.commits = call[c].commits
  BY <1>1, OverType
<1>3. audit'[c] = <<[dry |-> dry, ok |-> ok]>> /\ \A d \in Call : d # c => audit'[d] = audit[d]
  BY Recording
<1> HIDE DEF next
<1>4. Attempted(next, audit'[c])
  <2>1. \E x, y \in BOOLEAN : audit'[c] = <<[dry |-> x, ok |-> y]>> /\ y = (next.out = "ok")
                              /\ (next.commits = 1 => ~x)
    BY <1>2, <1>3
  <2> QED BY <1>2, <2>1 DEF Attempted
<1> QED BY <1>3, <1>4, AttemptMove DEF Finish, next

LEMMA BeginAttempt ==
  ASSUME TypeInv, AttemptInv, NEW c \in Call, NEW r \in Request, Begin(c, r) PROVE AttemptInv'
<1>1. PICK next : Becomes(c, next) /\ (\/ next = [call[c] EXCEPT !.phase = "done", !.req = r, !.out = "refused"]
                                       \/ next = [call[c] EXCEPT !.phase = "preview", !.req = r, !.body = r.set, !.base = rv]
                                       \/ next = [call[c] EXCEPT !.phase = "read", !.req = r])
  BY DEF Begin
<1>2. Unwritten(call[c], audit[c]) /\ audit' = audit
  BY DEF Begin, AttemptInv, Attempted
<1>3. /\ next.phase \in {"read", "preview"} \/ (next.phase = "done" /\ next.out = "refused")
      /\ next.commits = call[c].commits
  BY <1>1 DEF TypeInv, TypeOK
<1>4. Attempted(next, audit'[c])
  BY <1>2, <1>3 DEF Attempted, Unwritten
<1> QED BY <1>1, <1>2, <1>4, AttemptMove

LEMMA BuildAttempt ==
  ASSUME TypeInv, AttemptInv, NEW c \in Call, Build(c) PROVE AttemptInv'
<1>1. Unwritten(call[c], audit[c]) /\ audit' = audit
  BY DEF Build, AttemptInv, Attempted
<1>2. ASSUME NEW form, Becomes(c, Read(c, form)) PROVE AttemptInv'
  <2> DEFINE next == Read(c, form)
  <2>1. next.phase = "preview" /\ next.commits = call[c].commits
    BY DEF TypeInv, TypeOK, Read
  <2> HIDE DEF next
  <2>2. Attempted(next, audit'[c])
    BY <1>1, <2>1 DEF Attempted, Unwritten
  <2> QED BY <1>1, <1>2, <2>2, AttemptMove DEF next
<1>3. CASE \E out \in {"refused", "notFound", "error"} : Finish(c, out)
  <2>1. PICK out \in {"refused", "notFound", "error"} : Finish(c, out)
    BY <1>3
  <2>2. "done" \in Phase /\ out \in Outcome
    BY DEF Phase, Outcome
  <2>3. /\ Over(c, "done", out).phase = "done" /\ Over(c, "done", out).out = out
        /\ Over(c, "done", out).commits = call[c].commits
    BY <2>2, OverType
  <2>4. Attempted(Over(c, "done", out), audit'[c])
    BY <1>1, <2>3 DEF Attempted, Unwritten
  <2> QED BY <1>1, <2>1, <2>4, AttemptMove DEF Finish
<1> QED BY <1>2, <1>3 DEF Build, ReadFails, Read

LEMMA PreviewAttempt ==
  ASSUME TypeInv, AttemptInv, NEW c \in Call, Preview(c) PROVE AttemptInv'
<1>1. call[c].commits = 0 /\ call[c].commits \in {0, 1} /\ call[c].commits # 1 /\ audit[c] = <<>>
  BY DEF Preview, AttemptInv, Attempted, Unwritten
<1>2. CASE ~call[c].req.dry /\ Becomes(c, [call[c] EXCEPT !.phase = "commit"]) /\ UNCHANGED audit
  <2> DEFINE next == [call[c] EXCEPT !.phase = "commit"]
  <2>1. next.phase = "commit" /\ next.commits = 0 /\ ~next.req.dry
    BY <1>1, <1>2 DEF TypeInv, TypeOK
  <2>2. Attempted(next, audit'[c])
    BY <1>1, <1>2, <2>1 DEF Attempted, Unwritten
  <2> QED BY <1>2, <2>2, AttemptMove
<1>3. {"ok", "conflict", "error"} \subseteq Outcome
  BY DEF Outcome
<1>4. CASE call[c].req.dry /\ Record(c, TRUE, TRUE) /\ Finish(c, "ok")
  <2>1. call[c].commits = (IF call[c].req.dry THEN 0 ELSE 1)
    BY <1>1, <1>4
  <2> QED BY <1>1, <1>3, <1>4, <2>1, FinishAttempt, Zenon
<1>5. CASE \E out \in {"conflict", "error"} : Record(c, TRUE, FALSE) /\ Finish(c, out)
  <2>1. PICK out \in {"conflict", "error"} : Record(c, TRUE, FALSE) /\ Finish(c, out)
    BY <1>5
  <2>2. out \in Outcome /\ out # "ok"
    BY <1>3, <2>1
  <2> QED BY <1>1, <2>1, <2>2, FinishAttempt, Zenon
<1> QED BY <1>2, <1>4, <1>5 DEF Preview

LEMMA CommitAttempt ==
  ASSUME TypeInv, AttemptInv, NEW c \in Call, Commit(c) PROVE AttemptInv'
<1>1. call[c].commits = 0 /\ audit[c] = <<>> /\ ~call[c].req.dry /\ UNCHANGED audit
  BY DEF Commit, AttemptInv, Attempted, Unwritten
<1>2. PICK out \in {"ok", "conflict", "error"} :
        \/ Becomes(c, Failed(c, out)) /\ out # "ok"
        \/ Becomes(c, Persisted(c, out)) /\ out # "conflict"
  BY DEF Commit, Failed, Persisted
<1>3. CASE Becomes(c, Failed(c, out)) /\ out # "ok"
  <2>1. /\ Failed(c, out).phase = "emit" /\ Failed(c, out).commits = 0
        /\ Failed(c, out).out = out /\ Failed(c, out).req = call[c].req
    BY <1>1 DEF TypeInv, TypeOK, Failed
  <2>2. Attempted(Failed(c, out), audit'[c])
    BY <1>1, <1>3, <2>1 DEF Attempted
  <2> QED BY <1>1, <1>3, <2>2, AttemptMove
<1>4. CASE Becomes(c, Persisted(c, out)) /\ out # "conflict"
  <2>1. /\ Persisted(c, out).phase = "emit" /\ Persisted(c, out).commits = 1
        /\ Persisted(c, out).out = out /\ Persisted(c, out).req = call[c].req
    BY <1>1 DEF TypeInv, TypeOK, Persisted
  <2>2. Attempted(Persisted(c, out), audit'[c])
    BY <1>1, <1>4, <2>1 DEF Attempted
  <2> QED BY <1>1, <1>4, <2>2, AttemptMove
<1> QED BY <1>2, <1>3, <1>4

LEMMA EmitAttempt ==
  ASSUME TypeInv, AttemptInv, NEW c \in Call, Emit(c) PROVE AttemptInv'
<1>1. /\ call[c].commits \in {0, 1} /\ audit[c] = <<>> /\ ~call[c].req.dry
      /\ call[c].out = "ok" => call[c].commits = 1
      /\ call[c].out = "conflict" => call[c].commits = 0
  BY DEF Emit, AttemptInv, Attempted
<1>2. call[c].out \in Outcome /\ Finish(c, call[c].out)
  BY DEF Emit, TypeInv, TypeOK
<1>3. CASE call[c].out = "ok"
  <2>1. Record(c, FALSE, TRUE)
    BY <1>3 DEF Emit
  <2> QED BY <1>1, <1>2, <1>3, <2>1, FinishAttempt
<1>4. CASE call[c].out # "ok"
  <2>1. Record(c, FALSE, FALSE)
    BY <1>4 DEF Emit
  <2> QED BY <1>1, <1>2, <1>4, <2>1, FinishAttempt
<1> QED BY <1>3, <1>4

LEMMA CrashAttempt ==
  ASSUME TypeInv, AttemptInv, Crash PROVE AttemptInv'
<1> SUFFICES ASSUME NEW d \in Call PROVE Attempted(call'[d], audit'[d])
  BY DEF AttemptInv
<1>1. UNCHANGED audit /\ Attempted(call[d], audit[d])
  BY DEF Crash, AttemptInv
<1>2. "crashed" \in Phase /\ "none" \in Outcome
  BY DEF Phase, Outcome
<1>3. CASE InFlight(d) /\ call'[d] = Over(d, "crashed", "none")
  <2>1. Over(d, "crashed", "none").phase = "crashed" /\ Over(d, "crashed", "none").commits = call[d].commits
    BY <1>2, OverType
  <2>2. call[d].commits <= 1
    BY <1>1, <1>3 DEF Attempted, Unwritten, InFlight
  <2> QED BY <1>3, <2>1, <2>2 DEF Attempted
<1>4. CASE call'[d] = call[d]
  BY <1>1, <1>4
<1> QED BY <1>3, <1>4 DEF Crash

LEMMA AttemptInvStep == TypeInv /\ AttemptInv /\ [Next]_vars => AttemptInv'
<1> SUFFICES ASSUME TypeInv, AttemptInv, [Next]_vars PROVE AttemptInv'
  OBVIOUS
<1>1. CASE UNCHANGED <<call, audit>>
  BY <1>1 DEF AttemptInv
<1>2. CASE Environment
  BY <1>1, <1>2 DEF Environment, Reconcile, KubectlEdit, KubectlDelete, KubectlCreate
<1>3. CASE Crash
  BY <1>3, CrashAttempt
<1>4. CASE \E c \in Call : Step(c)
  BY <1>4, BuildAttempt, PreviewAttempt, CommitAttempt, EmitAttempt DEF Step
<1>5. CASE \E c \in Call : \E r \in Request : Begin(c, r)
  BY <1>5, BeginAttempt
<1>6. CASE UNCHANGED vars
  BY <1>1, <1>6 DEF vars
<1> QED BY <1>2, <1>3, <1>4, <1>5, <1>6 DEF Next

(***************************************************************************)
(* Every service write is at most one apply with exactly one record, and   *)
(* answer, record and etcd agree.                                          *)
(***************************************************************************)
THEOREM EveryWriteIsOneAttempt == Spec => []OneAttempt
<1>1. TypeInv /\ AttemptInv => OneAttempt
  <2> SUFFICES ASSUME TypeInv, AttemptInv, NEW c \in Call
               PROVE LET k == call[c]
                         a == audit[c]
                     IN /\ k.commits <= 1
                        /\ k.phase = "done" /\ k.out \in {"ok", "conflict"} => Len(a) = 1 /\ a[1].ok = (k.out = "ok")
                        /\ k.phase = "done" /\ k.out = "ok" => k.commits = (IF k.req.dry THEN 0 ELSE 1)
                        /\ k.phase = "done" /\ k.out = "conflict" => k.commits = 0
                        /\ k.phase = "done" /\ k.commits = 1 => Len(a) = 1 /\ ~a[1].dry
    BY DEF OneAttempt
  <2>1. Attempted(call[c], audit[c]) /\ call[c].phase \in Phase
    BY DEF AttemptInv, TypeInv, TypeOK
  <2>2. CASE call[c].phase = "done"
    <3>1. CASE Unwritten(call[c], audit[c]) /\ call[c].out \notin {"ok", "conflict"}
      BY <2>2, <3>1 DEF Unwritten
    <3>2. CASE ~(Unwritten(call[c], audit[c]) /\ call[c].out \notin {"ok", "conflict"})
      <4>1. PICK dry, ok \in BOOLEAN :
              /\ audit[c] = <<[dry |-> dry, ok |-> ok]>>
              /\ ok = (call[c].out = "ok")
              /\ call[c].commits \in {0, 1} /\ (call[c].commits = 1 => ~dry)
              /\ call[c].out = "ok" => call[c].commits = (IF call[c].req.dry THEN 0 ELSE 1)
              /\ call[c].out = "conflict" => call[c].commits = 0
        BY <2>1, <2>2, <3>2 DEF Attempted
      <4>2. Len(audit[c]) = 1 /\ audit[c][1].ok = ok /\ audit[c][1].dry = dry
        BY <4>1
      <4> QED BY <2>2, <4>1, <4>2
    <3> QED BY <3>1, <3>2
  <2>3. CASE call[c].phase # "done"
    BY <2>1, <2>3 DEF Attempted, Unwritten, Phase
  <2> QED BY <2>2, <2>3
<1> QED BY <1>1, TypeInvInit, TypeInvStep, AttemptInvInit, AttemptInvStep, PTL DEF Spec
-----------------------------------------------------------------------------
(***************************************************************************)
(* The tools keep the contract of write tools.  A write by anybody is what *)
(* every call that has read it notices; a step of a call that leaves etcd  *)
(* alone moves its own transaction, or nothing; and a commit is the one    *)
(* write of the contract.                                                  *)
(***************************************************************************)
Stamps ==
  \A f \in Field : IF live'.val[f] = live.val[f] THEN live'.touched[f] = live.touched[f]
                   ELSE live'.touched[f] > rv

LEMMA PersistStamps ==
  ASSUME TypeInv, NEW exists, NEW val, NEW own, Persist(exists, val, own) PROVE Stamps
<1>1. rv \in Nat
  BY DEF TypeInv, TypeOK
<1>2. CASE UNCHANGED <<live, rv>>
  BY <1>2 DEF Stamps
<1>3. CASE ~UNCHANGED <<live, rv>>
  <2>1. \A f \in Field : /\ live'.val[f] = val[f]
                         /\ live'.touched[f] = IF val[f] = live.val[f] THEN live.touched[f] ELSE rv + 1
    BY <1>3 DEF Persist
  <2> QED BY <1>1, <2>1 DEF Stamps
<1> QED BY <1>2, <1>3

LEMMA ChangedFields ==
  Contract!Changed = {f \in TypedField : live'.val[f] # live.val[f]}
BY DEF Contract!Changed

(* The race a call loses is stamped on the field. *)
LEMMA Noticing ==
  ASSUME TypeInv, TypeInv', DataInv, Stamps, NEW c \in Call
  PROVE Transaction(call[c], live') = Contract!Noticed(Transaction(call[c], live))
<1> DEFINE k == call[c]
           before == {f \in TypedField : live.touched[f] > k.base}
           after  == {f \in TypedField : live'.touched[f] > k.base}
<1>1. CASE StateOf(k) # "read"
  BY <1>1 DEF Transaction, Contract!Noticed
<1>2. CASE StateOf(k) = "read"
  <2>1. k.base <= rv /\ k.base \in Nat /\ rv \in Nat
    BY DEF DataInv, CallData, TypeInv, TypeOK
  <2>2. ASSUME NEW f \in TypedField
        PROVE live'.touched[f] > k.base <=> live.touched[f] > k.base \/ live'.val[f] # live.val[f]
    <3>1. f \in Field /\ live.touched[f] \in Nat /\ live.touched[f] <= rv
      BY TypedAssumption DEF TypeInv, TypeOK, DataInv
    <3>2. CASE live'.val[f] = live.val[f]
      BY <3>1, <3>2 DEF Stamps
    <3>3. CASE live'.val[f] # live.val[f]
      <4>1. live'.touched[f] > rv
        BY <3>1, <3>3 DEF Stamps
      <4>2. live'.touched[f] \in Nat
        BY <3>1 DEF TypeInv, TypeOK
      <4>3. live'.touched[f] > k.base
        BY <2>1, <4>1, <4>2
      <4> QED BY <3>3, <4>3
    <3> QED BY <3>2, <3>3
  <2>3. after = before \union Contract!Changed
    BY <2>2, ChangedFields
  <2> QED BY <1>2, <2>3 DEF Transaction, Contract!Noticed
<1> QED BY <1>1, <1>2

LEMMA EnvironmentRefines ==
  ASSUME TypeInv, TypeInv', DataInv, Stamps, UNCHANGED call PROVE Contract!Others
<1>1. \A c \in Call : Transaction(call'[c], live') = Contract!Noticed(Transaction(call[c], live))
  BY Noticing
<1> QED BY <1>1 DEF Contract!Others

(* A step that leaves etcd alone moves the transaction of its call. *)
LEMMA MoveRefines ==
  ASSUME TypeInv, NEW c \in Call, NEW next, Becomes(c, next), UNCHANGED live
  PROVE Contract!Moves(c, Transaction(next, live))
<1>1. \A d \in Call : call'[d] = IF d = c THEN next ELSE call[d]
  BY DEF Becomes, TypeInv, TypeOK
<1>2. \A d \in Call : Transaction(call'[d], live') =
                        IF d = c THEN Transaction(next, live) ELSE Transaction(call[d], live)
  BY <1>1
<1> QED BY <1>2 DEF Contract!Moves

(* The transaction of a call, field by field. *)
LEMMA TransactionOf ==
  ASSUME NEW k, NEW object
  PROVE Transaction(k, object) =
          Contract!Tx(StateOf(k), k.req,
             IF StateOf(k) = "read" THEN {f \in TypedField : object.touched[f] > k.base} ELSE {},
             k.commits, IF k.phase = "done" THEN k.out ELSE "none")
BY DEF Transaction, Contract!Tx

(* A call that answers, or moves with nothing to lose. *)
LEMMA MovedTransaction ==
  ASSUME TypeInv, NEW c \in Call, NEW next, Becomes(c, next), UNCHANGED live,
         next.req = call[c].req, next.commits = call[c].commits,
         StateOf(next) = "read" => \A f \in TypedField : ~(live.touched[f] > next.base)
  PROVE Contract!Moves(c, Contract!Moved(Transaction(call[c], live), StateOf(next),
                                         IF next.phase = "done" THEN next.out ELSE "none"))
<1>1. Transaction(next, live) =
        Contract!Tx(StateOf(next), call[c].req, {}, call[c].commits,
                    IF next.phase = "done" THEN next.out ELSE "none")
  BY TransactionOf
<1>2. Transaction(call[c], live).req = call[c].req /\ Transaction(call[c], live).writes = call[c].commits
  BY DEF Transaction
<1>3. Transaction(next, live) =
        Contract!Moved(Transaction(call[c], live), StateOf(next),
                       IF next.phase = "done" THEN next.out ELSE "none")
  BY <1>1, <1>2 DEF Contract!Moved
<1> QED BY <1>3, MoveRefines DEF Contract!Moves

LEMMA BeginRefines ==
  ASSUME TypeInv, DataInv, AttemptInv, NEW c \in Call, NEW r \in Request, Begin(c, r)
  PROVE Contract!Next
<1> DEFINE k == call[c]
<1>1. k \in CallRecord /\ k.phase = "idle" /\ live' = live /\ k.commits = 0
  BY DEF Begin, TypeInv, TypeOK, CallRecord, AttemptInv, Attempted, Unwritten
<1>2. [d \in Call |-> Transaction(call[d], live)][c].state = "idle"
  BY <1>1 DEF Transaction, StateOf
<1>3. CASE RefusedUnread(r)
  <2> DEFINE next == [k EXCEPT !.phase = "done", !.req = r, !.out = "refused"]
  <2>1. Becomes(c, next)
    BY <1>3 DEF Begin
  <2>2. next.phase = "done" /\ next.req = r /\ next.out = "refused" /\ next.commits = 0
    BY <1>1 DEF CallRecord
  <2> HIDE DEF next
  <2>3. Transaction(next, live) = Contract!Tx("done", r, {}, 0, "refused")
    BY <2>2, TransactionOf DEF StateOf
  <2>4. Contract!Moves(c, Contract!Tx("done", r, {}, 0, "refused"))
    BY <1>1, <2>1, <2>3, MoveRefines DEF Contract!Moves
  <2> QED BY <1>2, <2>4 DEF Contract!Refuse, Contract!Next
<1>4. CASE ~RefusedUnread(r) /\ r.op = "deploy"
  <2> DEFINE next == [k EXCEPT !.phase = "preview", !.req = r, !.body = r.set, !.base = rv]
  <2>1. Becomes(c, next)
    BY <1>4 DEF Begin
  <2>2. next.phase = "preview" /\ next.req = r /\ next.commits = 0
    BY <1>1 DEF CallRecord
  <2> HIDE DEF next
  <2>3. StateOf(next) = "begun"
    BY <1>4, <2>2 DEF StateOf
  <2>4. Transaction(next, live) = Contract!Tx("begun", r, {}, 0, "none")
    BY <2>2, <2>3, TransactionOf
  <2>5. Contract!Moves(c, Contract!Tx("begun", r, {}, 0, "none"))
    BY <1>1, <2>1, <2>4, MoveRefines DEF Contract!Moves
  <2> QED BY <1>2, <2>5 DEF Contract!Begin, Contract!Next
<1>5. CASE ~RefusedUnread(r) /\ r.op = "update"
  <2> DEFINE next == [k EXCEPT !.phase = "read", !.req = r]
  <2>1. Becomes(c, next)
    BY <1>5 DEF Begin
  <2>2. next.phase = "read" /\ next.req = r /\ next.commits = 0
    BY <1>1 DEF CallRecord
  <2> HIDE DEF next
  <2>3. StateOf(next) = "begun"
    BY <2>2 DEF StateOf
  <2>4. Transaction(next, live) = Contract!Tx("begun", r, {}, 0, "none")
    BY <2>2, <2>3, TransactionOf
  <2>5. Contract!Moves(c, Contract!Tx("begun", r, {}, 0, "none"))
    BY <1>1, <2>1, <2>4, MoveRefines DEF Contract!Moves
  <2> QED BY <1>2, <2>5 DEF Contract!Begin, Contract!Next
<1> QED BY <1>3, <1>4, <1>5 DEF Begin

(* The answers: what is known of the writes is what the answer says. *)
LEMMA FinishRefines ==
  ASSUME TypeInv, NEW c \in Call, InFlight(c), UNCHANGED live,
         NEW out \in {"ok", "conflict", "notFound", "refused", "error"}, Finish(c, out),
         out = "ok" => call[c].commits = IF call[c].req.dry THEN 0 ELSE 1,
         out \in {"conflict", "notFound", "refused"} => call[c].commits = 0
  PROVE Contract!Next
<1> DEFINE k == call[c]
           t == Transaction(k, live)
           next == Over(c, "done", out)
<1>1. next.phase = "done" /\ next.out = out /\ next.req = k.req /\ next.commits = k.commits
  BY OverType DEF Phase, Outcome
<1>2. Becomes(c, next)
  BY DEF Finish
<1> HIDE DEF next
<1>3. StateOf(k) \in {"begun", "read", "written"}
  BY DEF StateOf, InFlight
<1>4. t.state \in {"begun", "read", "written"} /\ t.req = k.req /\ t.writes = k.commits
  BY <1>3 DEF Transaction
<1>5. [d \in Call |-> Transaction(call[d], live)][c] = t
  OBVIOUS
<1>6. StateOf(next) = "done"
  BY <1>1 DEF StateOf
<1> HIDE DEF t
<1>7. Contract!Truthful(t, out)
  BY <1>4 DEF Contract!Truthful, Dry
<1>8. Contract!Moves(c, Contract!Moved(t, "done", out))
  BY <1>1, <1>2, <1>6, MovedTransaction DEF t, Contract!Moves
<1>9. Contract!Answer(c, out)
  BY <1>4, <1>5, <1>7, <1>8 DEF Contract!Answer, Contract!Open, Contract!Moves
<1> QED BY <1>9 DEF Contract!Next

LEMMA BuildRefines ==
  ASSUME TypeInv, DataInv, AttemptInv, NEW c \in Call, Build(c) PROVE Contract!Next
<1> DEFINE k == call[c]
<1>1. k.phase = "read" /\ k.commits = 0 /\ k.req.op = "update" /\ live' = live
  BY DEF Build, AttemptInv, Attempted, Unwritten, DataInv, CallData
<1>2. ASSUME NEW form, Becomes(c, Read(c, form)) PROVE Contract!Next
  <2> DEFINE next == Read(c, form)
  <2>1. next.phase = "preview" /\ next.base = rv /\ next.req = k.req /\ next.commits = k.commits
    BY DEF TypeInv, TypeOK, Read
  <2> HIDE DEF next
  <2>2. \A f \in TypedField : ~(live.touched[f] > next.base)
    BY <2>1, TypedAssumption DEF DataInv, TypeInv, TypeOK
  <2>3. StateOf(next) = "read" /\ next.phase # "done"
    BY <1>1, <2>1 DEF StateOf
  <2>4. Contract!Moves(c, Contract!Moved(Transaction(k, live), "read", "none"))
    BY <1>1, <1>2, <2>1, <2>2, <2>3, MovedTransaction DEF Contract!Moves, next
  <2>5. [d \in Call |-> Transaction(call[d], live)][c].state = "begun"
    BY <1>1 DEF Transaction, StateOf
  <2> QED BY <2>4, <2>5 DEF Contract!Read, Contract!Next, Contract!Moves
<1>3. CASE \E out \in {"refused", "notFound", "error"} : Finish(c, out)
  BY <1>1, <1>3, FinishRefines DEF InFlight
<1> QED BY <1>2, <1>3 DEF Build, ReadFails, Read

(* Steps between the read and the answer that write nothing are not seen. *)
LEMMA Unseen ==
  ASSUME TypeInv, NEW c \in Call, NEW next, Becomes(c, next), UNCHANGED live,
         call[c].phase \in {"preview", "commit"}, next.phase \in {"commit", "emit"},
         next.req = call[c].req, next.commits = call[c].commits, next.base = call[c].base
  PROVE [d \in Call |-> Transaction(call[d], live)]' = [d \in Call |-> Transaction(call[d], live)]
<1>1. Transaction(next, live) = Transaction(call[c], live)
  BY DEF Transaction, StateOf
<1>2. \A d \in Call : call'[d] = IF d = c THEN next ELSE call[d]
  BY DEF Becomes, TypeInv, TypeOK
<1>3. \A d \in Call : Transaction(call'[d], live') = Transaction(call[d], live)
  BY <1>1, <1>2
<1> QED BY <1>3

LEMMA PreviewRefines ==
  ASSUME TypeInv, AttemptInv, NEW c \in Call, Preview(c) PROVE [Contract!Next]_(Contract!vars)
<1> DEFINE k == call[c]
           next == [k EXCEPT !.phase = "commit"]
<1>1. k.phase = "preview" /\ k.commits = 0 /\ live' = live
  BY DEF Preview, AttemptInv, Attempted, Unwritten
<1>2. CASE Becomes(c, next)
  <2>1. /\ next.phase = "commit" /\ next.req = k.req /\ next.commits = k.commits
        /\ next.base = k.base
    BY DEF TypeInv, TypeOK
  <2> HIDE DEF next
  <2> QED BY <1>1, <1>2, <2>1, Unseen DEF Contract!vars
<1>3. CASE k.req.dry /\ Finish(c, "ok")
  BY <1>1, <1>3, FinishRefines DEF InFlight
<1>4. CASE Finish(c, "error")
  BY <1>1, <1>4, FinishRefines DEF InFlight
<1>5. CASE Finish(c, "conflict")
  BY <1>1, <1>5, FinishRefines DEF InFlight
<1> QED BY <1>2, <1>3, <1>4, <1>5 DEF Preview

LEMMA EmitRefines ==
  ASSUME TypeInv, AttemptInv, NEW c \in Call, Emit(c) PROVE Contract!Next
<1>1. call[c].phase = "emit" /\ live' = live /\ Finish(c, call[c].out) /\ Attempted(call[c], audit[c])
  BY DEF Emit, AttemptInv
<1> QED BY <1>1, FinishRefines DEF InFlight, Attempted

LEMMA CrashRefines ==
  ASSUME TypeInv, Crash PROVE Contract!Next
<1>1. \A d \in Call : call'[d] = IF InFlight(d) THEN Over(d, "crashed", "none") ELSE call[d]
  BY DEF Crash
<1>2. live' = live
  BY DEF Crash
<1>3. ASSUME NEW d \in Call
      PROVE Transaction(call'[d], live') =
              IF Contract!Open(Transaction(call[d], live))
              THEN Contract!Moved(Transaction(call[d], live), "crashed", "none")
              ELSE Transaction(call[d], live)
  <2> DEFINE k == call[d]
             next == Over(d, "crashed", "none")
  <2>1. InFlight(d) <=> StateOf(k) \in {"begun", "read", "written"}
    BY DEF InFlight, StateOf, TypeInv, TypeOK, Phase
  <2>2. Contract!Open(Transaction(k, live)) <=> InFlight(d)
    BY <2>1 DEF Contract!Open, Transaction
  <2>3. next.phase = "crashed" /\ next.req = k.req /\ next.commits = k.commits
    BY OverType DEF Phase, Outcome
  <2> HIDE DEF next
  <2>4. Transaction(next, live) = Contract!Tx("crashed", k.req, {}, k.commits, "none")
    BY <2>3, TransactionOf DEF StateOf
  <2>5. Transaction(next, live) = Contract!Moved(Transaction(k, live), "crashed", "none")
    BY <2>4 DEF Contract!Moved, Transaction
  <2> QED BY <1>1, <1>2, <2>2, <2>5 DEF next
<1> QED BY <1>2, <1>3 DEF Contract!Crash, Contract!Next

(* A write by somebody else. *)
LEMMA EnvironmentStepRefines ==
  ASSUME TypeInv, TypeInv', DataInv, Environment PROVE [Contract!Next]_(Contract!vars)
<1>1. UNCHANGED live \/ \E exists, val, own : Persist(exists, val, own)
  BY DEF Environment, Reconcile, KubectlEdit, KubectlDelete, KubectlCreate
<1>2. UNCHANGED call
  BY DEF Environment, Reconcile, KubectlEdit, KubectlDelete, KubectlCreate
<1>3. CASE UNCHANGED live
  BY <1>2, <1>3 DEF Contract!vars
<1>4. CASE \E exists, val, own : Persist(exists, val, own)
  BY <1>2, <1>4, PersistStamps, EnvironmentRefines DEF Contract!Next
<1> QED BY <1>1, <1>3, <1>4

(* The commit that the server persists is the one write of the contract. *)
LEMMA PersistedRefines ==
  ASSUME TypeInv, TypeInv', DataInv, AttemptInv, NEW c \in Call, Commit(c), NEW next,
         next.phase = "emit", next.req = call[c].req, next.base = call[c].base,
         next.commits = 1, call[c].commits = 0, Becomes(c, next)
  PROVE Contract!Next
<1> DEFINE k == call[c]
           t(d) == Transaction(call[d], live)
<1>1. k.phase = "commit" /\ k.req.dry = FALSE
  BY DEF Commit, AttemptInv, Attempted, Unwritten
<1>2. \A d \in Call : call'[d] = IF d = c THEN next ELSE call[d]
  BY DEF Becomes, TypeInv, TypeOK
<1>3. Commits(c) /\ Next
  BY <1>1, <1>2 DEF Commits, Next, Step
<1>4. Stamps
  BY <1>3, CommitsInCommit, PersistStamps
<1>5. \A d \in Call : Transaction(call[d], live') = Contract!Noticed(t(d))
  BY <1>4, Noticing
<1>6. Transaction(next, live') = Contract!Tx("written", k.req, {}, 1, "none")
  <2>1. StateOf(next) = "written"
    BY DEF StateOf
  <2> QED BY <2>1, TransactionOf
<1>7. \A d \in Call : Transaction(call'[d], live') =
        IF d = c THEN Contract!Tx("written", k.req, {}, 1, "none") ELSE Contract!Noticed(t(d))
  BY <1>2, <1>5, <1>6
<1>8. /\ t(c).state = IF k.req.op = "deploy" THEN "begun" ELSE "read"
      /\ t(c).req = k.req
      /\ t(c).raced = IF k.req.op = "deploy" THEN {} ELSE {f \in TypedField : live.touched[f] > k.base}
  BY <1>1 DEF Transaction, StateOf
<1>9. ASSUME NEW f \in TypedField \ t(c).raced
      PROVE Overlays(k.req, f, live.val[f], live'.val[f])
  <2>1. f \in Field /\ live.touched[f] \in Nat /\ k.base \in Nat
    BY TypedAssumption DEF TypeInv, TypeOK
  <2>2. live.touched[f] <= k.base \/ k.req.op = "deploy"
    BY <1>8, <2>1
  <2>3. call[c].body[f] = Intent(k.req, f, live.val[f])
    BY <1>1, <2>2 DEF DataInv, CallData, BodyIsOverlay
  <2>4. live'.val[f] = Server!AppliedValue(live, RayMcp, call[c].body, f)
    BY <1>3, <2>1, CommitWrites
  <2> QED BY <2>3, <2>4 DEF Overlays, Server!AppliedValue
<1> HIDE DEF t
<1>10. [d \in Call |-> t(d)][c] = t(c)
  OBVIOUS
<1>11. Contract!Write(c)
  BY <1>1, <1>7, <1>8, <1>9, <1>10 DEF Contract!Write, Dry, t
<1> QED BY <1>11 DEF Contract!Next

LEMMA CommitRefines ==
  ASSUME TypeInv, TypeInv', DataInv, AttemptInv, NEW c \in Call, Commit(c)
  PROVE [Contract!Next]_(Contract!vars)
<1> DEFINE k == call[c]
<1>1. k.phase = "commit" /\ k.commits = 0
  BY DEF Commit, AttemptInv, Attempted, Unwritten
<1>2. ASSUME NEW out, Becomes(c, Failed(c, out)), UNCHANGED live PROVE UNCHANGED Contract!vars
  <2> DEFINE next == Failed(c, out)
  <2>1. /\ next.phase = "emit" /\ next.req = k.req /\ next.commits = k.commits
        /\ next.base = k.base
    BY DEF TypeInv, TypeOK, Failed
  <2> HIDE DEF next
  <2> QED BY <1>1, <1>2, <2>1, Unseen DEF Contract!vars, next
<1>3. ASSUME NEW out, Becomes(c, Persisted(c, out)) PROVE Contract!Next
  <2> DEFINE next == Persisted(c, out)
  <2>1. /\ next.phase = "emit" /\ next.req = k.req /\ next.commits = k.commits + 1
        /\ next.base = k.base
    BY DEF TypeInv, TypeOK, Persisted
  <2>2. next.commits = 1
    BY <1>1, <2>1
  <2> HIDE DEF next
  <2> QED BY <1>1, <1>3, <2>1, <2>2, PersistedRefines DEF next
<1> QED BY <1>2, <1>3 DEF Commit, Failed, Persisted

LEMMA AttemptInvariance == Spec => [](TypeInv /\ AttemptInv)
BY TypeInvInit, TypeInvStep, AttemptInvInit, AttemptInvStep, PTL DEF Spec

LEMMA StepRefines ==
  TypeInv /\ TypeInv' /\ DataInv /\ AttemptInv /\ [Next]_vars => [Contract!Next]_(Contract!vars)
<1> SUFFICES ASSUME TypeInv, TypeInv', DataInv, AttemptInv, [Next]_vars
             PROVE [Contract!Next]_(Contract!vars)
  OBVIOUS
<1>1. CASE Environment
  BY <1>1, EnvironmentStepRefines
<1>2. CASE Crash
  BY <1>2, CrashRefines
<1>3. CASE \E c \in Call : Step(c)
  BY <1>3, BuildRefines, PreviewRefines, CommitRefines, EmitRefines DEF Step
<1>4. CASE \E c \in Call : \E r \in Request : Begin(c, r)
  BY <1>4, BeginRefines
<1>5. CASE UNCHANGED vars
  BY <1>5 DEF vars, Contract!vars
<1> QED BY <1>1, <1>2, <1>3, <1>4, <1>5 DEF Next

(***************************************************************************)
(* Deploy and update implement the contract of write tools, for any number *)
(* of concurrent calls and whatever the operator and kubectl users do: a   *)
(* call writes at most once, its write is atomic on every field nobody     *)
(* raced it for, and every answer but an error tells whether it was made.  *)
(***************************************************************************)
THEOREM WritesAreAtomic == Spec => ImplementsAtomicWrite
<1>1. Init => Contract!Init
  BY DEF Init, NoCall, Contract!Init, Contract!Tx, Transaction, StateOf
<1> QED BY <1>1, Invariance, AttemptInvariance, StepRefines, PTL
     DEF Spec, ImplementsAtomicWrite, Contract!Spec
=============================================================================
