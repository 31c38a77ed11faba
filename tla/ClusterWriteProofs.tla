-------------------------- MODULE ClusterWriteProofs --------------------------
(***************************************************************************)
(* What holds of the RayCluster write path for any number of calls,        *)
(* requests, fields' values and concurrent writers.                        *)
(***************************************************************************)
EXTENDS ClusterWrite, TLAPS

Live == [exists : BOOLEAN, uid : Nat, val : [Field -> Value],
         own : [Field -> SUBSET Manager], touched : [Field -> Nat]]

CallRecord == [phase : Phase, req : Request \union {Absent}, force : BOOLEAN,
               body : [Field -> Value], out : Outcome, base : Nat,
               contended : Nat, commits : Nat]

LEMMA StripType ==
  ASSUME NEW v \in Value PROVE StripWorkersToDelete(v) \in Value
<1>1. CASE v \in GroupList
  <2>1. \A g \in GroupName : [v[g] EXCEPT !.wtd = FALSE] \in WorkerGroup
    BY <1>1 DEF GroupList, WorkerGroup
  <2>2. StripWorkersToDelete(v) \in GroupList
    BY <1>1, <2>1 DEF StripWorkersToDelete, GroupList
  <2> QED BY <2>2 DEF Value
<1>2. CASE v \notin GroupList
  BY <1>2 DEF StripWorkersToDelete
<1> QED BY <1>1, <1>2

LEMMA ImageType ==
  ASSUME NEW v \in Value, NEW f \in Field, NEW image \in Image \union {Absent}
  PROVE SetClusterImage(f, v, image) \in Value
<1>1. CASE image # Absent /\ f = "groups" /\ v \in GroupList
  <2>1. \A g \in GroupName : [v[g] EXCEPT !.img = image] \in WorkerGroup
    BY <1>1 DEF GroupList, WorkerGroup
  <2>2. SetClusterImage(f, v, image) = [g \in GroupName |-> [v[g] EXCEPT !.img = image]]
    BY <1>1 DEF SetClusterImage
  <2>3. SetClusterImage(f, v, image) \in GroupList
    BY <2>1, <2>2 DEF GroupList
  <2> QED BY <2>3 DEF Value
<1>2. CASE ~(image # Absent /\ f = "groups" /\ v \in GroupList)
  BY <1>2 DEF SetClusterImage, Value
<1> QED BY <1>1, <1>2

LEMMA IntentType ==
  ASSUME NEW r \in Request, NEW f \in Field, NEW v \in Value
  PROVE Intent(r, f, v) \in Value
<1>1. CASE r \in CreateRequest
  BY <1>1 DEF CreateRequest, Intent
<1>2. CASE IsUpdateRequest(r)
  <2>1. r.op = "update" /\ r.image \in Image \union {Absent} /\ IsOverlay(r.set)
    BY <1>2 DEF IsUpdateRequest
  <2>2. CASE f \in DOMAIN r.set
    BY <2>1, <2>2 DEF Intent, IsOverlay
  <2>3. CASE f \notin DOMAIN r.set
    BY <2>1, <2>3, StripType, ImageType DEF Intent
  <2> QED BY <2>2, <2>3
<1>3. CASE r \in ScaleRequest
  <2>1. r.op = "scale"
    BY <1>3 DEF ScaleRequest
  <2>2. CASE f = "groups" /\ v \in GroupList /\ r.group \in GroupName
    <3> DEFINE s == StripWorkersToDelete(v)
    <3>1. s \in GroupList
      <4>1. \A g \in GroupName : [v[g] EXCEPT !.wtd = FALSE] \in WorkerGroup
        BY <2>2 DEF GroupList, WorkerGroup
      <4> QED BY <2>2, <4>1 DEF StripWorkersToDelete, GroupList
    <3>2. ScaledGroup(r, s[r.group]) \in WorkerGroup
      BY <1>3, <2>2, <3>1 DEF ScaledGroup, Provided, ScaleRequest, GroupList, WorkerGroup
    <3>3. [s EXCEPT ![r.group] = ScaledGroup(r, s[r.group])] \in GroupList
      BY <3>1, <3>2 DEF GroupList
    <3>4. Intent(r, f, v) = [s EXCEPT ![r.group] = ScaledGroup(r, s[r.group])]
      BY <2>1, <2>2 DEF Intent
    <3> QED BY <3>3, <3>4 DEF Value
  <2>3. CASE ~(f = "groups" /\ v \in GroupList /\ r.group \in GroupName)
    BY <2>1, <2>3, StripType DEF Intent
  <2> QED BY <2>2, <2>3
<1> QED BY <1>1, <1>2, <1>3, RequestAssumption

(* The server's operators keep the types of values and owners. *)
LEMMA AppliedType ==
  ASSUME live \in Live, NEW body \in [Field -> Value]
  PROVE /\ [f \in Field |-> Server!AppliedValue(live, RayMcp, body, f)] \in [Field -> Value]
        /\ [f \in Field |-> Server!AppliedOwners(live, RayMcp, body, f)] \in [Field -> SUBSET Manager]
BY DEF Live, Server!AppliedValue, Server!AppliedOwners, Value, Manager

LEMMA WrittenType ==
  ASSUME live \in Live, NEW m \in Manager, NEW val \in [Field -> Value]
  PROVE [f \in Field |-> Server!WrittenOwners(live, m, val, f)] \in [Field -> SUBSET Manager]
BY DEF Live, Server!WrittenOwners

LEMMA PersistType ==
  ASSUME live \in Live, rv \in Nat, NEW exists \in BOOLEAN, NEW val \in [Field -> Value],
         NEW own \in [Field -> SUBSET Manager], Persist(exists, val, own)
  PROVE live' \in Live /\ rv' \in Nat
BY DEF Live, Persist

LEMMA UserObjectType ==
  /\ UserObject \in [Field -> Value]
  /\ [f \in Field |-> IF UserObject[f] = Absent THEN {} ELSE {Kubectl}] \in [Field -> SUBSET Manager]
BY UserAssumption DEF Manager

(* A call that has begun has a request. *)
Begun == \A c \in Call : call[c].phase # "idle" => call[c].req \in Request

TypeInv == TypeOK /\ Begun

LEMMA TypeInvInit == Init => TypeInv
<1> SUFFICES ASSUME Init PROVE TypeInv
  OBVIOUS
<1>1. live \in Live /\ rv \in Nat
  BY UserObjectType DEF Init, Live
<1>2. call \in [Call -> CallRecord]
  BY DEF Init, NoCall, CallRecord, Phase, Outcome, Server!NoValues, Value
<1>3. audit \in [Call -> Seq([dry : BOOLEAN, ok : BOOLEAN])]
  BY DEF Init
<1>4. Begun
  BY DEF Init, NoCall, Begun
<1> QED BY <1>1, <1>2, <1>3, <1>4 DEF TypeInv, TypeOK, Live, CallRecord

LEMMA MovedType ==
  ASSUME TypeInv, NEW c \in Call, NEW next \in CallRecord,
         next.phase # "idle" => next.req \in Request, Becomes(c, next)
  PROVE call' \in [Call -> CallRecord] /\ Begun'
BY DEF TypeInv, TypeOK, Begun, Becomes, CallRecord

LEMMA RecordType ==
  ASSUME TypeInv, NEW c \in Call, NEW dry \in BOOLEAN, NEW ok \in BOOLEAN, Record(c, dry, ok)
  PROVE audit' \in [Call -> Seq([dry : BOOLEAN, ok : BOOLEAN])]
BY DEF TypeInv, TypeOK, Record

LEMMA FinishType ==
  ASSUME TypeInv, NEW c \in Call, call[c].phase # "idle", NEW out \in Outcome, Finish(c, out)
  PROVE call' \in [Call -> CallRecord] /\ Begun'
<1>1. [call[c] EXCEPT !.phase = "done", !.out = out] \in CallRecord
  BY DEF TypeInv, TypeOK, CallRecord, Phase
<1> QED BY <1>1, MovedType DEF Finish, TypeInv, TypeOK, Begun

LEMMA OnConflictType ==
  ASSUME TypeInv, NEW c \in Call, call[c].phase # "idle", OnConflict(c)
  PROVE call' \in [Call -> CallRecord] /\ Begun'
<1> DEFINE retry == [call[c] EXCEPT !.phase = "read", !.force = TRUE, !.out = "none", !.contended = rv]
<1>1. retry \in CallRecord /\ retry.req = call[c].req
  BY DEF TypeInv, TypeOK, CallRecord, Phase, Outcome
<1>2. CASE Becomes(c, retry)
  BY <1>1, <1>2, MovedType DEF TypeInv, Begun
<1>3. CASE Finish(c, "conflict")
  BY <1>3, FinishType DEF Outcome
<1> QED BY <1>2, <1>3 DEF OnConflict

LEMMA BeginType ==
  ASSUME TypeInv, NEW c \in Call, NEW r \in Request, Begin(c, r) PROVE TypeInv'
<1> SUFFICES call' \in [Call -> CallRecord] /\ Begun'
  BY DEF Begin, TypeInv, TypeOK, CallRecord
<1> DEFINE refused == [call[c] EXCEPT !.phase = "done", !.req = r, !.out = "refused"]
           apply   == [call[c] EXCEPT !.phase = "preview", !.req = r, !.body = r.set, !.base = rv]
           read    == [call[c] EXCEPT !.phase = "read", !.req = r]
<1>1. CASE Becomes(c, refused)
  <2>1. refused \in CallRecord /\ refused.req = r
    BY DEF TypeInv, TypeOK, CallRecord, Phase, Outcome
  <2> QED BY <1>1, <2>1, MovedType
<1>2. CASE r.op = "create" /\ Becomes(c, apply)
  <2>1. r.set \in [Field -> Value]
    BY <1>2, RequestAssumption DEF CreateRequest, ScaleRequest, IsUpdateRequest
  <2>2. apply \in CallRecord /\ apply.req = r
    BY <2>1 DEF TypeInv, TypeOK, CallRecord, Phase
  <2> QED BY <1>2, <2>2, MovedType
<1>3. CASE Becomes(c, read)
  <2>1. read \in CallRecord /\ read.req = r
    BY DEF TypeInv, TypeOK, CallRecord, Phase
  <2> QED BY <1>3, <2>1, MovedType
<1> QED BY <1>1, <1>2, <1>3 DEF Begin

LEMMA BuildType ==
  ASSUME TypeInv, NEW c \in Call, Build(c) PROVE TypeInv'
<1> SUFFICES call' \in [Call -> CallRecord] /\ Begun'
  BY DEF Build, TypeInv, TypeOK, CallRecord
<1> DEFINE r    == call[c].req
           read == Decoded(live.val)
           next == [call[c] EXCEPT !.phase = "preview", !.base = rv, !.body = Body(r, read)]
<1>1. call[c].phase = "read" /\ r \in Request
  BY DEF Build, TypeInv, Begun
<1>2. CASE Becomes(c, next)
  <2>1. read \in [Field -> Value]
    BY DEF TypeInv, TypeOK, Decoded, Value
  <2>2. Body(r, read) \in [Field -> Value]
    BY <1>1, <2>1, IntentType DEF Body
  <2>3. next \in CallRecord /\ next.req = r
    BY <2>2 DEF TypeInv, TypeOK, CallRecord, Phase
  <2> QED BY <1>1, <1>2, <2>3, MovedType
<1>3. CASE \E out \in Outcome : Finish(c, out)
  BY <1>1, <1>3, FinishType
<1> QED BY <1>2, <1>3 DEF Build, ReadFails, Outcome

LEMMA PreviewType ==
  ASSUME TypeInv, NEW c \in Call, Preview(c) PROVE TypeInv'
<1> DEFINE next == [call[c] EXCEPT !.phase = "commit"]
<1>1. call[c].phase = "preview" /\ call[c].req \in Request
  BY DEF Preview, TypeInv, Begun
<1>2. call' \in [Call -> CallRecord] /\ Begun'
  <2>1. CASE Becomes(c, next)
    <3>1. next \in CallRecord /\ next.req = call[c].req
      BY DEF TypeInv, TypeOK, CallRecord, Phase
    <3> QED BY <1>1, <2>1, <3>1, MovedType
  <2>2. CASE \E out \in Outcome : Finish(c, out)
    BY <1>1, <2>2, FinishType
  <2>3. CASE OnConflict(c)
    BY <1>1, <2>3, OnConflictType
  <2> QED BY <2>1, <2>2, <2>3 DEF Preview, Outcome
<1>3. audit' \in [Call -> Seq([dry : BOOLEAN, ok : BOOLEAN])]
  <2>1. CASE UNCHANGED audit
    BY <2>1 DEF TypeInv, TypeOK
  <2>2. CASE \E dry, ok \in BOOLEAN : Record(c, dry, ok)
    BY <2>2, RecordType
  <2> QED BY <2>1, <2>2 DEF Preview
<1> QED BY <1>2, <1>3 DEF Preview, TypeInv, TypeOK, CallRecord

LEMMA CommitType ==
  ASSUME TypeInv, NEW c \in Call, Commit(c) PROVE TypeInv'
<1> DEFINE body == call[c].body
           failed(out) == [call[c] EXCEPT !.phase = "emit", !.out = out]
           persisted(out) == [call[c] EXCEPT !.phase = "emit", !.out = out, !.commits = @ + 1]
<1>1. call[c].phase = "commit" /\ call[c].req \in Request
  BY DEF Commit, TypeInv, Begun
<1>2. call' \in [Call -> CallRecord] /\ Begun'
  <2>1. PICK out \in Outcome : Becomes(c, failed(out)) \/ Becomes(c, persisted(out))
    BY DEF Commit, Outcome
  <2>2. failed(out) \in CallRecord /\ failed(out).req = call[c].req
    BY DEF TypeInv, TypeOK, CallRecord, Phase
  <2>3. persisted(out) \in CallRecord /\ persisted(out).req = call[c].req
    <3>1. call[c] \in CallRecord /\ call[c].commits + 1 \in Nat
      BY DEF TypeInv, TypeOK, CallRecord
    <3> QED BY <3>1 DEF CallRecord, Phase
  <2>4. CASE Becomes(c, failed(out))
    BY <1>1, <2>2, <2>4, MovedType
  <2>5. CASE Becomes(c, persisted(out))
    BY <1>1, <2>3, <2>5, MovedType
  <2> QED BY <2>1, <2>4, <2>5
<1>3. live' \in Live /\ rv' \in Nat
  <2>1. live \in Live /\ rv \in Nat /\ body \in [Field -> Value]
    BY DEF TypeInv, TypeOK, Live
  <2>2. CASE UNCHANGED <<live, rv>>
    BY <2>1, <2>2
  <2>3. CASE Persist(TRUE, [f \in Field |-> Server!AppliedValue(live, RayMcp, body, f)],
                           [f \in Field |-> Server!AppliedOwners(live, RayMcp, body, f)])
    BY <2>1, <2>3, AppliedType, PersistType
  <2> QED BY <2>2, <2>3 DEF Commit
<1> QED BY <1>2, <1>3 DEF Commit, TypeInv, TypeOK, CallRecord, Live

LEMMA EmitType ==
  ASSUME TypeInv, NEW c \in Call, Emit(c) PROVE TypeInv'
<1>1. call[c].phase = "emit" /\ call[c].out \in Outcome
  BY DEF Emit, TypeInv, TypeOK
<1>2. call' \in [Call -> CallRecord] /\ Begun'
  BY <1>1, FinishType, OnConflictType DEF Emit
<1>3. audit' \in [Call -> Seq([dry : BOOLEAN, ok : BOOLEAN])]
  BY RecordType DEF Emit
<1> QED BY <1>2, <1>3 DEF Emit, TypeInv, TypeOK, CallRecord

LEMMA CrashType ==
  ASSUME TypeInv, Crash PROVE TypeInv'
<1> DEFINE crashed(c) == [call[c] EXCEPT !.phase = "crashed"]
<1>1. call \in [Call -> CallRecord]
  BY DEF TypeInv, TypeOK, CallRecord
<1>2. \A c \in Call : crashed(c) \in CallRecord /\ crashed(c).req = call[c].req
  BY <1>1 DEF CallRecord, Phase
<1>3. \A c \in Call : call'[c] = IF InFlight(c) THEN crashed(c) ELSE call[c]
  BY DEF Crash
<1> HIDE DEF crashed
<1>4. call' = [c \in Call |-> IF InFlight(c) THEN crashed(c) ELSE call[c]]
  BY DEF Crash, crashed
<1>5. call' \in [Call -> CallRecord]
  BY <1>1, <1>2, <1>4
<1>6. Begun'
  <2> SUFFICES ASSUME NEW c \in Call, call'[c].phase # "idle" PROVE call'[c].req \in Request
    BY DEF Begun
  <2>1. CASE InFlight(c)
    BY <1>2, <1>3, <2>1 DEF InFlight, TypeInv, Begun
  <2>2. CASE ~InFlight(c)
    BY <1>3, <2>2 DEF TypeInv, Begun
  <2> QED BY <2>1, <2>2
<1> QED BY <1>5, <1>6 DEF Crash, TypeInv, TypeOK, CallRecord

LEMMA WriteType ==
  ASSUME TypeInv, NEW m \in Manager, NEW val \in [Field -> Value], Write(m, val) PROVE TypeInv'
<1>1. live' \in Live /\ rv' \in Nat
  BY WrittenType, PersistType DEF Write, TypeInv, TypeOK, Live
<1> QED BY <1>1 DEF Write, TypeInv, TypeOK, Begun, Live

LEMMA EnvironmentType ==
  ASSUME TypeInv, Environment PROVE TypeInv'
<1>1. live \in Live /\ rv \in Nat
  BY DEF TypeInv, TypeOK, Live
<1>2. CASE AutoscalerScale
  <2> DEFINE list == live.val["groups"]
  <2>1. list \in GroupList
    BY <1>2 DEF AutoscalerScale
  <2>2. PICK g \in GroupName, n \in Int :
          Write(Autoscaler, [live.val EXCEPT !["groups"] = Rescaled(list, g, n)])
    <3>1. \A h \in GroupName : list[h].min .. list[h].max \subseteq Int
      OBVIOUS
    <3> QED BY <1>2, <3>1 DEF AutoscalerScale
  <2>3. Rescaled(list, g, n) \in GroupList
    <3>1. list[g] \in WorkerGroup
      BY <2>1 DEF GroupList
    <3>2. \A down \in BOOLEAN : [list[g] EXCEPT !.rep = n, !.wtd = down] \in WorkerGroup
      BY <3>1 DEF WorkerGroup
    <3>3. (n < list[g].rep) \in BOOLEAN
      OBVIOUS
    <3>4. [list[g] EXCEPT !.rep = n, !.wtd = n < list[g].rep] \in WorkerGroup
      BY <3>2, <3>3
    <3> QED BY <2>1, <3>4 DEF Rescaled, GroupList
  <2>4. [live.val EXCEPT !["groups"] = Rescaled(list, g, n)] \in [Field -> Value]
    BY <1>1, <2>3 DEF Live, Value
  <2> QED BY <2>2, <2>4, WriteType DEF Manager
<1>3. CASE KubectlEdit
  <2>1. PICK e \in UserEdit :
          Write(Kubectl, [f \in Field |-> IF f \in DOMAIN e THEN e[f] ELSE live.val[f]])
    BY <1>3 DEF KubectlEdit
  <2>2. [f \in Field |-> IF f \in DOMAIN e THEN e[f] ELSE live.val[f]] \in [Field -> Value]
    BY <1>1, UserAssumption DEF Live, IsOverlay
  <2> QED BY <2>1, <2>2, WriteType DEF Manager
<1>4. CASE KubectlDelete
  <2>1. Server!NoValues \in [Field -> Value] /\ Server!NoOwners \in [Field -> SUBSET Manager]
    BY DEF Server!NoValues, Server!NoOwners, Value
  <2>2. live' \in Live /\ rv' \in Nat
    BY <1>1, <1>4, <2>1, PersistType DEF KubectlDelete
  <2> QED BY <1>4, <2>2 DEF KubectlDelete, TypeInv, TypeOK, Begun, Live
<1>5. CASE KubectlCreate
  <2>1. live' \in Live /\ rv' \in Nat
    BY <1>1, <1>5, UserObjectType, PersistType DEF KubectlCreate
  <2> QED BY <1>5, <2>1 DEF KubectlCreate, TypeInv, TypeOK, Begun, Live
<1> QED BY <1>2, <1>3, <1>4, <1>5 DEF Environment

LEMMA TypeInvStep == TypeInv /\ [Next]_vars => TypeInv'
<1> SUFFICES ASSUME TypeInv, [Next]_vars PROVE TypeInv'
  OBVIOUS
<1>1. CASE Environment
  BY <1>1, EnvironmentType
<1>2. CASE Crash
  BY <1>2, CrashType
<1>3. CASE \E c \in Call : Step(c)
  BY <1>3, BuildType, PreviewType, CommitType, EmitType DEF Step
<1>4. CASE \E c \in Call : \E r \in Request : Begin(c, r)
  BY <1>4, BeginType
<1>5. CASE UNCHANGED vars
  BY <1>5 DEF vars, TypeInv, TypeOK, Begun
<1> QED BY <1>1, <1>2, <1>3, <1>4, <1>5 DEF Next

(***************************************************************************)
(* Whatever is requested and whoever else writes, the cluster, the calls   *)
(* and the audit trail keep their types.                                   *)
(***************************************************************************)
THEOREM TypeCorrect == Spec => []TypeOK
<1>1. TypeInv => TypeOK
  BY DEF TypeInv
<1> QED BY <1>1, TypeInvInit, TypeInvStep, PTL DEF Spec

-----------------------------------------------------------------------------
(***************************************************************************)
(* What a call in flight knows of the cluster.  Its history stamps are     *)
(* not ahead of etcd; a forced body is not older than the conflict it      *)
(* retries; and a body to be applied is the overlay of every field nobody  *)
(* wrote since the read, and of all fields in a create, which reads none.  *)
(***************************************************************************)
Dated(r, revision) == r.base <= revision /\ r.contended <= revision

FreshRetry(r) == r.force /\ r.phase \in {"preview", "commit", "emit"} => r.base >= r.contended

BodyIsOverlay(r, cluster) ==
  r.phase \in {"preview", "commit"} =>
    \A f \in TypedField :
      cluster.touched[f] <= r.base \/ r.req.op = "create" =>
        r.body[f] = Intent(r.req, f, cluster.val[f])

CallData(r, cluster, revision) ==
  Dated(r, revision) /\ FreshRetry(r) /\ BodyIsOverlay(r, cluster)

DataInv ==
  /\ live.uid <= rv /\ \A f \in Field : live.touched[f] <= rv
  /\ \A c \in Call : CallData(call[c], live, rv)

(* Every write moves the revision on and stamps what it changes. *)
LiveKeeps ==
  /\ rv <= rv' /\ live'.uid <= rv'
  /\ \A f \in Field : live'.touched[f] <= rv'
  /\ \A f \in Field : live'.touched[f] <= rv =>
       live'.val[f] = live.val[f] /\ live'.touched[f] = live.touched[f]

LEMMA PersistKeeps ==
  ASSUME TypeInv, DataInv, NEW exists, NEW val, NEW own, Persist(exists, val, own)
  PROVE LiveKeeps
<1>1. /\ live \in Live /\ rv \in Nat /\ live.uid \in Nat /\ live.uid <= rv
      /\ \A f \in Field : live.touched[f] \in Nat /\ live.touched[f] <= rv
  BY DEF TypeInv, TypeOK, Live, DataInv
<1>2. CASE UNCHANGED <<live, rv>>
  BY <1>1, <1>2 DEF LiveKeeps
<1>3. CASE ~UNCHANGED <<live, rv>>
  <2>1. rv' = rv + 1 /\ live'.uid \in {rv + 1, live.uid}
    BY <1>3 DEF Persist
  <2>2. \A f \in Field : /\ live'.val[f] = val[f]
                         /\ live'.touched[f] = IF val[f] = live.val[f] THEN live.touched[f] ELSE rv + 1
    BY <1>3 DEF Persist
  <2> QED BY <1>1, <2>1, <2>2 DEF LiveKeeps
<1> QED BY <1>2, <1>3

LEMMA PersistValue ==
  ASSUME NEW exists, NEW val, NEW own, Persist(exists, val, own)
  PROVE live'.val = val
<1>1. CASE UNCHANGED <<live, rv>> /\ val = live.val
  BY <1>1
<1>2. CASE ~(UNCHANGED <<live, rv>> /\ val = live.val)
  BY <1>2 DEF Persist
<1> QED BY <1>1, <1>2

LEMMA PersistOwners ==
  ASSUME NEW exists, NEW val, NEW own, Persist(exists, val, own)
  PROVE live'.own = own
<1>1. CASE UNCHANGED <<live, rv>> /\ own = live.own
  BY <1>1
<1>2. CASE ~(UNCHANGED <<live, rv>> /\ own = live.own)
  BY <1>2 DEF Persist
<1> QED BY <1>1, <1>2

LEMMA StutterKeeps ==
  ASSUME TypeInv, DataInv, UNCHANGED <<live, rv>> PROVE LiveKeeps
BY DEF TypeInv, TypeOK, DataInv, LiveKeeps

(* A write by anybody leaves what a call knows true. *)
LEMMA DataFrame ==
  ASSUME TypeInv, TypeInv', LiveKeeps, NEW r \in CallRecord, CallData(r, live, rv)
  PROVE CallData(r, live', rv')
<1>1. r.base \in Nat /\ r.contended \in Nat /\ rv \in Nat /\ rv' \in Nat
  BY DEF CallRecord, TypeInv, TypeOK
<1>2. \A f \in Field : live'.touched[f] \in Nat
  BY DEF TypeInv, TypeOK
<1>3. Dated(r, rv')
  BY <1>1 DEF CallData, Dated, LiveKeeps
<1>4. BodyIsOverlay(r, live')
  <2>1. CASE r.req.op = "create"
    BY <2>1 DEF CallData, BodyIsOverlay, Intent
  <2>2. CASE r.req.op # "create"
    BY <1>1, <1>2, <2>2, TypedAssumption DEF CallData, Dated, BodyIsOverlay, LiveKeeps
  <2> QED BY <2>1, <2>2
<1> QED BY <1>3, <1>4 DEF CallData

LEMMA DataMove ==
  ASSUME TypeInv, TypeInv', DataInv, LiveKeeps, NEW c \in Call, NEW next,
         Becomes(c, next), CallData(next, live', rv')
  PROVE DataInv'
<1>1. \A d \in Call : CallData(call'[d], live', rv')
  <2> SUFFICES ASSUME NEW d \in Call PROVE CallData(call'[d], live', rv')
    OBVIOUS
  <2>1. call[d] \in CallRecord
    BY DEF TypeInv, TypeOK, CallRecord
  <2>2. call'[d] = IF d = c THEN next ELSE call[d]
    BY DEF Becomes, TypeInv, TypeOK
  <2> QED BY <2>1, <2>2, DataFrame DEF DataInv
<1> QED BY <1>1 DEF DataInv, LiveKeeps

LEMMA DataIdle ==
  ASSUME TypeInv, TypeInv', DataInv, LiveKeeps, UNCHANGED call PROVE DataInv'
<1>1. \A d \in Call : CallData(call'[d], live', rv')
  BY DataFrame DEF DataInv, TypeInv, TypeOK, CallRecord
<1> QED BY <1>1 DEF DataInv, LiveKeeps

LEMMA DataInvInit == Init => DataInv
BY DEF Init, NoCall, DataInv, CallData, Dated, FreshRetry, BodyIsOverlay

(* A call with no body to apply knows only its dates. *)
LEMMA DataOutside ==
  ASSUME TypeInv, TypeInv', DataInv, LiveKeeps, NEW c \in Call, NEW next,
         Becomes(c, next), next.base = call[c].base, next.contended \in {call[c].contended, rv},
         next.phase \in {"read", "done", "crashed"}
  PROVE DataInv'
<1>1. call[c] \in CallRecord /\ rv \in Nat /\ rv' \in Nat
  BY DEF TypeInv, TypeOK, CallRecord
<1>2. Dated(call[c], rv)
  BY DEF DataInv, CallData
<1>3. Dated(next, rv')
  BY <1>1, <1>2 DEF Dated, LiveKeeps, CallRecord
<1>4. CallData(next, live', rv')
  BY <1>3 DEF CallData, FreshRetry, BodyIsOverlay
<1> QED BY <1>4, DataMove

LEMMA FinishData ==
  ASSUME TypeInv, TypeInv', DataInv, LiveKeeps, NEW c \in Call, NEW out, Finish(c, out)
  PROVE DataInv'
<1> DEFINE next == [call[c] EXCEPT !.phase = "done", !.out = out]
<1>1. next.base = call[c].base /\ next.contended = call[c].contended /\ next.phase = "done"
  BY DEF TypeInv, TypeOK
<1>2. Becomes(c, next)
  BY DEF Finish
<1> QED BY <1>1, <1>2, DataOutside

LEMMA OnConflictData ==
  ASSUME TypeInv, TypeInv', DataInv, LiveKeeps, NEW c \in Call, OnConflict(c)
  PROVE DataInv'
<1> DEFINE retry == [call[c] EXCEPT !.phase = "read", !.force = TRUE, !.out = "none", !.contended = rv]
<1>1. retry.base = call[c].base /\ retry.contended = rv /\ retry.phase = "read"
  BY DEF TypeInv, TypeOK
<1>2. CASE Becomes(c, retry)
  BY <1>1, <1>2, DataOutside
<1>3. CASE Finish(c, "conflict")
  BY <1>3, FinishData
<1> QED BY <1>2, <1>3 DEF OnConflict

LEMMA BeginData ==
  ASSUME TypeInv, TypeInv', DataInv, NEW c \in Call, NEW r \in Request, Begin(c, r)
  PROVE DataInv'
<1> DEFINE refused == [call[c] EXCEPT !.phase = "done", !.req = r, !.out = "refused"]
           apply   == [call[c] EXCEPT !.phase = "preview", !.req = r, !.body = r.set, !.base = rv]
           read    == [call[c] EXCEPT !.phase = "read", !.req = r]
<1>1. LiveKeeps
  BY StutterKeeps DEF Begin
<1>2. CASE Becomes(c, refused)
  <2>1. refused.base = call[c].base /\ refused.contended = call[c].contended /\ refused.phase = "done"
    BY DEF TypeInv, TypeOK
  <2> QED BY <1>1, <1>2, <2>1, DataOutside
<1>3. CASE r.op = "create" /\ Becomes(c, apply)
  <2>1. /\ apply.base = rv /\ apply.contended = call[c].contended /\ apply.phase = "preview"
        /\ apply.req = r /\ apply.body = r.set
    BY DEF TypeInv, TypeOK
  <2>2. call[c].contended <= rv /\ rv' = rv /\ rv \in Nat /\ call[c].contended \in Nat
    BY DEF Begin, DataInv, CallData, Dated, TypeInv, TypeOK
  <2>3. CallData(apply, live', rv')
    BY <1>3, <2>1, <2>2 DEF CallData, Dated, FreshRetry, BodyIsOverlay, Intent
  <2> QED BY <1>1, <1>3, <2>3, DataMove
<1>4. CASE Becomes(c, read)
  <2>1. read.base = call[c].base /\ read.contended = call[c].contended /\ read.phase = "read"
    BY DEF TypeInv, TypeOK
  <2> QED BY <1>1, <1>4, <2>1, DataOutside
<1> QED BY <1>2, <1>3, <1>4 DEF Begin

LEMMA BuildData ==
  ASSUME TypeInv, TypeInv', DataInv, NEW c \in Call, Build(c)
  PROVE DataInv'
<1> DEFINE r    == call[c].req
           read == Decoded(live.val)
           next == [call[c] EXCEPT !.phase = "preview", !.base = rv, !.body = Body(r, read)]
<1>1. LiveKeeps /\ UNCHANGED <<live, rv>>
  BY StutterKeeps DEF Build
<1>2. CASE Becomes(c, next)
  <2>1. /\ next.base = rv /\ next.contended = call[c].contended /\ next.phase = "preview"
        /\ next.req = r /\ next.body = Body(r, read)
    BY DEF TypeInv, TypeOK
  <2>2. call[c].contended <= rv /\ rv \in Nat /\ call[c].contended \in Nat
    BY DEF DataInv, CallData, Dated, TypeInv, TypeOK
  <2>3. \A f \in TypedField : Body(r, read)[f] = Intent(r, f, live.val[f])
    BY TypedAssumption DEF Body, Decoded
  <2>4. CallData(next, live', rv')
    BY <1>1, <2>1, <2>2, <2>3 DEF CallData, Dated, FreshRetry, BodyIsOverlay
  <2> QED BY <1>1, <1>2, <2>4, DataMove
<1>3. CASE \E out \in Outcome : Finish(c, out)
  BY <1>1, <1>3, FinishData
<1> QED BY <1>2, <1>3 DEF Build, ReadFails, Outcome

LEMMA PreviewData ==
  ASSUME TypeInv, TypeInv', DataInv, NEW c \in Call, Preview(c)
  PROVE DataInv'
<1> DEFINE next == [call[c] EXCEPT !.phase = "commit"]
<1>1. LiveKeeps /\ UNCHANGED <<live, rv>> /\ call[c].phase = "preview"
  BY StutterKeeps DEF Preview
<1>2. CASE Becomes(c, next)
  <2>1. /\ next.base = call[c].base /\ next.contended = call[c].contended /\ next.phase = "commit"
        /\ next.req = call[c].req /\ next.body = call[c].body /\ next.force = call[c].force
    BY DEF TypeInv, TypeOK
  <2>2. CallData(call[c], live, rv)
    BY DEF DataInv
  <2>3. CallData(next, live', rv')
    BY <1>1, <2>1, <2>2 DEF CallData, Dated, FreshRetry, BodyIsOverlay
  <2> QED BY <1>1, <1>2, <2>3, DataMove
<1>3. CASE \E out \in Outcome : Finish(c, out)
  BY <1>1, <1>3, FinishData
<1>4. CASE OnConflict(c)
  BY <1>1, <1>4, OnConflictData
<1> QED BY <1>2, <1>3, <1>4 DEF Preview, Outcome

LEMMA CommitData ==
  ASSUME TypeInv, TypeInv', DataInv, NEW c \in Call, Commit(c)
  PROVE DataInv'
<1> DEFINE body == call[c].body
           failed(out) == [call[c] EXCEPT !.phase = "emit", !.out = out]
           persisted(out) == [call[c] EXCEPT !.phase = "emit", !.out = out, !.commits = @ + 1]
<1>1. LiveKeeps
  <2>1. live \in Live /\ rv \in Nat /\ body \in [Field -> Value]
    BY DEF TypeInv, TypeOK, Live
  <2>2. CASE UNCHANGED <<live, rv>>
    BY <2>2, StutterKeeps
  <2>3. CASE Persist(TRUE, [f \in Field |-> Server!AppliedValue(live, RayMcp, body, f)],
                           [f \in Field |-> Server!AppliedOwners(live, RayMcp, body, f)])
    BY <2>1, <2>3, AppliedType, PersistKeeps
  <2> QED BY <2>2, <2>3 DEF Commit
<1>2. PICK next : /\ Becomes(c, next)
                 /\ \E out \in Outcome : next = failed(out) \/ next = persisted(out)
  BY DEF Commit, Outcome
<1>3. /\ next.base = call[c].base /\ next.contended = call[c].contended /\ next.phase = "emit"
      /\ next.force = call[c].force
  BY <1>2 DEF TypeInv, TypeOK
<1>4. CallData(next, live', rv')
  <2>1. CallData(call[c], live, rv) /\ call[c].phase = "commit" /\ call[c] \in CallRecord
    BY DEF Commit, DataInv, TypeInv, TypeOK, CallRecord
  <2>2. CallData(call[c], live', rv')
    BY <1>1, <2>1, DataFrame
  <2> QED BY <1>3, <2>1, <2>2 DEF CallData, Dated, FreshRetry, BodyIsOverlay
<1> QED BY <1>1, <1>2, <1>4, DataMove

LEMMA EmitData ==
  ASSUME TypeInv, TypeInv', DataInv, NEW c \in Call, Emit(c)
  PROVE DataInv'
BY StutterKeeps, OnConflictData, FinishData DEF Emit

LEMMA CrashData ==
  ASSUME TypeInv, TypeInv', DataInv, Crash
  PROVE DataInv'
<1>1. LiveKeeps
  BY StutterKeeps DEF Crash
<1>2. \A d \in Call : call'[d] = [call[d] EXCEPT !.phase = "crashed"] \/ call'[d] = call[d]
  BY DEF Crash
<1>3. \A d \in Call : CallData(call[d], live', rv')
  BY <1>1, DataFrame DEF DataInv, TypeInv, TypeOK, CallRecord
<1>4. \A d \in Call : CallData(call'[d], live', rv')
  <2> SUFFICES ASSUME NEW d \in Call PROVE CallData(call'[d], live', rv')
    OBVIOUS
  <2>1. CASE call'[d] = call[d]
    BY <1>3, <2>1
  <2>2. CASE call'[d] = [call[d] EXCEPT !.phase = "crashed"]
    <3>1. call'[d].base = call[d].base /\ call'[d].contended = call[d].contended /\ call'[d].phase = "crashed"
      BY <2>2 DEF TypeInv, TypeOK
    <3> QED BY <1>3, <3>1 DEF CallData, Dated, FreshRetry, BodyIsOverlay
  <2> QED BY <1>2, <2>1, <2>2
<1> QED BY <1>1, <1>4 DEF DataInv, LiveKeeps

LEMMA EnvironmentData ==
  ASSUME TypeInv, TypeInv', DataInv, Environment
  PROVE DataInv'
<1>1. PICK exists, val, own : Persist(exists, val, own)
  BY DEF Environment, AutoscalerScale, KubectlEdit, KubectlDelete, KubectlCreate, Write
<1>2. UNCHANGED call
  BY DEF Environment, AutoscalerScale, KubectlEdit, KubectlDelete, KubectlCreate, Write
<1> QED BY <1>1, <1>2, PersistKeeps, DataIdle

LEMMA DataInvStep == TypeInv /\ TypeInv' /\ DataInv /\ [Next]_vars => DataInv'
<1> SUFFICES ASSUME TypeInv, TypeInv', DataInv, [Next]_vars PROVE DataInv'
  OBVIOUS
<1>1. CASE Environment
  BY <1>1, EnvironmentData
<1>2. CASE Crash
  BY <1>2, CrashData
<1>3. CASE \E c \in Call : Step(c)
  BY <1>3, BuildData, PreviewData, CommitData, EmitData DEF Step
<1>4. CASE \E c \in Call : \E r \in Request : Begin(c, r)
  BY <1>4, BeginData
<1>5. CASE UNCHANGED vars
  BY <1>5, StutterKeeps, DataIdle DEF vars
<1> QED BY <1>1, <1>2, <1>3, <1>4, <1>5 DEF Next

-----------------------------------------------------------------------------
(* Only the commit of call c counts an apply of call c. *)
LEMMA CommitsInCommit ==
  ASSUME TypeInv, [Next]_vars, NEW c \in Call, Commits(c)
  PROVE /\ ~Clash(c)
        /\ Persist(TRUE, [f \in Field |-> Server!AppliedValue(live, RayMcp, call[c].body, f)],
                         [f \in Field |-> Server!AppliedOwners(live, RayMcp, call[c].body, f)])
<1> USE DEF Commits
<1>1. \A d \in Call : call'[d] = call[d] => ~Commits(d)
  OBVIOUS
<1>2. call \in [Call -> CallRecord] /\ call[c].phase = "commit"
  BY DEF TypeInv, TypeOK, CallRecord
<1>3. CASE UNCHANGED vars
  BY <1>1, <1>3 DEF vars
<1>4. CASE Environment
  BY <1>1, <1>4 DEF Environment, AutoscalerScale, KubectlEdit, KubectlDelete, KubectlCreate, Write
<1>5. CASE Crash
  <2>1. call'[c] = [call[c] EXCEPT !.phase = "crashed"] \/ call'[c] = call[c]
    BY <1>5 DEF Crash
  <2> QED BY <1>2, <2>1 DEF CallRecord
<1>6. ASSUME NEW d \in Call, d # c, \E next : Becomes(d, next) PROVE FALSE
  BY <1>1, <1>2, <1>6 DEF Becomes
<1>7. ASSUME NEW d \in Call, Step(d) \/ \E r \in Request : Begin(d, r) PROVE \E next : Becomes(d, next)
  BY <1>7 DEF Step, Begin, Build, ReadFails, Preview, Commit, Emit, Finish, OnConflict
<1>8. CASE \E d \in Call : Step(d) \/ \E r \in Request : Begin(d, r)
  <2>1. Step(c) \/ \E r \in Request : Begin(c, r)
    BY <1>6, <1>7, <1>8
  <2>2. Commit(c)
    BY <1>2, <2>1 DEF Step, Begin, Build, Preview, Emit
  <2>3. CASE \E out \in Outcome : Becomes(c, [call[c] EXCEPT !.phase = "emit", !.out = out])
    BY <1>2, <2>3 DEF Becomes, CallRecord
  <2> QED BY <2>2, <2>3 DEF Commit, Outcome
<1> QED BY <1>3, <1>4, <1>5, <1>8 DEF Next

LEMMA CommitOverlays ==
  ASSUME TypeInv, DataInv, [Next]_vars, NEW c \in Call, Commits(c),
         NEW f \in TypedField, live.touched[f] <= call[c].base \/ call[c].req.op = "create"
  PROVE Overlaid(c, f)
<1> DEFINE body == call[c].body
<1>1. f \in Field /\ body \in [Field -> Value] /\ live \in Live
  BY TypedAssumption DEF TypeInv, TypeOK, Live
<1>2. body[f] = Intent(call[c].req, f, live.val[f])
  BY DEF DataInv, CallData, BodyIsOverlay, Commits
<1>3. live'.val[f] = Server!AppliedValue(live, RayMcp, body, f)
  <2> DEFINE val == [g \in Field |-> Server!AppliedValue(live, RayMcp, body, g)]
             own == [g \in Field |-> Server!AppliedOwners(live, RayMcp, body, g)]
  <2>1. Persist(TRUE, val, own)
    BY CommitsInCommit
  <2>2. live'.val = val
    BY <2>1, PersistValue
  <2> QED BY <1>1, <2>2
<1> QED BY <1>2, <1>3 DEF Overlaid, Overlays, Server!AppliedValue

LEMMA Invariance == Spec => [](TypeInv /\ DataInv)
BY TypeInvInit, TypeInvStep, DataInvInit, DataInvStep, PTL DEF Spec

(***************************************************************************)
(* Read-modify-apply-full is atomic but for the fields written since the   *)
(* read, whatever the calls and the other writers do.                      *)
(***************************************************************************)
THEOREM UpdateIsAtomicUnlessRaced == Spec => AtomicUnlessRaced
<1>1. TypeInv /\ DataInv /\ [Next]_vars =>
        [\A c \in Call : Commits(c) =>
           \A f \in TypedField : live.touched[f] <= call[c].base => Overlaid(c, f)]_vars
  BY CommitOverlays
<1> QED BY <1>1, Invariance, PTL DEF Spec, AtomicUnlessRaced

(***************************************************************************)
(* The forced retry carries over every write made up to the conflict it    *)
(* retries.                                                                *)
(***************************************************************************)
THEOREM ForcedRetryKeepsTheWinner == Spec => RetryKeepsTheWinner
<1>1. TypeInv /\ DataInv /\ [Next]_vars =>
        [\A c \in Call : Commits(c) /\ call[c].force =>
           \A f \in TypedField : live.touched[f] <= call[c].contended => Overlaid(c, f)]_vars
  <2> SUFFICES ASSUME TypeInv, DataInv, [Next]_vars, NEW c \in Call, Commits(c), call[c].force,
                      NEW f \in TypedField, live.touched[f] <= call[c].contended
               PROVE Overlaid(c, f)
    OBVIOUS
  <2>1. call[c].base >= call[c].contended
    BY DEF Commits, DataInv, CallData, FreshRetry
  <2>2. live.touched[f] <= call[c].base
    BY <2>1, TypedAssumption DEF TypeInv, TypeOK
  <2> QED BY <2>2, CommitOverlays
<1> QED BY <1>1, Invariance, PTL DEF Spec, RetryKeepsTheWinner
-----------------------------------------------------------------------------
(***************************************************************************)
(* A body that is about to be applied would pass its build closure again,  *)
(* has nothing in a field that was not decoded but what the caller put     *)
(* there, and carries the group that a scale names, in a list, within its  *)
(* bounds.  The build closure checked that, on the read the body is built  *)
(* from; nothing touches the body afterwards.                              *)
(***************************************************************************)
PassedBuild(r) ==
  r.phase \in {"preview", "commit"} =>
    /\ ~BuildRefused(r.req, r.body)
    /\ \A f \in Field \ TypedField : r.body[f] = Intent(r.req, f, Absent)
    /\ r.req.op = "scale" =>
         /\ r.req.group \in GroupName
         /\ r.body["groups"] \in GroupList
         /\ ValidateWorkerBounds(r.body["groups"][r.req.group])

PassedInv == \A c \in Call : PassedBuild(call[c])

(* What an overlay does to its own result: nothing. *)
LEMMA StripTwice ==
  ASSUME NEW v \in Value
  PROVE /\ StripWorkersToDelete(StripWorkersToDelete(v)) = StripWorkersToDelete(v)
        /\ v \in GroupList <=> StripWorkersToDelete(v) \in GroupList
        /\ v \notin GroupList => StripWorkersToDelete(v) = v
<1> DEFINE w == StripWorkersToDelete(v)
<1>1. CASE v \in GroupList
  <2>1. w = [g \in GroupName |-> [v[g] EXCEPT !.wtd = FALSE]]
    BY <1>1 DEF StripWorkersToDelete
  <2>2. \A g \in GroupName : v[g] \in WorkerGroup
    BY <1>1 DEF GroupList
  <2>3. \A g \in GroupName : w[g] \in WorkerGroup /\ [w[g] EXCEPT !.wtd = FALSE] = w[g]
    BY <2>1, <2>2 DEF WorkerGroup
  <2>4. w \in GroupList
    BY <2>1, <2>3 DEF GroupList
  <2> HIDE DEF w
  <2>5. StripWorkersToDelete(w) = [g \in GroupName |-> [w[g] EXCEPT !.wtd = FALSE]]
    BY <2>4 DEF StripWorkersToDelete
  <2>6. [g \in GroupName |-> [w[g] EXCEPT !.wtd = FALSE]] = [g \in GroupName |-> w[g]]
    BY <2>3
  <2>7. w = [g \in GroupName |-> w[g]]
    BY <2>4 DEF GroupList
  <2> QED BY <1>1, <2>4, <2>5, <2>6, <2>7 DEF w
<1>2. CASE v \notin GroupList
  BY <1>2 DEF StripWorkersToDelete
<1> QED BY <1>1, <1>2

LEMMA ImageTwice ==
  ASSUME NEW f \in Field, NEW v \in Value, NEW image \in Image \union {Absent}
  PROVE LET w == SetClusterImage(f, StripWorkersToDelete(v), image)
        IN SetClusterImage(f, StripWorkersToDelete(w), image) = w
<1> DEFINE u == StripWorkersToDelete(v)
           w == SetClusterImage(f, u, image)
<1>1. StripWorkersToDelete(u) = u /\ u \in Value
  BY StripTwice, StripType
<1>2. CASE image # Absent /\ f = "groups" /\ u \in GroupList
  <2>1. \A g \in GroupName : u[g] \in WorkerGroup /\ u[g].wtd = FALSE
    <3>1. v \in GroupList
      BY <1>2, StripTwice
    <3>2. \A g \in GroupName : u[g] = [v[g] EXCEPT !.wtd = FALSE] /\ v[g] \in WorkerGroup
      BY <3>1 DEF StripWorkersToDelete, GroupList
    <3> QED BY <3>2 DEF WorkerGroup
  <2> HIDE DEF u
  <2>2. w = [g \in GroupName |-> [u[g] EXCEPT !.img = image]]
    BY <1>2 DEF SetClusterImage
  <2>3. \A g \in GroupName : /\ w[g] \in WorkerGroup /\ [w[g] EXCEPT !.wtd = FALSE] = w[g]
                             /\ [w[g] EXCEPT !.img = image] = w[g]
    <3> SUFFICES ASSUME NEW g \in GroupName
                 PROVE /\ w[g] \in WorkerGroup /\ [w[g] EXCEPT !.wtd = FALSE] = w[g]
                       /\ [w[g] EXCEPT !.img = image] = w[g]
      OBVIOUS
    <3>1. w[g] = [u[g] EXCEPT !.img = image] /\ image \in Image
      BY <1>2, <2>2
    <3>2. w[g] \in WorkerGroup /\ w[g].img = image /\ w[g].wtd = FALSE
      BY <2>1, <3>1 DEF WorkerGroup
    <3> QED BY <3>2 DEF WorkerGroup
  <2>4. w \in GroupList
    BY <2>2, <2>3 DEF GroupList
  <2> HIDE DEF w
  <2>5. [g \in GroupName |-> [w[g] EXCEPT !.wtd = FALSE]] = w
        /\ [g \in GroupName |-> [w[g] EXCEPT !.img = image]] = w
    BY <2>3, <2>4 DEF GroupList
  <2>6. StripWorkersToDelete(w) = w
    BY <2>4, <2>5 DEF StripWorkersToDelete
  <2>7. SetClusterImage(f, w, image) = w
    BY <1>2, <2>4, <2>5 DEF SetClusterImage
  <2> QED BY <2>6, <2>7 DEF w, u
<1>3. CASE image # Absent /\ f = "head" /\ u # Absent
  <2>1. w = image /\ image \notin GroupList
    BY <1>3, ScalarAssumption DEF SetClusterImage
  <2> QED BY <1>3, <2>1 DEF SetClusterImage, StripWorkersToDelete
<1>4. CASE ~(image # Absent /\ f = "groups" /\ u \in GroupList) /\ ~(image # Absent /\ f = "head" /\ u # Absent)
  <2> HIDE DEF u
  <2>1. w = u
    BY <1>4 DEF SetClusterImage
  <2> QED BY <1>1, <2>1 DEF u
<1> QED BY <1>2, <1>3, <1>4

LEMMA ScaledTwice ==
  ASSUME NEW r \in ScaleRequest, NEW wg \in WorkerGroup
  PROVE /\ ScaledGroup(r, wg) \in WorkerGroup /\ ScaledGroup(r, wg).wtd = wg.wtd
        /\ ScaledGroup(r, ScaledGroup(r, wg)) = ScaledGroup(r, wg)
<1>1. {r.rep, r.min, r.max} \subseteq Int \union {Absent}
  BY DEF ScaleRequest
<1>2. \A x \in Int \union {Absent}, n \in Int : Provided(x, n) \in Int
  BY DEF Provided
<1> DEFINE sg == ScaledGroup(r, wg)
<1>3. /\ sg \in WorkerGroup /\ sg.wtd = wg.wtd
      /\ sg.rep = Provided(r.rep, wg.rep) /\ sg.min = Provided(r.min, wg.min)
      /\ sg.max = Provided(r.max, wg.max)
  BY <1>1, <1>2 DEF ScaledGroup, WorkerGroup
<1> HIDE DEF sg
<1>4. Provided(r.rep, sg.rep) = sg.rep /\ Provided(r.min, sg.min) = sg.min /\ Provided(r.max, sg.max) = sg.max
  <2>1. \A x, n : Provided(x, Provided(x, n)) = Provided(x, n)
    BY DEF Provided
  <2> QED BY <1>3, <2>1
<1>5. ScaledGroup(r, sg) = sg
  BY <1>3, <1>4 DEF ScaledGroup, WorkerGroup
<1> QED BY <1>3, <1>5 DEF sg

(* The list that a scale makes of a list. *)
ScaledList(r, list) == [StripWorkersToDelete(list) EXCEPT ![r.group] = ScaledGroup(r, @)]

LEMMA ScaledListTwice ==
  ASSUME NEW r \in ScaleRequest, r.group \in GroupName, NEW list \in GroupList
  PROVE /\ ScaledList(r, list) \in GroupList
        /\ StripWorkersToDelete(ScaledList(r, list)) = ScaledList(r, list)
        /\ ScaledList(r, ScaledList(r, list)) = ScaledList(r, list)
        /\ ScaledList(r, list)[r.group] = ScaledGroup(r, StripWorkersToDelete(list)[r.group])
<1> DEFINE strip == StripWorkersToDelete(list)
           new   == [strip EXCEPT ![r.group] = ScaledGroup(r, strip[r.group])]
<1>1. /\ strip \in GroupList
      /\ \A g \in GroupName : strip[g] \in WorkerGroup /\ strip[g].wtd = FALSE
  <2>1. \A g \in GroupName : list[g] \in WorkerGroup /\ strip[g] = [list[g] EXCEPT !.wtd = FALSE]
    BY DEF StripWorkersToDelete, GroupList
  <2>2. strip \in GroupList
    BY StripTwice DEF Value
  <2> HIDE DEF strip
  <2> QED BY <2>1, <2>2 DEF WorkerGroup
<1> HIDE DEF strip
<1>2. /\ ScaledGroup(r, strip[r.group]) \in WorkerGroup /\ ScaledGroup(r, strip[r.group]).wtd = FALSE
      /\ ScaledGroup(r, ScaledGroup(r, strip[r.group])) = ScaledGroup(r, strip[r.group])
  BY <1>1, ScaledTwice
<1>3. /\ new \in GroupList /\ new[r.group] = ScaledGroup(r, strip[r.group])
      /\ \A g \in GroupName : new[g] \in WorkerGroup /\ new[g].wtd = FALSE
  BY <1>1, <1>2 DEF GroupList
<1> HIDE DEF new
<1>4. StripWorkersToDelete(new) = new
  <2>1. \A g \in GroupName : [new[g] EXCEPT !.wtd = FALSE] = new[g]
    BY <1>3 DEF WorkerGroup
  <2>2. [g \in GroupName |-> [new[g] EXCEPT !.wtd = FALSE]] = new
    BY <1>3, <2>1 DEF GroupList
  <2> QED BY <1>3, <2>2 DEF StripWorkersToDelete
<1>5. [new EXCEPT ![r.group] = ScaledGroup(r, new[r.group])] = new
  BY <1>2, <1>3 DEF GroupList
<1>6. ScaledList(r, list) = new /\ ScaledList(r, new) = new
  BY <1>4, <1>5 DEF ScaledList, new, strip
<1> QED BY <1>3, <1>4, <1>6 DEF strip

(* An overlay of its own result changes nothing, and nothing comes of nothing. *)
LEMMA IntentTwice ==
  ASSUME NEW r \in Request, NEW f \in Field, NEW v \in Value
  PROVE Intent(r, f, Intent(r, f, v)) = Intent(r, f, v)
<1>1. CASE r \in CreateRequest
  BY <1>1 DEF CreateRequest, Intent
<1>2. CASE IsUpdateRequest(r)
  <2>1. r.op = "update" /\ r.image \in Image \union {Absent}
    BY <1>2 DEF IsUpdateRequest
  <2>2. CASE f \in DOMAIN r.set
    BY <2>1, <2>2 DEF Intent
  <2>3. CASE f \notin DOMAIN r.set
    <3>1. \A x : Intent(r, f, x) = SetClusterImage(f, StripWorkersToDelete(x), r.image)
      BY <2>1, <2>3 DEF Intent
    <3> QED BY <2>1, <3>1, ImageTwice
  <2> QED BY <2>2, <2>3
<1>3. CASE r \in ScaleRequest
  <2>1. r.op = "scale"
    BY <1>3 DEF ScaleRequest
  <2>2. CASE f = "groups" /\ v \in GroupList /\ r.group \in GroupName
    <3>1. \A x \in GroupList : Intent(r, f, x) = ScaledList(r, x)
      BY <2>1, <2>2 DEF Intent, ScaledList
    <3> QED BY <1>3, <2>2, <3>1, ScaledListTwice
  <2>3. CASE ~(f = "groups" /\ v \in GroupList /\ r.group \in GroupName)
    <3>1. Intent(r, f, v) = StripWorkersToDelete(v)
      BY <2>1, <2>3 DEF Intent
    <3>2. ~(f = "groups" /\ StripWorkersToDelete(v) \in GroupList /\ r.group \in GroupName)
      BY <2>3, StripTwice
    <3>3. Intent(r, f, StripWorkersToDelete(v)) = StripWorkersToDelete(StripWorkersToDelete(v))
      BY <2>1, <3>2 DEF Intent
    <3> QED BY <3>1, <3>3, StripTwice
  <2> QED BY <2>2, <2>3
<1> QED BY <1>1, <1>2, <1>3, RequestAssumption

LEMMA IntentOfAbsent ==
  ASSUME NEW r \in Request, NEW f \in Field, NEW v \in Value, Intent(r, f, v) = Absent
  PROVE Intent(r, f, Absent) = Absent
<1>1. Absent \notin GroupList /\ StripWorkersToDelete(Absent) = Absent
  BY AbsentAssumption DEF StripWorkersToDelete
<1>2. CASE r.op = "create" \/ (r.op = "update" /\ f \in DOMAIN r.set)
  BY <1>2 DEF Intent
<1>3. CASE r.op = "update" /\ f \notin DOMAIN r.set
  BY <1>1, <1>3 DEF Intent, SetClusterImage
<1>4. CASE r.op = "scale"
  BY <1>1, <1>4 DEF Intent
<1>5. r.op \in {"create", "update", "scale"}
  BY RequestAssumption DEF CreateRequest, IsUpdateRequest, ScaleRequest
<1> QED BY <1>2, <1>3, <1>4, <1>5

(* The body of a scale is within its bounds, and would be scaled again to itself. *)
LEMMA ScaleKeepsBounds ==
  ASSUME NEW r \in Request, r.op = "scale", NEW val \in [Field -> Value], ~ScaleRefused(r, val)
  PROVE LET body == Body(r, val)
        IN /\ ~ScaleRefused(r, body)
           /\ r.group \in GroupName
           /\ body["groups"] \in GroupList
           /\ ValidateWorkerBounds(body["groups"][r.group])
<1> DEFINE list  == val["groups"]
           strip == StripWorkersToDelete(list)
           new   == ScaledList(r, list)
<1>1. /\ r.group \in GroupName /\ list \in GroupList
      /\ ValidateWorkerBounds(ScaledGroup(r, list[r.group]))
      /\ ~(r.rep # Absent /\ val["auto"] = On) /\ ~(r.rep = 0 /\ ~AllowDestructive)
  BY DEF ScaleRefused, SpecIsAutoscaling
<1>2. r \in ScaleRequest
  BY RequestAssumption DEF CreateRequest, IsUpdateRequest
<1>3. list[r.group] \in WorkerGroup /\ strip[r.group] = [list[r.group] EXCEPT !.wtd = FALSE]
  BY <1>1 DEF GroupList, StripWorkersToDelete
<1>4. /\ Body(r, val)["groups"] = new
      /\ Body(r, val)["auto"] = StripWorkersToDelete(val["auto"])
  BY <1>1 DEF Body, Intent, Field, ScaledList
<1>5. new \in GroupList /\ new[r.group] = ScaledGroup(r, strip[r.group])
  BY <1>1, <1>2, ScaledListTwice
<1>6. strip[r.group] \in WorkerGroup
  BY <1>3 DEF WorkerGroup
<1>7. ScaledGroup(r, new[r.group]) = new[r.group]
  BY <1>2, <1>5, <1>6, ScaledTwice
<1>8. ValidateWorkerBounds(new[r.group])
  <2>1. /\ new[r.group].min = ScaledGroup(r, list[r.group]).min
        /\ new[r.group].max = ScaledGroup(r, list[r.group]).max
        /\ new[r.group].rep = ScaledGroup(r, list[r.group]).rep
    BY <1>3, <1>5 DEF ScaledGroup, WorkerGroup
  <2> HIDE DEF new
  <2> QED BY <1>1, <2>1 DEF ValidateWorkerBounds
<1> HIDE DEF new, list, strip
<1>9. Body(r, val)["auto"] = On => val["auto"] = On
  <2>1. val["auto"] \in Value
    BY DEF Field
  <2>2. On \notin GroupList
    BY ScalarAssumption
  <2>3. CASE val["auto"] \in GroupList
    <3>1. StripWorkersToDelete(val["auto"]) \in GroupList
      BY <2>1, <2>3, StripTwice
    <3> QED BY <1>4, <2>2, <3>1
  <2>4. CASE val["auto"] \notin GroupList
    BY <1>4, <2>1, <2>4, StripTwice
  <2> QED BY <2>3, <2>4
<1>10. ~ScaleRefused(r, Body(r, val))
  BY <1>1, <1>4, <1>5, <1>7, <1>8, <1>9 DEF ScaleRefused, SpecIsAutoscaling
<1> QED BY <1>1, <1>4, <1>5, <1>8, <1>10

(* A step that changes one call, and leaves it nothing new to apply, keeps that. *)
LEMMA PassedMove ==
  ASSUME TypeInv, PassedInv, NEW c \in Call, NEW next, Becomes(c, next), PassedBuild(next)
  PROVE PassedInv'
<1> SUFFICES ASSUME NEW d \in Call PROVE PassedBuild(call'[d])
  BY DEF PassedInv
<1>1. call'[d] = IF d = c THEN next ELSE call[d]
  BY DEF Becomes, TypeInv, TypeOK
<1> QED BY <1>1 DEF PassedInv

LEMMA PassedOutside ==
  ASSUME TypeInv, PassedInv, NEW c \in Call, NEW next, Becomes(c, next),
         next.phase \notin {"preview", "commit"}
  PROVE PassedInv'
BY PassedMove DEF PassedBuild

LEMMA FinishPassed ==
  ASSUME TypeInv, PassedInv, NEW c \in Call, NEW out, Finish(c, out) PROVE PassedInv'
<1>1. [call[c] EXCEPT !.phase = "done", !.out = out].phase = "done"
  BY DEF TypeInv, TypeOK
<1> QED BY <1>1, PassedOutside DEF Finish

LEMMA OnConflictPassed ==
  ASSUME TypeInv, PassedInv, NEW c \in Call, OnConflict(c) PROVE PassedInv'
<1> DEFINE retry == [call[c] EXCEPT !.phase = "read", !.force = TRUE, !.out = "none", !.contended = rv]
<1>1. retry.phase = "read"
  BY DEF TypeInv, TypeOK
<1>2. CASE Becomes(c, retry)
  BY <1>1, <1>2, PassedOutside
<1>3. CASE Finish(c, "conflict")
  BY <1>3, FinishPassed
<1> QED BY <1>2, <1>3 DEF OnConflict

LEMMA BeginPassed ==
  ASSUME TypeInv, PassedInv, NEW c \in Call, NEW r \in Request, Begin(c, r) PROVE PassedInv'
<1> DEFINE refused == [call[c] EXCEPT !.phase = "done", !.req = r, !.out = "refused"]
           apply   == [call[c] EXCEPT !.phase = "preview", !.req = r, !.body = r.set, !.base = rv]
           read    == [call[c] EXCEPT !.phase = "read", !.req = r]
<1>1. refused.phase = "done" /\ read.phase = "read" /\ apply.req = r
  BY DEF TypeInv, TypeOK
<1>2. CASE Becomes(c, refused)
  BY <1>1, <1>2, PassedOutside
<1>3. CASE ~RefusedUnread(r) /\ r.op = "create" /\ Becomes(c, apply)
  <2>1. apply.req = r /\ apply.body = r.set
    BY DEF TypeInv, TypeOK
  <2>2. ~BuildRefused(r, r.set)
    BY <1>3 DEF BuildRefused, RefusedUnread
  <2>3. PassedBuild(apply)
    BY <1>3, <2>1, <2>2 DEF PassedBuild, Intent
  <2> QED BY <1>3, <2>3, PassedMove
<1>4. CASE Becomes(c, read)
  BY <1>1, <1>4, PassedOutside
<1> QED BY <1>2, <1>3, <1>4 DEF Begin

LEMMA BuildPassed ==
  ASSUME TypeInv, PassedInv, NEW c \in Call, Build(c) PROVE PassedInv'
<1> DEFINE r    == call[c].req
           read == Decoded(live.val)
           next == [call[c] EXCEPT !.phase = "preview", !.base = rv, !.body = Body(r, read)]
<1>1. CASE ~BuildRefused(r, read) /\ Becomes(c, next)
  <2>1. r \in Request
    BY DEF Build, TypeInv, Begun
  <2>2. read \in [Field -> Value]
    BY DEF Decoded, TypeInv, TypeOK, Value
  <2>3. next.req = r /\ next.body = Body(r, read)
    BY DEF TypeInv, TypeOK
  <2>6. \A f \in Field \ TypedField : Body(r, read)[f] = Intent(r, f, Absent)
    BY DEF Body, Decoded
  <2>4. CASE r.op = "scale"
    <3>1. ~ScaleRefused(r, read)
      BY <1>1, <2>4 DEF BuildRefused
    <3> HIDE DEF read
    <3>2. PassedBuild(next)
      BY <2>1, <2>2, <2>3, <2>4, <2>6, <3>1, ScaleKeepsBounds DEF PassedBuild, BuildRefused
    <3> QED BY <1>1, <3>2, PassedMove
  <2>5. CASE r.op # "scale"
    <3>1. PassedBuild(next)
      BY <1>1, <2>3, <2>5, <2>6 DEF PassedBuild, BuildRefused
    <3> QED BY <1>1, <3>1, PassedMove
  <2> QED BY <2>4, <2>5
<1>2. CASE \E out \in Outcome : Finish(c, out)
  BY <1>2, FinishPassed
<1> QED BY <1>1, <1>2 DEF Build, ReadFails, Outcome

LEMMA PreviewPassed ==
  ASSUME TypeInv, PassedInv, NEW c \in Call, Preview(c) PROVE PassedInv'
<1> DEFINE next == [call[c] EXCEPT !.phase = "commit"]
<1>1. CASE Becomes(c, next)
  <2>1. next.req = call[c].req /\ next.body = call[c].body /\ call[c].phase = "preview"
    BY DEF TypeInv, TypeOK, Preview
  <2>2. PassedBuild(next)
    BY <2>1 DEF PassedInv, PassedBuild
  <2> QED BY <1>1, <2>2, PassedMove
<1>2. CASE \E out \in Outcome : Finish(c, out)
  BY <1>2, FinishPassed
<1>3. CASE OnConflict(c)
  BY <1>3, OnConflictPassed
<1> QED BY <1>1, <1>2, <1>3 DEF Preview, Outcome

LEMMA CommitPassed ==
  ASSUME TypeInv, PassedInv, NEW c \in Call, Commit(c) PROVE PassedInv'
<1>1. \A out \in Outcome :
        /\ [call[c] EXCEPT !.phase = "emit", !.out = out, !.commits = @ + 1].phase = "emit"
        /\ [call[c] EXCEPT !.phase = "emit", !.out = out].phase = "emit"
  BY DEF TypeInv, TypeOK
<1>2. \E next : Becomes(c, next) /\ next.phase = "emit"
  BY <1>1 DEF Commit, Outcome
<1> QED BY <1>2, PassedOutside

LEMMA EmitPassed ==
  ASSUME TypeInv, PassedInv, NEW c \in Call, Emit(c) PROVE PassedInv'
BY FinishPassed, OnConflictPassed DEF Emit

LEMMA CrashPassed == ASSUME TypeInv, PassedInv, Crash PROVE PassedInv'
<1> SUFFICES ASSUME NEW d \in Call PROVE PassedBuild(call'[d])
  BY DEF PassedInv
<1>1. call'[d] = IF InFlight(d) THEN [call[d] EXCEPT !.phase = "crashed"] ELSE call[d]
  BY DEF Crash
<1>2. [call[d] EXCEPT !.phase = "crashed"].phase = "crashed"
  BY DEF TypeInv, TypeOK
<1> QED BY <1>1, <1>2 DEF PassedInv, PassedBuild

LEMMA PassedInvInit == Init => PassedInv
BY DEF Init, NoCall, PassedInv, PassedBuild

LEMMA PassedInvStep == TypeInv /\ PassedInv /\ [Next]_vars => PassedInv'
<1> SUFFICES ASSUME TypeInv, PassedInv, [Next]_vars PROVE PassedInv'
  OBVIOUS
<1>1. CASE Environment
  BY <1>1 DEF Environment, AutoscalerScale, KubectlEdit, KubectlDelete, KubectlCreate, Write, PassedInv
<1>2. CASE Crash
  BY <1>2, CrashPassed
<1>3. CASE \E c \in Call : Step(c)
  BY <1>3, BuildPassed, PreviewPassed, CommitPassed, EmitPassed DEF Step
<1>4. CASE \E c \in Call : \E r \in Request : Begin(c, r)
  BY <1>4, BeginPassed
<1>5. CASE UNCHANGED vars
  BY <1>5 DEF vars, PassedInv
<1> QED BY <1>1, <1>2, <1>3, <1>4, <1>5 DEF Next

(***************************************************************************)
(* Whatever the live bounds were and became, a scale that commits leaves   *)
(* its group with 0 <= min <= max and replicas <= max, on its retry too.   *)
(***************************************************************************)
THEOREM ScalesAreBounded == Spec => ScaleCommitsValidBounds
<1>1. TypeInv /\ PassedInv /\ [Next]_vars =>
        [\A c \in Call : Commits(c) /\ call[c].req.op = "scale" =>
           LET wg == live'.val["groups"][call[c].req.group]
           IN 0 <= wg.min /\ wg.min <= wg.max /\ wg.rep <= wg.max]_vars
  <2> SUFFICES ASSUME TypeInv, PassedInv, [Next]_vars, NEW c \in Call, Commits(c),
                      call[c].req.op = "scale"
               PROVE LET wg == live'.val["groups"][call[c].req.group]
                     IN 0 <= wg.min /\ wg.min <= wg.max /\ wg.rep <= wg.max
    OBVIOUS
  <2> DEFINE body == call[c].body
  <2>1. /\ body["groups"] \in GroupList /\ call[c].req.group \in GroupName
        /\ ValidateWorkerBounds(body["groups"][call[c].req.group])
    BY DEF PassedInv, PassedBuild, Commits
  <2>2. body["groups"] # Absent
    BY <2>1, AbsentAssumption
  <2>3. live'.val["groups"] = body["groups"]
    <3> DEFINE val == [f \in Field |-> Server!AppliedValue(live, RayMcp, body, f)]
               own == [f \in Field |-> Server!AppliedOwners(live, RayMcp, body, f)]
    <3>1. Persist(TRUE, val, own)
      BY CommitsInCommit
    <3>2. live'.val = val
      BY <3>1, PersistValue
    <3>3. val["groups"] = body["groups"]
      BY <2>2 DEF Server!AppliedValue, Field
    <3> QED BY <3>2, <3>3
  <2>4. body["groups"][call[c].req.group] \in WorkerGroup
    BY <2>1 DEF GroupList
  <2> QED BY <2>1, <2>3, <2>4 DEF ValidateWorkerBounds, WorkerGroup
<1>2. Spec => [](TypeInv /\ PassedInv)
  BY TypeInvInit, TypeInvStep, PassedInvInit, PassedInvStep, PTL DEF Spec
<1> QED BY <1>1, <1>2, PTL DEF Spec, ScaleCommitsValidBounds
-----------------------------------------------------------------------------
(* What the commit of c makes of a field, and who owns it then. *)
LEMMA CommitLeaves ==
  ASSUME TypeInv, [Next]_vars, NEW c \in Call, Commits(c), NEW f \in Field
  PROVE /\ live'.val[f] = Server!AppliedValue(live, RayMcp, call[c].body, f)
        /\ live'.own[f] = Server!AppliedOwners(live, RayMcp, call[c].body, f)
<1> DEFINE val == [g \in Field |-> Server!AppliedValue(live, RayMcp, call[c].body, g)]
           own == [g \in Field |-> Server!AppliedOwners(live, RayMcp, call[c].body, g)]
<1>1. Persist(TRUE, val, own)
  BY CommitsInCommit
<1>2. live'.val = val /\ live'.own = own
  BY <1>1, PersistValue, PersistOwners
<1> QED BY <1>2

(* A call that lost no race would send the same body again. *)
LEMMA SameBody ==
  ASSUME TypeInv, TypeInv', DataInv, PassedInv, [Next]_vars, NEW c \in Call, Commits(c), NEW f \in Field,
         call[c].req.op = "create" \/ \A g \in TypedField : live.touched[g] <= call[c].base
  PROVE Body(call[c].req, Decoded(live'.val))[f] = call[c].body[f]
<1> DEFINE r    == call[c].req
           body == call[c].body
<1>1. /\ r \in Request /\ call[c].phase = "commit" /\ body \in [Field -> Value]
      /\ live.val[f] \in Value /\ live'.val[f] \in Value
  BY DEF TypeInv, Begun, TypeOK, Commits
<1>2. Body(r, Decoded(live'.val))[f] = Intent(r, f, IF f \in TypedField THEN live'.val[f] ELSE Absent)
  BY DEF Body, Decoded
<1>3. CASE f \notin TypedField
  <2>1. body[f] = Intent(r, f, Absent)
    BY <1>1, <1>3 DEF PassedInv, PassedBuild
  <2> QED BY <1>2, <1>3, <2>1
<1>4. CASE f \in TypedField
  <2>1. body[f] = Intent(r, f, live.val[f])
    BY <1>1, <1>4 DEF DataInv, CallData, BodyIsOverlay
  <2>2. Body(r, Decoded(live'.val))[f] = Intent(r, f, live'.val[f])
    BY <1>2, <1>4
  <2>3. CASE body[f] # Absent
    <3>1. live'.val[f] = body[f]
      BY <2>3, CommitLeaves DEF Server!AppliedValue
    <3> QED BY <1>1, <2>1, <2>2, <3>1, IntentTwice
  <2>4. CASE body[f] = Absent
    <3>1. live'.val[f] \in {Absent, live.val[f]}
      BY <2>4, CommitLeaves DEF Server!AppliedValue
    <3>2. Intent(r, f, Absent) = Absent
      BY <1>1, <2>1, <2>4, IntentOfAbsent
    <3> QED BY <2>1, <2>2, <2>4, <3>1, <3>2
  <2> QED BY <2>3, <2>4
<1> QED BY <1>3, <1>4

(* Nor would its build closure refuse. *)
LEMMA NotRefusedAgain ==
  ASSUME TypeInv, TypeInv', DataInv, PassedInv, [Next]_vars, NEW c \in Call, Commits(c),
         call[c].req.op = "create" \/ \A g \in TypedField : live.touched[g] <= call[c].base
  PROVE ~BuildRefused(call[c].req, Decoded(live'.val))
<1> DEFINE r    == call[c].req
           body == call[c].body
           read == Decoded(live'.val)
<1>1. r \in Request /\ call[c].phase = "commit" /\ ~BuildRefused(r, body)
  BY DEF TypeInv, Begun, Commits, PassedInv, PassedBuild
<1>2. CASE r.op # "scale"
  BY <1>1, <1>2 DEF BuildRefused
<1>3. CASE r.op = "scale"
  <2>1. ~ScaleRefused(r, body) /\ r.group \in GroupName /\ body["groups"] \in GroupList
    BY <1>1, <1>3 DEF BuildRefused, PassedInv, PassedBuild
  <2>2. body["groups"] # Absent /\ Absent \notin GroupList /\ On \notin GroupList /\ On # Absent
    BY <2>1, AbsentAssumption, ScalarAssumption
  <2>3. "groups" \in Field /\ "auto" \in Field
    BY DEF Field
  <2>4. read["groups"] = body["groups"]
    <3>1. "groups" \in TypedField
      <4>1. ASSUME "groups" \notin TypedField PROVE FALSE
        <5>1. body["groups"] = Intent(r, "groups", Absent)
          BY <1>1, <2>3, <4>1 DEF PassedInv, PassedBuild
        <5>2. Intent(r, "groups", Absent) = Absent
          BY <1>3, <2>2 DEF Intent, StripWorkersToDelete
        <5> QED BY <2>2, <5>1, <5>2
      <4> QED BY <4>1
    <3>2. live'.val["groups"] = body["groups"]
      BY <2>2, <2>3, CommitLeaves DEF Server!AppliedValue
    <3> QED BY <2>3, <3>1, <3>2 DEF Decoded
  <2>5. read["auto"] = On => body["auto"] = On
    <3>1. Body(r, read)["auto"] = Intent(r, "auto", read["auto"])
      BY <2>3 DEF Body
    <3>2. Intent(r, "auto", On) = On
      BY <1>3, <2>2 DEF Intent, StripWorkersToDelete
    <3>3. Body(r, read)["auto"] = body["auto"]
      BY <2>3, SameBody
    <3> QED BY <3>1, <3>2, <3>3
  <2> HIDE DEF read, body
  <2>6. ~ScaleRefused(r, read)
    BY <2>1, <2>4, <2>5 DEF ScaleRefused, SpecIsAutoscaling
  <2> QED BY <1>3, <2>6 DEF BuildRefused, read
<1> QED BY <1>2, <1>3

(***************************************************************************)
(* A create, an update or a scale may be repeated when its answer was      *)
(* lost: unless it lost a race, the same request is accepted again and     *)
(* leaves every value and every owner as they are.                         *)
(***************************************************************************)
THEOREM RepeatsAreHarmless == Spec => RepeatIsHarmless
<1>1. TypeInv /\ TypeInv' /\ DataInv /\ PassedInv /\ [Next]_vars =>
        [\A c \in Call : Commits(c) =>
           \/ ChangesNothing(call[c].req, live')
           \/ call[c].req.op # "create" /\ \E f \in TypedField : live.touched[f] > call[c].base]_vars
  <2> SUFFICES ASSUME TypeInv, TypeInv', DataInv, PassedInv, [Next]_vars, NEW c \in Call, Commits(c),
                      ~(call[c].req.op # "create" /\ \E f \in TypedField : live.touched[f] > call[c].base)
               PROVE ChangesNothing(call[c].req, live')
    OBVIOUS
  <2> DEFINE r    == call[c].req
             body == call[c].body
             again == Body(r, Decoded(live'.val))
  <2>1. r.op = "create" \/ \A g \in TypedField : live.touched[g] <= call[c].base
    BY TypedAssumption DEF TypeInv, TypeOK
  <2>2. ~BuildRefused(r, Decoded(live'.val))
    BY <2>1, NotRefusedAgain
  <2>3. \A f \in Field : again[f] = body[f]
    BY <2>1, SameBody
  <2> HIDE DEF again
  <2>4. ASSUME NEW f \in Field
        PROVE /\ again[f] # Absent => again[f] = live'.val[f]
              /\ Server!AppliedValue(live', RayMcp, again, f) = live'.val[f]
              /\ Server!AppliedOwners(live', RayMcp, again, f) = live'.own[f]
    <3>1. CASE body[f] # Absent
      <4>1. live'.val[f] = body[f] /\ RayMcp \in live'.own[f]
        BY <3>1, CommitLeaves DEF Server!AppliedValue, Server!AppliedOwners
      <4> QED BY <2>3, <3>1, <4>1 DEF Server!AppliedValue, Server!AppliedOwners
    <3>2. CASE body[f] = Absent
      <4>1. live'.own[f] = live.own[f] \ {RayMcp}
        BY <3>2, CommitLeaves DEF Server!AppliedOwners
      <4> QED BY <2>3, <3>2, <4>1 DEF Server!AppliedValue, Server!AppliedOwners
    <3> QED BY <3>1, <3>2
  <2>5. Server!Conflicts(live', RayMcp, again) = {}
    BY <2>4 DEF Server!Conflicts
  <2> QED BY <2>2, <2>4, <2>5 DEF ChangesNothing, again
<1>2. Spec => []PassedInv
  BY TypeInvInit, TypeInvStep, PassedInvInit, PassedInvStep, PTL DEF Spec
<1> QED BY <1>1, <1>2, Invariance, PTL DEF Spec, RepeatIsHarmless
-----------------------------------------------------------------------------
(***************************************************************************)
(* The accounting of the write path: how often a call persists, what its   *)
(* audit records say, and what it answers.                                 *)
(***************************************************************************)
AuditRecord == [dry : BOOLEAN, ok : BOOLEAN]

(* How a call stands with its commits, by phase. *)
Accounted(r) ==
  /\ r.phase \in {"idle", "read", "preview", "commit"} => r.commits = 0
  /\ r.phase = "read" => r.req.op # "create"
  /\ r.phase \in {"commit", "emit"} => r.req.dry = FALSE
  /\ r.phase = "emit" => /\ r.out \in {"ok", "conflict", "error"}
                         /\ r.out = "ok" => r.commits = 1
                         /\ r.out = "conflict" => r.commits = 0 /\ ~r.force
  /\ r.commits <= 1
  /\ r.phase # "idle" /\ r.req.dry = TRUE => r.commits = 0
  /\ r.phase = "done" /\ r.out = "ok" /\ r.req.dry = FALSE => r.commits = 1
  /\ r.phase = "done" /\ r.out = "conflict" => r.req.op = "create" \/ r.req.dry = TRUE

(* The records a, oldest first, that a call in state r has written. *)
Recorded(r, a) ==
  /\ r.phase = "idle" => ~r.force
  /\ r.phase \in {"idle", "read", "preview", "commit", "emit"} =>
       Len(a) = IF r.force THEN 1 ELSE 0
  /\ r.phase # "done" \/ r.out # "ok" => \A i \in 1 .. Len(a) : a[i].ok = FALSE
  /\ r.phase = "done" /\ r.out = "ok" =>
       /\ Len(a) > 0
       /\ a[Len(a)] = [dry |-> r.req.dry, ok |-> TRUE]
       /\ \A i \in 1 .. Len(a) - 1 : a[i].ok = FALSE
  /\ r.phase = "done" /\ r.commits > 0 => Len(a) > 0 /\ a[Len(a)].dry = FALSE

AuditInv == \A c \in Call : Accounted(call[c]) /\ Recorded(call[c], audit[c])

LEMMA DryType == ASSUME NEW r \in Request PROVE r.dry \in BOOLEAN
BY RequestAssumption DEF CreateRequest, ScaleRequest, IsUpdateRequest

LEMMA AuditInvInit == Init => AuditInv
<1> SUFFICES ASSUME Init, NEW c \in Call PROVE Accounted(NoCall) /\ Recorded(NoCall, <<>>)
  BY DEF Init, AuditInv
<1>1. NoCall.phase = "idle" /\ NoCall.commits = 0 /\ NoCall.force = FALSE
  BY DEF NoCall
<1>2. Len(<<>>) = 0
  OBVIOUS
<1> QED BY <1>1, <1>2 DEF Accounted, Recorded

LEMMA AuditMove ==
  ASSUME TypeInv, AuditInv, NEW c \in Call, NEW next, Becomes(c, next),
         \A d \in Call : d # c => audit'[d] = audit[d],
         Accounted(next), Recorded(next, audit'[c])
  PROVE AuditInv'
<1> SUFFICES ASSUME NEW d \in Call PROVE Accounted(call'[d]) /\ Recorded(call'[d], audit'[d])
  BY DEF AuditInv
<1>1. call'[d] = IF d = c THEN next ELSE call[d]
  BY DEF Becomes, TypeInv, TypeOK
<1> QED BY <1>1 DEF AuditInv

(* What Record does, element by element. *)
LEMMA Recording ==
  ASSUME TypeInv, NEW c \in Call, NEW dry \in BOOLEAN, NEW ok \in BOOLEAN, Record(c, dry, ok)
  PROVE /\ \A d \in Call : d # c => audit'[d] = audit[d]
        /\ audit'[c] = Append(audit[c], [dry |-> dry, ok |-> ok])
        /\ Len(audit'[c]) = Len(audit[c]) + 1
        /\ audit'[c][Len(audit[c]) + 1] = [dry |-> dry, ok |-> ok]
        /\ \A i \in 1 .. Len(audit[c]) : audit'[c][i] = audit[c][i]
        /\ Len(audit[c]) \in Nat
<1>1. audit[c] \in Seq(AuditRecord) /\ [dry |-> dry, ok |-> ok] \in AuditRecord
  BY DEF TypeInv, TypeOK, AuditRecord
<1>2. audit'[c] = Append(audit[c], [dry |-> dry, ok |-> ok]) /\ \A d \in Call : d # c => audit'[d] = audit[d]
  BY DEF Record, TypeInv, TypeOK
<1> QED BY <1>1, <1>2

LEMMA BeginAudit ==
  ASSUME TypeInv, AuditInv, NEW c \in Call, NEW r \in Request, Begin(c, r) PROVE AuditInv'
<1>1. PICK next : Becomes(c, next) /\ (\/ next = [call[c] EXCEPT !.phase = "done", !.req = r, !.out = "refused"]
                                       \/ next = [call[c] EXCEPT !.phase = "preview", !.req = r, !.body = r.set, !.base = rv]
                                       \/ /\ r.op # "create"
                                          /\ next = [call[c] EXCEPT !.phase = "read", !.req = r])
  BY DEF Begin
<1>2. call[c].phase = "idle" /\ call[c].commits = 0 /\ ~call[c].force /\ Len(audit[c]) = 0 /\ audit' = audit
  BY DEF Begin, AuditInv, Accounted, Recorded
<1>3. /\ next.phase \in {"read", "preview"} \/ (next.phase = "done" /\ next.out = "refused")
      /\ next.phase = "read" => next.req.op # "create"
      /\ next.commits = call[c].commits /\ next.force = call[c].force
  BY <1>1 DEF TypeInv, TypeOK
<1>4. Accounted(next) /\ Recorded(next, audit'[c])
  BY <1>2, <1>3 DEF Accounted, Recorded
<1> QED BY <1>1, <1>2, <1>4, AuditMove

LEMMA OpType ==
  ASSUME NEW r \in Request PROVE r.op \in {"create", "update", "scale"}
BY RequestAssumption DEF CreateRequest, ScaleRequest, IsUpdateRequest

LEMMA BuildAudit ==
  ASSUME TypeInv, AuditInv, NEW c \in Call, Build(c) PROVE AuditInv'
<1>1. call[c].phase = "read" /\ UNCHANGED audit
  BY DEF Build
<1>2. PICK next : /\ Becomes(c, next)
                  /\ \/ \E body : next = [call[c] EXCEPT !.phase = "preview", !.base = rv, !.body = body]
                     \/ \E out \in {"refused", "notFound", "error"} :
                          next = [call[c] EXCEPT !.phase = "done", !.out = out]
  BY DEF Build, ReadFails, Finish
<1>3. /\ next.phase = "preview" \/ (next.phase = "done" /\ next.out \in {"refused", "notFound", "error"})
      /\ next.commits = call[c].commits /\ next.force = call[c].force /\ next.req = call[c].req
  BY <1>2 DEF TypeInv, TypeOK
<1>4. Accounted(call[c]) /\ Recorded(call[c], audit[c])
  BY DEF AuditInv
<1>5. Accounted(next) /\ Recorded(next, audit'[c])
  BY <1>1, <1>3, <1>4 DEF Accounted, Recorded
<1> QED BY <1>1, <1>2, <1>5, AuditMove

(* A conflict is recorded as a failure; what follows is the retry or the answer. *)
LEMMA ConflictAudit ==
  ASSUME TypeInv, AuditInv, NEW c \in Call, NEW dry \in BOOLEAN, Record(c, dry, FALSE), OnConflict(c),
         call[c].phase \in {"preview", "emit"}, call[c].commits = 0, ~call[c].force
  PROVE AuditInv'
<1>1. PICK next : /\ Becomes(c, next)
                  /\ \/ /\ call[c].req.op \in {"update", "scale"}
                        /\ next = [call[c] EXCEPT !.phase = "read", !.force = TRUE, !.out = "none", !.contended = rv]
                     \/ /\ ~(call[c].req.op \in {"update", "scale"} /\ ~call[c].req.dry)
                        /\ next = [call[c] EXCEPT !.phase = "done", !.out = "conflict"]
  BY DEF OnConflict, Finish
<1>2. /\ next.commits = 0 /\ next.req = call[c].req
      /\ \/ next.phase = "read" /\ next.force = TRUE /\ call[c].req.op \in {"update", "scale"}
         \/ next.phase = "done" /\ next.out = "conflict" /\ next.force = FALSE
  BY <1>1 DEF TypeInv, TypeOK
<1>3. call[c].req \in Request
  BY DEF TypeInv, Begun
<1>4. Recorded(call[c], audit[c])
  BY DEF AuditInv
<1>5. next.phase = "done" => next.req.op = "create" \/ next.req.dry = TRUE
  BY <1>1, <1>2, <1>3, OpType, DryType DEF TypeInv, TypeOK
<1>6. Accounted(next)
  BY <1>2, <1>5 DEF Accounted
<1>7. Len(audit[c]) = 0 /\ Len(audit'[c]) = 1 /\ audit'[c][1].ok = FALSE
  <2>1. Len(audit[c]) = 0
    BY <1>4 DEF Recorded
  <2>2. /\ Len(audit'[c]) = Len(audit[c]) + 1
        /\ audit'[c][Len(audit[c]) + 1] = [dry |-> dry, ok |-> FALSE]
    BY Recording
  <2> QED BY <2>1, <2>2
<1>8. Recorded(next, audit'[c])
  BY <1>2, <1>7 DEF Recorded
<1> QED BY <1>1, <1>6, <1>8, AuditMove, Recording

(* The record of a failure that the call answers with. *)
LEMMA FailureAudit ==
  ASSUME TypeInv, AuditInv, NEW c \in Call, NEW dry \in BOOLEAN, Record(c, dry, FALSE), Finish(c, "error"),
         call[c].phase \in {"preview", "emit"}, call[c].commits > 0 => dry = FALSE
  PROVE AuditInv'
<1> DEFINE next == [call[c] EXCEPT !.phase = "done", !.out = "error"]
           n    == Len(audit[c])
<1>1. /\ next.phase = "done" /\ next.out = "error" /\ next.commits = call[c].commits
      /\ next.req = call[c].req
  BY DEF TypeInv, TypeOK
<1>2. Accounted(call[c]) /\ Recorded(call[c], audit[c])
  BY DEF AuditInv
<1>3. Accounted(next)
  BY <1>1, <1>2 DEF Accounted
<1>4. /\ n \in Nat /\ Len(audit'[c]) = n + 1
      /\ audit'[c][n + 1] = [dry |-> dry, ok |-> FALSE]
      /\ \A i \in 1 .. n : audit'[c][i] = audit[c][i]
  BY Recording
<1>5. \A i \in 1 .. Len(audit'[c]) : audit'[c][i].ok = FALSE
  <2>1. \A i \in 1 .. n : audit[c][i].ok = FALSE
    BY <1>2 DEF Recorded
  <2> QED BY <1>4, <2>1
<1>6. next.commits > 0 => audit'[c][Len(audit'[c])].dry = FALSE
  BY <1>1, <1>4
<1>7. Recorded(next, audit'[c])
  BY <1>1, <1>4, <1>5, <1>6 DEF Recorded
<1>8. Becomes(c, next)
  BY DEF Finish
<1> QED BY <1>3, <1>4, <1>7, <1>8, AuditMove, Recording

(* The record of a success: of a dry run, or of an apply that was persisted. *)
LEMMA SuccessAudit ==
  ASSUME TypeInv, AuditInv, NEW c \in Call, NEW dry \in BOOLEAN, Record(c, dry, TRUE), Finish(c, "ok"),
         call[c].phase \in {"preview", "emit"}, call[c].req.dry = dry,
         call[c].commits = IF dry THEN 0 ELSE 1
  PROVE AuditInv'
<1> DEFINE next == [call[c] EXCEPT !.phase = "done", !.out = "ok"]
           n    == Len(audit[c])
<1>1. /\ next.phase = "done" /\ next.out = "ok" /\ next.commits = call[c].commits
      /\ next.req = call[c].req
  BY DEF TypeInv, TypeOK
<1>2. Accounted(call[c]) /\ Recorded(call[c], audit[c])
  BY DEF AuditInv
<1>3. Accounted(next)
  BY <1>1, <1>2 DEF Accounted
<1>4. /\ n \in Nat /\ Len(audit'[c]) = n + 1
      /\ audit'[c][n + 1] = [dry |-> dry, ok |-> TRUE]
      /\ \A i \in 1 .. n : audit'[c][i] = audit[c][i]
  BY Recording
<1>5. \A i \in 1 .. Len(audit'[c]) - 1 : audit'[c][i].ok = FALSE
  <2>1. \A i \in 1 .. n : audit[c][i].ok = FALSE
    BY <1>2 DEF Recorded
  <2> QED BY <1>4, <2>1
<1>6. audit'[c][Len(audit'[c])] = [dry |-> next.req.dry, ok |-> TRUE]
  BY <1>1, <1>4
<1>7. next.commits > 0 => audit'[c][Len(audit'[c])].dry = FALSE
  BY <1>1, <1>4
<1>8. Recorded(next, audit'[c])
  BY <1>1, <1>4, <1>5, <1>6, <1>7 DEF Recorded
<1>9. Becomes(c, next)
  BY DEF Finish
<1> QED BY <1>3, <1>4, <1>8, <1>9, AuditMove, Recording

LEMMA PreviewAudit ==
  ASSUME TypeInv, AuditInv, NEW c \in Call, Preview(c) PROVE AuditInv'
<1> DEFINE next == [call[c] EXCEPT !.phase = "commit"]
<1>1. call[c].phase = "preview" /\ call[c].commits = 0
  BY DEF Preview, AuditInv, Accounted
<1>0. call[c].req.dry \in BOOLEAN
  BY <1>1, DryType DEF TypeInv, Begun
<1>2. CASE ~call[c].req.dry /\ Becomes(c, next) /\ UNCHANGED audit
  <2>1. /\ next.phase = "commit" /\ next.commits = 0 /\ next.req = call[c].req /\ next.force = call[c].force
    BY <1>1 DEF TypeInv, TypeOK
  <2>2. Accounted(call[c]) /\ Recorded(call[c], audit[c])
    BY DEF AuditInv
  <2>3. Accounted(next) /\ Recorded(next, audit'[c])
    BY <1>1, <1>2, <2>1, <2>2 DEF Accounted, Recorded
  <2> QED BY <1>2, <2>3, AuditMove
<1>3. CASE call[c].req.dry /\ Record(c, TRUE, TRUE) /\ Finish(c, "ok")
  <2>1. call[c].req.dry = TRUE
    BY <1>0, <1>3
  <2> QED BY <1>1, <1>3, <2>1, SuccessAudit
<1>4. CASE Clash(c) /\ Record(c, TRUE, FALSE) /\ OnConflict(c)
  BY <1>1, <1>4, ConflictAudit DEF Clash
<1>5. CASE Record(c, TRUE, FALSE) /\ Finish(c, "error")
  <2>1. ~(call[c].commits > 0)
    BY <1>1
  <2>2. TRUE \in BOOLEAN /\ call[c].phase \in {"preview", "emit"}
    BY <1>1
  <2> QED BY <1>5, <2>1, <2>2, FailureAudit
<1> QED BY <1>2, <1>3, <1>4, <1>5 DEF Preview

LEMMA CommitAudit ==
  ASSUME TypeInv, AuditInv, NEW c \in Call, Commit(c) PROVE AuditInv'
<1>1. call[c].phase = "commit" /\ UNCHANGED audit
  BY DEF Commit
<1>2. PICK next :
        /\ Becomes(c, next)
        /\ \/ \E out \in {"ok", "error"} :
                next = [call[c] EXCEPT !.phase = "emit", !.out = out, !.commits = @ + 1]
           \/ Clash(c) /\ next = [call[c] EXCEPT !.phase = "emit", !.out = "conflict"]
           \/ next = [call[c] EXCEPT !.phase = "emit", !.out = "error"]
  BY DEF Commit
<1>3. Accounted(call[c]) /\ Recorded(call[c], audit[c])
  BY DEF AuditInv
<1>4. /\ next.phase = "emit" /\ next.force = call[c].force /\ next.req = call[c].req
      /\ \/ next.out \in {"ok", "error"} /\ next.commits = call[c].commits + 1
         \/ next.out = "conflict" /\ next.commits = call[c].commits /\ ~next.force
         \/ next.out = "error" /\ next.commits = call[c].commits
  BY <1>2 DEF TypeInv, TypeOK, Clash
<1>5. Accounted(next) /\ Recorded(next, audit'[c])
  BY <1>1, <1>3, <1>4 DEF Accounted, Recorded
<1> QED BY <1>1, <1>2, <1>5, AuditMove

LEMMA EmitAudit ==
  ASSUME TypeInv, AuditInv, NEW c \in Call, Emit(c) PROVE AuditInv'
<1>1. call[c].phase = "emit" /\ call[c].out \in {"ok", "conflict", "error"} /\ Accounted(call[c])
  BY DEF Emit, AuditInv, Accounted
<1>2. CASE call[c].out = "conflict"
  <2>1. Record(c, FALSE, FALSE) /\ OnConflict(c)
    BY <1>2 DEF Emit
  <2> QED BY <1>1, <1>2, <2>1, ConflictAudit DEF Accounted
<1>3. CASE call[c].out = "ok"
  <2>1. Record(c, FALSE, TRUE) /\ Finish(c, "ok")
    BY <1>3 DEF Emit
  <2> QED BY <1>1, <1>3, <2>1, SuccessAudit DEF Accounted
<1>4. CASE call[c].out = "error"
  <2>1. Record(c, FALSE, FALSE) /\ Finish(c, "error")
    BY <1>4 DEF Emit
  <2> QED BY <1>1, <1>4, <2>1, FailureAudit DEF Accounted
<1> QED BY <1>1, <1>2, <1>3, <1>4

LEMMA CrashAudit ==
  ASSUME TypeInv, AuditInv, Crash PROVE AuditInv'
<1> SUFFICES ASSUME NEW d \in Call PROVE Accounted(call'[d]) /\ Recorded(call'[d], audit'[d])
  BY DEF AuditInv
<1>1. UNCHANGED audit /\ Accounted(call[d]) /\ Recorded(call[d], audit[d])
  BY DEF Crash, AuditInv
<1>2. CASE ~InFlight(d)
  BY <1>1, <1>2 DEF Crash
<1>3. CASE InFlight(d)
  <2>1. call'[d] = [call[d] EXCEPT !.phase = "crashed"]
    BY <1>3 DEF Crash
  <2>2. /\ call'[d].phase = "crashed" /\ call'[d].commits = call[d].commits
        /\ call'[d].req = call[d].req
    BY <2>1 DEF TypeInv, TypeOK
  <2> QED BY <1>1, <1>3, <2>2 DEF InFlight, Accounted, Recorded
<1> QED BY <1>2, <1>3

LEMMA AuditInvStep == TypeInv /\ AuditInv /\ [Next]_vars => AuditInv'
<1> SUFFICES ASSUME TypeInv, AuditInv, [Next]_vars PROVE AuditInv'
  OBVIOUS
<1>1. CASE Environment
  BY <1>1 DEF Environment, AutoscalerScale, KubectlEdit, KubectlDelete, KubectlCreate, Write, AuditInv
<1>2. CASE Crash
  BY <1>2, CrashAudit
<1>3. CASE \E c \in Call : Step(c)
  BY <1>3, BuildAudit, PreviewAudit, CommitAudit, EmitAudit DEF Step
<1>4. CASE \E c \in Call : \E r \in Request : Begin(c, r)
  BY <1>4, BeginAudit
<1>5. CASE UNCHANGED vars
  BY <1>5 DEF vars, AuditInv
<1> QED BY <1>1, <1>2, <1>3, <1>4, <1>5 DEF Next

LEMMA AuditInvariance == Spec => [](TypeInv /\ AuditInv)
BY TypeInvInit, TypeInvStep, AuditInvInit, AuditInvStep, PTL DEF Spec

(***************************************************************************)
(* A call persists at most once, and a dry run never: only a conflict,     *)
(* which persisted nothing, is retried.                                    *)
(***************************************************************************)
THEOREM PersistsAtMostOnce == Spec => []CommitsAtMostOnce
<1>1. TypeInv /\ AuditInv => CommitsAtMostOnce
  <2> SUFFICES ASSUME TypeInv, AuditInv, NEW c \in Call
               PROVE call[c].commits <= (IF call[c].req # Absent /\ call[c].req.dry THEN 0 ELSE 1)
    BY DEF CommitsAtMostOnce
  <2>1. Accounted(call[c]) /\ call[c].commits \in Nat
    BY DEF AuditInv, TypeInv, TypeOK
  <2>2. CASE call[c].phase = "idle"
    BY <2>1, <2>2 DEF Accounted
  <2>3. CASE call[c].phase # "idle"
    <3>1. call[c].req.dry \in BOOLEAN
      BY <2>3, DryType DEF TypeInv, Begun
    <3> QED BY <2>1, <2>3, <3>1 DEF Accounted
  <2> QED BY <2>2, <2>3
<1> QED BY <1>1, AuditInvariance, PTL

(***************************************************************************)
(* The audit trail of a call tells what it did: one success at most, last, *)
(* of the right kind, and no persisted apply without its record once the   *)
(* call has returned.                                                      *)
(***************************************************************************)
THEOREM AuditTellsTheTruth == Spec => []AuditTrail
<1>1. TypeInv /\ AuditInv => AuditTrail
  <2> SUFFICES ASSUME TypeInv, AuditInv, NEW c \in Call
               PROVE /\ \A i \in 1 .. Len(audit[c]) :
                          audit[c][i].ok => /\ i = Len(audit[c]) /\ call[c].phase = "done" /\ call[c].out = "ok"
                                            /\ audit[c][i].dry = call[c].req.dry
                                            /\ ~audit[c][i].dry => call[c].commits = 1
                     /\ call[c].phase = "done" /\ call[c].out = "ok" =>
                          Len(audit[c]) > 0 /\ audit[c][Len(audit[c])].ok
                     /\ call[c].phase = "done" /\ call[c].commits > 0 =>
                          Len(audit[c]) > 0 /\ ~audit[c][Len(audit[c])].dry
    BY DEF AuditTrail, SuccessIsLast, ReturnedOKIsAudited, CommitIsAudited
  <2>1. Accounted(call[c]) /\ Recorded(call[c], audit[c]) /\ audit[c] \in Seq(AuditRecord)
    BY DEF AuditInv, TypeInv, TypeOK, AuditRecord
  <2>2. Len(audit[c]) \in Nat
    BY <2>1
  <2>3. CASE ~(call[c].phase = "done" /\ call[c].out = "ok")
    BY <2>1, <2>2, <2>3 DEF Recorded
  <2>4. CASE call[c].phase = "done" /\ call[c].out = "ok"
    <3>1. call[c].req.dry \in BOOLEAN
      BY <2>4, DryType DEF TypeInv, Begun
    <3>2. /\ Len(audit[c]) > 0
          /\ audit[c][Len(audit[c])].dry = call[c].req.dry /\ audit[c][Len(audit[c])].ok = TRUE
          /\ \A i \in 1 .. Len(audit[c]) - 1 : audit[c][i].ok = FALSE
      BY <2>1, <2>4 DEF Recorded
    <3>3. \A i \in 1 .. Len(audit[c]) : audit[c][i].ok => i = Len(audit[c])
      BY <2>2, <3>2
    <3>4. call[c].req.dry = FALSE => call[c].commits = 1
      BY <2>1, <2>4 DEF Accounted
    <3> QED BY <2>1, <2>4, <3>1, <3>2, <3>3, <3>4 DEF Recorded
  <2> QED BY <2>3, <2>4
<1> QED BY <1>1, AuditInvariance, PTL

(* A real update or scale never answers with an ownership conflict. *)
THEOREM ConflictsAreAbsorbed == Spec => []ConflictIsAbsorbed
<1>1. TypeInv /\ AuditInv => ConflictIsAbsorbed
  BY DEF AuditInv, Accounted, ConflictIsAbsorbed
<1> QED BY <1>1, AuditInvariance, PTL

(***************************************************************************)
(* Nobody else's field changes hands unless the call was first refused     *)
(* with a conflict, and has audited that.                                  *)
(***************************************************************************)
THEOREM OverwritesAreRetries == Spec => OverwriteOnlyAfterConflict
<1>1. TypeInv /\ AuditInv /\ [Next]_vars =>
        [\A c \in Call : Commits(c) =>
           \/ \A f \in Field : live.own[f] \subseteq {RayMcp} \/ live'.val[f] = live.val[f]
           \/ Len(audit[c]) = 1 /\ ~audit[c][1].ok]_vars
  <2> SUFFICES ASSUME TypeInv, AuditInv, [Next]_vars, NEW c \in Call, Commits(c)
               PROVE \/ \A f \in Field : live.own[f] \subseteq {RayMcp} \/ live'.val[f] = live.val[f]
                     \/ Len(audit[c]) = 1 /\ ~audit[c][1].ok
    OBVIOUS
  <2> DEFINE body == call[c].body
             val  == [f \in Field |-> Server!AppliedValue(live, RayMcp, body, f)]
             own  == [f \in Field |-> Server!AppliedOwners(live, RayMcp, body, f)]
  <2>1. CASE call[c].force
    <3>1. Recorded(call[c], audit[c]) /\ call[c].phase = "commit"
      BY DEF AuditInv, Commits
    <3> QED BY <2>1, <3>1 DEF Recorded
  <2>2. CASE ~call[c].force
    <3>1. Server!Conflicts(live, RayMcp, body) = {}
      BY <2>2, CommitsInCommit DEF Clash
    <3>2. live'.val = val
      BY CommitsInCommit, PersistValue
    <3>3. ASSUME NEW f \in Field, body[f] # Absent, body[f] # live.val[f]
          PROVE live.own[f] \subseteq {RayMcp}
      BY <3>1, <3>3 DEF Server!Conflicts
    <3>4. \A f \in Field : live.own[f] \subseteq {RayMcp} \/ val[f] = live.val[f]
      BY <3>3 DEF Server!AppliedValue
    <3> QED BY <3>2, <3>4
  <2> QED BY <2>1, <2>2
<1> QED BY <1>1, AuditInvariance, PTL DEF Spec, OverwriteOnlyAfterConflict
-----------------------------------------------------------------------------
(***************************************************************************)
(* The tools keep the contract of write tools.  A write by anybody is what *)
(* every call that has read it notices; a step of a call that leaves etcd  *)
(* alone moves its own transaction, or nothing; and a commit is the one    *)
(* write of the contract.                                                  *)
(***************************************************************************)
Stamps ==
  /\ live'.uid = IF live'.exists /\ ~live.exists THEN rv + 1 ELSE live.uid
  /\ \A f \in Field : IF live'.val[f] = live.val[f] THEN live'.touched[f] = live.touched[f]
                      ELSE live'.touched[f] > rv

LEMMA PersistStamps ==
  ASSUME TypeInv, NEW exists, NEW val, NEW own, Persist(exists, val, own) PROVE Stamps
<1>1. rv \in Nat
  BY DEF TypeInv, TypeOK
<1>2. CASE UNCHANGED <<live, rv>>
  BY <1>2 DEF Stamps
<1>3. CASE ~UNCHANGED <<live, rv>>
  <2>1. \A f \in Field : /\ live'.val[f] = val[f]
                         /\ live'.touched[f] = IF val[f] = live.val[f] THEN live.touched[f] ELSE rv + 1
    BY <1>3 DEF Persist
  <2>2. live'.uid = IF live'.exists /\ ~live.exists THEN rv + 1 ELSE live.uid
    BY <1>3 DEF Persist
  <2> QED BY <1>1, <2>1, <2>2 DEF Stamps
<1> QED BY <1>2, <1>3

LEMMA ChangedParts ==
  Contract!Changed = {p \in Parts : IF p = "exists" THEN live'.exists # live.exists
                                    ELSE live'.val[p] # live.val[p]}
BY DEF Contract!Changed, Whole

(* "exists" is no field of the cluster. *)
LEMMA FieldParts == Parts \ {"exists"} \subseteq Field
BY TypedAssumption DEF Parts

(* The race a call loses is stamped on the field, or on the incarnation. *)
LEMMA Noticing ==
  ASSUME TypeInv, TypeInv', DataInv, Stamps, NEW c \in Call
  PROVE Transaction(call[c], live') = Contract!Noticed(Transaction(call[c], live))
<1> DEFINE k == call[c]
<1>1. CASE StateOf(k) # "read"
  BY <1>1 DEF Transaction, Contract!Noticed
<1>2. CASE StateOf(k) = "read"
  <2>1. k.base <= rv /\ k.base \in Nat /\ rv \in Nat
    BY DEF DataInv, CallData, Dated, TypeInv, TypeOK
  <2>2. ASSUME NEW f \in Parts, f # "exists"
        PROVE live'.touched[f] > k.base <=> live.touched[f] > k.base \/ live'.val[f] # live.val[f]
    <3>1. f \in Field /\ live.touched[f] \in Nat /\ live.touched[f] <= rv
      BY <2>2, FieldParts DEF TypeInv, TypeOK, DataInv
    <3>2. CASE live'.val[f] = live.val[f]
      BY <3>1, <3>2 DEF Stamps
    <3>3. CASE live'.val[f] # live.val[f]
      <4>1. live'.touched[f] > rv
        BY <3>1, <3>3 DEF Stamps
      <4>2. live'.touched[f] \in Nat
        BY <3>1 DEF TypeInv, TypeOK
      <4>3. live'.touched[f] > k.base
        BY <2>1, <4>1, <4>2
      <4> QED BY <3>3, <4>3
    <3> QED BY <3>2, <3>3
  <2>3. ~live'.exists \/ live'.uid > k.base <=>
          ~live.exists \/ live.uid > k.base \/ live'.exists # live.exists
    <3>1. /\ live.uid \in Nat /\ live.exists \in BOOLEAN /\ live'.exists \in BOOLEAN
          /\ live'.uid = IF live'.exists /\ ~live.exists THEN rv + 1 ELSE live.uid
      BY DEF TypeInv, TypeOK, Stamps
    <3>2. CASE live'.exists /\ ~live.exists
      <4>1. live'.uid > k.base
        BY <2>1, <3>1, <3>2
      <4> QED BY <3>2, <4>1
    <3>3. CASE ~(live'.exists /\ ~live.exists)
      BY <2>1, <3>1, <3>3
    <3> QED BY <3>2, <3>3
  <2>4. RacedSince(k.base, live') = RacedSince(k.base, live) \union Contract!Changed
    BY <2>2, <2>3, ChangedParts DEF RacedSince
  <2> QED BY <1>2, <2>4 DEF Transaction, Contract!Noticed
<1> QED BY <1>1, <1>2

LEMMA EnvironmentRefines ==
  ASSUME TypeInv, TypeInv', DataInv, Stamps, UNCHANGED call PROVE Contract!Others
<1>1. \A c \in Call : Transaction(call'[c], live') = Contract!Noticed(Transaction(call[c], live))
  BY Noticing
<1> QED BY <1>1 DEF Contract!Others

(* A step that leaves etcd alone moves the transaction of its call. *)
LEMMA MoveRefines ==
  ASSUME TypeInv, NEW c \in Call, NEW next, Becomes(c, next), UNCHANGED live
  PROVE Contract!Moves(c, Transaction(next, live))
<1>1. \A d \in Call : call'[d] = IF d = c THEN next ELSE call[d]
  BY DEF Becomes, TypeInv, TypeOK
<1>2. \A d \in Call : Transaction(call'[d], live') =
                        IF d = c THEN Transaction(next, live) ELSE Transaction(call[d], live)
  BY <1>1
<1> QED BY <1>2 DEF Contract!Moves

(* The transaction of a call, field by field. *)
LEMMA TransactionOf ==
  ASSUME NEW k, NEW object
  PROVE Transaction(k, object) =
          Contract!Tx(StateOf(k), k.req,
             IF StateOf(k) = "read" THEN RacedSince(k.base, object) ELSE {},
             k.commits, IF k.phase = "done" THEN k.out ELSE "none")
BY DEF Transaction, Contract!Tx

(* A call that answers, or moves with nothing to lose. *)
LEMMA MovedTransaction ==
  ASSUME TypeInv, NEW c \in Call, NEW next, Becomes(c, next), UNCHANGED live,
         next.req = call[c].req, next.commits = call[c].commits,
         StateOf(next) = "read" => RacedSince(next.base, live) = {}
  PROVE Contract!Moves(c, Contract!Moved(Transaction(call[c], live), StateOf(next),
                                         IF next.phase = "done" THEN next.out ELSE "none"))
<1>1. Transaction(next, live) =
        Contract!Tx(StateOf(next), call[c].req, {}, call[c].commits,
                    IF next.phase = "done" THEN next.out ELSE "none")
  BY TransactionOf
<1>2. Transaction(call[c], live).req = call[c].req /\ Transaction(call[c], live).writes = call[c].commits
  BY DEF Transaction
<1>3. Transaction(next, live) =
        Contract!Moved(Transaction(call[c], live), StateOf(next),
                       IF next.phase = "done" THEN next.out ELSE "none")
  BY <1>1, <1>2 DEF Contract!Moved
<1> QED BY <1>3, MoveRefines DEF Contract!Moves

LEMMA BeginRefines ==
  ASSUME TypeInv, DataInv, AuditInv, NEW c \in Call, NEW r \in Request, Begin(c, r)
  PROVE Contract!Next
<1> DEFINE k == call[c]
<1>1. k \in CallRecord /\ k.phase = "idle" /\ live' = live /\ k.commits = 0
  BY DEF Begin, TypeInv, TypeOK, CallRecord, AuditInv, Accounted
<1>2. [d \in Call |-> Transaction(call[d], live)][c].state = "idle"
  BY <1>1 DEF Transaction, StateOf
<1>3. CASE RefusedUnread(r)
  <2> DEFINE next == [k EXCEPT !.phase = "done", !.req = r, !.out = "refused"]
  <2>1. Becomes(c, next)
    BY <1>3 DEF Begin
  <2>2. next.phase = "done" /\ next.req = r /\ next.out = "refused" /\ next.commits = 0
    BY <1>1 DEF CallRecord
  <2> HIDE DEF next
  <2>3. Transaction(next, live) = Contract!Tx("done", r, {}, 0, "refused")
    BY <2>2, TransactionOf DEF StateOf
  <2>4. Contract!Moves(c, Contract!Tx("done", r, {}, 0, "refused"))
    BY <1>1, <2>1, <2>3, MoveRefines DEF Contract!Moves
  <2> QED BY <1>2, <2>4 DEF Contract!Refuse, Contract!Next
<1>4. CASE ~RefusedUnread(r) /\ r.op = "create"
  <2> DEFINE next == [k EXCEPT !.phase = "preview", !.req = r, !.body = r.set, !.base = rv]
  <2>1. Becomes(c, next)
    BY <1>4 DEF Begin
  <2>2. next.phase = "preview" /\ next.req = r /\ next.commits = 0
    BY <1>1 DEF CallRecord
  <2> HIDE DEF next
  <2>3. StateOf(next) = "begun"
    BY <1>4, <2>2 DEF StateOf
  <2>4. Transaction(next, live) = Contract!Tx("begun", r, {}, 0, "none")
    BY <2>2, <2>3, TransactionOf
  <2>5. Contract!Moves(c, Contract!Tx("begun", r, {}, 0, "none"))
    BY <1>1, <2>1, <2>4, MoveRefines DEF Contract!Moves
  <2> QED BY <1>2, <2>5 DEF Contract!Begin, Contract!Next
<1>5. CASE ~RefusedUnread(r) /\ r.op # "create"
  <2> DEFINE next == [k EXCEPT !.phase = "read", !.req = r]
  <2>1. Becomes(c, next)
    BY <1>5 DEF Begin
  <2>2. next.phase = "read" /\ next.req = r /\ next.commits = 0
    BY <1>1 DEF CallRecord
  <2> HIDE DEF next
  <2>3. StateOf(next) = "begun"
    BY <2>2 DEF StateOf
  <2>4. Transaction(next, live) = Contract!Tx("begun", r, {}, 0, "none")
    BY <2>2, <2>3, TransactionOf
  <2>5. Contract!Moves(c, Contract!Tx("begun", r, {}, 0, "none"))
    BY <1>1, <2>1, <2>4, MoveRefines DEF Contract!Moves
  <2> QED BY <1>2, <2>5 DEF Contract!Begin, Contract!Next
<1> QED BY <1>3, <1>4, <1>5

(* The answers: what is known of the writes is what the answer says. *)
LEMMA FinishRefines ==
  ASSUME TypeInv, NEW c \in Call, InFlight(c), UNCHANGED live,
         NEW out \in {"ok", "conflict", "notFound", "refused", "error"}, Finish(c, out),
         out = "ok" => call[c].commits = IF call[c].req.dry THEN 0 ELSE 1,
         out \in {"conflict", "notFound", "refused"} => call[c].commits = 0
  PROVE Contract!Next
<1> DEFINE k == call[c]
           t == Transaction(k, live)
           next == [k EXCEPT !.phase = "done", !.out = out]
<1>1. next.phase = "done" /\ next.out = out /\ next.req = k.req /\ next.commits = k.commits
  BY DEF TypeInv, TypeOK
<1>2. Becomes(c, next)
  BY DEF Finish
<1> HIDE DEF next
<1>3. StateOf(k) \in {"begun", "read", "written"}
  BY DEF StateOf, InFlight
<1>4. t.state \in {"begun", "read", "written"} /\ t.req = k.req /\ t.writes = k.commits
  BY <1>3 DEF Transaction
<1>5. [d \in Call |-> Transaction(call[d], live)][c] = t
  OBVIOUS
<1>6. StateOf(next) = "done"
  BY <1>1 DEF StateOf
<1> HIDE DEF t
<1>7. Contract!Truthful(t, out)
  BY <1>4 DEF Contract!Truthful, Dry
<1>8. Contract!Moves(c, Contract!Moved(t, "done", out))
  BY <1>1, <1>2, <1>6, MovedTransaction DEF t, Contract!Moves
<1>9. Contract!Answer(c, out)
  BY <1>4, <1>5, <1>7, <1>8 DEF Contract!Answer, Contract!Open, Contract!Moves
<1> QED BY <1>9 DEF Contract!Next

LEMMA BuildRefines ==
  ASSUME TypeInv, DataInv, AuditInv, NEW c \in Call, Build(c) PROVE Contract!Next
<1> DEFINE k == call[c]
           next == [k EXCEPT !.phase = "preview", !.base = rv, !.body = Body(k.req, Decoded(live.val))]
<1>1. k.phase = "read" /\ k.commits = 0 /\ k.req.op # "create" /\ live' = live
  BY DEF Build, AuditInv, Accounted
<1>2. CASE live.exists /\ Becomes(c, next)
  <2>1. next.phase = "preview" /\ next.base = rv /\ next.req = k.req /\ next.commits = k.commits
    BY DEF TypeInv, TypeOK
  <2> HIDE DEF next
  <2>2. RacedSince(next.base, live) = {}
    <3>1. /\ live.exists /\ live.uid <= rv /\ live.uid \in Nat /\ rv \in Nat
          /\ \A f \in Field : live.touched[f] <= rv /\ live.touched[f] \in Nat
      BY <1>2 DEF DataInv, TypeInv, TypeOK
    <3> QED BY <2>1, <3>1, FieldParts DEF RacedSince
  <2>3. StateOf(next) = "read" /\ next.phase # "done"
    BY <1>1, <2>1 DEF StateOf
  <2>4. Contract!Moves(c, Contract!Moved(Transaction(k, live), "read", "none"))
    BY <1>1, <1>2, <2>1, <2>2, <2>3, MovedTransaction DEF Contract!Moves
  <2>5. [d \in Call |-> Transaction(call[d], live)][c].state = "begun"
    BY <1>1 DEF Transaction, StateOf
  <2> QED BY <2>4, <2>5 DEF Contract!Read, Contract!Next, Contract!Moves
<1>3. CASE \E out \in {"refused", "notFound", "error"} : Finish(c, out)
  BY <1>1, <1>3, FinishRefines DEF InFlight
<1> QED BY <1>2, <1>3 DEF Build, ReadFails

(* A conflict before anything was written: the call starts over, or says so. *)
LEMMA OnConflictRefines ==
  ASSUME TypeInv, NEW c \in Call, call[c].phase \in {"preview", "emit"}, call[c].commits = 0,
         UNCHANGED live, OnConflict(c)
  PROVE Contract!Next
<1> DEFINE k == call[c]
           retry == [k EXCEPT !.phase = "read", !.force = TRUE, !.out = "none", !.contended = rv]
<1>1. CASE k.req.op \in {"update", "scale"} /\ Becomes(c, retry)
  <2>1. retry.phase = "read" /\ retry.req = k.req /\ retry.commits = k.commits
    BY DEF TypeInv, TypeOK
  <2> HIDE DEF retry
  <2>2. StateOf(retry) = "begun" /\ retry.phase # "done"
    BY <2>1 DEF StateOf
  <2>3. Contract!Moves(c, Contract!Moved(Transaction(k, live), "begun", "none"))
    BY <1>1, <2>1, <2>2, MovedTransaction DEF Contract!Moves
  <2>4. [d \in Call |-> Transaction(call[d], live)][c].state = "read"
    BY <1>1 DEF Transaction, StateOf
  <2> QED BY <2>3, <2>4 DEF Contract!Retry, Contract!Next, Contract!Moves
<1>2. CASE Finish(c, "conflict")
  BY <1>2, FinishRefines DEF InFlight
<1> QED BY <1>1, <1>2 DEF OnConflict

(* Steps between the read and the answer that write nothing are not seen. *)
LEMMA Unseen ==
  ASSUME TypeInv, NEW c \in Call, NEW next, Becomes(c, next), UNCHANGED live,
         call[c].phase \in {"preview", "commit"}, next.phase \in {"commit", "emit"},
         next.req = call[c].req, next.commits = call[c].commits, next.base = call[c].base
  PROVE [d \in Call |-> Transaction(call[d], live)]' = [d \in Call |-> Transaction(call[d], live)]
<1>1. Transaction(next, live) = Transaction(call[c], live)
  BY DEF Transaction, StateOf
<1>2. \A d \in Call : call'[d] = IF d = c THEN next ELSE call[d]
  BY DEF Becomes, TypeInv, TypeOK
<1>3. \A d \in Call : Transaction(call'[d], live') = Transaction(call[d], live)
  BY <1>1, <1>2
<1> QED BY <1>3

LEMMA PreviewRefines ==
  ASSUME TypeInv, AuditInv, NEW c \in Call, Preview(c) PROVE [Contract!Next]_(Contract!vars)
<1> DEFINE k == call[c]
           next == [k EXCEPT !.phase = "commit"]
<1>1. k.phase = "preview" /\ k.commits = 0 /\ live' = live
  BY DEF Preview, AuditInv, Accounted
<1>2. CASE Becomes(c, next)
  <2>1. /\ next.phase = "commit" /\ next.req = k.req /\ next.commits = k.commits
        /\ next.base = k.base
    BY DEF TypeInv, TypeOK
  <2> HIDE DEF next
  <2> QED BY <1>1, <1>2, <2>1, Unseen DEF Contract!vars
<1>3. CASE k.req.dry /\ Finish(c, "ok")
  BY <1>1, <1>3, FinishRefines DEF InFlight
<1>4. CASE Finish(c, "error")
  BY <1>1, <1>4, FinishRefines DEF InFlight
<1>5. CASE OnConflict(c)
  BY <1>1, <1>5, OnConflictRefines
<1> QED BY <1>2, <1>3, <1>4, <1>5 DEF Preview

LEMMA EmitRefines ==
  ASSUME TypeInv, AuditInv, NEW c \in Call, Emit(c) PROVE Contract!Next
<1> DEFINE k == call[c]
<1>1. k.phase = "emit" /\ live' = live /\ Accounted(k)
  BY DEF Emit, AuditInv
<1>2. CASE k.out = "conflict" /\ OnConflict(c)
  BY <1>1, <1>2, OnConflictRefines DEF Accounted
<1>3. CASE k.out \in {"ok", "error"} /\ Finish(c, k.out)
  BY <1>1, <1>3, FinishRefines DEF InFlight, Accounted
<1> QED BY <1>1, <1>2, <1>3 DEF Emit, Accounted

LEMMA CrashRefines ==
  ASSUME TypeInv, Crash PROVE Contract!Next
<1>1. \A d \in Call : call'[d] = IF InFlight(d) THEN [call[d] EXCEPT !.phase = "crashed"] ELSE call[d]
  BY DEF Crash
<1>2. live' = live
  BY DEF Crash
<1>3. ASSUME NEW d \in Call
      PROVE Transaction(call'[d], live') =
              IF Contract!Open(Transaction(call[d], live))
              THEN Contract!Moved(Transaction(call[d], live), "crashed", "none")
              ELSE Transaction(call[d], live)
  <2> DEFINE k == call[d]
             next == [k EXCEPT !.phase = "crashed"]
  <2>1. InFlight(d) <=> StateOf(k) \in {"begun", "read", "written"}
    BY DEF InFlight, StateOf, TypeInv, TypeOK, Phase
  <2>2. Contract!Open(Transaction(k, live)) <=> InFlight(d)
    BY <2>1 DEF Contract!Open, Transaction
  <2>3. next.phase = "crashed" /\ next.req = k.req /\ next.commits = k.commits
    BY DEF TypeInv, TypeOK
  <2> HIDE DEF next
  <2>4. Transaction(next, live) = Contract!Tx("crashed", k.req, {}, k.commits, "none")
    BY <2>3, TransactionOf DEF StateOf
  <2>5. Transaction(next, live) = Contract!Moved(Transaction(k, live), "crashed", "none")
    BY <2>4 DEF Contract!Moved, Transaction
  <2> QED BY <1>1, <1>2, <2>2, <2>5 DEF next
<1> QED BY <1>2, <1>3 DEF Contract!Crash, Contract!Next

(* A write by somebody else. *)
LEMMA WriteByOthersRefines ==
  ASSUME TypeInv, TypeInv', DataInv, Environment PROVE Contract!Next
<1>1. PICK exists, val, own : Persist(exists, val, own)
  BY DEF Environment, AutoscalerScale, KubectlEdit, KubectlDelete, KubectlCreate, Write
<1>2. UNCHANGED call
  BY DEF Environment, AutoscalerScale, KubectlEdit, KubectlDelete, KubectlCreate, Write
<1>3. Stamps
  BY <1>1, PersistStamps
<1> QED BY <1>2, <1>3, EnvironmentRefines DEF Contract!Next

LEMMA PersistExists ==
  ASSUME NEW exists, NEW val, NEW own, Persist(exists, val, own)
  PROVE live'.exists = exists
<1>1. CASE UNCHANGED <<live, rv>> /\ exists = live.exists
  BY <1>1
<1>2. CASE ~(UNCHANGED <<live, rv>> /\ exists = live.exists)
  BY <1>2 DEF Persist
<1> QED BY <1>1, <1>2

(* The commit that the server persists is the one write of the contract. *)
LEMMA PersistedRefines ==
  ASSUME TypeInv, TypeInv', DataInv, AuditInv, NEW c \in Call, Commit(c), NEW next,
         next.phase = "emit", next.req = call[c].req, next.base = call[c].base,
         next.commits = 1, call[c].commits = 0, Becomes(c, next)
  PROVE Contract!Next
<1> DEFINE k == call[c]
           t(d) == Transaction(call[d], live)
<1>1. k.phase = "commit" /\ k.req.dry = FALSE
  BY DEF Commit, AuditInv, Accounted
<1>2. \A d \in Call : call'[d] = IF d = c THEN next ELSE call[d]
  BY DEF Becomes, TypeInv, TypeOK
<1>3. Commits(c) /\ Next
  BY <1>1, <1>2 DEF Commits, Next, Step
<1>4. Stamps
  BY <1>3, CommitsInCommit, PersistStamps
<1>5. \A d \in Call : Transaction(call[d], live') = Contract!Noticed(t(d))
  BY <1>4, Noticing
<1>6. Transaction(next, live') = Contract!Tx("written", k.req, {}, 1, "none")
  <2>1. StateOf(next) = "written"
    BY DEF StateOf
  <2> QED BY <2>1, TransactionOf
<1>7. \A d \in Call : Transaction(call'[d], live') =
        IF d = c THEN Contract!Tx("written", k.req, {}, 1, "none") ELSE Contract!Noticed(t(d))
  BY <1>2, <1>5, <1>6
<1>8. /\ t(c).state = IF k.req.op = "create" THEN "begun" ELSE "read"
      /\ t(c).req = k.req
      /\ t(c).raced = IF k.req.op = "create" THEN {} ELSE RacedSince(k.base, live)
  BY <1>1 DEF Transaction, StateOf
<1>9. ASSUME NEW p \in Parts \ t(c).raced
      PROVE MakesOf(k.req, p, Whole(live)[p], Whole(live')[p])
  <2>1. CASE p = "exists"
    <3>1. live'.exists = TRUE
      BY <1>3, CommitsInCommit, PersistExists
    <3>2. k.req.op = "create" \/ live.exists
      BY <1>8, <2>1 DEF RacedSince
    <3>3. live.exists \in BOOLEAN
      BY DEF TypeInv, TypeOK
    <3>4. live'.exists = IF k.req.op = "create" THEN TRUE ELSE live.exists
      BY <3>1, <3>2, <3>3
    <3>5. Whole(live)[p] = live.exists /\ Whole(live')[p] = live'.exists
      BY <2>1 DEF Whole
    <3> QED BY <2>1, <3>4, <3>5 DEF MakesOf
  <2>2. CASE p # "exists"
    <3>1. p \in TypedField /\ p \in Field
      BY <2>2, FieldParts DEF Parts
    <3>2. live.touched[p] \in Nat /\ k.base \in Nat
      BY <3>1 DEF TypeInv, TypeOK
    <3>3. live.touched[p] <= k.base \/ k.req.op = "create"
      BY <1>8, <2>2, <3>2 DEF RacedSince
    <3>4. Overlays(k.req, p, live.val[p], live'.val[p])
      BY <1>3, <3>1, <3>3, CommitOverlays DEF Overlaid
    <3>5. Whole(live)[p] = live.val[p] /\ Whole(live')[p] = live'.val[p]
      BY <2>2 DEF Whole
    <3> QED BY <2>2, <3>4, <3>5 DEF MakesOf
  <2> QED BY <2>1, <2>2
<1> HIDE DEF t
<1>10. [d \in Call |-> t(d)][c] = t(c)
  OBVIOUS
<1>11. Contract!Write(c)
  BY <1>1, <1>7, <1>8, <1>9, <1>10 DEF Contract!Write, Dry, t
<1> QED BY <1>11 DEF Contract!Next

LEMMA CommitRefines ==
  ASSUME TypeInv, TypeInv', DataInv, AuditInv, NEW c \in Call, Commit(c)
  PROVE [Contract!Next]_(Contract!vars)
<1> DEFINE k == call[c]
           failed(out) == [k EXCEPT !.phase = "emit", !.out = out]
           persisted(out) == [k EXCEPT !.phase = "emit", !.out = out, !.commits = @ + 1]
<1>1. k.phase = "commit" /\ k.commits = 0
  BY DEF Commit, AuditInv, Accounted
<1>2. ASSUME NEW out, Becomes(c, failed(out)), UNCHANGED live PROVE UNCHANGED Contract!vars
  <2> DEFINE next == failed(out)
  <2>1. /\ next.phase = "emit" /\ next.req = k.req /\ next.commits = k.commits
        /\ next.base = k.base
    BY DEF TypeInv, TypeOK
  <2>2. Becomes(c, next)
    BY <1>2
  <2> HIDE DEF next
  <2> QED BY <1>1, <1>2, <2>1, <2>2, Unseen DEF Contract!vars
<1>3. ASSUME NEW out, Becomes(c, persisted(out)) PROVE Contract!Next
  <2> DEFINE next == persisted(out)
  <2>1. /\ next.phase = "emit" /\ next.req = k.req /\ next.commits = k.commits + 1
        /\ next.base = k.base
    BY DEF TypeInv, TypeOK
  <2>2. Becomes(c, next)
    BY <1>3
  <2> HIDE DEF next
  <2> QED BY <1>1, <2>1, <2>2, PersistedRefines
<1> QED BY <1>2, <1>3 DEF Commit

LEMMA StepRefines ==
  TypeInv /\ TypeInv' /\ DataInv /\ AuditInv /\ [Next]_vars => [Contract!Next]_(Contract!vars)
<1> SUFFICES ASSUME TypeInv, TypeInv', DataInv, AuditInv, [Next]_vars
             PROVE [Contract!Next]_(Contract!vars)
  OBVIOUS
<1>1. CASE Environment
  BY <1>1, WriteByOthersRefines
<1>2. CASE Crash
  BY <1>2, CrashRefines
<1>3. CASE \E c \in Call : Step(c)
  BY <1>3, BuildRefines, PreviewRefines, CommitRefines, EmitRefines DEF Step
<1>4. CASE \E c \in Call : \E r \in Request : Begin(c, r)
  BY <1>4, BeginRefines
<1>5. CASE UNCHANGED vars
  BY <1>5 DEF vars, Contract!vars
<1> QED BY <1>1, <1>2, <1>3, <1>4, <1>5 DEF Next

(***************************************************************************)
(* Create, update and scale implement the contract of write tools, for any *)
(* number of concurrent calls and whatever else writes the object: a call  *)
(* writes at most once, its forced retry and lost answers included, the    *)
(* write is atomic on every field nobody raced it for, an update makes no  *)
(* cluster unless the one it read was deleted, and every answer but an     *)
(* error tells whether the write was made.                                 *)
(***************************************************************************)
THEOREM WritesAreAtomic == Spec => ImplementsAtomicWrite
<1>1. Init => Contract!Init
  BY DEF Init, NoCall, Contract!Init, Contract!Tx, Transaction, StateOf
<1> QED BY <1>1, Invariance, AuditInvariance, StepRefines, PTL
     DEF Spec, ImplementsAtomicWrite, Contract!Spec
=============================================================================
