---------------------------- MODULE GuardedDelete ----------------------------
(***************************************************************************)
(* ray_cluster_delete, ray_service_delete and ray_job_delete: the two-step *)
(* confirmed deletion of one KubeRay resource by agents, while the         *)
(* operator, the autoscaler and kubectl users change, delete and recreate  *)
(* it.                                                                     *)
(*                                                                         *)
(* A call reads the live object, applies the guards of its kind and, for a *)
(* deletion that cascades, compares the caller's confirm with a            *)
(* fingerprint recomputed from that read.  It then deletes by name, in a   *)
(* second request.  The server keeps nothing between two calls: what a     *)
(* preview promised is only in the agent's hands, and it outlives the      *)
(* process, which may come back with or without the destructive tier.      *)
(***************************************************************************)
EXTENDS Naturals

CONSTANTS
  Kind,              \* the kind being deleted
  Agent,             \* agents, each with one call at a time
  Version,           \* resourceVersions, as tokens that only change
  None,              \* no confirm argument, no fingerprint
  Unreliable,        \* requests may fail, answers be lost, the process restart
  MaxUid             \* bound: incarnations of the resource

ASSUME KindAssumption   == Kind \in {"RayCluster", "RayService", "RayJob"}
ASSUME SwitchAssumption == Unreliable \in BOOLEAN
ASSUME BoundAssumption  == MaxUid \in Nat

VARIABLES
  live,    \* the resource on the API server
  tier,    \* --allow-destructive of the running process
  agent,   \* what each agent remembers
  call     \* the call each agent has in flight, or its last one

vars == <<live, tier, agent, call>>

Operation == {"delete", "scale-to-zero", "unprotect"}

(***************************************************************************)
(* The resource.  serving: a RayService with ready endpoints, an upgrade   *)
(* or a rollback in progress.  ephemeral: a RayJob that owns its cluster.  *)
(* open (history): some moment of this incarnation found it unprotected    *)
(* and not serving.                                                        *)
(***************************************************************************)
Resource ==
  {o \in [exists : BOOLEAN, uid : Nat, version : Version, protected : BOOLEAN,
          serving : BOOLEAN, ephemeral : BOOLEAN, open : BOOLEAN] :
     /\ o.serving => Kind = "RayService"
     /\ o.ephemeral => Kind = "RayJob"}

Token == [op : Operation, uid : Nat, version : Version \union {None}]

ASSUME NoneAssumption == None \notin Token \union Version

Phase   == {"idle", "read", "delete", "record", "done"}
Outcome == {"none", "preview", "refused", "mismatch", "notFound", "error", "ok"}

AgentState == [known : Token \union {None},         \* the last fingerprint it was given
               forced : BOOLEAN]                    \* history: it has passed force

CallState  == [phase : Phase, confirm : Token \union {None}, force : BOOLEAN, dry : BOOLEAN,
               out : Outcome,
               seen : Nat,           \* history: uid of the object it read
               cascade : BOOLEAN,    \* history: the deletion cascaded, by what it read
               deleted : BOOLEAN,    \* history: the server deleted for it
               records : 0 .. 1]     \* audit records it wrote

TypeOK ==
  /\ live \in Resource
  /\ tier \in BOOLEAN
  /\ agent \in [Agent -> AgentState]
  /\ call \in [Agent -> CallState]

-----------------------------------------------------------------------------
(* Mutant: every fingerprint binds the resourceVersion. *)
AlwaysBinds(op) == TRUE

(* A deletion's fingerprint is identity-only. *)
BindsResourceVersion(op) == op # "delete"

Fingerprint(o, op) ==
  [op |-> op, uid |-> o.uid, version |-> IF BindsResourceVersion(op) THEN o.version ELSE None]

(* Mutant: any confirm will do. *)
AnyConfirm(o, op, confirm) == confirm # None

(* RequireConfirm accepts the confirm. *)
Confirmed(o, op, confirm) == confirm = Fingerprint(o, op)

(* A deletion that takes a cluster with it. *)
Cascades(o) == Kind # "RayJob" \/ o.ephemeral

(* Mutant: a preview is answered before the guards are consulted. *)
RefusedAtCommit(o, args) ==
  /\ args.confirm # None
  /\ o.protected \/ (o.serving /\ ~args.force) \/ (Cascades(o) /\ ~tier)

(***************************************************************************)
(* The guards before the confirm: the protected annotation, a service in   *)
(* use, and the destructive tier (ray_job_delete asks for it when the job  *)
(* owns its cluster; the other two are not registered without it).         *)
(***************************************************************************)
Refused(o, args) ==
  \/ o.protected
  \/ o.serving /\ ~args.force
  \/ Cascades(o) /\ ~tier

Registered == Kind = "RayJob" \/ tier

-----------------------------------------------------------------------------
(* The resource as everybody else changes it. *)

Open(o) == ~o.protected /\ ~o.serving

(* The resource as it may be created. *)
Incarnation(uid) ==
  {o \in [exists : {TRUE}, uid : {uid}, version : Version, protected : BOOLEAN,
          serving : BOOLEAN, ephemeral : BOOLEAN, open : BOOLEAN] :
     o \in Resource /\ o.open = Open(o)}

Init ==
  /\ live \in Incarnation(0)
  /\ tier \in BOOLEAN
  /\ agent = [a \in Agent |-> [known |-> None, forced |-> FALSE]]
  /\ call = [a \in Agent |-> [phase |-> "idle", confirm |-> None, force |-> FALSE, dry |-> FALSE,
                              out |-> "none", seen |-> 0, cascade |-> FALSE, deleted |-> FALSE,
                              records |-> 0]]

(***************************************************************************)
(* A write by the operator, the autoscaler, a user or another tool call:   *)
(* always a new version, and perhaps another annotation or serving state,  *)
(* or a job with another target (ray_job_submit applies over the name).    *)
(***************************************************************************)
Churn ==
  /\ live.exists
  /\ \E o \in Incarnation(live.uid) :
       /\ o.version # live.version
       /\ live' = [o EXCEPT !.open = @ \/ live.open]
  /\ UNCHANGED <<tier, agent, call>>

KubectlDelete ==
  /\ live.exists
  /\ live' = [live EXCEPT !.exists = FALSE]
  /\ UNCHANGED <<tier, agent, call>>

(* The name is taken again, by another object. *)
Recreate ==
  /\ ~live.exists /\ live.uid < MaxUid
  /\ live' \in Incarnation(live.uid + 1)
  /\ UNCHANGED <<tier, agent, call>>

-----------------------------------------------------------------------------
(* The calls. *)

(* The call's state becomes next; the other calls stay. *)
Becomes(a, next) == call' = [call EXCEPT ![a] = next]

Finish(a, out) == Becomes(a, [call[a] EXCEPT !.phase = "done", !.out = out])

(* An agent calls the tool, with no confirm or with the fingerprint it was given. *)
Begin(a, confirm, force, dry) ==
  /\ Registered
  /\ call[a].phase \in {"idle", "done"}
  /\ force => Kind = "RayService"
  /\ Becomes(a, [phase |-> "read", confirm |-> confirm, force |-> force, dry |-> dry,
                  out |-> "none", seen |-> 0, cascade |-> FALSE, deleted |-> FALSE, records |-> 0])
  /\ agent' = [agent EXCEPT ![a].forced = @ \/ force]
  /\ UNCHANGED <<live, tier>>

(* The read and the guards on what it returned. *)
Read(a) ==
  LET args == call[a]
  IN /\ args.phase = "read"
     /\ \/ /\ ~live.exists
           /\ Finish(a, "notFound")
           /\ UNCHANGED agent
        \/ /\ live.exists /\ Refused(live, args)
           /\ Finish(a, "refused")
           /\ UNCHANGED agent
        \/ /\ live.exists /\ ~Refused(live, args)
           /\ Cascades(live) /\ args.confirm = None
           /\ Finish(a, "preview")
           /\ agent' = [agent EXCEPT ![a].known = Fingerprint(live, "delete")]
        \/ /\ live.exists /\ ~Refused(live, args)
           /\ Cascades(live) /\ args.confirm # None
           /\ ~Confirmed(live, "delete", args.confirm)
           /\ Finish(a, "mismatch")
           /\ UNCHANGED agent
        \/ /\ live.exists /\ ~Refused(live, args)
           /\ Cascades(live) => Confirmed(live, "delete", args.confirm)
           /\ Becomes(a, [args EXCEPT !.phase = "delete", !.seen = live.uid,
                                       !.cascade = Cascades(live)])
           /\ UNCHANGED agent
        \/ /\ Unreliable
           /\ Finish(a, "error")
           /\ UNCHANGED agent
     /\ UNCHANGED <<live, tier>>

(***************************************************************************)
(* The deletion, by kind, namespace and name alone.  The server may delete *)
(* and its answer be lost.                                                 *)
(***************************************************************************)
Delete(a) ==
  /\ call[a].phase = "delete"
  /\ \/ /\ live.exists /\ ~call[a].dry
        /\ live' = [live EXCEPT !.exists = FALSE]
        /\ \E out \in {"ok"} \union (IF Unreliable THEN {"error"} ELSE {}) :
             Becomes(a, [call[a] EXCEPT !.phase = "record", !.out = out, !.deleted = TRUE])
     \/ /\ live.exists /\ call[a].dry
        /\ Becomes(a, [call[a] EXCEPT !.phase = "record", !.out = "ok"])
        /\ UNCHANGED <<live, tier>>
     \/ /\ ~live.exists
        /\ Becomes(a, [call[a] EXCEPT !.phase = "record", !.out = "notFound"])
        /\ UNCHANGED <<live, tier>>
     \/ /\ Unreliable
        /\ Becomes(a, [call[a] EXCEPT !.phase = "record", !.out = "error"])
        /\ UNCHANGED <<live, tier>>
  /\ UNCHANGED <<tier, agent>>

(* RecordDestructive, and the answer. *)
Record(a) ==
  /\ call[a].phase = "record"
  /\ Becomes(a, [call[a] EXCEPT !.phase = "done", !.records = @ + 1])
  /\ UNCHANGED <<live, tier, agent>>

(***************************************************************************)
(* The process dies and comes back, perhaps with other flags: its calls    *)
(* fail, the agents keep their fingerprints.                               *)
(***************************************************************************)
Restart ==
  /\ Unreliable
  /\ tier' \in BOOLEAN
  /\ call' = [a \in Agent |->
                IF call[a].phase \in {"read", "delete", "record"}
                THEN [call[a] EXCEPT !.phase = "idle", !.out = "error"] ELSE call[a]]
  /\ UNCHANGED <<live, agent>>

-----------------------------------------------------------------------------
Environment == Churn \/ KubectlDelete \/ Recreate

Step(a) == Read(a) \/ Delete(a) \/ Record(a)

Preview(a) == Begin(a, None, Kind = "RayService", FALSE)
Commit(a)  == agent[a].known # None /\ Begin(a, agent[a].known, Kind = "RayService", FALSE)

Next ==
  \/ Environment
  \/ Restart
  \/ \E a \in Agent :
       \/ Step(a)
       \/ \E confirm \in {None, agent[a].known}, force, dry \in BOOLEAN : Begin(a, confirm, force, dry)

Spec == Init /\ [][Next]_vars /\ \A a \in Agent : WF_vars(Step(a))

(* Agents that keep previewing and keep confirming what they were last shown. *)
PersistentSpec == Spec /\ \A a \in Agent : SF_vars(Preview(a)) /\ SF_vars(Commit(a))
-----------------------------------------------------------------------------
(* Properties. *)

(* The server deletes the resource for the call of agent a. *)
DeletesFor(a) == call[a].phase = "delete" /\ call'[a].deleted

(* The job selected a cluster when the call of agent a read it, and owns one now. *)
TurnedEphemeral(a) == Kind = "RayJob" /\ ~call[a].cascade /\ live.ephemeral

(***************************************************************************)
(* A deletion that takes a cluster with it is one the tier of the process  *)
(* now running allows and whose caller confirmed this very incarnation, in *)
(* an earlier call, whatever restarts, recreations and other agents came   *)
(* between.  There are two exceptions, because delete.go sends neither a   *)
(* uid nor a resourceVersion: a resource replaced between the read and the *)
(* delete request, and an attached job that was given a cluster of its own *)
(* in place between the two (job_submit.go, Submit over the name).         *)
(***************************************************************************)
CascadeIsConfirmed ==
  [][\A a \in Agent :
       DeletesFor(a) /\ Cascades(live) /\ call[a].seen = live.uid =>
         \/ /\ tier
            /\ call[a].confirm # None /\ call[a].confirm.uid = live.uid
            /\ agent[a].known # None
         \/ TurnedEphemeral(a)]_vars

(***************************************************************************)
(* A resource that has been protected, or serving, at every moment of its  *)
(* life has no working fingerprint in anybody's hands, unless a RayService *)
(* agent passed force ("a protected cluster NEVER yields a working         *)
(* fingerprint", domain/cluster_write.go): the guards come before the      *)
(* fingerprint is minted.                                                  *)
(***************************************************************************)
ClosedYieldsNoFingerprint ==
  \A a \in Agent :
    /\ agent[a].known # None /\ agent[a].known.uid = live.uid
    /\ ~agent[a].forced
    => live.open

(***************************************************************************)
(* A call that returned left an audit record exactly when it reached the   *)
(* API server's delete: previews and refusals leave none, a deletion whose *)
(* answer was lost leaves one (RecordDestructive).                         *)
(***************************************************************************)
DeletionIsAudited ==
  \A a \in Agent : call[a].phase = "done" =>
    /\ call[a].deleted => call[a].records = 1
    /\ call[a].records = 1 => call[a].confirm # None \/ Kind = "RayJob"
    /\ call[a].out = "ok" => call[a].records = 1 /\ (call[a].deleted \/ call[a].dry)

(***************************************************************************)
(* What of ConfirmConverges is safety: a fingerprint that an agent was     *)
(* given is refused as a mismatch only when the resource was replaced,     *)
(* however it churned and whatever restarts came between (guards.go,       *)
(* OpDelete).                                                              *)
(***************************************************************************)
MismatchMeansReplaced ==
  [][\A a \in Agent :
       call[a].phase = "read" /\ call'[a].out = "mismatch" => call[a].confirm.uid # live.uid]_vars

(***************************************************************************)
(* However often the resource changes, an agent that keeps previewing and  *)
(* confirming gets it deleted, unless it is protected again and again or   *)
(* the tier forbids it: a deletion's fingerprint leaves out the            *)
(* resourceVersion, which would livelock the confirm on a busy cluster     *)
(* (guards.go, OpDelete).                                                  *)
(***************************************************************************)
ConfirmConverges == []<>(~live.exists \/ live.protected \/ (Cascades(live) /\ ~tier))
=============================================================================
