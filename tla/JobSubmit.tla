------------------------------- MODULE JobSubmit -------------------------------
(***************************************************************************)
(* ray_job_submit, and what ray_job_delete makes of its result, for one    *)
(* RayJob name.                                                            *)
(*                                                                         *)
(* A submit has one of two targets: an existing cluster                    *)
(* (spec.clusterSelector), of which the tool checks that the name is not   *)
(* empty and nothing else, or an ephemeral one (spec.rayClusterSpec),      *)
(* which the operator creates, and tears down after the job if             *)
(* spec.shutdownAfterJobFinishes says so.  It is a single unforced         *)
(* Server-Side Apply, over whatever job has the name.  The process was     *)
(* started without --allow-destructive, so that a delete may only take     *)
(* jobs that own no cluster; the other guards of a delete are in           *)
(* GuardedDelete and here a refusal that may happen.                       *)
(***************************************************************************)
EXTENDS Integers, Sequences

CONSTANTS
  Call,        \* tool calls, each served by its own goroutine
  Cluster,     \* clusters a job may select
  Template,    \* cluster templates
  Absent,      \* a field or an argument that is not there
  Yes, No,     \* the values of shutdownAfterJobFinishes
  Request,     \* tool calls a client may make
  UserEdit,    \* edits a kubectl user may make
  UserJob,     \* the job a kubectl user creates
  MaxWrites    \* bound: kubectl users write so many times

(* The ownership units of a RayJob's spec. *)
Field   == {"selector", "cluster", "shutdown"}
Value   == {Absent, Yes, No} \union Cluster \union Template

RayMcp  == "ray-mcp"
Kubectl == "kubectl"
Manager == {RayMcp, Kubectl}

Server == INSTANCE ServerSideApply

IsOverlay(s) == DOMAIN s \subseteq Field /\ s \in [DOMAIN s -> Value]

(***************************************************************************)
(* Decoded arguments.  complete: name and entrypoint are given and the     *)
(* quantities parse; raw is the rawSpec overlay (Absent: a null), retarget *)
(* marks one that names another object.                                    *)
(***************************************************************************)
IsSubmit(r) ==
  /\ r.op = "submit"
  /\ r \in [op : {"submit"}, complete : BOOLEAN, existing : Cluster \union {Absent},
            template : Template \union {Absent}, shutdown : {Absent, Yes, No},
            raw : {r.raw}, retarget : BOOLEAN, dry : BOOLEAN]
  /\ IsOverlay(r.raw)
IsDelete(r) == r = [op |-> "delete"]

ASSUME ValueAssumption   == /\ Yes # No /\ Absent \notin {Yes, No} \union Cluster \union Template
                            /\ Absent \notin Request
ASSUME RequestAssumption == \A r \in Request : IsDelete(r) \/ IsSubmit(r)
ASSUME UserAssumption    == /\ UserJob \in [Field -> Value]
                            /\ \A e \in UserEdit : IsOverlay(e)
ASSUME BoundAssumption   == MaxWrites \in Nat

VARIABLES
  live,    \* the RayJob in etcd
  rv,      \* etcd's revision counter
  run,     \* what the operator has made of it
  clusters,\* the clusters that are there, of those a job may select
  writes,  \* how often kubectl users have written
  last,    \* history: the request of the last persisted submit, or Absent
  keep,    \* history: the last word on the ephemeral cluster is a submit's "keep it"
  call,    \* the state of each tool call
  audit    \* the audit records each call has written, oldest first

vars    == <<live, rv, run, clusters, writes, last, keep, call, audit>>
cluster == <<live, rv, run, clusters, writes, last, keep>>

Phase   == {"idle", "preview", "commit", "emit", "read", "delete", "record", "done", "crashed"}
Outcome == {"none", "ok", "conflict", "notFound", "refused", "error"}

(* owns: the cluster the operator created for the job is there. *)
NoRun == [state |-> "none", owns |-> FALSE,
          turned |-> FALSE]    \* history: the job's targets were written after it started

NoCall == [phase |-> "idle", req |-> Absent, body |-> Server!NoValues, out |-> "none",
           id |-> FALSE,       \* the answer carries a jobId
           base |-> 0,         \* history: revision of a delete's read
           reused |-> FALSE,   \* history: the name was taken when the submit persisted
           commits |-> 0]      \* history: writes the server persisted for this call

InFlight(c) == call[c].phase \in {"preview", "commit", "emit", "read", "delete", "record"}

TypeOK ==
  /\ live \in [exists : BOOLEAN, val : [Field -> Value], own : [Field -> SUBSET Manager]]
  /\ rv \in Nat /\ writes \in Nat
  /\ run \in [state : {"none", "running", "ended"}, owns : BOOLEAN, turned : BOOLEAN]
  /\ clusters \in SUBSET Cluster
  /\ last \in Request \union {Absent}
  /\ keep \in BOOLEAN
  /\ call \in [Call -> [phase : Phase, req : Request \union {Absent}, body : [Field -> Value],
                        out : Outcome, id : BOOLEAN, base : Nat, reused : BOOLEAN, commits : Nat]]
  /\ audit \in [Call -> Seq([dry : BOOLEAN, ok : BOOLEAN])]

-----------------------------------------------------------------------------
(* Pure steps of the handlers. *)

(* Mutant: no target is left to KubeRay. *)
NeitherAccepted(r) == r.existing # Absent /\ r.template # Absent

(* bothOrNeither: the request does not name exactly one target. *)
BadTarget(r) == (r.existing = Absent) = (r.template = Absent)

(* validate, BuildJobBase's errors and Merge's identity guard. *)
Refused(r) ==
  \/ ~r.complete
  \/ BadTarget(r)
  \/ r.existing # Absent /\ r.shutdown # Absent
  \/ r.retarget

(* Mutant: the typed field is omitempty, and a false is not sent. *)
ShutdownOmitted(r) ==
  IF r.template = Absent \/ r.shutdown = No THEN Absent ELSE Yes

(* Mutant: the default is left to KubeRay, which keeps the cluster. *)
ShutdownAsGiven(r) == r.shutdown

(* validate: an ephemeral cluster goes with its job unless the caller says otherwise. *)
Shutdown(r) ==
  IF r.template # Absent /\ r.shutdown = Absent THEN Yes ELSE r.shutdown

(* BuildJobBase: the selector wins the switch, the shutdown flag is set after the conversion. *)
JobBase(r) ==
  [f \in Field |-> CASE f = "selector" -> r.existing
                     [] f = "cluster"  -> IF r.existing = Absent THEN r.template ELSE Absent
                     [] f = "shutdown" -> Shutdown(r)]

(* Merge: rawSpec over the base. *)
Merged(r) == [f \in Field |-> IF f \in DOMAIN r.raw THEN r.raw[f] ELSE JobBase(r)[f]]

(* Mutant: a job that keeps its cluster when it ends is taken for attached. *)
EphemeralIfShutdown(val) == val["selector"] = Absent /\ val["shutdown"] = Yes

(* jobIsEphemeral: the job owns a cluster, and a selector wins. *)
JobIsEphemeral(val) == val["selector"] = Absent /\ val["cluster"] # Absent

-----------------------------------------------------------------------------
(* The server's state changes and the operator. *)

Turns(val) == \E f \in {"selector", "cluster"} : val[f] # live.val[f]

(* Persist values and owners; a write that changes nothing makes no revision. *)
Persist(val, own) ==
  LET next == [exists |-> TRUE, val |-> val, own |-> own]
  IN /\ live' = next
     /\ rv' = IF next = live THEN rv ELSE rv + 1
     /\ run' = IF ~live.exists THEN NoRun
               ELSE [run EXCEPT !.turned = @ \/ (run.state # "none" /\ Turns(val))]

(* The job is removed, and the cluster it owns with it. *)
Remove ==
  /\ live' = [exists |-> FALSE, val |-> Server!NoValues, own |-> Server!NoOwners]
  /\ rv' = rv + 1
  /\ run' = NoRun /\ keep' = FALSE /\ last' = Absent

OwnedBy(m, val) == [f \in Field |-> IF val[f] = Absent THEN {} ELSE {m}]

Init ==
  /\ live = [exists |-> FALSE, val |-> Server!NoValues, own |-> Server!NoOwners]
  /\ rv = 0 /\ writes = 0
  /\ clusters \in SUBSET Cluster
  /\ run = NoRun /\ last = Absent /\ keep = FALSE
  /\ call = [c \in Call |-> NoCall]
  /\ audit = [c \in Call |-> <<>>]

KubectlCreate ==
  /\ ~live.exists
  /\ writes < MaxWrites /\ writes' = writes + 1
  /\ Persist(UserJob, OwnedBy(Kubectl, UserJob))
  /\ keep' = FALSE
  /\ UNCHANGED <<clusters, last, call, audit>>

KubectlEdit ==
  /\ live.exists
  /\ writes < MaxWrites /\ writes' = writes + 1
  /\ \E e \in UserEdit :
       LET val == [f \in Field |-> IF f \in DOMAIN e THEN e[f] ELSE live.val[f]]
       IN /\ val # live.val
          /\ Persist(val, [f \in Field |-> Server!WrittenOwners(live, Kubectl, val, f)])
          /\ keep' = (keep /\ val["shutdown"] = live.val["shutdown"])
  /\ UNCHANGED <<clusters, last, call, audit>>

KubectlDelete ==
  /\ live.exists
  /\ writes < MaxWrites /\ writes' = writes + 1
  /\ Remove
  /\ UNCHANGED <<clusters, call, audit>>

(* Others create and delete the clusters that jobs may select. *)
ClustersChange ==
  /\ clusters' \in SUBSET Cluster /\ clusters' # clusters
  /\ UNCHANGED <<live, rv, run, writes, last, keep, call, audit>>

(* The operator starts the job: on the cluster selected, if it is there, else, *)
(* if none is selected, on one that the job owns.                              *)
Start ==
  /\ live.exists /\ run.state = "none"
  /\ \/ live.val["selector"] \in clusters
     \/ live.val["selector"] = Absent /\ live.val["cluster"] # Absent
  /\ run' = [run EXCEPT !.state = "running", !.owns = live.val["selector"] = Absent]
  /\ UNCHANGED <<live, rv, clusters, writes, last, keep, call, audit>>

(* The job ends, and the operator tears down what it created, if the job says so by then. *)
TornDown == run.owns /\ live.val["selector"] = Absent /\ live.val["shutdown"] = Yes

End ==
  /\ run.state = "running"
  /\ run' = [run EXCEPT !.state = "ended", !.owns = @ /\ ~TornDown]
  /\ UNCHANGED <<live, rv, clusters, writes, last, keep, call, audit>>

-----------------------------------------------------------------------------
(* The tool calls. *)

Becomes(c, next) == call' = [call EXCEPT ![c] = next]

(* The call is over: the body it built is gone. *)
Over(c, phase, out) ==
  [call[c] EXCEPT !.phase = phase, !.out = out, !.body = Server!NoValues, !.base = 0]

Finish(c, out) == Becomes(c, Over(c, "done", out))

Record(c, dry, ok) == audit' = [audit EXCEPT ![c] = Append(@, [dry |-> dry, ok |-> ok])]

(* Mutant: a submit over a job that exists starts from that job, as an update does. *)
BeginOverLive(c, r) ==
  LET begun == [call[c] EXCEPT !.req = r]
  IN /\ call[c].phase = "idle"
     /\ Becomes(c, IF r.op = "delete" THEN [begun EXCEPT !.phase = "read"]
                   ELSE IF Refused(r) THEN [begun EXCEPT !.phase = "done", !.out = "refused"]
                   ELSE [begun EXCEPT !.phase = "preview",
                                      !.body = [f \in Field |-> IF Merged(r)[f] # Absent
                                                                THEN Merged(r)[f] ELSE live.val[f]]])
     /\ UNCHANGED <<cluster, audit>>

(* A handler starts: a submit is built from its arguments alone, a delete reads. *)
Begin(c, r) ==
  LET begun == [call[c] EXCEPT !.req = r]
  IN /\ call[c].phase = "idle"
     /\ Becomes(c, IF r.op = "delete" THEN [begun EXCEPT !.phase = "read"]
                   ELSE IF Refused(r) THEN [begun EXCEPT !.phase = "done", !.out = "refused"]
                   ELSE [begun EXCEPT !.phase = "preview", !.body = Merged(r)])
     /\ UNCHANGED <<cluster, audit>>

Clash(c) == Server!Conflicts(live, RayMcp, call[c].body) # {}

(* The unconditional dry run; a user's dry run ends here, with the status it read back. *)
Preview(c) ==
  /\ call[c].phase = "preview"
  /\ \/ /\ ~Clash(c) /\ ~call[c].req.dry
        /\ Becomes(c, [call[c] EXCEPT !.phase = "commit"])
        /\ UNCHANGED audit
     \/ /\ ~Clash(c) /\ call[c].req.dry
        /\ Record(c, TRUE, TRUE)
        /\ Becomes(c, [Over(c, "done", "ok") EXCEPT !.id = run.state # "none",
                                                    !.reused = live.exists])
     \/ /\ Clash(c)
        /\ Record(c, TRUE, FALSE)
        /\ Finish(c, "conflict")
     \/ /\ Record(c, TRUE, FALSE)
        /\ Finish(c, "error")
  /\ UNCHANGED cluster

(* The commit, whose answer may be lost.  It carries the status of the job that has the name. *)
Commit(c) ==
  LET k    == call[c]
      val  == [f \in Field |-> Server!AppliedValue(live, RayMcp, k.body, f)]
  IN /\ k.phase = "commit"
     /\ \/ /\ ~Clash(c)
           /\ Persist(val, [f \in Field |-> Server!AppliedOwners(live, RayMcp, k.body, f)])
           /\ last' = k.req
           /\ keep' = (k.req.shutdown = No /\ "shutdown" \notin DOMAIN k.req.raw)
           /\ \E out \in {"ok", "error"} :
                Becomes(c, [k EXCEPT !.phase = "emit", !.out = out, !.commits = @ + 1,
                                     !.id = run.state # "none", !.reused = live.exists])
           /\ UNCHANGED <<clusters, writes>>
        \/ /\ Clash(c)
           /\ Becomes(c, [k EXCEPT !.phase = "emit", !.out = "conflict"])
           /\ UNCHANGED cluster
        \/ /\ Becomes(c, [k EXCEPT !.phase = "emit", !.out = "error"])
           /\ UNCHANGED cluster
     /\ UNCHANGED audit

(* Mutant: the status in the answer is read after the commit. *)
StatusReadLater(c) ==
  /\ call[c].phase = "emit"
  /\ Record(c, FALSE, call[c].out = "ok")
  /\ Becomes(c, [Over(c, "done", call[c].out) EXCEPT !.id = run.state # "none"])
  /\ UNCHANGED cluster

(* The audit record of a commit, and the answer. *)
Emit(c) ==
  /\ call[c].phase = "emit"
  /\ Record(c, FALSE, call[c].out = "ok")
  /\ Finish(c, call[c].out)
  /\ UNCHANGED cluster

(* A delete's read: no such job, a guard, an ephemeral job without the tier, or go on. *)
DeleteRead(c) ==
  /\ call[c].phase = "read"
  /\ \/ ~live.exists /\ Finish(c, "notFound")
     \/ live.exists /\ Finish(c, "refused")
     \/ Finish(c, "error")
     \/ /\ live.exists /\ ~JobIsEphemeral(live.val)
        /\ Becomes(c, [call[c] EXCEPT !.phase = "delete", !.base = rv])
  /\ UNCHANGED <<cluster, audit>>

(* The deletion, by name; its answer may be lost. *)
Delete(c) ==
  /\ call[c].phase = "delete"
  /\ \/ /\ live.exists /\ Remove
        /\ \E out \in {"ok", "error"} :
             Becomes(c, [call[c] EXCEPT !.phase = "record", !.out = out, !.commits = @ + 1])
        /\ UNCHANGED <<clusters, writes>>
     \/ /\ ~live.exists
        /\ Becomes(c, [call[c] EXCEPT !.phase = "record", !.out = "notFound"])
        /\ UNCHANGED cluster
     \/ /\ Becomes(c, [call[c] EXCEPT !.phase = "record", !.out = "error"])
        /\ UNCHANGED cluster
  /\ UNCHANGED audit

(* Mutant: only what was answered is recorded. *)
RecordAnswered(c) ==
  /\ call[c].phase = "record"
  /\ IF call[c].out = "error" THEN UNCHANGED audit ELSE Record(c, FALSE, call[c].out = "ok")
  /\ Finish(c, call[c].out)
  /\ UNCHANGED cluster

(* The audit record of a deletion, whatever came of it, and the answer. *)
RecordDestructive(c) ==
  /\ call[c].phase = "record"
  /\ Record(c, FALSE, call[c].out = "ok")
  /\ Finish(c, call[c].out)
  /\ UNCHANGED cluster

(* The process dies and restarts: it keeps no state between calls. *)
Crash ==
  /\ \E c \in Call : InFlight(c)
  /\ call' = [c \in Call |-> IF InFlight(c) THEN Over(c, "crashed", "none") ELSE call[c]]
  /\ UNCHANGED <<cluster, audit>>

Step(c) == Preview(c) \/ Commit(c) \/ Emit(c) \/ DeleteRead(c) \/ Delete(c) \/ RecordDestructive(c)

User == KubectlCreate \/ KubectlEdit \/ KubectlDelete

Next ==
  \/ User \/ ClustersChange \/ Start \/ End
  \/ Crash
  \/ \E c \in Call : Step(c) \/ \E r \in Request : Begin(c, r)

(* Requests are answered or fail, goroutines run, and the operator starts what it can. *)
Fairness == WF_vars(Start) /\ \A c \in Call : WF_vars(Step(c))

Spec == Init /\ [][Next]_vars /\ Fairness
-----------------------------------------------------------------------------
(* Properties. *)

(* The server persists the submit of call c. *)
Submits(c) == call[c].phase = "commit" /\ call'[c].commits # call[c].commits

(* What the tool's description promises of a field the request's rawSpec leaves alone. *)
Promised(r, f) ==
  CASE f = "selector" -> r.existing
    [] f = "cluster"  -> r.template
    [] f = "shutdown" -> IF r.existing # Absent THEN Absent
                         ELSE IF r.shutdown = No THEN No ELSE Yes

(***************************************************************************)
(* A submit that is persisted leaves the job as described, whatever job    *)
(* had the name: one target, and an ephemeral cluster that is torn down    *)
(* unless the caller asked to keep it.  Only a rawSpec, or another manager *)
(* that owns a field the submit does not send, makes a difference          *)
(* (job_submit.go, validate; adapters/kuberay/job_submit.go, BuildJobBase).*)
(***************************************************************************)
SubmitIsExact ==
  [][\A c \in Call : Submits(c) =>
       \A f \in Field \ DOMAIN call[c].req.raw :
         \/ live'.val[f] = Promised(call[c].req, f)
         \/ Promised(call[c].req, f) = Absent /\ live.own[f] \ {RayMcp} # {}]_vars

(***************************************************************************)
(* One target: a job selects a cluster and describes one only if a kubectl *)
(* user put one of the two there, or the rawSpec of the last submit did,   *)
(* however many submits in either mode went over it (job_submit.go,        *)
(* validate refuses both; an apply prunes what the last one sent).         *)
(***************************************************************************)
OneTarget ==
  live.val["selector"] # Absent /\ live.val["cluster"] # Absent =>
    \/ \E f \in {"selector", "cluster"} : Kubectl \in live.own[f]
    \/ last # Absent /\ DOMAIN last.raw \intersect {"selector", "cluster"} # {}

(***************************************************************************)
(* "pass false to keep the cluster": the operator never tears down the     *)
(* cluster of a job whose last submit said so, unless somebody wrote the   *)
(* flag since, even over a job whose creator had asked for the teardown    *)
(* (adapters/kuberay/job_submit.go, the flag is set after the conversion,  *)
(* so that a false is sent and owned).                                     *)
(***************************************************************************)
KeptForDebugging == [][keep /\ run.state = "running" /\ run'.state = "ended" => run'.owns = run.owns]_vars

(***************************************************************************)
(* Without the destructive tier a delete takes no cluster down with its    *)
(* job, except when somebody wrote the job between the delete's read and   *)
(* its request, or turned it to another target after its cluster was       *)
(* created (job_submit.go, jobIsEphemeral goes by the targets of the spec).*)
(***************************************************************************)
NoSilentCascade ==
  [][\A c \in Call :
       call[c].phase = "delete" /\ run.owns /\ ~live'.exists /\ call'[c] # call[c]
         => run.turned \/ call[c].base # rv]_vars

(***************************************************************************)
(* An answer with a jobId tells the caller that the name was taken: the id *)
(* is of the job it went over, never of its own (job_submit.go, Submit     *)
(* reads the status from the apply's answer).                              *)
(***************************************************************************)
AnswerTellsReuse ==
  \A c \in Call : call[c].phase = "done" /\ call[c].out = "ok" /\ call[c].id => call[c].reused

(***************************************************************************)
(* Every call that asked the server to write or delete has one record when *)
(* it returns, which tells its outcome, and persisted at most one write    *)
(* (apply.go, Apply and RecordDestructive).                                *)
(***************************************************************************)
OneRecord ==
  \A c \in Call :
    LET k == call[c]
        a == audit[c]
    IN /\ k.commits <= 1 /\ Len(a) <= 1
       /\ k.phase = "done" /\ (k.commits = 1 \/ k.out \in {"ok", "conflict"}) =>
            Len(a) = 1 /\ a[1].ok = (k.out = "ok") /\ (k.commits = 1 => ~a[1].dry)

(***************************************************************************)
(* A submit whose answer was lost may be repeated: the same submit is then *)
(* not refused, conflicts with nobody and changes no value and no owner,   *)
(* so that the operator sees no new job (job_submit.go, Submit is an apply *)
(* of the arguments, over whatever job has the name).                      *)
(***************************************************************************)
ChangesNothing(r, object) ==
  /\ ~Refused(r)
  /\ Server!Conflicts(object, RayMcp, Merged(r)) = {}
  /\ \A f \in Field : /\ Server!AppliedValue(object, RayMcp, Merged(r), f) = object.val[f]
                      /\ Server!AppliedOwners(object, RayMcp, Merged(r), f) = object.own[f]

RepeatIsHarmless ==
  [][\A c \in Call : Submits(c) => ChangesNothing(call[c].req, live')]_vars

(***************************************************************************)
(* A submitted job runs: once a submit has answered success, the job is    *)
(* started in the end, or it is deleted or a rawSpec had taken its target  *)
(* away, if the cluster that the job selects, when it selects one, is      *)
(* there in the end.  Nothing the tool does sees to that: a job that was   *)
(* submitted with success to a cluster that never appears never runs       *)
(* (job_submit.go, validate: neither target is refused, and any name of an *)
(* existing cluster but the empty one is accepted).                        *)
(***************************************************************************)
SelectedIsThere == live.val["selector"] \in clusters \union {Absent}

SubmittedRuns ==
  <>[]SelectedIsThere =>
    \A c \in Call :
      call[c].phase = "done" /\ call[c].out = "ok" /\ call[c].commits = 1 /\ call[c].req.op = "submit"
        ~> \/ run.state # "none" \/ ~live.exists
           \/ \E d \in Call : call[d].req # Absent /\ call[d].req.op = "submit" /\ DOMAIN call[d].req.raw # {}

(***************************************************************************)
(* How a call stands in the contract of write tools.  Neither a submit nor *)
(* a deletion writes anything that it read: each is made of its arguments  *)
(* alone, and has no race to lose.                                         *)
(***************************************************************************)
Dry(r) == r.op = "submit" /\ r.dry

(* Request r may make w of the value v of field f. *)
Overlays(r, f, v, w) ==
  IF r.op = "delete" THEN w = Absent
  ELSE w = Merged(r)[f] \/ (Merged(r)[f] = Absent /\ w = v)

StateOf(k) ==
  IF k.phase \in {"idle", "done", "crashed"} THEN k.phase
  ELSE IF k.commits > 0 THEN "written" ELSE "begun"

Transaction(k) ==
  [state |-> StateOf(k), req |-> k.req, raced |-> {}, writes |-> k.commits,
   answer |-> IF k.phase = "done" THEN k.out ELSE "none"]

Contract == INSTANCE AtomicWrite WITH
  Part <- Field, None <- Absent,
  obj <- live.val, tx <- [c \in Call |-> Transaction(call[c])]

(***************************************************************************)
(* Submit and delete keep the contract of write tools: at most one write   *)
(* per call, of the whole of what was asked, whoever writes meanwhile, and *)
(* an answer that tells of it (job_submit.go, Submit and Delete; apply.go, *)
(* Apply).                                                                 *)
(***************************************************************************)
ImplementsAtomicWrite == Contract!Spec
=============================================================================
