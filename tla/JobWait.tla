------------------------------- MODULE JobWait -------------------------------
(***************************************************************************)
(* ray_job_get, ray_job_logs and ray_job_wait: reads of a RayJob in two    *)
(* planes, the operator's record on the API server and the Ray dashboard   *)
(* behind it, while the job starts, stops, is tried again or replaced.     *)
(*                                                                         *)
(* A call reads the record, dials the dashboard only when the record says  *)
(* that the head is provisioned, and degrades to the record when the       *)
(* dashboard is out of reach.  A wait repeats that until its condition is  *)
(* met or its time is up.  Calls share no state but the tunnels (see       *)
(* TunnelPool), so one call at a time is modelled.                         *)
(***************************************************************************)
EXTENDS Integers

CONSTANTS
  MaxWait,    \* the longest wait, in units of time
  Poll,       \* the time between two polls
  Waits,      \* waitSeconds that callers pass
  None,       \* no status
  MaxId       \* bound: submissions

ASSUME TimeAssumption == MaxWait \in Nat /\ Poll \in Nat \ {0} /\ Waits \subseteq Int
ASSUME IdAssumption   == MaxId \in Nat

Id == 1 .. MaxId

VARIABLES
  job,    \* the RayJob on the API server
  ray,    \* what the dashboards know of each submission
  call    \* the call in flight, or the last one

vars == <<job, ray, call>>

DeploymentStatus == {"New", "Initializing", "Running", "Complete", "Failed", "ValidationFailed"}
Ended            == {"Complete", "Failed", "ValidationFailed"}
JobStatus        == {"PENDING", "RUNNING", "SUCCEEDED", "FAILED", "STOPPED"}

(* id: the submission id the operator generated, 0 before; url: the dashboard's URL is set. *)
RayJob == [exists : BOOLEAN, status : DeploymentStatus, id : 0 .. MaxId, url : BOOLEAN]

Operation == {"get", "logs", "wait"}
Until     == {"running", "terminal"}
Phase     == {"idle", "read", "resolve", "dial", "sleep", "done"}
Outcome   == {"none", "ok", "notFound", "error"}

Call ==
  [phase : Phase, op : Operation, until : Until,
   wait : Int,                                   \* the waitSeconds it was passed
   left : Nat,                                   \* the time to the deadline
   nap : Nat,                                    \* the time to sleep on
   slept : Nat,                                  \* history: all the time it slept
   id : 0 .. MaxId,                              \* the submission it read
   out : Outcome,
   reached : BOOLEAN, scheduled : BOOLEAN, degraded : BOOLEAN,
   live : JobStatus \union {None}]

TypeOK == job \in RayJob /\ ray \in [Id -> JobStatus \union {None}] /\ call \in Call

-----------------------------------------------------------------------------
(* The conditions. *)

(* Mutant: the operator's Running is taken for the job's. *)
CrdStarted(status) == status \in {"Running", "Complete", "Failed", "ValidationFailed"}

CrdTerminal(status) == status \in {"Complete", "Failed", "ValidationFailed"}

LiveTerminal(status) == status \in {"SUCCEEDED", "FAILED", "STOPPED"}

ReachedLive(until, status) ==
  IF until = "terminal" THEN LiveTerminal(status) ELSE status # "PENDING"

(* The dial gate. *)
Scheduled(j) == j.id # 0 /\ j.url

(* Mutant: the range is clamped on one side only. *)
ClampBelow(wait) == IF wait < 0 THEN 0 ELSE wait

ClampWait(wait) == IF wait < 0 THEN 0 ELSE IF wait > MaxWait THEN MaxWait ELSE wait

-----------------------------------------------------------------------------
(* The job: the operator, Ray and the job's owners. *)

NewJob == [exists |-> TRUE, status |-> "New", id |-> 0, url |-> FALSE]

FirstCall == [phase |-> "idle", op |-> "get", until |-> "running", wait |-> 0, left |-> 0,
              nap |-> 0, slept |-> 0, id |-> 0, out |-> "none", reached |-> FALSE,
              scheduled |-> FALSE, degraded |-> FALSE, live |-> None]

Init ==
  /\ job = NewJob
  /\ ray = [i \in Id |-> None]
  /\ call = FirstCall

(* The operator generates a submission id nobody has had. *)
Initialize ==
  /\ job.exists /\ job.status = "New"
  /\ \E i \in Id :
       /\ ray[i] = None /\ \A j \in 1 .. i - 1 : ray[j] # None
       /\ job' = [job EXCEPT !.status = "Initializing", !.id = i]
  /\ UNCHANGED <<ray, call>>

(* The cluster is ready: its dashboard's URL is known, the submitter is started. *)
Provision ==
  /\ job.exists /\ job.status = "Initializing"
  /\ job' = [job EXCEPT !.url = TRUE, !.status = "Running"]
  /\ UNCHANGED <<ray, call>>

(* The submitter submits, and the driver runs and ends. *)
Submit ==
  /\ job.exists /\ job.status = "Running" /\ ray[job.id] = None
  /\ ray' = [ray EXCEPT ![job.id] = "PENDING"]
  /\ UNCHANGED <<job, call>>

Drive(i) ==
  /\ \/ ray[i] = "PENDING" /\ \E s \in {"RUNNING", "FAILED", "STOPPED"} : ray' = [ray EXCEPT ![i] = s]
     \/ ray[i] = "RUNNING" /\ \E s \in {"SUCCEEDED", "FAILED", "STOPPED"} : ray' = [ray EXCEPT ![i] = s]
  /\ UNCHANGED <<job, call>>

(* The operator records the end, or gives the job up before it has started. *)
Settle ==
  /\ job.exists /\ job.status \notin Ended
  /\ \E s \in Ended :
       /\ s = "Complete" => job.id # 0 /\ ray[job.id] = "SUCCEEDED"
       /\ s = "ValidationFailed" => job.status = "New"
       /\ job' = [job EXCEPT !.status = s]
  /\ UNCHANGED <<ray, call>>

(* The operator tries again, or the owner creates the job anew. *)
StartOver ==
  /\ job' = NewJob
  /\ UNCHANGED <<ray, call>>

KubectlDelete ==
  /\ job.exists
  /\ job' = [NewJob EXCEPT !.exists = FALSE]
  /\ UNCHANGED <<ray, call>>

-----------------------------------------------------------------------------
(* The call. *)

Becomes(next) == call' = next /\ UNCHANGED <<job, ray>>

Begin(op, until, wait) ==
  /\ call.phase \in {"idle", "done"}
  /\ Becomes([FirstCall EXCEPT !.phase = "read", !.op = op, !.until = until, !.wait = wait,
                               !.left = IF op = "wait" THEN ClampWait(wait) ELSE 0])

(* The call answers, or fails. *)
Answer(c) == [c EXCEPT !.phase = "done", !.out = "ok"]
Fail(out) == [FirstCall EXCEPT !.phase = "done", !.op = call.op, !.until = call.until,
                               !.wait = call.wait, !.slept = call.slept, !.id = call.id, !.out = out]

(***************************************************************************)
(* What a poll observed, c, is the answer of a get and a logs, and of a    *)
(* wait that reached its condition or its deadline; else the wait sleeps.  *)
(***************************************************************************)
Polled(c) ==
  IF c.op # "wait" \/ c.reached \/ call.left = 0
  THEN Answer(c)
  ELSE [c EXCEPT !.phase = "sleep", !.nap = Poll, !.slept = @ + Poll]

(* Nothing observed yet. *)
Fresh == [call EXCEPT !.id = job.id, !.reached = FALSE, !.scheduled = Scheduled(job),
                      !.degraded = FALSE, !.live = None]

(* Mutant: a wait asks the dashboard of a stopped job too. *)
ReadWithoutShortcut ==
  /\ call.phase = "read" /\ job.exists
  /\ Becomes(IF ~Scheduled(job) THEN Polled(Fresh) ELSE [Fresh EXCEPT !.phase = "resolve"])

(***************************************************************************)
(* Phase 1 reads the record.  A record that is terminal meets both         *)
(* conditions of a wait; one that is not past the dial gate is the answer  *)
(* of the poll.                                                            *)
(***************************************************************************)
Read ==
  /\ call.phase = "read" /\ job.exists
  /\ Becomes(IF call.op = "wait" /\ CrdTerminal(job.status) THEN Polled([Fresh EXCEPT !.reached = TRUE])
             ELSE IF ~Scheduled(job) THEN Polled(Fresh)
             ELSE [Fresh EXCEPT !.phase = "resolve"])

(* There is no such job, the API server fails, or the caller has gone. *)
ReadFails ==
  /\ call.phase = "read"
  /\ \E out \in {"notFound", "error"} : (out = "notFound" => ~job.exists) /\ Becomes(Fail(out))

Degraded == Polled([call EXCEPT !.degraded = TRUE])

(* The head is found, or there is no head service, no running head pod, no tunnel. *)
Resolve ==
  /\ call.phase = "resolve"
  /\ Becomes([call EXCEPT !.phase = "dial"]) \/ Becomes(Degraded)

(***************************************************************************)
(* Phase 2 asks the dashboard for the submission that phase 1 read.  An    *)
(* unknown submission is a 404; a dashboard out of reach degrades.         *)
(***************************************************************************)
Dial ==
  /\ call.phase = "dial"
  /\ \/ /\ ray[call.id] # None
        /\ Becomes(Polled([call EXCEPT
             !.live = IF call.op = "logs" THEN None ELSE ray[call.id],
             !.reached = call.op = "wait" /\ ReachedLive(call.until, ray[call.id])]))
     \/ ray[call.id] = None /\ Becomes(Fail("notFound"))
     \/ Becomes(Degraded)

Wake == call.phase = "sleep" /\ call.nap = 0 /\ Becomes([call EXCEPT !.phase = "read"])

(* The caller cancels a wait. *)
Cancel == call.phase = "sleep" /\ Becomes(Fail("error"))

Sooner(t) == IF t = 0 THEN 0 ELSE t - 1

Tick ==
  /\ call.phase \notin {"idle", "done"}
  /\ Becomes([call EXCEPT !.left = Sooner(@), !.nap = Sooner(@)])

-----------------------------------------------------------------------------
Environment ==
  Initialize \/ Provision \/ Submit \/ Settle \/ StartOver \/ KubectlDelete \/ \E i \in Id : Drive(i)

Step == Read \/ ReadFails \/ Resolve \/ Dial \/ Wake

Next ==
  \/ Environment
  \/ \E op \in Operation, until \in Until, wait \in Waits : Begin(op, until, wait)
  \/ Step \/ Cancel
  \/ Tick

(* Requests are answered or fail, timers fire and time passes. *)
Fairness == WF_vars(Step) /\ WF_vars(Tick)

Spec == Init /\ [][Next]_vars /\ Fairness

(* An agent that waits for the job again and again; some of its reads succeed. *)
PersistentSpec ==
  /\ Spec
  /\ SF_vars(\E until \in Until, wait \in Waits : Begin("wait", until, wait))
  /\ SF_vars(call.op = "wait" /\ Read)
-----------------------------------------------------------------------------
(* Properties. *)

(* The poll of a wait that answers. *)
Answers == call.phase # "done" /\ call'.phase = "done" /\ call'.op = "wait"

(***************************************************************************)
(* A wait sleeps for less than its bound plus one poll interval, for no    *)
(* more than the maximum whatever it was passed, and not at all for a      *)
(* bound of zero or less (job.go, clampWait and Wait).                     *)
(***************************************************************************)
SleepsWithinBound ==
  call.slept > 0 => call.slept < call.wait + Poll /\ call.slept < MaxWait + Poll

(***************************************************************************)
(* A wait that reports its condition reached is right about the job, by    *)
(* its record or by its driver, unless the job was replaced or tried again *)
(* after the poll read it: the record's Running is not a driver that runs, *)
(* and a degraded poll is no evidence (job.go, pollOnce).                  *)
(***************************************************************************)
ReachedIsReal ==
  [][Answers /\ call'.reached /\ job.exists /\ job.id = call'.id =>
       \/ job.status \in Ended
       \/ /\ job.id # 0 /\ ray[job.id] \notin {None, "PENDING"}
          /\ call'.until = "terminal" => ray[job.id] # "RUNNING"]_vars

(***************************************************************************)
(* A job whose record says that it stopped is reported by some wait, even  *)
(* if it stopped before it had a submission id and if no dashboard ever    *)
(* answers (job.go, pollOnce: the record decides before the dial).         *)
(***************************************************************************)
StoppedIsReported ==
  []<>(~job.exists \/ job.status \notin Ended \/ (call.phase = "done" /\ call.reached))
=============================================================================
