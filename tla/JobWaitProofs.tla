---------------------------- MODULE JobWaitProofs ----------------------------
(***************************************************************************)
(* The safety of the job reads and the bounded wait, for any bounds and    *)
(* any waits that callers pass.                                            *)
(***************************************************************************)
EXTENDS JobWait, TLAPS

(* A poll starts with the sleep over. *)
PollsAwake == call.phase \in {"read", "resolve", "dial"} => call.nap = 0

(* The time slept and the time left add up to no more than the wait. *)
SleepFits ==
  /\ call.phase # "done" =>
       /\ call.left <= ClampWait(call.wait)
       /\ call.left > 0 => call.slept - call.nap + call.left <= ClampWait(call.wait)
  /\ call.slept > 0 => 0 < ClampWait(call.wait) /\ call.slept < ClampWait(call.wait) + Poll

(* A call dials for a submission, and has not met its condition before it answers. *)
CallFits ==
  /\ call.phase \in {"resolve", "dial"} => call.id # 0 /\ ~call.reached
  /\ call.phase = "done" /\ call.reached => call.op = "wait"

IInv == TypeOK /\ PollsAwake /\ SleepFits /\ CallFits
-----------------------------------------------------------------------------
LEMMA ClampType ==
  ASSUME NEW w \in Int
  PROVE  /\ ClampWait(w) \in Nat /\ ClampWait(w) <= MaxWait
         /\ 0 < ClampWait(w) => ClampWait(w) <= w
BY TimeAssumption DEF ClampWait

(* The invariant holds initially. *)
LEMMA InitInv == Init => IInv
<1> SUFFICES ASSUME Init PROVE IInv
  OBVIOUS
<1>1. call = FirstCall /\ FirstCall \in Call
  BY IdAssumption DEF Init, FirstCall, Call, Phase, Operation, Until, Outcome
<1>2. TypeOK
  BY <1>1, IdAssumption DEF Init, TypeOK, NewJob, RayJob, DeploymentStatus
<1>3. ClampWait(0) \in Nat
  BY ClampType
<1>4. PollsAwake /\ SleepFits /\ CallFits
  BY <1>1, <1>3 DEF FirstCall, PollsAwake, SleepFits, CallFits
<1>5. QED
  BY <1>2, <1>4 DEF IInv

(* What others do leaves the call alone. *)
LEMMA EnvironmentInv == IInv /\ Environment => IInv'
<1> SUFFICES ASSUME IInv, Environment PROVE IInv'
  OBVIOUS
<1>1. job \in RayJob /\ ray \in [Id -> JobStatus \union {None}] /\ 0 \in 0 .. MaxId /\ Id \subseteq 0 .. MaxId
  BY IdAssumption DEF IInv, TypeOK, Id
<1>2. job' \in RayJob /\ ray' \in [Id -> JobStatus \union {None}] /\ call' = call
  <2>2. CASE Initialize
    <3>1. PICK i \in Id : job' = [job EXCEPT !.status = "Initializing", !.id = i]
      BY <2>2 DEF Initialize
    <3>2. QED
      BY <1>1, <2>2, <3>1 DEF Initialize, RayJob, DeploymentStatus
  <2>3. CASE Provision
    BY <1>1, <2>3 DEF Provision, RayJob, DeploymentStatus
  <2>4. CASE Settle
    <3>1. PICK s \in Ended : job' = [job EXCEPT !.status = s]
      BY <2>4 DEF Settle
    <3>2. QED
      BY <1>1, <2>4, <3>1 DEF Settle, Ended, RayJob, DeploymentStatus
  <2>5. CASE StartOver \/ KubectlDelete
    <3>1. NewJob \in RayJob /\ [NewJob EXCEPT !.exists = FALSE] \in RayJob
      BY <1>1 DEF NewJob, RayJob, DeploymentStatus
    <3>2. QED
      BY <1>1, <2>5, <3>1 DEF StartOver, KubectlDelete
  <2>6. CASE Submit
    BY <1>1, <2>6 DEF Submit, JobStatus
  <2>7. CASE \E i \in Id : Drive(i)
    BY <1>1, <2>7 DEF Drive, JobStatus
  <2>8. QED
    BY <2>2, <2>3, <2>4, <2>5, <2>6, <2>7 DEF Environment
<1>3. QED
  BY <1>2 DEF IInv, TypeOK, PollsAwake, SleepFits, CallFits

(* A step of the call to a record that keeps the invariant. *)
LEMMA BecomesInv ==
  ASSUME IInv, NEW next \in Call, Becomes(next),
         next.phase \in {"read", "resolve", "dial"} => next.nap = 0,
         next.phase # "done" =>
           /\ next.left <= ClampWait(next.wait)
           /\ next.left > 0 => next.slept - next.nap + next.left <= ClampWait(next.wait),
         next.slept > 0 => 0 < ClampWait(next.wait) /\ next.slept < ClampWait(next.wait) + Poll,
         next.phase \in {"resolve", "dial"} => next.id # 0 /\ ~next.reached,
         next.phase = "done" /\ next.reached => next.op = "wait"
  PROVE  IInv'
<1>1. call' = next /\ job' = job /\ ray' = ray
  BY DEF Becomes
<1>2. TypeOK'
  BY <1>1 DEF IInv, TypeOK
<1>3. PollsAwake'
  BY <1>1 DEF PollsAwake
<1>4. SleepFits'
  BY <1>1 DEF SleepFits, ClampWait
<1>5. CallFits'
  BY <1>1 DEF CallFits
<1>6. QED
  BY <1>2, <1>3, <1>4, <1>5 DEF IInv

(* A new call. *)
LEMMA BeginInv ==
  ASSUME IInv, NEW op \in Operation, NEW until \in Until, NEW wait \in Waits, Begin(op, until, wait)
  PROVE  IInv'
<1> DEFINE left == IF op = "wait" THEN ClampWait(wait) ELSE 0
           next == [FirstCall EXCEPT !.phase = "read", !.op = op, !.until = until, !.wait = wait,
                                     !.left = left]
<1>1. wait \in Int /\ ClampWait(wait) \in Nat /\ left \in Nat /\ left <= ClampWait(wait)
  BY ClampType, TimeAssumption
<1>2. Becomes(next)
  BY DEF Begin
<1> HIDE DEF left
<1>3. /\ next.phase = "read" /\ next.nap = 0 /\ next.slept = 0 /\ next.wait = wait
      /\ next.left = left
  BY DEF FirstCall
<1>4. next \in Call
  <2>1. FirstCall \in Call
    BY IdAssumption DEF FirstCall, Call, Phase, Operation, Until, Outcome
  <2>2. QED
    BY <1>1, <2>1 DEF Call, Phase
<1> HIDE DEF next
<1>5. QED
  BY <1>1, <1>2, <1>3, <1>4, BecomesInv

(* A call fails. *)
LEMMA FailInv == ASSUME IInv, NEW out \in Outcome, Becomes(Fail(out)) PROVE IInv'
<1>1. call \in Call
  BY DEF IInv, TypeOK
<1>2. /\ Fail(out) \in Call /\ Fail(out).phase = "done" /\ ~Fail(out).reached
      /\ Fail(out).slept = call.slept /\ Fail(out).wait = call.wait
  BY <1>1 DEF Fail, FirstCall, Call, Phase, Operation, Until, Outcome
<1>3. QED
  BY <1>2, BecomesInv DEF IInv, SleepFits

(***************************************************************************)
(* A poll ends: the call answers, or it sleeps because time is left.       *)
(***************************************************************************)
LEMMA PolledInv ==
  ASSUME IInv, call.phase \in {"read", "resolve", "dial"}, NEW c \in Call, Becomes(Polled(c)),
         c.wait = call.wait, c.left = call.left, c.slept = call.slept, c.nap = call.nap,
         c.reached => c.op = "wait"
  PROVE  IInv'
<1> DEFINE W == ClampWait(call.wait)
<1>1. call \in Call /\ call.wait \in Int /\ call.left \in Nat /\ call.slept \in Nat /\ call.nap = 0
  BY DEF IInv, TypeOK, Call, PollsAwake
<1>2. W \in Nat /\ Poll \in Nat /\ Poll > 0
  BY <1>1, ClampType, TimeAssumption
<1>3. call.slept > 0 => 0 < W /\ call.slept < W + Poll
  BY DEF IInv, SleepFits
<1>4. CASE c.op # "wait" \/ c.reached \/ call.left = 0
  <2>1. Becomes(Answer(c))
    BY <1>4 DEF Polled
  <2>2. /\ Answer(c) \in Call /\ Answer(c).phase = "done" /\ Answer(c).op = c.op
        /\ Answer(c).reached = c.reached /\ Answer(c).slept = call.slept /\ Answer(c).wait = call.wait
    BY DEF Answer, Call, Phase, Outcome
  <2>3. QED
    BY <1>3, <2>1, <2>2, BecomesInv
<1>5. CASE ~(c.op # "wait" \/ c.reached \/ call.left = 0)
  <2> DEFINE next == [c EXCEPT !.phase = "sleep", !.nap = Poll, !.slept = @ + Poll]
  <2>1. Becomes(next)
    BY <1>5 DEF Polled
  <2>2. /\ next.phase = "sleep" /\ next.nap = Poll /\ next.slept = call.slept + Poll
        /\ next.left = call.left /\ next.wait = call.wait
    BY DEF Call
  <2> next \in Call
    <3>1. c.slept + Poll \in Nat
      BY <1>1, <1>2
    <3>2. QED
      BY <1>2, <3>1 DEF Call, Phase
  <2>3. call.left > 0 /\ call.left <= W /\ call.slept + call.left <= W
    BY <1>1, <1>5 DEF IInv, SleepFits
  <2> HIDE DEF next
  <2>4. QED
    BY <1>1, <1>2, <2>1, <2>2, <2>3, BecomesInv
<1>6. QED
  BY <1>4, <1>5

(* Every step of the call keeps the invariant. *)
LEMMA CallInv ==
  ASSUME IInv, Read \/ ReadFails \/ Resolve \/ Dial \/ Wake \/ Cancel
  PROVE  IInv'
<1>1. /\ call \in Call /\ job \in RayJob /\ ray \in [Id -> JobStatus \union {None}]
      /\ call.nap \in Nat /\ call.left \in Nat /\ call.wait \in Int /\ call.id \in 0 .. MaxId
  BY DEF IInv, TypeOK, Call
<1>2. ASSUME call.phase \in {"resolve", "dial"}, Becomes(Degraded) PROVE IInv'
  <2> DEFINE c == [call EXCEPT !.degraded = TRUE]
  <2>1. /\ c \in Call /\ c.wait = call.wait /\ c.left = call.left /\ c.slept = call.slept
        /\ c.nap = call.nap /\ ~c.reached
    BY <1>1, <1>2 DEF Call, IInv, CallFits
  <2>2. Becomes(Polled(c))
    BY <1>2 DEF Degraded
  <2> HIDE DEF c
  <2>3. QED
    BY <1>2, <2>1, <2>2, PolledInv
<1>3. CASE Read
  <2>1. /\ Fresh \in Call /\ Fresh.wait = call.wait /\ Fresh.left = call.left /\ Fresh.slept = call.slept
        /\ Fresh.nap = call.nap /\ Fresh.op = call.op /\ Fresh.id = job.id /\ ~Fresh.reached
    <3>1. Scheduled(job) \in BOOLEAN /\ job.id \in 0 .. MaxId
      BY <1>1 DEF Scheduled, RayJob
    <3>2. QED
      BY <1>1, <3>1 DEF Fresh, Call
  <2>2. CASE call.op = "wait" /\ Becomes(Polled([Fresh EXCEPT !.reached = TRUE]))
    <3> DEFINE c == [Fresh EXCEPT !.reached = TRUE]
    <3>1. /\ c \in Call /\ c.wait = call.wait /\ c.left = call.left /\ c.slept = call.slept
          /\ c.nap = call.nap /\ c.op = "wait"
      BY <2>1, <2>2 DEF Call
    <3>2. Becomes(Polled(c))
      BY <2>2
    <3> HIDE DEF c
    <3>3. QED
      BY <1>3, <3>1, <3>2, PolledInv DEF Read
  <2>3. CASE Becomes(Polled(Fresh))
    BY <1>3, <2>1, <2>3, PolledInv DEF Read
  <2>4. CASE Scheduled(job) /\ Becomes([Fresh EXCEPT !.phase = "resolve"])
    <3> DEFINE next == [Fresh EXCEPT !.phase = "resolve"]
    <3>1. /\ next \in Call /\ next.wait = call.wait /\ next.left = call.left /\ next.slept = call.slept
          /\ next.nap = call.nap /\ next.phase = "resolve" /\ ~next.reached /\ next.id = job.id
      BY <2>1 DEF Call, Phase
    <3>2. Becomes(next) /\ job.id # 0
      BY <2>4 DEF Scheduled
    <3> HIDE DEF next
    <3>3. QED
      BY <1>3, <3>1, <3>2, BecomesInv DEF Read, IInv, PollsAwake, SleepFits
  <2>5. QED
    BY <1>3, <2>2, <2>3, <2>4 DEF Read
<1>4. CASE ReadFails \/ Cancel
  BY <1>4, FailInv DEF ReadFails, Cancel, Outcome
<1>5. CASE Resolve
  <2>1. CASE Becomes([call EXCEPT !.phase = "dial"])
    <3> DEFINE next == [call EXCEPT !.phase = "dial"]
    <3>1. /\ next \in Call /\ next.wait = call.wait /\ next.left = call.left /\ next.slept = call.slept
          /\ next.nap = call.nap /\ next.phase = "dial" /\ next.reached = call.reached /\ next.id = call.id
      BY <1>1 DEF Call, Phase
    <3>2. Becomes(next)
      BY <2>1
    <3> HIDE DEF next
    <3>3. QED
      BY <1>5, <3>1, <3>2, BecomesInv DEF Resolve, IInv, PollsAwake, SleepFits, CallFits
  <2>2. QED
    BY <1>2, <1>5, <2>1 DEF Resolve
<1>6. CASE Dial
  <2>1. ASSUME ray[call.id] # None,
               Becomes(Polled([call EXCEPT
                 !.live = IF call.op = "logs" THEN None ELSE ray[call.id],
                 !.reached = call.op = "wait" /\ ReachedLive(call.until, ray[call.id])]))
        PROVE  IInv'
    <3> DEFINE live == IF call.op = "logs" THEN None ELSE ray[call.id]
               met  == call.op = "wait" /\ ReachedLive(call.until, ray[call.id])
               c    == [call EXCEPT !.live = live, !.reached = met]
    <3>1. call.id \in Id
      BY <1>1, <1>6 DEF Dial, IInv, CallFits, Id
    <3>2. live \in JobStatus \union {None}
      BY <1>1, <3>1
    <3>3. met \in BOOLEAN /\ (met => call.op = "wait")
      BY DEF ReachedLive, LiveTerminal
    <3>4. Becomes(Polled(c))
      BY <2>1
    <3> HIDE DEF live, met
    <3>5. /\ c \in Call /\ c.wait = call.wait /\ c.left = call.left /\ c.slept = call.slept
          /\ c.nap = call.nap /\ c.op = call.op /\ c.reached = met
      BY <1>1, <3>2, <3>3 DEF Call
    <3> HIDE DEF c
    <3>6. QED
      BY <1>6, <3>3, <3>4, <3>5, PolledInv DEF Dial
  <2>2. CASE Becomes(Fail("notFound"))
    BY <2>2, FailInv DEF Outcome
  <2>3. QED
    BY <1>2, <1>6, <2>1, <2>2 DEF Dial
<1>7. CASE Wake
  <2> DEFINE next == [call EXCEPT !.phase = "read"]
  <2>1. /\ next \in Call /\ next.wait = call.wait /\ next.left = call.left /\ next.slept = call.slept
        /\ next.nap = call.nap /\ next.phase = "read"
    BY <1>1 DEF Call, Phase
  <2>2. Becomes(next) /\ call.nap = 0 /\ call.phase = "sleep"
    BY <1>7 DEF Wake
  <2> HIDE DEF next
  <2>3. QED
    BY <2>1, <2>2, BecomesInv DEF IInv, SleepFits
<1>8. QED
  BY <1>3, <1>4, <1>5, <1>6, <1>7

(* Time passes for a call: what it may still sleep shrinks no slower than what is left. *)
LEMMA TickInv == ASSUME IInv, Tick PROVE IInv'
<1> DEFINE next == [call EXCEPT !.left = Sooner(@), !.nap = Sooner(@)]
<1>1. /\ call \in Call /\ call.nap \in Nat /\ call.left \in Nat /\ call.slept \in Nat
      /\ call.wait \in Int /\ ClampWait(call.wait) \in Nat
  BY ClampType DEF IInv, TypeOK, Call
<1>2. /\ Sooner(call.left) \in Nat /\ Sooner(call.nap) \in Nat
      /\ Sooner(call.left) <= call.left
      /\ Sooner(call.left) > 0 => call.left > 0 /\ Sooner(call.left) = call.left - 1
      /\ Sooner(call.nap) >= call.nap - 1 /\ (call.nap = 0 => Sooner(call.nap) = 0)
  BY <1>1 DEF Sooner
<1>3. /\ next \in Call /\ next.wait = call.wait /\ next.slept = call.slept
      /\ next.left = Sooner(call.left) /\ next.nap = Sooner(call.nap)
      /\ next.phase = call.phase /\ next.reached = call.reached /\ next.id = call.id
  BY <1>1, <1>2 DEF Call
<1>4. Becomes(next) /\ call.phase # "done"
  BY DEF Tick
<1> HIDE DEF next
<1>5. /\ next.left <= ClampWait(call.wait)
      /\ next.left > 0 => next.slept - next.nap + next.left <= ClampWait(call.wait)
  BY <1>1, <1>2, <1>3, <1>4 DEF IInv, SleepFits
<1>6. QED
  BY <1>1, <1>2, <1>3, <1>4, <1>5, BecomesInv DEF IInv, PollsAwake, SleepFits, CallFits

(* Every step keeps the invariant. *)
LEMMA NextInv == IInv /\ [Next]_vars => IInv'
<1> SUFFICES ASSUME IInv, [Next]_vars PROVE IInv'
  OBVIOUS
<1>1. CASE Environment
  BY <1>1, EnvironmentInv
<1>2. CASE \E op \in Operation, until \in Until, wait \in Waits : Begin(op, until, wait)
  BY <1>2, BeginInv
<1>3. CASE Step \/ Cancel
  BY <1>3, CallInv DEF Step
<1>4. CASE Tick
  BY <1>4, TickInv
<1>5. CASE UNCHANGED vars
  BY <1>5 DEF vars, IInv, TypeOK, PollsAwake, SleepFits, CallFits
<1>6. QED
  BY <1>1, <1>2, <1>3, <1>4, <1>5 DEF Next

LEMMA Invariance == Spec => []IInv
BY InitInv, NextInv, PTL DEF Spec
-----------------------------------------------------------------------------
(***************************************************************************)
(* Every reachable state has the declared types, whatever the bounds are   *)
(* and whatever waits callers pass (domain/job.go).                        *)
(***************************************************************************)
THEOREM TypeCorrect == Spec => []TypeOK
<1>1. IInv => TypeOK
  BY DEF IInv
<1>2. QED
  BY <1>1, Invariance, PTL

(***************************************************************************)
(* A wait sleeps for less than its bound plus one poll interval, for any   *)
(* maximum, interval and requested wait (job.go, clampWait and Wait).      *)
(***************************************************************************)
THEOREM WaitsAreBounded == Spec => []SleepsWithinBound
<1>1. IInv => SleepsWithinBound
  <2> SUFFICES ASSUME IInv, call.slept > 0
               PROVE  call.slept < call.wait + Poll /\ call.slept < MaxWait + Poll
    BY DEF SleepsWithinBound
  <2>1. call.wait \in Int /\ call.slept \in Nat
    BY DEF IInv, TypeOK, Call
  <2>2. /\ ClampWait(call.wait) \in Nat /\ ClampWait(call.wait) <= MaxWait
        /\ 0 < ClampWait(call.wait) => ClampWait(call.wait) <= call.wait
    BY <2>1, ClampType
  <2>3. 0 < ClampWait(call.wait) /\ call.slept < ClampWait(call.wait) + Poll
    BY DEF IInv, SleepFits
  <2>4. QED
    BY <2>1, <2>2, <2>3, TimeAssumption
<1>2. QED
  BY <1>1, Invariance, PTL

(* A poll that answers with its condition met observed it: c is the answer up to its outcome. *)
LEMMA AnswersAre ==
  ASSUME NEW c \in Call, Becomes(Polled(c)), Answers, call'.reached
  PROVE  c.reached /\ call'.id = c.id /\ call'.op = c.op /\ call'.until = c.until /\ UNCHANGED <<job, ray>>
BY DEF Becomes, Polled, Answer, Answers, Call

(***************************************************************************)
(* A wait that reports its condition reached is right about the job it     *)
(* read, unless the job was replaced or tried again after the poll read    *)
(* it (job.go, pollOnce).                                                  *)
(***************************************************************************)
THEOREM ReachedIsTrue == Spec => ReachedIsReal
<1> DEFINE Right == Answers /\ call'.reached /\ job.exists /\ job.id = call'.id =>
                      \/ job.status \in Ended
                      \/ /\ job.id # 0 /\ ray[job.id] \notin {None, "PENDING"}
                         /\ call'.until = "terminal" => ray[job.id] # "RUNNING"
<1>1. ASSUME IInv, [Next]_vars PROVE [Right]_vars
  <2> SUFFICES ASSUME Next, Answers, call'.reached, job.id = call'.id
               PROVE  \/ job.status \in Ended
                      \/ /\ job.id # 0 /\ ray[job.id] \notin {None, "PENDING"}
                         /\ call'.until = "terminal" => ray[job.id] # "RUNNING"
    BY <1>1
  <2>1. call \in Call /\ job \in RayJob /\ ray \in [Id -> JobStatus \union {None}]
    BY <1>1 DEF IInv, TypeOK
  <2>2. ASSUME NEW out \in Outcome PROVE ~Becomes(Fail(out))
    BY DEF Becomes, Fail, FirstCall
  <2>3. ASSUME call.phase \in {"resolve", "dial"} PROVE ~Becomes(Degraded)
    <3> DEFINE c == [call EXCEPT !.degraded = TRUE]
    <3>1. c \in Call /\ ~c.reached /\ Degraded = Polled(c)
      BY <1>1, <2>1, <2>3 DEF Call, IInv, CallFits, Degraded
    <3> HIDE DEF c
    <3>2. QED
      BY <3>1, AnswersAre
  <2>4. CASE Read
    <3>1. Fresh \in Call /\ ~Fresh.reached
      <4>1. Scheduled(job) \in BOOLEAN /\ job.id \in 0 .. MaxId
        BY <2>1 DEF Scheduled, RayJob
      <4>2. QED
        BY <2>1, <4>1 DEF Fresh, Call
    <3>2. ~Becomes(Polled(Fresh))
      BY <3>1, AnswersAre
    <3>3. ~Becomes([Fresh EXCEPT !.phase = "resolve"])
      BY <3>1 DEF Becomes, Answers, Call
    <3>4. CrdTerminal(job.status)
      BY <2>4, <3>2, <3>3 DEF Read
    <3>5. QED
      BY <3>4 DEF CrdTerminal, Ended
  <2>5. CASE Dial
    <3> DEFINE live == IF call.op = "logs" THEN None ELSE ray[call.id]
               met  == call.op = "wait" /\ ReachedLive(call.until, ray[call.id])
               c    == [call EXCEPT !.live = live, !.reached = met]
    <3>1. call.id \in Id
      BY <1>1, <2>1, <2>5 DEF Dial, IInv, CallFits, Id, Call
    <3>2. live \in JobStatus \union {None} /\ met \in BOOLEAN
      BY <2>1, <3>1 DEF ReachedLive, LiveTerminal
    <3>3. ray[call.id] # None /\ Becomes(Polled(c))
      BY <2>2, <2>3, <2>5 DEF Dial, Outcome
    <3> HIDE DEF live, met
    <3>4. c \in Call /\ c.reached = met /\ c.id = call.id /\ c.until = call.until
      BY <2>1, <3>2 DEF Call
    <3> HIDE DEF c
    <3>5. met /\ call'.id = call.id /\ call'.until = call.until
      BY <3>3, <3>4, AnswersAre
    <3>6. ReachedLive(call.until, ray[call.id]) /\ call.until \in Until
      BY <2>1, <3>5 DEF met, Call
    <3>7. QED
      BY <1>1, <2>5, <3>1, <3>3, <3>5, <3>6 DEF ReachedLive, LiveTerminal, Until, Id, Dial
  <2>6. CASE Environment
    BY <2>6 DEF Environment, Initialize, Provision, Submit, Drive, Settle, StartOver, KubectlDelete, Answers
  <2>7. CASE \E op \in Operation, until \in Until, wait \in Waits : Begin(op, until, wait)
    BY <2>7 DEF Begin, Becomes, FirstCall, Answers
  <2>8. CASE Resolve \/ Wake
    BY <2>1, <2>3, <2>8 DEF Resolve, Wake, Becomes, Answers, Call
  <2>9. CASE Tick
    BY <2>1, <2>9 DEF Tick, Becomes, Answers, Call
  <2>10. CASE ReadFails \/ Cancel
    BY <2>2, <2>10 DEF ReadFails, Cancel, Outcome
  <2>11. QED
    BY <2>4, <2>5, <2>6, <2>7, <2>8, <2>9, <2>10 DEF Next, Step
<1>2. QED
  BY <1>1, Invariance, PTL DEF Spec, ReachedIsReal
=============================================================================
