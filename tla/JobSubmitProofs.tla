---------------------------- MODULE JobSubmitProofs ----------------------------
(***************************************************************************)
(* What holds of ray_job_submit for any number of calls, requests,         *)
(* clusters, templates and kubectl writes.                                 *)
(***************************************************************************)
EXTENDS JobSubmit, TLAPS

Live == [exists : BOOLEAN, val : [Field -> Value], own : [Field -> SUBSET Manager]]

Run == [state : {"none", "running", "ended"}, owns : BOOLEAN, turned : BOOLEAN]

CallRecord == [phase : Phase, req : Request \union {Absent}, body : [Field -> Value],
               out : Outcome, id : BOOLEAN, base : Nat, reused : BOOLEAN, commits : Nat]

Applied(c) == [f \in Field |-> Server!AppliedValue(live, RayMcp, call[c].body, f)]
Owners(c)  == [f \in Field |-> Server!AppliedOwners(live, RayMcp, call[c].body, f)]

LEMMA NothingType ==
  Server!NoValues \in [Field -> Value] /\ Server!NoOwners \in [Field -> SUBSET Manager]
BY DEF Server!NoValues, Server!NoOwners, Value

LEMMA MergedType ==
  ASSUME NEW r \in Request, r.op = "submit" PROVE Merged(r) \in [Field -> Value]
<1>1. IsSubmit(r)
  BY RequestAssumption DEF IsDelete
<1>2. /\ r.existing \in Cluster \union {Absent} /\ r.template \in Template \union {Absent}
      /\ r.shutdown \in {Absent, Yes, No} /\ IsOverlay(r.raw)
  BY <1>1 DEF IsSubmit
<1>3. JobBase(r) \in [Field -> Value]
  BY <1>2 DEF JobBase, Shutdown, Value, Field
<1> QED BY <1>2, <1>3 DEF Merged, IsOverlay

LEMMA SubmitOrDelete ==
  ASSUME NEW r \in Request PROVE r.op \in {"submit", "delete"}
BY RequestAssumption DEF IsDelete, IsSubmit

(* A call that has begun has a request; only a submit has a body to apply. *)
Begun ==
  \A c \in Call :
    /\ call[c].phase # "idle" => call[c].req \in Request
    /\ call[c].phase \in {"preview", "commit"} =>
         /\ call[c].req.op = "submit" /\ ~Refused(call[c].req)
         /\ call[c].body = Merged(call[c].req)

TypeInv == TypeOK /\ Begun

BegunState(r) ==
  /\ r.phase # "idle" => r.req \in Request
  /\ r.phase \in {"preview", "commit"} => r.req.op = "submit" /\ ~Refused(r.req) /\ r.body = Merged(r.req)

LEMMA AppliedType ==
  ASSUME TypeInv, NEW c \in Call
  PROVE Applied(c) \in [Field -> Value] /\ Owners(c) \in [Field -> SUBSET Manager]
<1>1. live \in Live /\ call[c].body \in [Field -> Value]
  BY DEF TypeInv, TypeOK, Live
<1> QED BY <1>1 DEF Applied, Owners, Live, Server!AppliedValue, Server!AppliedOwners, Value, Manager

LEMMA PersistType ==
  ASSUME TypeInv, NEW val \in [Field -> Value], NEW own \in [Field -> SUBSET Manager], Persist(val, own)
  PROVE live' \in Live /\ rv' \in Nat /\ run' \in Run
<1>1. live \in Live /\ rv \in Nat /\ run \in Run
  BY DEF TypeInv, TypeOK, Live, Run
<1>2. live' \in Live /\ rv' \in Nat
  BY <1>1 DEF Persist, Live
<1>3. NoRun \in Run
  BY DEF NoRun, Run
<1>4. \A t \in BOOLEAN : [run EXCEPT !.turned = t] \in Run
  BY <1>1 DEF Run
<1>5. (run.turned \/ (run.state # "none" /\ Turns(val))) \in BOOLEAN
  BY <1>1 DEF Run
<1>6. run' \in Run
  <2>1. CASE ~live.exists
    BY <1>3, <2>1 DEF Persist
  <2>2. CASE live.exists
    <3> DEFINE t == run.turned \/ (run.state # "none" /\ Turns(val))
    <3>1. run' = [run EXCEPT !.turned = t]
      BY <2>2 DEF Persist
    <3>2. t \in BOOLEAN
      BY <1>5
    <3> HIDE DEF t
    <3> QED BY <1>4, <3>1, <3>2
  <2> QED BY <2>1, <2>2
<1> QED BY <1>2, <1>6

LEMMA RemoveType ==
  ASSUME TypeInv, Remove
  PROVE live' \in Live /\ rv' \in Nat /\ run' \in Run /\ keep' \in BOOLEAN /\ last' \in Request \union {Absent}
<1>1. live' \in Live
  BY NothingType DEF Remove, Live
<1>2. NoRun \in Run
  BY DEF Run, NoRun
<1>3. rv' \in Nat
  BY DEF TypeInv, TypeOK, Remove
<1> QED BY <1>1, <1>2, <1>3 DEF Remove

LEMMA TypeInvInit == Init => TypeInv
<1> SUFFICES ASSUME Init PROVE TypeInv
  OBVIOUS
<1>1. live \in Live
  BY NothingType DEF Init, Live
<1>2. run \in Run
  BY DEF Init, Run, NoRun
<1>3. NoCall \in CallRecord /\ NoCall.phase = "idle"
  BY NothingType DEF NoCall, CallRecord, Phase, Outcome
<1>4. call \in [Call -> CallRecord] /\ Begun
  BY <1>3 DEF Init, Begun
<1>5. rv \in Nat /\ writes \in Nat /\ clusters \in SUBSET Cluster /\ last \in Request \union {Absent} /\ keep \in BOOLEAN
  BY DEF Init
<1>6. audit \in [Call -> Seq([dry : BOOLEAN, ok : BOOLEAN])]
  BY DEF Init
<1> QED BY <1>1, <1>2, <1>4, <1>5, <1>6 DEF TypeInv, TypeOK, Live, Run, CallRecord

LEMMA MovedType ==
  ASSUME TypeInv, NEW c \in Call, NEW next \in CallRecord, BegunState(next), Becomes(c, next)
  PROVE /\ call' \in [Call -> CallRecord] /\ Begun'
        /\ \A d \in Call : call'[d] = IF d = c THEN next ELSE call[d]
BY DEF TypeInv, TypeOK, Begun, BegunState, Becomes, CallRecord

LEMMA RecordType ==
  ASSUME TypeInv, NEW c \in Call, NEW dry \in BOOLEAN, NEW ok \in BOOLEAN, Record(c, dry, ok)
  PROVE audit' \in [Call -> Seq([dry : BOOLEAN, ok : BOOLEAN])]
BY DEF TypeInv, TypeOK, Record

LEMMA OverType ==
  ASSUME TypeInv, NEW c \in Call, NEW phase \in {"done", "crashed"}, NEW out \in Outcome
  PROVE LET next == Over(c, phase, out)
        IN /\ next \in CallRecord
           /\ next.phase = phase /\ next.out = out /\ next.req = call[c].req /\ next.base = 0
           /\ next.id = call[c].id /\ next.reused = call[c].reused /\ next.commits = call[c].commits
<1>1. call[c] \in CallRecord
  BY DEF TypeInv, TypeOK, CallRecord
<1> QED BY <1>1, NothingType DEF Over, CallRecord, Phase

-----------------------------------------------------------------------------
(* Each step of a call, told by the fields of the state it leaves the call in. *)

(* next differs from call c in its phase, outcome, body and base alone. *)
Carries(c, next) ==
  /\ next.req = call[c].req /\ next.id = call[c].id
  /\ next.reused = call[c].reused /\ next.commits = call[c].commits

LEMMA FinishMoves ==
  ASSUME TypeInv, NEW c \in Call, call[c].phase # "idle", NEW out \in Outcome, Finish(c, out)
  PROVE \E next \in CallRecord : /\ Becomes(c, next) /\ BegunState(next) /\ Carries(c, next)
                                 /\ next.phase = "done" /\ next.out = out
<1>1. Becomes(c, Over(c, "done", out))
  BY DEF Finish
<1>2. call[c].req \in Request
  BY DEF TypeInv, Begun
<1> QED BY <1>1, <1>2, OverType DEF BegunState, Carries

LEMMA BeginMoves ==
  ASSUME TypeInv, NEW c \in Call, NEW r \in Request, Begin(c, r)
  PROVE \E next \in CallRecord :
          /\ Becomes(c, next) /\ BegunState(next) /\ next.req = r
          /\ next.id = call[c].id /\ next.reused = call[c].reused /\ next.commits = call[c].commits
          /\ next.phase \in {"read", "preview"} \/ (next.phase = "done" /\ next.out = "refused")
          /\ next.phase = "read" => r.op = "delete"
          /\ call[c].phase = "idle" /\ UNCHANGED <<cluster, audit>>
<1> DEFINE begun   == [call[c] EXCEPT !.req = r]
           read    == [begun EXCEPT !.phase = "read"]
           refused == [begun EXCEPT !.phase = "done", !.out = "refused"]
           built   == [begun EXCEPT !.phase = "preview", !.body = Merged(r)]
<1>1. call[c] \in CallRecord /\ call[c].phase = "idle" /\ UNCHANGED <<cluster, audit>>
  BY DEF Begin, TypeInv, TypeOK, CallRecord
<1>2. /\ begun \in CallRecord /\ begun.req = r /\ begun.id = call[c].id
      /\ begun.reused = call[c].reused /\ begun.commits = call[c].commits
  BY <1>1 DEF CallRecord
<1>3. CASE r.op = "delete" /\ Becomes(c, read)
  <2>1. /\ read \in CallRecord /\ read.phase = "read" /\ read.req = r /\ read.id = call[c].id
        /\ read.reused = call[c].reused /\ read.commits = call[c].commits
    BY <1>2 DEF CallRecord, Phase
  <2> HIDE DEF read, begun
  <2> QED BY <1>1, <1>3, <2>1 DEF BegunState
<1>4. CASE Becomes(c, refused)
  <2>1. /\ refused \in CallRecord /\ refused.phase = "done" /\ refused.out = "refused"
        /\ refused.req = r /\ refused.id = call[c].id
        /\ refused.reused = call[c].reused /\ refused.commits = call[c].commits
    BY <1>2 DEF CallRecord, Phase, Outcome
  <2> HIDE DEF refused, begun
  <2> QED BY <1>1, <1>4, <2>1 DEF BegunState
<1>5. CASE r.op # "delete" /\ ~Refused(r) /\ Becomes(c, built)
  <2>1. r.op = "submit" /\ Merged(r) \in [Field -> Value]
    BY <1>5, SubmitOrDelete, MergedType
  <2>2. /\ built \in CallRecord /\ built.phase = "preview" /\ built.body = Merged(r)
        /\ built.req = r /\ built.id = call[c].id
        /\ built.reused = call[c].reused /\ built.commits = call[c].commits
    BY <1>2, <2>1 DEF CallRecord, Phase
  <2> HIDE DEF built, begun
  <2> QED BY <1>1, <1>5, <2>1, <2>2 DEF BegunState
<1> QED BY <1>3, <1>4, <1>5 DEF Begin

LEMMA PreviewMoves ==
  ASSUME TypeInv, NEW c \in Call, Preview(c)
  PROVE \E next \in CallRecord :
          /\ Becomes(c, next) /\ BegunState(next)
          /\ next.req = call[c].req /\ next.commits = call[c].commits
          /\ \/ /\ next.phase = "commit" /\ Carries(c, next) /\ ~call[c].req.dry /\ UNCHANGED audit
             \/ /\ next.phase = "done" /\ next.out = "ok" /\ call[c].req.dry /\ Record(c, TRUE, TRUE)
                /\ next.id = (run.state # "none") /\ next.reused = live.exists
             \/ /\ next.phase = "done" /\ next.out \in {"conflict", "error"} /\ Carries(c, next)
                /\ Record(c, TRUE, FALSE)
          /\ call[c].phase = "preview" /\ UNCHANGED cluster
<1>1. call[c] \in CallRecord /\ call[c].phase = "preview" /\ BegunState(call[c]) /\ UNCHANGED cluster
  BY DEF Preview, TypeInv, TypeOK, CallRecord, Begun, BegunState
<1>2. CASE ~call[c].req.dry /\ Becomes(c, [call[c] EXCEPT !.phase = "commit"]) /\ UNCHANGED audit
  <2> DEFINE next == [call[c] EXCEPT !.phase = "commit"]
  <2>1. next \in CallRecord /\ next.phase = "commit" /\ Carries(c, next) /\ next.body = call[c].body
    BY <1>1 DEF CallRecord, Phase, Carries
  <2>2. BegunState(next)
    BY <1>1, <2>1 DEF BegunState, Carries
  <2> HIDE DEF next
  <2> QED BY <1>1, <1>2, <2>1, <2>2 DEF Carries, next
<1>3. CASE /\ call[c].req.dry /\ Record(c, TRUE, TRUE)
           /\ Becomes(c, [Over(c, "done", "ok") EXCEPT !.id = run.state # "none", !.reused = live.exists])
  <2> DEFINE over == Over(c, "done", "ok")
             next == [over EXCEPT !.id = run.state # "none", !.reused = live.exists]
  <2>1. over \in CallRecord /\ over.phase = "done" /\ over.out = "ok" /\ Carries(c, over)
    BY OverType DEF Outcome, Carries
  <2>2. (run.state # "none") \in BOOLEAN /\ live.exists \in BOOLEAN
    BY DEF TypeInv, TypeOK
  <2>3. Becomes(c, next)
    BY <1>3
  <2> HIDE DEF over
  <2>4. /\ next \in CallRecord /\ next.phase = "done" /\ next.out = "ok" /\ next.req = call[c].req
        /\ next.commits = call[c].commits /\ next.id = (run.state # "none") /\ next.reused = live.exists
    BY <2>1, <2>2 DEF CallRecord, Carries
  <2> HIDE DEF next
  <2>5. BegunState(next)
    BY <1>1, <2>4 DEF BegunState
  <2> QED BY <1>1, <1>3, <2>3, <2>4, <2>5
<1>4. CASE \E out \in {"conflict", "error"} : Record(c, TRUE, FALSE) /\ Finish(c, out)
  <2>1. PICK out \in {"conflict", "error"} : Record(c, TRUE, FALSE) /\ Finish(c, out)
    BY <1>4
  <2>2. \E next \in CallRecord : /\ Becomes(c, next) /\ BegunState(next) /\ Carries(c, next)
                                 /\ next.phase = "done" /\ next.out = out
    BY <1>1, <2>1, FinishMoves DEF Outcome
  <2> QED BY <1>1, <2>1, <2>2 DEF Carries
<1> QED BY <1>2, <1>3, <1>4 DEF Preview

LEMMA CommitMoves ==
  ASSUME TypeInv, NEW c \in Call, Commit(c)
  PROVE \E next \in CallRecord :
          /\ Becomes(c, next) /\ BegunState(next) /\ next.req = call[c].req /\ next.phase = "emit"
          /\ \/ /\ ~Clash(c) /\ Persist(Applied(c), Owners(c))
                /\ last' = call[c].req /\ UNCHANGED <<clusters, writes>>
                /\ keep' = (call[c].req.shutdown = No /\ "shutdown" \notin DOMAIN call[c].req.raw)
                /\ next.out \in {"ok", "error"} /\ next.commits = call[c].commits + 1
                /\ next.id = (run.state # "none") /\ next.reused = live.exists
             \/ next.out \in {"conflict", "error"} /\ Carries(c, next) /\ UNCHANGED cluster
          /\ call[c].phase = "commit" /\ UNCHANGED audit
<1>1. call[c] \in CallRecord /\ call[c].phase = "commit" /\ BegunState(call[c]) /\ UNCHANGED audit
  BY DEF Commit, TypeInv, TypeOK, CallRecord, Begun, BegunState
<1>2. CASE \E out \in {"conflict", "error"} :
             Becomes(c, [call[c] EXCEPT !.phase = "emit", !.out = out]) /\ UNCHANGED cluster
  <2>1. PICK out \in {"conflict", "error"} :
             Becomes(c, [call[c] EXCEPT !.phase = "emit", !.out = out]) /\ UNCHANGED cluster
    BY <1>2
  <2> DEFINE next == [call[c] EXCEPT !.phase = "emit", !.out = out]
  <2>2. next \in CallRecord /\ next.phase = "emit" /\ next.out = out /\ Carries(c, next)
    BY <1>1 DEF CallRecord, Phase, Outcome, Carries
  <2>3. BegunState(next)
    BY <1>1, <2>2 DEF BegunState, Carries
  <2> HIDE DEF next
  <2> QED BY <1>1, <2>1, <2>2, <2>3 DEF Carries, next
<1>3. CASE ~(\E out \in {"conflict", "error"} :
               Becomes(c, [call[c] EXCEPT !.phase = "emit", !.out = out]) /\ UNCHANGED cluster)
  <2>1. /\ ~Clash(c) /\ Persist(Applied(c), Owners(c)) /\ last' = call[c].req /\ UNCHANGED <<clusters, writes>>
        /\ keep' = (call[c].req.shutdown = No /\ "shutdown" \notin DOMAIN call[c].req.raw)
    BY <1>3 DEF Commit, Applied, Owners
  <2>2. PICK out \in {"ok", "error"} :
          Becomes(c, [call[c] EXCEPT !.phase = "emit", !.out = out, !.commits = @ + 1,
                                     !.id = run.state # "none", !.reused = live.exists])
    BY <1>3 DEF Commit
  <2> DEFINE next == [call[c] EXCEPT !.phase = "emit", !.out = out, !.commits = @ + 1,
                                     !.id = run.state # "none", !.reused = live.exists]
  <2>3. (run.state # "none") \in BOOLEAN /\ live.exists \in BOOLEAN /\ call[c].commits + 1 \in Nat
    BY <1>1 DEF TypeInv, TypeOK, CallRecord
  <2>4. /\ next \in CallRecord /\ next.phase = "emit" /\ next.out = out /\ next.req = call[c].req
        /\ next.commits = call[c].commits + 1 /\ next.id = (run.state # "none") /\ next.reused = live.exists
    BY <1>1, <2>3 DEF CallRecord, Phase, Outcome
  <2>5. BegunState(next)
    BY <1>1, <2>4 DEF BegunState
  <2> HIDE DEF next
  <2> QED BY <1>1, <2>1, <2>2, <2>4, <2>5 DEF next
<1> QED BY <1>2, <1>3

LEMMA AnswerMoves ==
  ASSUME TypeInv, NEW c \in Call, Emit(c) \/ RecordDestructive(c)
  PROVE \E next \in CallRecord :
          /\ Becomes(c, next) /\ BegunState(next) /\ Carries(c, next)
          /\ next.phase = "done" /\ next.out = call[c].out /\ Record(c, FALSE, call[c].out = "ok")
          /\ call[c].phase \in {"emit", "record"} /\ UNCHANGED cluster
<1>1. call[c].out \in Outcome /\ call[c].phase \in {"emit", "record"} /\ Finish(c, call[c].out)
  BY DEF Emit, RecordDestructive, TypeInv, TypeOK
<1>2. \E next \in CallRecord : /\ Becomes(c, next) /\ BegunState(next) /\ Carries(c, next)
                               /\ next.phase = "done" /\ next.out = call[c].out
  BY <1>1, FinishMoves
<1>3. Record(c, FALSE, call[c].out = "ok") /\ UNCHANGED cluster
  BY DEF Emit, RecordDestructive
<1> QED BY <1>1, <1>2, <1>3

LEMMA DeleteReadMoves ==
  ASSUME TypeInv, NEW c \in Call, DeleteRead(c)
  PROVE \E next \in CallRecord :
          /\ Becomes(c, next) /\ BegunState(next) /\ Carries(c, next)
          /\ \/ next.phase = "done" /\ next.out \in {"notFound", "refused", "error"}
             \/ next.phase = "delete" /\ next.base = rv /\ live.exists /\ ~JobIsEphemeral(live.val)
          /\ call[c].phase = "read" /\ UNCHANGED <<cluster, audit>>
<1>1. call[c] \in CallRecord /\ call[c].phase = "read" /\ BegunState(call[c]) /\ UNCHANGED <<cluster, audit>>
  BY DEF DeleteRead, TypeInv, TypeOK, CallRecord, Begun, BegunState
<1>2. CASE \E out \in {"notFound", "refused", "error"} : Finish(c, out)
  <2>1. PICK out \in {"notFound", "refused", "error"} : Finish(c, out)
    BY <1>2
  <2>2. \E next \in CallRecord : /\ Becomes(c, next) /\ BegunState(next) /\ Carries(c, next)
                                 /\ next.phase = "done" /\ next.out = out
    BY <1>1, <2>1, FinishMoves DEF Outcome
  <2> QED BY <1>1, <2>2
<1>3. CASE live.exists /\ ~JobIsEphemeral(live.val) /\ Becomes(c, [call[c] EXCEPT !.phase = "delete", !.base = rv])
  <2> DEFINE next == [call[c] EXCEPT !.phase = "delete", !.base = rv]
  <2>1. rv \in Nat
    BY DEF TypeInv, TypeOK
  <2>2. next \in CallRecord /\ next.phase = "delete" /\ next.base = rv /\ Carries(c, next)
    BY <1>1, <2>1 DEF CallRecord, Phase, Carries
  <2>3. BegunState(next)
    BY <1>1, <2>2 DEF BegunState, Carries
  <2> HIDE DEF next
  <2> QED BY <1>1, <1>3, <2>2, <2>3 DEF next
<1> QED BY <1>2, <1>3 DEF DeleteRead

LEMMA DeleteMoves ==
  ASSUME TypeInv, NEW c \in Call, Delete(c)
  PROVE \E next \in CallRecord :
          /\ Becomes(c, next) /\ BegunState(next) /\ next.phase = "record"
          /\ next.req = call[c].req /\ next.id = call[c].id /\ next.reused = call[c].reused
          /\ \/ /\ live.exists /\ Remove /\ UNCHANGED <<clusters, writes>>
                /\ next.out \in {"ok", "error"} /\ next.commits = call[c].commits + 1
             \/ /\ next.out \in {"notFound", "error"} /\ next.commits = call[c].commits
                /\ UNCHANGED cluster
          /\ call[c].phase = "delete" /\ UNCHANGED audit
<1>1. call[c] \in CallRecord /\ call[c].phase = "delete" /\ BegunState(call[c]) /\ UNCHANGED audit
  BY DEF Delete, TypeInv, TypeOK, CallRecord, Begun, BegunState
<1>2. CASE \E out \in {"notFound", "error"} :
             Becomes(c, [call[c] EXCEPT !.phase = "record", !.out = out]) /\ UNCHANGED cluster
  <2>1. PICK out \in {"notFound", "error"} :
             Becomes(c, [call[c] EXCEPT !.phase = "record", !.out = out]) /\ UNCHANGED cluster
    BY <1>2
  <2> DEFINE next == [call[c] EXCEPT !.phase = "record", !.out = out]
  <2>2. next \in CallRecord /\ next.phase = "record" /\ next.out = out /\ Carries(c, next)
    BY <1>1 DEF CallRecord, Phase, Outcome, Carries
  <2>3. BegunState(next)
    BY <1>1, <2>2 DEF BegunState, Carries
  <2> HIDE DEF next
  <2> QED BY <1>1, <2>1, <2>2, <2>3 DEF Carries, next
<1>3. CASE ~(\E out \in {"notFound", "error"} :
               Becomes(c, [call[c] EXCEPT !.phase = "record", !.out = out]) /\ UNCHANGED cluster)
  <2>1. live.exists /\ Remove /\ UNCHANGED <<clusters, writes>>
    BY <1>3 DEF Delete
  <2>2. PICK out \in {"ok", "error"} :
          Becomes(c, [call[c] EXCEPT !.phase = "record", !.out = out, !.commits = @ + 1])
    BY <1>3 DEF Delete
  <2> DEFINE next == [call[c] EXCEPT !.phase = "record", !.out = out, !.commits = @ + 1]
  <2>3. call[c].commits + 1 \in Nat
    BY <1>1 DEF CallRecord
  <2>4. /\ next \in CallRecord /\ next.phase = "record" /\ next.out = out /\ next.req = call[c].req
        /\ next.commits = call[c].commits + 1 /\ next.id = call[c].id /\ next.reused = call[c].reused
    BY <1>1, <2>3 DEF CallRecord, Phase, Outcome
  <2>5. BegunState(next)
    BY <1>1, <2>4 DEF BegunState
  <2> HIDE DEF next
  <2> QED BY <1>1, <2>1, <2>2, <2>4, <2>5 DEF next
<1> QED BY <1>2, <1>3

LEMMA CrashMoves ==
  ASSUME TypeInv, Crash
  PROVE /\ call' \in [Call -> CallRecord] /\ Begun' /\ UNCHANGED <<cluster, audit>>
        /\ \A c \in Call :
             \/ call'[c] = call[c] /\ ~InFlight(c)
             \/ InFlight(c) /\ call'[c].phase = "crashed" /\ Carries(c, call'[c])
<1>1. "none" \in Outcome
  BY DEF Outcome
<1>2. \A c \in Call : /\ Over(c, "crashed", "none") \in CallRecord /\ Carries(c, Over(c, "crashed", "none"))
                      /\ Over(c, "crashed", "none").phase = "crashed"
  <2> TAKE c \in Call
  <2> DEFINE next == Over(c, "crashed", "none")
  <2>1. "crashed" \in {"done", "crashed"}
    OBVIOUS
  <2>2. /\ next \in CallRecord /\ next.phase = "crashed" /\ next.req = call[c].req
        /\ next.id = call[c].id /\ next.reused = call[c].reused /\ next.commits = call[c].commits
    BY <1>1, <2>1, OverType
  <2> HIDE DEF next
  <2>3. Carries(c, next)
    BY <2>2 DEF Carries
  <2> QED BY <2>2, <2>3 DEF next
<1>3. \A c \in Call : call'[c] = IF InFlight(c) THEN Over(c, "crashed", "none") ELSE call[c]
  BY DEF Crash
<1>4. call' \in [Call -> CallRecord]
  BY <1>2 DEF Crash, TypeInv, TypeOK, CallRecord
<1>5. Begun'
  BY <1>2, <1>3 DEF TypeInv, Begun, InFlight, Carries
<1> QED BY <1>2, <1>3, <1>4, <1>5 DEF Crash

-----------------------------------------------------------------------------
(* The types are kept. *)

LEMMA BeginType ==
  ASSUME TypeInv, NEW c \in Call, NEW r \in Request, Begin(c, r) PROVE TypeInv'
<1>1. call' \in [Call -> CallRecord] /\ Begun' /\ UNCHANGED <<cluster, audit>>
  BY BeginMoves, MovedType
<1> QED BY <1>1 DEF TypeInv, TypeOK, CallRecord, cluster

LEMMA StepType ==
  ASSUME TypeInv, NEW c \in Call, Step(c) PROVE TypeInv'
<1>1. call' \in [Call -> CallRecord] /\ Begun'
  BY PreviewMoves, CommitMoves, AnswerMoves, DeleteReadMoves, DeleteMoves, MovedType DEF Step
<1>2. audit' \in [Call -> Seq([dry : BOOLEAN, ok : BOOLEAN])]
  <2>1. CASE UNCHANGED audit
    BY <2>1 DEF TypeInv, TypeOK
  <2>2. CASE \E dry, ok \in BOOLEAN : Record(c, dry, ok)
    BY <2>2, RecordType
  <2>3. CASE Record(c, FALSE, call[c].out = "ok")
    <3>1. (call[c].out = "ok") \in BOOLEAN
      OBVIOUS
    <3> QED BY <2>2, <2>3, <3>1
  <2> QED BY <2>1, <2>2, <2>3 DEF Step, Preview, Commit, Emit, DeleteRead, Delete, RecordDestructive
<1>3. CASE UNCHANGED cluster
  BY <1>1, <1>2, <1>3 DEF TypeInv, TypeOK, CallRecord, cluster
<1>4. CASE Remove /\ UNCHANGED <<clusters, writes>>
  BY <1>1, <1>2, <1>4, RemoveType DEF TypeInv, TypeOK, CallRecord, Live, Run
<1>5. CASE Commit(c) /\ ~UNCHANGED cluster
  <2>1. /\ Persist(Applied(c), Owners(c)) /\ last' = call[c].req /\ UNCHANGED <<clusters, writes>>
        /\ keep' = (call[c].req.shutdown = No /\ "shutdown" \notin DOMAIN call[c].req.raw)
        /\ call[c].phase = "commit"
    BY <1>5, CommitMoves
  <2>2. live' \in Live /\ rv' \in Nat /\ run' \in Run
    BY <2>1, AppliedType, PersistType
  <2>3. keep' \in BOOLEAN /\ last' \in Request
    BY <2>1 DEF TypeInv, Begun
  <2> QED BY <1>1, <1>2, <2>1, <2>2, <2>3 DEF TypeInv, TypeOK, CallRecord, Live, Run
<1>6. CASE Delete(c)
  BY <1>3, <1>4, <1>6, DeleteMoves
<1> QED BY <1>3, <1>5, <1>6 DEF Step, Preview, Emit, DeleteRead, RecordDestructive

(* What a kubectl user's edit makes of the job. *)
Edited(e) == [f \in Field |-> IF f \in DOMAIN e THEN e[f] ELSE live.val[f]]

LEMMA EditedType ==
  ASSUME TypeInv, NEW e \in UserEdit
  PROVE /\ Edited(e) \in [Field -> Value]
        /\ [f \in Field |-> Server!WrittenOwners(live, Kubectl, Edited(e), f)] \in [Field -> SUBSET Manager]
<1>1. live \in Live
  BY DEF TypeInv, TypeOK, Live
<1>2. Edited(e) \in [Field -> Value]
  BY <1>1, UserAssumption DEF Edited, IsOverlay, Live
<1>3. [f \in Field |-> Server!WrittenOwners(live, Kubectl, Edited(e), f)] \in [Field -> SUBSET Manager]
  BY <1>1 DEF Live, Server!WrittenOwners, Manager
<1> QED BY <1>2, <1>3

LEMMA UserType ==
  ASSUME TypeInv, User PROVE TypeInv'
<1>1. UNCHANGED <<clusters, call, audit>> /\ writes' \in Nat
  BY DEF User, KubectlCreate, KubectlEdit, KubectlDelete, TypeInv, TypeOK
<1>2. live' \in Live /\ rv' \in Nat /\ run' \in Run /\ keep' \in BOOLEAN /\ last' \in Request \union {Absent}
  <2>1. CASE KubectlCreate
    <3>1. UserJob \in [Field -> Value] /\ OwnedBy(Kubectl, UserJob) \in [Field -> SUBSET Manager]
      BY UserAssumption DEF OwnedBy, Manager
    <3> QED BY <2>1, <3>1, PersistType DEF KubectlCreate, TypeInv, TypeOK
  <2>2. CASE KubectlEdit
    <3>1. PICK e \in UserEdit :
            /\ Persist(Edited(e), [f \in Field |-> Server!WrittenOwners(live, Kubectl, Edited(e), f)])
            /\ keep' = (keep /\ Edited(e)["shutdown"] = live.val["shutdown"])
      BY <2>2 DEF KubectlEdit, Edited
    <3>2. keep' \in BOOLEAN
      BY <3>1
    <3> QED BY <2>2, <3>1, <3>2, EditedType, PersistType DEF KubectlEdit, TypeInv, TypeOK
  <2>3. CASE KubectlDelete
    BY <2>3, RemoveType DEF KubectlDelete
  <2> QED BY <2>1, <2>2, <2>3 DEF User
<1> QED BY <1>1, <1>2 DEF TypeInv, TypeOK, Live, Run, Begun

LEMMA OperatorType ==
  ASSUME TypeInv, Start \/ End PROVE TypeInv'
<1>1. run \in Run
  BY DEF TypeInv, TypeOK, Run
<1>2. run' \in Run
  <2>1. CASE Start
    <3>1. (live.val["selector"] = Absent) \in BOOLEAN
      OBVIOUS
    <3> QED BY <1>1, <2>1, <3>1 DEF Start, Run
  <2>2. CASE End
    <3>1. (run.owns /\ ~TornDown) \in BOOLEAN
      OBVIOUS
    <3> QED BY <1>1, <2>2, <3>1 DEF End, Run
  <2> QED BY <2>1, <2>2
<1> QED BY <1>2 DEF Start, End, TypeInv, TypeOK, Run, Begun

LEMMA TypeInvStep == TypeInv /\ [Next]_vars => TypeInv'
<1> SUFFICES ASSUME TypeInv, [Next]_vars PROVE TypeInv'
  OBVIOUS
<1>1. CASE User
  BY <1>1, UserType
<1>2. CASE Start \/ End
  BY <1>2, OperatorType
<1>3. CASE ClustersChange
  BY <1>3 DEF ClustersChange, TypeInv, TypeOK, Begun
<1>4. CASE Crash
  BY <1>4, CrashMoves DEF TypeInv, TypeOK, CallRecord, cluster
<1>5. CASE \E c \in Call : Step(c)
  BY <1>5, StepType
<1>6. CASE \E c \in Call : \E r \in Request : Begin(c, r)
  BY <1>6, BeginType
<1>7. CASE UNCHANGED vars
  BY <1>7 DEF vars, TypeInv, TypeOK, Begun
<1> QED BY <1>1, <1>2, <1>3, <1>4, <1>5, <1>6, <1>7 DEF Next

LEMMA Typed == Spec => []TypeInv
BY TypeInvInit, TypeInvStep, PTL DEF Spec

(***************************************************************************)
(* Whatever is submitted, deleted and written by hand, the job, the calls  *)
(* and the audit trail keep their types.                                   *)
(***************************************************************************)
THEOREM TypeCorrect == Spec => []TypeOK
BY Typed, PTL DEF TypeInv

-----------------------------------------------------------------------------
(* What is true of the job, whoever wrote it last. *)

(* A field without an owner is not there. *)
HasOwner == \A f \in Field : live.own[f] = {} => live.val[f] = Absent

(* Only a job that exists is run, and only one that is run owns a cluster. *)
RunExists == /\ run.state # "none" => live.exists
             /\ run.owns => run.state # "none"

(* A job that owns a cluster still says so, unless its targets were written since. *)
OwnsIsEphemeral == run.owns /\ ~run.turned => JobIsEphemeral(live.val)

KeptSaysSo == keep => live.val["shutdown"] # Yes

JobInv == HasOwner /\ RunExists /\ OwnsIsEphemeral /\ KeptSaysSo /\ OneTarget

LEMMA FieldNames == "selector" \in Field /\ "cluster" \in Field /\ "shutdown" \in Field
BY DEF Field

LEMMA JobInvInit == Init => JobInv
BY FieldNames DEF Init, JobInv, HasOwner, RunExists, OwnsIsEphemeral, KeptSaysSo, OneTarget, NoRun,
                  Server!NoValues, Server!NoOwners

LEMMA RemovedJob == ASSUME Remove PROVE JobInv'
BY FieldNames DEF Remove, JobInv, HasOwner, RunExists, OwnsIsEphemeral, KeptSaysSo, OneTarget, NoRun,
                  Server!NoValues, Server!NoOwners

(* A persisted write moves the revision, starts nothing and notes a new target. *)
LEMMA Persisted ==
  ASSUME TypeInv, JobInv, NEW val, NEW own, Persist(val, own)
  PROVE /\ live'.exists /\ live'.val = val /\ live'.own = own
        /\ RunExists' /\ OwnsIsEphemeral'
        /\ run'.state \in {"none", run.state}
        /\ rv' \in {rv, rv + 1} /\ (rv' = rv => live' = live)
<1>1. live' = [exists |-> TRUE, val |-> val, own |-> own] /\ run \in Run /\ rv \in Nat
  BY DEF Persist, TypeInv, TypeOK, Run
<1>2. live'.exists /\ live'.val = val /\ live'.own = own
  BY <1>1
<1>3. rv' \in {rv, rv + 1} /\ (rv' = rv => live' = live)
  BY <1>1 DEF Persist
<1>4. CASE ~live.exists
  BY <1>2, <1>3, <1>4 DEF Persist, NoRun, RunExists, OwnsIsEphemeral
<1>5. CASE live.exists
  <2> DEFINE t == run.turned \/ (run.state # "none" /\ Turns(val))
  <2>1. run' = [run EXCEPT !.turned = t]
    BY <1>5 DEF Persist
  <2>2. run'.state = run.state /\ run'.owns = run.owns /\ run'.turned = t
    <3> HIDE DEF t
    <3> QED BY <1>1, <2>1 DEF Run
  <2>3. RunExists'
    BY <1>2, <2>2 DEF JobInv, RunExists
  <2>4. OwnsIsEphemeral'
    <3> SUFFICES ASSUME run.owns, ~t PROVE JobIsEphemeral(val)
      BY <1>2, <2>2 DEF OwnsIsEphemeral
    <3>1. JobIsEphemeral(live.val) /\ ~Turns(val)
      BY DEF JobInv, RunExists, OwnsIsEphemeral
    <3> QED BY <3>1 DEF Turns, JobIsEphemeral
  <2> QED BY <1>2, <1>3, <2>2, <2>3, <2>4
<1> QED BY <1>4, <1>5

(* The body of a commit whose rawSpec leaves f alone. *)
LEMMA BodyIsPromised ==
  ASSUME TypeInv, NEW c \in Call, call[c].phase = "commit", NEW f \in Field, f \notin DOMAIN call[c].req.raw
  PROVE call[c].body[f] = Promised(call[c].req, f)
<1> DEFINE r == call[c].req
<1>1. r \in Request /\ r.op = "submit" /\ ~Refused(r) /\ call[c].body = Merged(r)
  BY DEF TypeInv, Begun
<1>2. IsSubmit(r)
  BY <1>1, RequestAssumption DEF IsDelete
<1>3. /\ r.existing \in Cluster \union {Absent} /\ r.template \in Template \union {Absent}
      /\ r.shutdown \in {Absent, Yes, No}
  BY <1>2 DEF IsSubmit
<1>4. call[c].body[f] = JobBase(r)[f]
  BY <1>1 DEF Merged
<1> HIDE DEF r
<1>5. JobBase(r)[f] = Promised(r, f)
  BY <1>1, <1>3, ValueAssumption DEF JobBase, Promised, Shutdown, Refused, BadTarget, Field
<1> QED BY <1>4, <1>5 DEF r

(* What a submit does not send is gone, unless another manager keeps it. *)
LEMMA UnsentIsKept ==
  ASSUME TypeInv, JobInv, NEW c \in Call, NEW f \in Field, call[c].body[f] = Absent, Applied(c)[f] # Absent
  PROVE live.own[f] \ {RayMcp} # {} /\ Kubectl \in Owners(c)[f]
<1>1. live.own[f] # {RayMcp} /\ live.val[f] # Absent /\ Owners(c)[f] = live.own[f] \ {RayMcp}
  BY DEF Applied, Owners, Server!AppliedValue, Server!AppliedOwners
<1>2. live.own[f] # {} /\ live.own[f] \subseteq Manager
  BY <1>1 DEF JobInv, HasOwner, TypeInv, TypeOK
<1> QED BY <1>1, <1>2 DEF Manager

LEMMA CommittedJob ==
  ASSUME TypeInv, JobInv, NEW c \in Call, Commit(c), Persist(Applied(c), Owners(c)),
         last' = call[c].req, keep' = (call[c].req.shutdown = No /\ "shutdown" \notin DOMAIN call[c].req.raw)
  PROVE JobInv'
<1>1. /\ live'.val = Applied(c) /\ live'.own = Owners(c) /\ RunExists' /\ OwnsIsEphemeral'
      /\ call[c].phase = "commit"
  BY Persisted DEF Commit
<1>2. HasOwner'
  <2> SUFFICES ASSUME NEW f \in Field, Owners(c)[f] = {} PROVE Applied(c)[f] = Absent
    BY <1>1 DEF HasOwner
  <2> QED BY DEF Owners, Applied, Server!AppliedOwners, Server!AppliedValue, JobInv, HasOwner
<1> DEFINE r == call[c].req
<1>3. r \in Request /\ r.op = "submit" /\ ~Refused(r)
  BY <1>1 DEF TypeInv, Begun
<1>4. KeptSaysSo'
  <2> SUFFICES ASSUME r.shutdown = No, "shutdown" \notin DOMAIN r.raw PROVE Applied(c)["shutdown"] # Yes
    BY <1>1 DEF KeptSaysSo
  <2>1. call[c].body["shutdown"] = Promised(r, "shutdown")
    BY <1>1, BodyIsPromised, FieldNames
  <2>2. r.existing = Absent
    BY <1>3, ValueAssumption DEF Refused
  <2>3. call[c].body["shutdown"] = No
    BY <2>1, <2>2 DEF Promised
  <2> QED BY <2>3, FieldNames, ValueAssumption DEF Applied, Server!AppliedValue
<1>5. OneTarget'
  <2> SUFFICES ASSUME Applied(c)["selector"] # Absent, Applied(c)["cluster"] # Absent,
                      DOMAIN r.raw \intersect {"selector", "cluster"} = {}
               PROVE \E f \in {"selector", "cluster"} : Kubectl \in Owners(c)[f]
    BY <1>1, <1>3, ValueAssumption DEF OneTarget
  <2>1. call[c].body["selector"] = r.existing /\ call[c].body["cluster"] = r.template
    BY <1>1, BodyIsPromised, FieldNames DEF Promised
  <2>2. r.existing = Absent \/ r.template = Absent
    BY <1>3 DEF Refused, BadTarget
  <2> QED BY <2>1, <2>2, UnsentIsKept, FieldNames
<1> QED BY <1>1, <1>2, <1>4, <1>5 DEF JobInv

LEMMA CreatedJob == ASSUME TypeInv, JobInv, KubectlCreate PROVE JobInv'
<1>1. Persist(UserJob, OwnedBy(Kubectl, UserJob)) /\ keep' = FALSE
  BY DEF KubectlCreate
<1>2. live'.val = UserJob /\ live'.own = OwnedBy(Kubectl, UserJob) /\ RunExists' /\ OwnsIsEphemeral'
  BY <1>1, Persisted
<1>3. \A f \in Field : live'.own[f] = IF live'.val[f] = Absent THEN {} ELSE {Kubectl}
  BY <1>2 DEF OwnedBy
<1>4. HasOwner' /\ OneTarget'
  BY <1>3, FieldNames DEF HasOwner, OneTarget
<1> QED BY <1>1, <1>2, <1>4 DEF JobInv, KeptSaysSo

LEMMA EditedJob == ASSUME TypeInv, JobInv, KubectlEdit PROVE JobInv'
<1>1. PICK e \in UserEdit :
        /\ Persist(Edited(e), [f \in Field |-> Server!WrittenOwners(live, Kubectl, Edited(e), f)])
        /\ keep' = (keep /\ Edited(e)["shutdown"] = live.val["shutdown"])
  BY DEF KubectlEdit, Edited
<1> DEFINE own == [f \in Field |-> Server!WrittenOwners(live, Kubectl, Edited(e), f)]
<1>2. live'.val = Edited(e) /\ live'.own = own /\ RunExists' /\ OwnsIsEphemeral'
  BY <1>1, Persisted
<1>3. \A f \in Field :
        \/ live'.val[f] = live.val[f] /\ live'.own[f] = live.own[f]
        \/ live'.val[f] = Absent
        \/ live'.own[f] = {Kubectl}
  BY <1>2 DEF Server!WrittenOwners
<1>4. HasOwner'
  BY <1>3 DEF HasOwner, JobInv
<1>5. OneTarget'
  BY <1>3, FieldNames DEF OneTarget, JobInv, KubectlEdit
<1>6. KeptSaysSo'
  BY <1>1, <1>2 DEF KeptSaysSo, JobInv
<1> QED BY <1>2, <1>4, <1>5, <1>6 DEF JobInv

LEMMA OperatorJob == ASSUME TypeInv, JobInv, Start \/ End PROVE JobInv'
<1>1. UNCHANGED <<live, last, keep>> /\ run \in Run
  BY DEF Start, End, TypeInv, TypeOK, Run
<1>2. RunExists' /\ OwnsIsEphemeral'
  <2>1. CASE Start
    <3> DEFINE o == live.val["selector"] = Absent
    <3>1. run' = [run EXCEPT !.state = "running", !.owns = o] /\ live.exists
      BY <2>1 DEF Start
    <3>2. run'.state = "running" /\ run'.owns = o
      <4> HIDE DEF o
      <4> QED BY <1>1, <3>1 DEF Run
    <3>3. o => live.val["cluster"] # Absent
      BY <2>1, ValueAssumption DEF Start, TypeInv, TypeOK
    <3>4. run'.owns => JobIsEphemeral(live'.val)
      BY <1>1, <3>2, <3>3 DEF JobIsEphemeral
    <3>5. OwnsIsEphemeral'
      BY <3>4 DEF OwnsIsEphemeral
    <3>6. RunExists'
      BY <1>1, <3>1 DEF RunExists
    <3> QED BY <3>5, <3>6
  <2>2. CASE End
    <3> DEFINE o == run.owns /\ ~TornDown
    <3>1. run' = [run EXCEPT !.state = "ended", !.owns = o] /\ run.state = "running"
      BY <2>2 DEF End
    <3>2. run'.state = "ended" /\ run'.owns = o /\ run'.turned = run.turned
      <4> HIDE DEF o
      <4> QED BY <1>1, <3>1 DEF Run
    <3> QED BY <1>1, <3>1, <3>2 DEF JobInv, RunExists, OwnsIsEphemeral
  <2> QED BY <2>1, <2>2
<1> QED BY <1>1, <1>2 DEF JobInv, HasOwner, KeptSaysSo, OneTarget

LEMMA SameJob == ASSUME JobInv, UNCHANGED <<live, run, last, keep>> PROVE JobInv'
BY DEF JobInv, HasOwner, RunExists, OwnsIsEphemeral, KeptSaysSo, OneTarget

LEMMA StepJob == ASSUME TypeInv, JobInv, NEW c \in Call, Step(c) PROVE JobInv'
<1>1. CASE UNCHANGED cluster
  BY <1>1, SameJob DEF cluster
<1>2. CASE Commit(c) /\ ~UNCHANGED cluster
  BY <1>2, CommitMoves, CommittedJob
<1>3. CASE Delete(c) /\ ~UNCHANGED cluster
  BY <1>3, DeleteMoves, RemovedJob
<1> QED BY <1>1, <1>2, <1>3 DEF Step, Preview, Emit, DeleteRead, RecordDestructive

LEMMA JobInvStep == TypeInv /\ JobInv /\ [Next]_vars => JobInv'
<1> SUFFICES ASSUME TypeInv, JobInv, [Next]_vars PROVE JobInv'
  OBVIOUS
<1>1. CASE User
  BY <1>1, CreatedJob, EditedJob, RemovedJob DEF User, KubectlDelete
<1>2. CASE Start \/ End
  BY <1>2, OperatorJob
<1>3. CASE ClustersChange \/ Crash \/ (\E c \in Call : \E r \in Request : Begin(c, r)) \/ UNCHANGED vars
  BY <1>3, SameJob DEF ClustersChange, Crash, Begin, vars, cluster
<1>4. CASE \E c \in Call : Step(c)
  BY <1>4, StepJob
<1> QED BY <1>1, <1>2, <1>3, <1>4 DEF Next

LEMMA Job == Spec => [](TypeInv /\ JobInv)
BY TypeInvInit, TypeInvStep, JobInvInit, JobInvStep, PTL DEF Spec

(***************************************************************************)
(* However many submits in either mode, edits and deletions go over one    *)
(* name, the job has two targets only if a kubectl user or the last        *)
(* rawSpec gave it one of them.                                            *)
(***************************************************************************)
THEOREM JobHasOneTarget == Spec => []OneTarget
BY Job, PTL DEF JobInv

(* A step changes the state of its own call. *)
LEMMA StepMoves ==
  ASSUME TypeInv, NEW c \in Call, Step(c)
  PROVE \E next \in CallRecord : Becomes(c, next) /\ BegunState(next)
BY PreviewMoves, CommitMoves, AnswerMoves, DeleteReadMoves, DeleteMoves DEF Step

LEMMA StepIsOwn ==
  ASSUME TypeInv, NEW c \in Call, Step(c), NEW d \in Call, d # c PROVE call'[d] = call[d]
BY StepMoves, MovedType

(* What the server persists for a submit is its apply. *)
LEMMA SubmitPersists ==
  ASSUME TypeInv, [Next]_vars, NEW c \in Call, Submits(c)
  PROVE call[c].phase = "commit" /\ Persist(Applied(c), Owners(c))
<1>1. call[c].phase = "commit" /\ call'[c].commits # call[c].commits
  BY DEF Submits
<1>2. CASE \E d \in Call : Step(d)
  <2>1. PICK d \in Call : Step(d)
    BY <1>2
  <2>2. d = c
    BY <1>1, <2>1, StepIsOwn
  <2>3. Commit(c)
    BY <1>1, <2>1, <2>2 DEF Step, Preview, Emit, DeleteRead, Delete, RecordDestructive
  <2>4. PICK next \in CallRecord :
          /\ Becomes(c, next) /\ BegunState(next)
          /\ Persist(Applied(c), Owners(c)) \/ Carries(c, next)
    BY <2>3, CommitMoves
  <2>5. call'[c] = next
    BY <2>4, MovedType
  <2> QED BY <1>1, <2>4, <2>5 DEF Carries
<1>3. CASE \E d \in Call : \E r \in Request : Begin(d, r)
  <2>1. PICK d \in Call, r \in Request : Begin(d, r)
    BY <1>3
  <2> QED BY <1>1, <2>1, BeginMoves, MovedType
<1>4. CASE Crash
  BY <1>1, <1>4, CrashMoves DEF Carries
<1>5. CASE UNCHANGED call
  BY <1>1, <1>5
<1> QED BY <1>2, <1>3, <1>4, <1>5
     DEF Next, User, KubectlCreate, KubectlEdit, KubectlDelete, ClustersChange, Start, End, vars

(***************************************************************************)
(* A persisted submit leaves every field its rawSpec leaves alone as the   *)
(* tool describes it, unless another manager keeps one it does not send.   *)
(***************************************************************************)
THEOREM SubmitLeavesWhatItSays == Spec => SubmitIsExact
<1>1. TypeInv /\ JobInv /\ [Next]_vars =>
        \A c \in Call : Submits(c) =>
          \A f \in Field \ DOMAIN call[c].req.raw :
            \/ live'.val[f] = Promised(call[c].req, f)
            \/ Promised(call[c].req, f) = Absent /\ live.own[f] \ {RayMcp} # {}
  <2> SUFFICES ASSUME TypeInv, JobInv, [Next]_vars, NEW c \in Call, Submits(c),
                      NEW f \in Field, f \notin DOMAIN call[c].req.raw
               PROVE \/ live'.val[f] = Promised(call[c].req, f)
                     \/ Promised(call[c].req, f) = Absent /\ live.own[f] \ {RayMcp} # {}
    OBVIOUS
  <2>1. call[c].phase = "commit" /\ call'[c].commits # call[c].commits
    BY DEF Submits
  <2>2. Persist(Applied(c), Owners(c))
    BY SubmitPersists
  <2>3. live'.val = Applied(c)
    BY <2>2, Persisted
  <2>4. call[c].body[f] = Promised(call[c].req, f)
    BY <2>1, BodyIsPromised
  <2>5. CASE call[c].body[f] = Absent
    BY <2>3, <2>4, <2>5, UnsentIsKept
  <2>6. CASE call[c].body[f] # Absent
    BY <2>3, <2>4, <2>6 DEF Applied, Server!AppliedValue
  <2> QED BY <2>5, <2>6
<1> QED BY <1>1, Job, PTL DEF Spec, SubmitIsExact

(***************************************************************************)
(* A submit may be repeated when its answer was lost, whatever job it went *)
(* over: the same submit is accepted again and leaves every value and      *)
(* every owner as they are.                                                *)
(***************************************************************************)
THEOREM RepeatsAreHarmless == Spec => RepeatIsHarmless
<1>1. TypeInv /\ JobInv /\ [Next]_vars =>
        \A c \in Call : Submits(c) => ChangesNothing(call[c].req, live')
  <2> SUFFICES ASSUME TypeInv, JobInv, [Next]_vars, NEW c \in Call, Submits(c)
               PROVE ChangesNothing(call[c].req, live')
    OBVIOUS
  <2> DEFINE body == Merged(call[c].req)
  <2>1. /\ call[c].phase = "commit" /\ live'.val = Applied(c) /\ live'.own = Owners(c)
    BY SubmitPersists, Persisted
  <2>2. ~Refused(call[c].req) /\ call[c].body = body
    BY <2>1 DEF TypeInv, Begun
  <2> HIDE DEF body
  <2>3. ASSUME NEW f \in Field
        PROVE /\ body[f] # Absent => body[f] = live'.val[f]
              /\ Server!AppliedValue(live', RayMcp, body, f) = live'.val[f]
              /\ Server!AppliedOwners(live', RayMcp, body, f) = live'.own[f]
    <3>1. /\ live'.val[f] = Server!AppliedValue(live, RayMcp, body, f)
          /\ live'.own[f] = Server!AppliedOwners(live, RayMcp, body, f)
      BY <2>1, <2>2 DEF Applied, Owners
    <3>2. CASE body[f] # Absent
      <4>1. live'.val[f] = body[f] /\ RayMcp \in live'.own[f]
        BY <3>1, <3>2 DEF Server!AppliedValue, Server!AppliedOwners
      <4> QED BY <3>2, <4>1 DEF Server!AppliedValue, Server!AppliedOwners
    <3>3. CASE body[f] = Absent
      <4>1. live'.own[f] = live.own[f] \ {RayMcp}
        BY <3>1, <3>3 DEF Server!AppliedOwners
      <4> QED BY <3>3, <4>1 DEF Server!AppliedValue, Server!AppliedOwners
    <3> QED BY <3>2, <3>3
  <2>4. Server!Conflicts(live', RayMcp, body) = {}
    BY <2>3 DEF Server!Conflicts
  <2> QED BY <2>2, <2>3, <2>4 DEF ChangesNothing, body
<1> QED BY <1>1, Job, PTL DEF Spec, RepeatIsHarmless

(***************************************************************************)
(* The operator never tears down a cluster whose job's last word on it is  *)
(* a submit's "keep it".                                                   *)
(***************************************************************************)
THEOREM KeptIsKept == Spec => KeptForDebugging
<1>1. TypeInv /\ JobInv /\ [Next]_vars =>
        (keep /\ run.state = "running" /\ run'.state = "ended" => run'.owns = run.owns)
  <2> SUFFICES ASSUME TypeInv, JobInv, [Next]_vars, keep, run.state = "running", run'.state = "ended"
               PROVE run'.owns = run.owns
    OBVIOUS
  <2>1. run \in Run
    BY DEF TypeInv, TypeOK, Run
  <2>2. CASE End
    <3>1. ~TornDown
      BY DEF JobInv, KeptSaysSo, TornDown
    <3>2. (run.owns /\ ~TornDown) = run.owns
      BY <2>1, <3>1 DEF Run
    <3> QED BY <2>1, <2>2, <3>2 DEF End, Run
  <2>3. CASE Start
    BY <2>3 DEF Start
  <2>4. CASE User
    <3>1. CASE \E val, own : Persist(val, own)
      BY <3>1, Persisted
    <3>2. CASE Remove
      BY <3>2 DEF Remove, NoRun
    <3> QED BY <2>4, <3>1, <3>2 DEF User, KubectlCreate, KubectlEdit, KubectlDelete
  <2>5. CASE \E c \in Call : Step(c)
    <3>1. PICK c \in Call : Step(c)
      BY <2>5
    <3>2. CASE UNCHANGED cluster
      BY <3>2 DEF cluster
    <3>3. CASE Remove
      BY <3>3 DEF Remove, NoRun
    <3>4. CASE Persist(Applied(c), Owners(c))
      BY <3>4, Persisted
    <3> QED BY <3>1, <3>2, <3>3, <3>4, CommitMoves, DeleteMoves
         DEF Step, Preview, Emit, DeleteRead, RecordDestructive
  <2>6. CASE UNCHANGED run
    BY <2>6
  <2> QED BY <2>2, <2>3, <2>4, <2>5, <2>6 DEF Next, ClustersChange, Crash, Begin, vars, cluster
<1> QED BY <1>1, Job, PTL DEF Spec, KeptForDebugging

-----------------------------------------------------------------------------
(* What a call knows of the job. *)

(* The read of a delete is of the revision it noted. *)
ReadOf(r, rev, job) ==
  r.phase = "delete" => /\ r.base <= rev
                        /\ r.base = rev => job.exists /\ ~JobIsEphemeral(job.val)

Told(r) == r.id => r.reused

KnownInv == \A c \in Call : ReadOf(call[c], rv, live) /\ Told(call[c])

LEMMA KnownInvInit == Init => KnownInv
<1>1. NoCall.phase = "idle" /\ NoCall.id = FALSE
  BY DEF NoCall
<1> QED BY <1>1 DEF Init, KnownInv, ReadOf, Told

(* The revision never goes back, and a job that is written has a new one. *)
LEMMA Revises ==
  ASSUME TypeInv, JobInv, [Next]_vars PROVE rv' \in {rv, rv + 1} /\ (rv' = rv => live' = live)
<1>1. CASE \E val, own : Persist(val, own)
  BY <1>1, Persisted
<1>2. CASE Remove
  BY <1>2 DEF Remove, TypeInv, TypeOK
<1>3. CASE UNCHANGED <<live, rv>>
  BY <1>3
<1>4. CASE User
  BY <1>1, <1>2, <1>4 DEF User, KubectlCreate, KubectlEdit, KubectlDelete
<1>5. CASE \E c \in Call : Step(c)
  <2>1. PICK c \in Call : Step(c)
    BY <1>5
  <2>2. CASE Commit(c)
    BY <1>1, <1>3, <2>2, CommitMoves DEF cluster
  <2>3. CASE Delete(c)
    BY <1>2, <1>3, <2>3 DEF Delete, cluster
  <2> QED BY <1>3, <2>1, <2>2, <2>3 DEF Step, Preview, Emit, DeleteRead, RecordDestructive, cluster
<1> QED BY <1>3, <1>4, <1>5 DEF Next, ClustersChange, Start, End, Crash, Begin, vars, cluster

LEMMA KnownBefore ==
  ASSUME TypeInv, JobInv, [Next]_vars, NEW r \in CallRecord, ReadOf(r, rv, live) PROVE ReadOf(r, rv', live')
<1>1. rv \in Nat /\ r.base \in Nat /\ rv' \in {rv, rv + 1} /\ (rv' = rv => live' = live)
  BY Revises DEF TypeInv, TypeOK, CallRecord
<1> QED BY <1>1 DEF ReadOf

LEMMA StepKnown ==
  ASSUME TypeInv, JobInv, KnownInv, NEW c \in Call, Step(c)
  PROVE ReadOf(call'[c], rv', live') /\ Told(call'[c])
<1>1. Told(call[c]) /\ (run.state # "none" => live.exists)
  BY DEF KnownInv, JobInv, RunExists
<1>2. CASE Preview(c)
  <2>1. PICK next \in CallRecord :
          /\ Becomes(c, next) /\ BegunState(next) /\ next.phase \in {"commit", "done"}
          /\ Carries(c, next) \/ (next.id = (run.state # "none") /\ next.reused = live.exists)
    BY <1>2, PreviewMoves
  <2>2. call'[c] = next
    BY <2>1, MovedType
  <2> QED BY <1>1, <2>1, <2>2 DEF Carries, Told, ReadOf
<1>3. CASE Commit(c)
  <2>1. PICK next \in CallRecord :
          /\ Becomes(c, next) /\ BegunState(next) /\ next.phase = "emit"
          /\ Carries(c, next) \/ (next.id = (run.state # "none") /\ next.reused = live.exists)
    BY <1>3, CommitMoves
  <2>2. call'[c] = next
    BY <2>1, MovedType
  <2> QED BY <1>1, <2>1, <2>2 DEF Carries, Told, ReadOf
<1>4. CASE Emit(c) \/ RecordDestructive(c)
  <2>1. PICK next \in CallRecord :
          Becomes(c, next) /\ BegunState(next) /\ next.phase = "done" /\ Carries(c, next)
    BY <1>4, AnswerMoves
  <2>2. call'[c] = next
    BY <2>1, MovedType
  <2> QED BY <1>1, <2>1, <2>2 DEF Carries, Told, ReadOf
<1>5. CASE DeleteRead(c)
  <2>1. PICK next \in CallRecord :
          /\ Becomes(c, next) /\ BegunState(next) /\ Carries(c, next)
          /\ \/ next.phase = "done"
             \/ next.phase = "delete" /\ next.base = rv /\ live.exists /\ ~JobIsEphemeral(live.val)
          /\ UNCHANGED <<cluster, audit>>
    BY <1>5, DeleteReadMoves
  <2>2. call'[c] = next /\ live' = live /\ rv' = rv /\ rv \in Nat
    BY <2>1, MovedType DEF cluster, TypeInv, TypeOK
  <2> QED BY <1>1, <2>1, <2>2 DEF Carries, Told, ReadOf
<1>6. CASE Delete(c)
  <2>1. PICK next \in CallRecord :
          /\ Becomes(c, next) /\ BegunState(next) /\ next.phase = "record"
          /\ next.id = call[c].id /\ next.reused = call[c].reused
    BY <1>6, DeleteMoves
  <2>2. call'[c] = next
    BY <2>1, MovedType
  <2> QED BY <1>1, <2>1, <2>2 DEF Told, ReadOf
<1> QED BY <1>2, <1>3, <1>4, <1>5, <1>6 DEF Step

LEMMA KnownInvStep == TypeInv /\ JobInv /\ KnownInv /\ [Next]_vars => KnownInv'
<1> SUFFICES ASSUME TypeInv, JobInv, KnownInv, [Next]_vars, NEW d \in Call
             PROVE ReadOf(call'[d], rv', live') /\ Told(call'[d])
  BY DEF KnownInv
<1>1. ReadOf(call[d], rv', live') /\ Told(call[d])
  BY KnownBefore DEF KnownInv, TypeInv, TypeOK, CallRecord
<1>2. CASE call'[d] = call[d]
  BY <1>1, <1>2
<1>3. CASE \E c \in Call : Step(c)
  BY <1>2, <1>3, StepKnown, StepIsOwn
<1>4. CASE \E c \in Call : \E r \in Request : Begin(c, r)
  <2>1. PICK c \in Call, r \in Request : Begin(c, r)
    BY <1>4
  <2>2. PICK next \in CallRecord :
          /\ Becomes(c, next) /\ BegunState(next) /\ next.phase \in {"read", "preview", "done"}
          /\ next.id = call[c].id /\ next.reused = call[c].reused
    BY <2>1, BeginMoves
  <2>3. call'[d] = IF d = c THEN next ELSE call[d]
    BY <2>2, MovedType
  <2> QED BY <1>1, <2>2, <2>3 DEF Told, ReadOf
<1>5. CASE Crash
  <2>1. call'[d] = call[d] \/ (call'[d].phase = "crashed" /\ Carries(d, call'[d]))
    BY <1>5, CrashMoves
  <2> QED BY <1>1, <2>1 DEF Told, ReadOf, Carries
<1>6. CASE UNCHANGED call
  BY <1>2, <1>6
<1> QED BY <1>3, <1>4, <1>5, <1>6
     DEF Next, User, KubectlCreate, KubectlEdit, KubectlDelete, ClustersChange, Start, End, vars

LEMMA Known == Spec => [](TypeInv /\ JobInv /\ KnownInv)
BY TypeInvInit, TypeInvStep, JobInvInit, JobInvStep, KnownInvInit, KnownInvStep, PTL DEF Spec

(***************************************************************************)
(* A delete without the tier that takes a cluster with the job went by a   *)
(* read that somebody overtook, or by targets written after the start.     *)
(***************************************************************************)
THEOREM CascadeIsNotSilent == Spec => NoSilentCascade
<1>1. TypeInv /\ JobInv /\ KnownInv =>
        \A c \in Call :
          call[c].phase = "delete" /\ run.owns /\ ~live'.exists /\ call'[c] # call[c]
            => run.turned \/ call[c].base # rv
  BY DEF KnownInv, ReadOf, JobInv, OwnsIsEphemeral
<1> QED BY <1>1, Known, PTL DEF Spec, NoSilentCascade

(***************************************************************************)
(* An answer that carries a jobId went over a job that had the name.       *)
(***************************************************************************)
THEOREM ReuseIsTold == Spec => []AnswerTellsReuse
<1>1. KnownInv => AnswerTellsReuse
  BY DEF KnownInv, Told, AnswerTellsReuse
<1> QED BY <1>1, Known, PTL


-----------------------------------------------------------------------------
(* The attempts of a call and its audit trail. *)

Unwritten(r, a) == a = <<>> /\ r.commits = 0

Attempted(r, a) ==
  /\ r.phase \in {"idle", "preview", "commit", "read", "delete"} => Unwritten(r, a)
  /\ r.phase \in {"emit", "record", "crashed"} => a = <<>> /\ r.commits \in {0, 1}
  /\ r.phase = "done" =>
       \/ Unwritten(r, a) /\ r.out \notin {"ok", "conflict"}
       \/ \E dry, ok \in BOOLEAN :
            /\ a = <<[dry |-> dry, ok |-> ok]>>
            /\ ok = (r.out = "ok")
            /\ r.commits \in {0, 1} /\ (r.commits = 1 => ~dry)

AttemptInv == \A c \in Call : Attempted(call[c], audit[c])

LEMMA AttemptInvInit == Init => AttemptInv
<1>1. NoCall.phase = "idle" /\ NoCall.commits = 0
  BY DEF NoCall
<1>2. Attempted(NoCall, <<>>)
  BY <1>1 DEF Attempted, Unwritten
<1> QED BY <1>2 DEF Init, AttemptInv

LEMMA AttemptMove ==
  ASSUME TypeInv, AttemptInv, NEW c \in Call, NEW next \in CallRecord, BegunState(next), Becomes(c, next),
         \A d \in Call : d # c => audit'[d] = audit[d], Attempted(next, audit'[c])
  PROVE AttemptInv'
<1> SUFFICES ASSUME NEW d \in Call PROVE Attempted(call'[d], audit'[d])
  BY DEF AttemptInv
<1>1. call'[d] = IF d = c THEN next ELSE call[d]
  BY MovedType
<1> QED BY <1>1 DEF AttemptInv

LEMMA Recording ==
  ASSUME TypeInv, NEW c \in Call, NEW dry, NEW ok, audit[c] = <<>>, Record(c, dry, ok)
  PROVE audit'[c] = <<[dry |-> dry, ok |-> ok]>> /\ \A d \in Call : d # c => audit'[d] = audit[d]
<1>1. audit'[c] = Append(audit[c], [dry |-> dry, ok |-> ok]) /\ \A d \in Call : d # c => audit'[d] = audit[d]
  BY DEF Record, TypeInv, TypeOK
<1> QED BY <1>1

(* A call that answers with its record. *)
LEMMA AnswerAttempt ==
  ASSUME TypeInv, AttemptInv, NEW c \in Call, NEW next \in CallRecord, BegunState(next), Becomes(c, next),
         next.phase = "done", audit[c] = <<>>, NEW dry \in BOOLEAN, NEW ok \in BOOLEAN,
         Record(c, dry, ok), ok = (next.out = "ok"), next.commits \in {0, 1}, next.commits = 1 => ~dry
  PROVE AttemptInv'
<1>1. audit'[c] = <<[dry |-> dry, ok |-> ok]>> /\ \A d \in Call : d # c => audit'[d] = audit[d]
  BY Recording
<1>2. Attempted(next, audit'[c])
  <2>1. \E x, y \in BOOLEAN : /\ audit'[c] = <<[dry |-> x, ok |-> y]>> /\ y = (next.out = "ok")
                              /\ next.commits \in {0, 1} /\ (next.commits = 1 => ~x)
    BY <1>1, Zenon
  <2> QED BY <2>1 DEF Attempted
<1> QED BY <1>1, <1>2, AttemptMove

LEMMA BeginAttempt ==
  ASSUME TypeInv, AttemptInv, NEW c \in Call, NEW r \in Request, Begin(c, r) PROVE AttemptInv'
<1>1. PICK next \in CallRecord :
        /\ Becomes(c, next) /\ BegunState(next) /\ next.commits = call[c].commits
        /\ next.phase \in {"read", "preview"} \/ (next.phase = "done" /\ next.out = "refused")
        /\ call[c].phase = "idle" /\ UNCHANGED audit
  BY BeginMoves
<1>2. Attempted(next, audit'[c])
  BY <1>1 DEF AttemptInv, Attempted, Unwritten
<1> QED BY <1>1, <1>2, AttemptMove

LEMMA PreviewAttempt ==
  ASSUME TypeInv, AttemptInv, NEW c \in Call, Preview(c) PROVE AttemptInv'
<1>1. PICK next \in CallRecord :
        /\ Becomes(c, next) /\ BegunState(next) /\ next.commits = call[c].commits
        /\ \/ next.phase = "commit" /\ UNCHANGED audit
           \/ next.phase = "done" /\ next.out = "ok" /\ Record(c, TRUE, TRUE)
           \/ next.phase = "done" /\ next.out \in {"conflict", "error"} /\ Record(c, TRUE, FALSE)
  BY PreviewMoves DEF Carries
<1>2. audit[c] = <<>> /\ call[c].commits = 0
  BY DEF Preview, AttemptInv, Attempted, Unwritten
<1>3. CASE next.phase = "commit" /\ UNCHANGED audit
  <2>1. Attempted(next, audit'[c])
    BY <1>1, <1>2, <1>3 DEF Attempted, Unwritten
  <2> QED BY <1>1, <1>3, <2>1, AttemptMove
<1>4. CASE next.phase = "done" /\ next.out = "ok" /\ Record(c, TRUE, TRUE)
  <2>1. TRUE = (next.out = "ok") /\ next.commits \in {0, 1} /\ (next.commits = 1 => ~TRUE)
    BY <1>1, <1>2, <1>4
  <2> QED BY <1>1, <1>2, <1>4, <2>1, AnswerAttempt, Zenon
<1>5. CASE next.phase = "done" /\ next.out \in {"conflict", "error"} /\ Record(c, TRUE, FALSE)
  <2>1. FALSE = (next.out = "ok") /\ next.commits \in {0, 1} /\ (next.commits = 1 => ~TRUE)
    BY <1>1, <1>2, <1>5
  <2> QED BY <1>1, <1>2, <1>5, <2>1, AnswerAttempt, Zenon
<1> QED BY <1>1, <1>3, <1>4, <1>5

LEMMA CommitAttempt ==
  ASSUME TypeInv, AttemptInv, NEW c \in Call, Commit(c) \/ Delete(c) PROVE AttemptInv'
<1>1. PICK next \in CallRecord :
        /\ Becomes(c, next) /\ BegunState(next) /\ next.phase \in {"emit", "record"}
        /\ next.commits \in {call[c].commits, call[c].commits + 1} /\ UNCHANGED audit
  BY CommitMoves, DeleteMoves DEF Carries
<1>2. audit[c] = <<>> /\ call[c].commits = 0
  BY DEF Commit, Delete, AttemptInv, Attempted, Unwritten
<1>3. Attempted(next, audit'[c])
  BY <1>1, <1>2 DEF Attempted
<1> QED BY <1>1, <1>3, AttemptMove

LEMMA FinalAttempt ==
  ASSUME TypeInv, AttemptInv, NEW c \in Call, Emit(c) \/ RecordDestructive(c) PROVE AttemptInv'
<1>1. PICK next \in CallRecord :
        /\ Becomes(c, next) /\ BegunState(next) /\ Carries(c, next)
        /\ next.phase = "done" /\ next.out = call[c].out /\ Record(c, FALSE, call[c].out = "ok")
  BY AnswerMoves
<1>2. audit[c] = <<>> /\ call[c].commits \in {0, 1}
  BY DEF Emit, RecordDestructive, AttemptInv, Attempted
<1> DEFINE ok == call[c].out = "ok"
<1>3. /\ ok \in BOOLEAN /\ ok = (next.out = "ok") /\ Record(c, FALSE, ok)
      /\ next.commits \in {0, 1} /\ (next.commits = 1 => ~FALSE)
  BY <1>1, <1>2 DEF Carries
<1> HIDE DEF ok
<1> QED BY <1>1, <1>2, <1>3, AnswerAttempt, Zenon

LEMMA ReadAttempt ==
  ASSUME TypeInv, AttemptInv, NEW c \in Call, DeleteRead(c) PROVE AttemptInv'
<1>1. PICK next \in CallRecord :
        /\ Becomes(c, next) /\ BegunState(next) /\ Carries(c, next)
        /\ next.phase = "delete" \/ (next.phase = "done" /\ next.out \in {"notFound", "refused", "error"})
        /\ call[c].phase = "read" /\ UNCHANGED audit
  BY DeleteReadMoves
<1>2. Attempted(next, audit'[c])
  BY <1>1 DEF Carries, AttemptInv, Attempted, Unwritten
<1> QED BY <1>1, <1>2, AttemptMove

LEMMA CrashAttempt == ASSUME TypeInv, AttemptInv, Crash PROVE AttemptInv'
<1> SUFFICES ASSUME NEW c \in Call PROVE Attempted(call'[c], audit'[c])
  BY DEF AttemptInv
<1>1. /\ UNCHANGED audit
      /\ \/ call'[c] = call[c]
         \/ InFlight(c) /\ call'[c].phase = "crashed" /\ call'[c].commits = call[c].commits
  BY CrashMoves DEF Carries
<1> QED BY <1>1 DEF AttemptInv, Attempted, Unwritten, InFlight

LEMMA AttemptInvStep == TypeInv /\ AttemptInv /\ [Next]_vars => AttemptInv'
<1> SUFFICES ASSUME TypeInv, AttemptInv, [Next]_vars PROVE AttemptInv'
  OBVIOUS
<1>1. CASE UNCHANGED <<call, audit>>
  BY <1>1 DEF AttemptInv
<1>2. CASE Crash
  BY <1>2, CrashAttempt
<1>3. CASE \E c \in Call : Step(c)
  BY <1>3, PreviewAttempt, CommitAttempt, FinalAttempt, ReadAttempt DEF Step
<1>4. CASE \E c \in Call : \E r \in Request : Begin(c, r)
  BY <1>4, BeginAttempt
<1> QED BY <1>1, <1>2, <1>3, <1>4
     DEF Next, User, KubectlCreate, KubectlEdit, KubectlDelete, ClustersChange, Start, End, vars

(***************************************************************************)
(* Every submit and delete is at most one write with exactly one record,   *)
(* which tells its outcome.                                                *)
(***************************************************************************)
THEOREM EveryAttemptIsRecorded == Spec => []OneRecord
<1>1. TypeInv /\ AttemptInv => OneRecord
  <2> SUFFICES ASSUME TypeInv, AttemptInv, NEW c \in Call
               PROVE /\ call[c].commits <= 1 /\ Len(audit[c]) <= 1
                     /\ call[c].phase = "done" /\ (call[c].commits = 1 \/ call[c].out \in {"ok", "conflict"}) =>
                          /\ Len(audit[c]) = 1 /\ audit[c][1].ok = (call[c].out = "ok")
                          /\ call[c].commits = 1 => ~audit[c][1].dry
    BY DEF OneRecord
  <2>1. Attempted(call[c], audit[c]) /\ call[c].phase \in Phase
    BY DEF AttemptInv, TypeInv, TypeOK
  <2>2. CASE audit[c] = <<>> /\ call[c].commits \in {0, 1}
    BY <2>1, <2>2 DEF Attempted, Unwritten
  <2>3. CASE ~(audit[c] = <<>> /\ call[c].commits \in {0, 1})
    <3>1. call[c].phase = "done"
      BY <2>1, <2>3 DEF Attempted, Unwritten, Phase
    <3>2. PICK dry, ok \in BOOLEAN :
            /\ audit[c] = <<[dry |-> dry, ok |-> ok]>>
            /\ ok = (call[c].out = "ok")
            /\ call[c].commits \in {0, 1} /\ (call[c].commits = 1 => ~dry)
      BY <2>1, <2>3, <3>1 DEF Attempted, Unwritten
    <3>3. Len(audit[c]) = 1 /\ audit[c][1].ok = ok /\ audit[c][1].dry = dry
      BY <3>2
    <3> QED BY <3>1, <3>2, <3>3
  <2> QED BY <2>2, <2>3
<1> QED BY <1>1, TypeInvInit, TypeInvStep, AttemptInvInit, AttemptInvStep, PTL DEF Spec

-----------------------------------------------------------------------------
(***************************************************************************)
(* Submit and delete keep the contract of write tools.  What a call owes   *)
(* when it answers: how often it has written, by phase and outcome.        *)
(***************************************************************************)
Owed(r) ==
  /\ r.phase \in {"idle", "preview", "commit", "read", "delete"} => r.commits = 0
  /\ r.phase \in {"commit", "emit"} => ~Dry(r.req)
  /\ r.phase \in {"read", "delete", "record"} => r.req.op = "delete"
  /\ r.phase \in {"emit", "record"} =>
       /\ r.out \in {"ok", "conflict", "notFound", "error"}
       /\ r.out = "ok" => r.commits = 1
       /\ r.out \in {"conflict", "notFound"} => r.commits = 0

OwedInv == \A c \in Call : Owed(call[c])

LEMMA OwedInvInit == Init => OwedInv
<1>1. NoCall.phase = "idle" /\ NoCall.commits = 0
  BY DEF NoCall
<1>2. Owed(NoCall)
  BY <1>1 DEF Owed
<1> QED BY <1>2 DEF Init, OwedInv

LEMMA OwedMove ==
  ASSUME TypeInv, OwedInv, NEW c \in Call, NEW next \in CallRecord, BegunState(next), Becomes(c, next),
         Owed(next)
  PROVE OwedInv'
<1> SUFFICES ASSUME NEW d \in Call PROVE Owed(call'[d])
  BY DEF OwedInv
<1>1. call'[d] = IF d = c THEN next ELSE call[d]
  BY MovedType
<1> QED BY <1>1 DEF OwedInv

LEMMA StepOwed ==
  ASSUME TypeInv, OwedInv, NEW c \in Call, Step(c) PROVE OwedInv'
<1>1. Owed(call[c])
  BY DEF OwedInv
<1>2. CASE Preview(c)
  <2>1. PICK next \in CallRecord :
          /\ Becomes(c, next) /\ BegunState(next)
          /\ next.req = call[c].req /\ next.commits = call[c].commits
          /\ next.phase = "done" \/ (next.phase = "commit" /\ ~call[c].req.dry)
          /\ call[c].phase = "preview"
    BY <1>2, PreviewMoves
  <2>2. Owed(next)
    BY <1>1, <2>1 DEF Owed, Dry
  <2> QED BY <2>1, <2>2, OwedMove
<1>3. CASE Commit(c)
  <2>1. PICK next \in CallRecord :
          /\ Becomes(c, next) /\ BegunState(next) /\ next.req = call[c].req /\ next.phase = "emit"
          /\ \/ next.out \in {"ok", "error"} /\ next.commits = call[c].commits + 1
             \/ next.out \in {"conflict", "error"} /\ next.commits = call[c].commits
          /\ call[c].phase = "commit"
    BY <1>3, CommitMoves DEF Carries
  <2>2. Owed(next)
    BY <1>1, <2>1 DEF Owed
  <2> QED BY <2>1, <2>2, OwedMove
<1>4. CASE Emit(c) \/ RecordDestructive(c)
  <2>1. PICK next \in CallRecord : Becomes(c, next) /\ BegunState(next) /\ next.phase = "done"
    BY <1>4, AnswerMoves
  <2> QED BY <2>1, OwedMove DEF Owed
<1>5. CASE DeleteRead(c)
  <2>1. PICK next \in CallRecord :
          /\ Becomes(c, next) /\ BegunState(next) /\ Carries(c, next)
          /\ next.phase \in {"done", "delete"} /\ call[c].phase = "read"
    BY <1>5, DeleteReadMoves
  <2>2. Owed(next)
    BY <1>1, <2>1 DEF Owed, Carries
  <2> QED BY <2>1, <2>2, OwedMove
<1>6. CASE Delete(c)
  <2>1. PICK next \in CallRecord :
          /\ Becomes(c, next) /\ BegunState(next) /\ next.phase = "record" /\ next.req = call[c].req
          /\ \/ next.out \in {"ok", "error"} /\ next.commits = call[c].commits + 1
             \/ next.out \in {"notFound", "error"} /\ next.commits = call[c].commits
          /\ call[c].phase = "delete"
    BY <1>6, DeleteMoves
  <2>2. Owed(next)
    BY <1>1, <2>1 DEF Owed
  <2> QED BY <2>1, <2>2, OwedMove
<1> QED BY <1>2, <1>3, <1>4, <1>5, <1>6 DEF Step

LEMMA OwedInvStep == TypeInv /\ OwedInv /\ [Next]_vars => OwedInv'
<1> SUFFICES ASSUME TypeInv, OwedInv, [Next]_vars PROVE OwedInv'
  OBVIOUS
<1>1. CASE UNCHANGED call
  BY <1>1 DEF OwedInv
<1>2. CASE Crash
  <2> SUFFICES ASSUME NEW c \in Call PROVE Owed(call'[c])
    BY DEF OwedInv
  <2>1. call'[c] = call[c] \/ call'[c].phase = "crashed"
    BY <1>2, CrashMoves
  <2> QED BY <2>1 DEF OwedInv, Owed
<1>3. CASE \E c \in Call : Step(c)
  BY <1>3, StepOwed
<1>4. ASSUME NEW c \in Call, NEW r \in Request, Begin(c, r) PROVE OwedInv'
  <2>1. PICK next \in CallRecord :
          /\ Becomes(c, next) /\ BegunState(next) /\ next.req = r /\ next.commits = call[c].commits
          /\ next.phase \in {"read", "preview", "done"}
          /\ next.phase = "read" => r.op = "delete"
          /\ call[c].phase = "idle"
    BY <1>4, BeginMoves
  <2>2. Owed(next)
    BY <2>1 DEF OwedInv, Owed
  <2> QED BY <2>1, <2>2, OwedMove
<1> QED BY <1>1, <1>2, <1>3, <1>4
     DEF Next, User, KubectlCreate, KubectlEdit, KubectlDelete, ClustersChange, Start, End, vars

LEMMA OwedInvariance == Spec => [](TypeInv /\ OwedInv)
BY TypeInvInit, TypeInvStep, OwedInvInit, OwedInvStep, PTL DEF Spec

(* The transaction of a call; it never waits on what it read. *)
LEMMA TransactionOf ==
  ASSUME NEW k
  PROVE /\ Transaction(k) = Contract!Tx(StateOf(k), k.req, {}, k.commits,
                                        IF k.phase = "done" THEN k.out ELSE "none")
        /\ Contract!Noticed(Transaction(k)) = Transaction(k)
<1>1. StateOf(k) # "read"
  BY DEF StateOf
<1> QED BY <1>1 DEF Transaction, Contract!Tx, Contract!Noticed

(* Writes by others, the operator's steps included, lose no race for a call. *)
LEMMA OthersRefine == ASSUME UNCHANGED call PROVE Contract!Next
<1>1. \A c \in Call : Transaction(call'[c]) = Contract!Noticed(Transaction(call[c]))
  BY TransactionOf
<1> QED BY <1>1 DEF Contract!Others, Contract!Next

(* The others stay as they are, and so does the call, or it moves. *)
LEMMA MoveRefines ==
  ASSUME TypeInv, NEW c \in Call, NEW next \in CallRecord, BegunState(next), Becomes(c, next)
  PROVE /\ \A d \in Call : Transaction(call'[d]) = IF d = c THEN Transaction(next) ELSE Transaction(call[d])
        /\ UNCHANGED live => Contract!Moves(c, Transaction(next))
        /\ UNCHANGED live /\ Transaction(next) = Transaction(call[c]) => UNCHANGED Contract!vars
<1>1. \A d \in Call : Transaction(call'[d]) = IF d = c THEN Transaction(next) ELSE Transaction(call[d])
  BY MovedType
<1>2. UNCHANGED live => Contract!Moves(c, Transaction(next))
  BY <1>1 DEF Contract!Moves
<1>3. UNCHANGED live /\ Transaction(next) = Transaction(call[c]) => UNCHANGED Contract!vars
  BY <1>1 DEF Contract!vars
<1> QED BY <1>1, <1>2, <1>3

LEMMA BeginRefines ==
  ASSUME TypeInv, OwedInv, NEW c \in Call, NEW r \in Request, Begin(c, r) PROVE Contract!Next
<1>1. PICK next \in CallRecord :
        /\ Becomes(c, next) /\ BegunState(next) /\ next.req = r /\ next.commits = call[c].commits
        /\ next.phase \in {"read", "preview"} \/ (next.phase = "done" /\ next.out = "refused")
        /\ call[c].phase = "idle" /\ UNCHANGED cluster
  BY BeginMoves
<1>2. next.commits = 0 /\ UNCHANGED live
  BY <1>1 DEF OwedInv, Owed, cluster
<1>3. [d \in Call |-> Transaction(call[d])][c].state = "idle"
  BY <1>1 DEF Transaction, StateOf
<1>4. Contract!Moves(c, Transaction(next))
  BY <1>1, <1>2, MoveRefines
<1>5. CASE next.phase \in {"read", "preview"}
  <2>1. StateOf(next) = "begun"
    BY <1>2, <1>5 DEF StateOf
  <2>2. Transaction(next) = Contract!Tx("begun", r, {}, 0, "none")
    BY <1>1, <1>2, <1>5, <2>1, TransactionOf
  <2> QED BY <1>3, <1>4, <2>2 DEF Contract!Begin, Contract!Moves, Contract!Next
<1>6. CASE next.phase = "done" /\ next.out = "refused"
  <2>1. StateOf(next) = "done"
    BY <1>6 DEF StateOf
  <2>2. Transaction(next) = Contract!Tx("done", r, {}, 0, "refused")
    BY <1>1, <1>2, <1>6, <2>1, TransactionOf
  <2> QED BY <1>3, <1>4, <2>2 DEF Contract!Refuse, Contract!Moves, Contract!Next
<1> QED BY <1>1, <1>5, <1>6

(* An answer tells of the writes what the contract says it tells. *)
LEMMA AnswerRefines ==
  ASSUME TypeInv, NEW c \in Call, NEW next \in CallRecord, BegunState(next), Becomes(c, next),
         InFlight(c), UNCHANGED live,
         next.phase = "done", next.req = call[c].req, next.commits = call[c].commits,
         next.out \in {"ok", "conflict", "notFound", "refused", "error"},
         next.out = "ok" => next.commits = IF Dry(next.req) THEN 0 ELSE 1,
         next.out \in {"conflict", "notFound", "refused"} => next.commits = 0
  PROVE Contract!Next
<1> DEFINE t == Transaction(call[c])
<1>1. /\ t.state \in {"begun", "written"} /\ t.req = next.req /\ t.writes = next.commits
      /\ [d \in Call |-> Transaction(call[d])][c] = t
  BY DEF Transaction, StateOf, InFlight
<1>2. StateOf(next) = "done"
  BY DEF StateOf
<1>3. Transaction(next) = Contract!Tx("done", next.req, {}, next.commits, next.out)
  BY <1>2, TransactionOf
<1>4. Contract!Moves(c, Transaction(next))
  BY MoveRefines
<1> HIDE DEF t
<1>5. Transaction(next) = Contract!Moved(t, "done", next.out)
  BY <1>1, <1>3 DEF Contract!Moved
<1>6. Contract!Truthful(t, next.out)
  BY <1>1 DEF Contract!Truthful
<1>7. Contract!Answer(c, next.out)
  BY <1>1, <1>4, <1>5, <1>6 DEF Contract!Answer, Contract!Open, Contract!Moves
<1> QED BY <1>7 DEF Contract!Next

(* Steps before the write, or after it and before the answer, are not seen. *)
LEMMA Unseen ==
  ASSUME TypeInv, NEW c \in Call, NEW next \in CallRecord, BegunState(next), Becomes(c, next),
         InFlight(c), UNCHANGED live, next.phase \in {"commit", "emit", "delete", "record"},
         next.req = call[c].req, next.commits = call[c].commits
  PROVE UNCHANGED Contract!vars
<1>1. StateOf(next) = StateOf(call[c]) /\ call[c].phase # "done"
  BY DEF StateOf, InFlight
<1>2. Transaction(next) = Transaction(call[c])
  BY <1>1 DEF Transaction
<1> QED BY <1>2, MoveRefines

(* A write that the server persists is the one write of the contract. *)
LEMMA WriteRefines ==
  ASSUME TypeInv, NEW c \in Call, NEW next \in CallRecord, BegunState(next), Becomes(c, next),
         call[c].phase \in {"commit", "delete"}, call[c].commits = 0, ~Dry(call[c].req),
         next.phase \in {"emit", "record"}, next.req = call[c].req, next.commits = 1,
         \A f \in Field : Overlays(call[c].req, f, live.val[f], live'.val[f])
  PROVE Contract!Next
<1> DEFINE t(d) == Transaction(call[d])
<1>1. t(c).state = "begun" /\ t(c).req = call[c].req /\ t(c).raced = {}
  BY DEF Transaction, StateOf
<1>2. StateOf(next) = "written" /\ next.phase # "done"
  BY DEF StateOf
<1>3. Transaction(next) = Contract!Tx("written", call[c].req, {}, 1, "none")
  BY <1>2, TransactionOf
<1>4. \A d \in Call : Transaction(call'[d]) =
        IF d = c THEN Contract!Tx("written", t(c).req, {}, 1, "none") ELSE Contract!Noticed(t(d))
  BY <1>1, <1>3, MoveRefines, TransactionOf
<1> HIDE DEF t
<1>5. [d \in Call |-> t(d)][c] = t(c)
  OBVIOUS
<1>6. Contract!Write(c)
  BY <1>1, <1>4, <1>5 DEF Contract!Write, t
<1> QED BY <1>6 DEF Contract!Next

LEMMA PreviewRefines ==
  ASSUME TypeInv, OwedInv, NEW c \in Call, Preview(c) PROVE [Contract!Next]_(Contract!vars)
<1>1. PICK next \in CallRecord :
        /\ Becomes(c, next) /\ BegunState(next) /\ next.req = call[c].req
        /\ next.commits = call[c].commits
        /\ \/ next.phase = "commit"
           \/ next.phase = "done" /\ next.out = "ok" /\ call[c].req.dry
           \/ next.phase = "done" /\ next.out \in {"conflict", "error"}
        /\ call[c].phase = "preview" /\ UNCHANGED cluster
  BY PreviewMoves
<1>2. InFlight(c) /\ UNCHANGED live /\ call[c].commits = 0 /\ call[c].req.op = "submit"
  BY <1>1 DEF InFlight, cluster, OwedInv, Owed, TypeInv, Begun
<1>3. CASE next.phase = "commit"
  BY <1>1, <1>2, <1>3, Unseen
<1>4. CASE next.phase = "done" /\ next.out = "ok" /\ call[c].req.dry
  BY <1>1, <1>2, <1>4, AnswerRefines DEF Dry
<1>5. CASE next.phase = "done" /\ next.out \in {"conflict", "error"}
  BY <1>1, <1>2, <1>5, AnswerRefines
<1> QED BY <1>1, <1>3, <1>4, <1>5

LEMMA CommitRefines ==
  ASSUME TypeInv, OwedInv, NEW c \in Call, Commit(c) PROVE [Contract!Next]_(Contract!vars)
<1>1. PICK next \in CallRecord :
        /\ Becomes(c, next) /\ BegunState(next) /\ next.req = call[c].req /\ next.phase = "emit"
        /\ \/ Persist(Applied(c), Owners(c)) /\ next.commits = call[c].commits + 1
           \/ Carries(c, next) /\ UNCHANGED cluster
        /\ call[c].phase = "commit"
  BY CommitMoves
<1>2. /\ InFlight(c) /\ call[c].commits = 0 /\ ~Dry(call[c].req)
      /\ call[c].req.op = "submit" /\ call[c].body = Merged(call[c].req)
  BY <1>1 DEF InFlight, OwedInv, Owed, TypeInv, Begun
<1>3. CASE Persist(Applied(c), Owners(c)) /\ next.commits = call[c].commits + 1
  <2>1. live'.val = Applied(c)
    BY <1>3 DEF Persist
  <2>2. \A f \in Field : Overlays(call[c].req, f, live.val[f], live'.val[f])
    BY <1>2, <2>1 DEF Applied, Server!AppliedValue, Overlays
  <2>3. next.commits = 1
    BY <1>2, <1>3
  <2> QED BY <1>1, <1>2, <2>2, <2>3, WriteRefines
<1>4. CASE Carries(c, next) /\ UNCHANGED cluster
  BY <1>1, <1>2, <1>4, Unseen DEF Carries, cluster
<1> QED BY <1>1, <1>3, <1>4

LEMMA FinalRefines ==
  ASSUME TypeInv, OwedInv, NEW c \in Call, Emit(c) \/ RecordDestructive(c) PROVE Contract!Next
<1>1. PICK next \in CallRecord :
        /\ Becomes(c, next) /\ BegunState(next) /\ Carries(c, next)
        /\ next.phase = "done" /\ next.out = call[c].out
        /\ call[c].phase \in {"emit", "record"} /\ UNCHANGED cluster
  BY AnswerMoves
<1>2. InFlight(c) /\ UNCHANGED live /\ Owed(call[c]) /\ ~Dry(call[c].req)
  BY <1>1 DEF InFlight, cluster, OwedInv, Owed, Dry
<1> QED BY <1>1, <1>2, AnswerRefines DEF Owed, Carries

LEMMA DeleteReadRefines ==
  ASSUME TypeInv, OwedInv, NEW c \in Call, DeleteRead(c) PROVE [Contract!Next]_(Contract!vars)
<1>1. PICK next \in CallRecord :
        /\ Becomes(c, next) /\ BegunState(next) /\ Carries(c, next)
        /\ \/ next.phase = "done" /\ next.out \in {"notFound", "refused", "error"}
           \/ next.phase = "delete"
        /\ call[c].phase = "read" /\ UNCHANGED cluster
  BY DeleteReadMoves
<1>2. InFlight(c) /\ UNCHANGED live /\ call[c].commits = 0
  BY <1>1 DEF InFlight, cluster, OwedInv, Owed
<1>3. CASE next.phase = "done" /\ next.out \in {"notFound", "refused", "error"}
  BY <1>1, <1>2, <1>3, AnswerRefines DEF Carries
<1>4. CASE next.phase = "delete"
  BY <1>1, <1>2, <1>4, Unseen DEF Carries
<1> QED BY <1>1, <1>3, <1>4

LEMMA DeleteRefines ==
  ASSUME TypeInv, OwedInv, NEW c \in Call, Delete(c) PROVE [Contract!Next]_(Contract!vars)
<1>1. PICK next \in CallRecord :
        /\ Becomes(c, next) /\ BegunState(next) /\ next.phase = "record" /\ next.req = call[c].req
        /\ \/ Remove /\ next.commits = call[c].commits + 1
           \/ next.commits = call[c].commits /\ UNCHANGED cluster
        /\ call[c].phase = "delete"
  BY DeleteMoves
<1>2. InFlight(c) /\ call[c].commits = 0 /\ call[c].req.op = "delete" /\ ~Dry(call[c].req)
  BY <1>1 DEF InFlight, OwedInv, Owed, Dry
<1>3. CASE Remove /\ next.commits = call[c].commits + 1
  <2>1. \A f \in Field : Overlays(call[c].req, f, live.val[f], live'.val[f])
    BY <1>2, <1>3 DEF Remove, Server!NoValues, Overlays
  <2>2. next.commits = 1
    BY <1>2, <1>3
  <2> QED BY <1>1, <1>2, <2>1, <2>2, WriteRefines
<1>4. CASE next.commits = call[c].commits /\ UNCHANGED cluster
  BY <1>1, <1>2, <1>4, Unseen DEF cluster
<1> QED BY <1>1, <1>3, <1>4

LEMMA CrashRefines == ASSUME TypeInv, Crash PROVE Contract!Next
<1>1. /\ UNCHANGED live
      /\ \A c \in Call : \/ call'[c] = call[c] /\ ~InFlight(c)
                         \/ InFlight(c) /\ call'[c].phase = "crashed" /\ Carries(c, call'[c])
  BY CrashMoves DEF cluster
<1>2. ASSUME NEW c \in Call
      PROVE Transaction(call'[c]) = IF Contract!Open(Transaction(call[c]))
                                    THEN Contract!Moved(Transaction(call[c]), "crashed", "none")
                                    ELSE Transaction(call[c])
  <2> DEFINE t == Transaction(call[c])
  <2>1. Contract!Open(t) <=> InFlight(c)
    BY DEF Contract!Open, Transaction, StateOf, InFlight, TypeInv, TypeOK, Phase
  <2>2. t.req = call[c].req /\ t.writes = call[c].commits
    BY DEF Transaction
  <2>3. CASE InFlight(c)
    <3>1. call'[c].phase = "crashed" /\ Carries(c, call'[c])
      BY <1>1, <2>3
    <3>2. StateOf(call'[c]) = "crashed"
      BY <3>1 DEF StateOf
    <3>3. Transaction(call'[c]) = Contract!Tx("crashed", call[c].req, {}, call[c].commits, "none")
      BY <3>1, <3>2, TransactionOf DEF Carries
    <3> HIDE DEF t
    <3> QED BY <2>1, <2>2, <2>3, <3>3 DEF Contract!Moved, t
  <2>4. CASE ~InFlight(c)
    BY <1>1, <2>1, <2>4
  <2> QED BY <2>3, <2>4
<1> QED BY <1>1, <1>2 DEF Contract!Crash, Contract!Next

LEMMA StepRefines == TypeInv /\ OwedInv /\ [Next]_vars => [Contract!Next]_(Contract!vars)
<1> SUFFICES ASSUME TypeInv, OwedInv, [Next]_vars PROVE [Contract!Next]_(Contract!vars)
  OBVIOUS
<1>1. CASE UNCHANGED call
  BY <1>1, OthersRefine
<1>2. CASE Crash
  BY <1>2, CrashRefines
<1>3. CASE \E c \in Call : Step(c)
  BY <1>3, PreviewRefines, CommitRefines, FinalRefines, DeleteReadRefines, DeleteRefines DEF Step
<1>4. CASE \E c \in Call : \E r \in Request : Begin(c, r)
  BY <1>4, BeginRefines
<1> QED BY <1>1, <1>2, <1>3, <1>4
     DEF Next, User, KubectlCreate, KubectlEdit, KubectlDelete, ClustersChange, Start, End, vars

(***************************************************************************)
(* Submit and delete implement the contract of write tools, for any number *)
(* of concurrent calls and whatever the operator and kubectl users do: a   *)
(* call writes at most once, all of what was asked, from its arguments     *)
(* alone, and every answer but an error tells whether it did.              *)
(***************************************************************************)
THEOREM WritesAreAtomic == Spec => ImplementsAtomicWrite
<1>1. Init => Contract!Init
  <2> SUFFICES ASSUME Init PROVE Contract!Init
    OBVIOUS
  <2>1. NoCall.phase = "idle" /\ NoCall.req = Absent /\ NoCall.commits = 0
    BY DEF NoCall
  <2>2. Transaction(NoCall) = Contract!Tx("idle", Absent, {}, 0, "none")
    BY <2>1, TransactionOf DEF StateOf
  <2> QED BY <2>2 DEF Init, Contract!Init
<1> QED BY <1>1, OwedInvariance, StepRefines, PTL DEF Spec, ImplementsAtomicWrite, Contract!Spec
=============================================================================
