-------------------------- MODULE ServerProcessProofs --------------------------
(***************************************************************************)
(* What holds of one life of the process for any number of requests,       *)
(* clusters, kubeconfigs and edits.                                        *)
(***************************************************************************)
EXTENDS ServerProcess, TLAPS

CallRecord == [phase : Phase, op : Op, using : Context \union {None},
               seen : SUBSET Context, answer : Answer, steady : BOOLEAN]

LEMMA TargetType == ASSUME TypeOK, NEW f \in KubeconfigType PROVE Target(f) \in Context
BY ContextAssumption DEF TypeOK, Target, KubeconfigType

LEMMA ResolvesType == ASSUME NEW f PROVE Resolves(f) \in BOOLEAN
BY DEF Resolves

LEMMA NoCallType == NoCall \in CallRecord
BY DEF NoCall, CallRecord, Phase, Op, Answer

LEMMA MovedType ==
  ASSUME TypeOK, NEW c \in Caller, NEW next \in CallRecord, Becomes(c, next)
  PROVE /\ call' \in [Caller -> CallRecord]
        /\ \A d \in Caller : call'[d] = IF d = c THEN next ELSE call[d]
BY DEF TypeOK, Becomes, CallRecord

(* The states a request may be left in. *)
LEMMA NextStates ==
  ASSUME TypeOK, NEW c \in Caller
  PROVE /\ \A answer \in Answer : Answered(c, answer) \in CallRecord
        /\ \A k \in Context : [call[c] EXCEPT !.phase = "api", !.using = k] \in CallRecord
        /\ [call[c] EXCEPT !.phase = "locked"] \in CallRecord
<1>1. call[c] \in CallRecord
  BY DEF TypeOK, CallRecord
<1> QED BY <1>1 DEF Answered, CallRecord, Phase

LEMMA AnsweredState ==
  ASSUME TypeOK, NEW c \in Caller, NEW answer
  PROVE LET next == Answered(c, answer)
        IN /\ next.phase = "done" /\ next.answer = answer /\ next.using = None
           /\ next.seen = call[c].seen /\ next.steady = call[c].steady /\ next.op = call[c].op
BY DEF TypeOK, Answered

LEMMA ExitType ==
  ASSUME TypeOK, NEW code \in ExitCode, Exit(code)
  PROVE /\ call' \in [Caller -> CallRecord]
        /\ proc' \in [stage : Stage, exit : ExitCode, signalled : BOOLEAN, listening : BOOLEAN]
        /\ proc'.stage = "exited" /\ proc'.exit = code /\ proc'.signalled = proc.signalled
        /\ \A c \in Caller :
             /\ call'[c].seen = call[c].seen /\ call'[c].steady = call[c].steady
             /\ call'[c].answer = call[c].answer /\ ~InFlight(c)'
             /\ call'[c].phase = IF InFlight(c) THEN "killed" ELSE call[c].phase
<1>1. call \in [Caller -> CallRecord]
  BY DEF TypeOK, CallRecord
<1>2. \A c \in Caller :
        LET killed == [call[c] EXCEPT !.phase = "killed", !.using = None]
        IN /\ killed \in CallRecord /\ killed.phase = "killed" /\ killed.seen = call[c].seen
           /\ killed.steady = call[c].steady /\ killed.answer = call[c].answer
  BY <1>1 DEF CallRecord, Phase
<1>3. \A c \in Caller : call'[c] = IF InFlight(c) THEN [call[c] EXCEPT !.phase = "killed", !.using = None] ELSE call[c]
  BY DEF Exit
<1>4. call' \in [Caller -> CallRecord]
  BY <1>1, <1>2 DEF Exit
<1>5. /\ proc' \in [stage : Stage, exit : ExitCode, signalled : BOOLEAN, listening : BOOLEAN]
      /\ proc'.stage = "exited" /\ proc'.exit = code /\ proc'.signalled = proc.signalled
  BY DEF Exit, TypeOK, Stage
<1> QED BY <1>2, <1>3, <1>4, <1>5 DEF InFlight

LEMMA StageType ==
  ASSUME TypeOK, NEW s \in Stage, Stages(s)
  PROVE /\ proc' \in [stage : Stage, exit : ExitCode, signalled : BOOLEAN, listening : BOOLEAN]
        /\ proc'.stage = s /\ proc'.exit = proc.exit /\ proc'.signalled = proc.signalled
BY DEF TypeOK, Stages

-----------------------------------------------------------------------------
(* What one action does to the requests, told by fields. *)

LEMMA EditCalls ==
  ASSUME TypeOK, NEW f \in Kubeconfig,
         call' = [c \in Caller |->
                    IF InFlight(c) THEN [call[c] EXCEPT !.steady = @ /\ Resolves(f)] ELSE call[c]]
  PROVE /\ call' \in [Caller -> CallRecord]
        /\ \A c \in Caller :
             /\ call'[c].phase = call[c].phase /\ call'[c].using = call[c].using
             /\ call'[c].seen = call[c].seen /\ call'[c].answer = call[c].answer
             /\ InFlight(c) => (call'[c].steady => call[c].steady /\ Resolves(f))
             /\ ~InFlight(c) => call'[c].steady = call[c].steady
<1>1. call \in [Caller -> CallRecord]
  BY DEF TypeOK, CallRecord
<1>2. \A c \in Caller : (call[c].steady /\ Resolves(f)) \in BOOLEAN
  OBVIOUS
<1>3. \A c \in Caller :
        LET edited == [call[c] EXCEPT !.steady = @ /\ Resolves(f)]
        IN /\ edited \in CallRecord /\ edited.phase = call[c].phase /\ edited.using = call[c].using
           /\ edited.seen = call[c].seen /\ edited.answer = call[c].answer
           /\ edited.steady = (call[c].steady /\ Resolves(f))
  BY <1>1, <1>2 DEF CallRecord
<1> QED BY <1>1, <1>3

LEMMA TypeOKInit == Init => TypeOK
<1> SUFFICES ASSUME Init PROVE TypeOK
  OBVIOUS
<1>1. call \in [Caller -> CallRecord]
  BY NoCallType DEF Init
<1>2. file \in KubeconfigType /\ flag \in Context \union {None}
  BY FileAssumption, FlagAssumption DEF Init
<1> QED BY <1>1, <1>2 DEF Init, TypeOK, CallRecord, Stage, ExitCode

LEMMA ProcessType ==
  ASSUME TypeOK, Process PROVE TypeOK'
<1>1. CASE NewClient
  <2>1. name' \in Context \union {None}
    BY <1>1 DEF NewClient, TypeOK, KubeconfigType
  <2> QED BY <1>1, <2>1, StageType DEF NewClient, TypeOK, Stage
<1>2. CASE BuildWedge
  <2>1. Target(file) \in Context
    BY TargetType DEF TypeOK
  <2> QED BY <1>2, <2>1, StageType DEF BuildWedge, TypeOK, Stage
<1>3. CASE RunHTTP
  <2>1. CASE Exit("1")
    BY <1>3, <2>1, ExitType DEF RunHTTP, boot, cluster, TypeOK, ExitCode, CallRecord
  <2>2. CASE ~Exit("1")
    BY <1>3, <2>2 DEF RunHTTP, boot, cluster, TypeOK, Stage
  <2> QED BY <2>1, <2>2
<1>4. CASE Select
  <2>1. CASE Exit("1")
    BY <1>4, <2>1, ExitType DEF Select, boot, cluster, TypeOK, ExitCode, CallRecord
  <2>2. CASE ~Exit("1")
    BY <1>4, <2>2, StageType DEF Select, boot, cluster, TypeOK, Stage
  <2> QED BY <2>1, <2>2
<1>5. CASE Shutdown
  <2>1. \E code \in {"0", "1"} : Exit(code)
    BY <1>5 DEF Shutdown
  <2> QED BY <1>5, <2>1, ExitType DEF Shutdown, boot, cluster, TypeOK, ExitCode, CallRecord
<1> QED BY <1>1, <1>2, <1>3, <1>4, <1>5 DEF Process

LEMMA EnvironmentType ==
  ASSUME TypeOK, Environment PROVE TypeOK'
<1>1. CASE EditKubeconfig
  <2>1. PICK f \in Kubeconfig :
          /\ file' = f /\ moved' = (moved \/ f.current # file.current)
          /\ call' = [c \in Caller |->
                        IF InFlight(c) THEN [call[c] EXCEPT !.steady = @ /\ Resolves(f)] ELSE call[c]]
    BY <1>1 DEF EditKubeconfig
  <2>2. call' \in [Caller -> CallRecord]
    BY <2>1, EditCalls
  <2>3. file' \in KubeconfigType /\ moved' \in BOOLEAN
    BY <2>1, FileAssumption
  <2> QED BY <1>1, <2>2, <2>3 DEF EditKubeconfig, boot, TypeOK, CallRecord
<1>2. CASE Signal
  <2>1. CASE Exit("signal")
    BY <1>2, <2>1, ExitType DEF Signal, boot, cluster, TypeOK, ExitCode, CallRecord
  <2>2. CASE ~Exit("signal")
    BY <1>2, <2>2 DEF Signal, boot, cluster, TypeOK
  <2> QED BY <2>1, <2>2
<1>3. CASE ListenerFails
  BY <1>3 DEF ListenerFails, boot, cluster, TypeOK
<1> QED BY <1>1, <1>2, <1>3 DEF Environment

(* What the steps of a request leave it with. *)
Heard(c) == [call[c] EXCEPT !.seen = @ \union {call[c].using}, !.using = None]
Told(c)  == [call[c] EXCEPT !.seen = @ \union {wedge}, !.phase = "done", !.answer = "ok"]

LEMMA AskStates ==
  ASSUME TypeOK, NEW c \in Caller, call[c].using \in Context
  PROVE /\ Heard(c).seen = call[c].seen \union {call[c].using}
        /\ [Heard(c) EXCEPT !.phase = "wedge"] \in CallRecord
        /\ [Heard(c) EXCEPT !.phase = "done", !.answer = "ok"] \in CallRecord
<1>1. call[c] \in CallRecord
  BY DEF TypeOK, CallRecord
<1>2. Heard(c) \in CallRecord /\ Heard(c).seen = call[c].seen \union {call[c].using}
  BY <1>1 DEF Heard, CallRecord
<1> QED BY <1>2 DEF CallRecord, Phase, Answer

LEMMA ToldState ==
  ASSUME TypeOK, NEW c \in Caller, wedge # None
  PROVE Told(c) \in CallRecord /\ Told(c).seen = call[c].seen \union {wedge}
<1>1. call[c] \in CallRecord /\ wedge \in Context
  BY DEF TypeOK, CallRecord
<1> QED BY <1>1 DEF Told, CallRecord, Phase, Answer

-----------------------------------------------------------------------------
(***************************************************************************)
(* Before the client is built, who builds it holds the mutex; once it is   *)
(* built, everything that asks a cluster asks that one.                    *)
(***************************************************************************)
Held(c) ==
  /\ call[c].phase = "locked" => mu = c /\ client = None
  /\ call[c].phase = "api" => client # None /\ call[c].using = client

BootOrder ==
  proc.stage \in {"start", "named"} => client = None /\ \A c \in Caller : call[c].phase = "idle"

BindingInv == BootOrder /\ wedge \in {None, client} /\ \A c \in Caller : Held(c)

(* Each step of a request, told by the fields of the state it leaves the request in. *)

LEMMA BeginMoves ==
  ASSUME NEW c \in Caller, Begin(c)
  PROVE \E next \in CallRecord :
          /\ Becomes(c, next)
          /\ next.phase \in {"stream", "connect"} /\ next.seen = {} /\ next.steady = Resolves(file)
          /\ proc.stage = "serving" /\ UNCHANGED <<boot, cluster, proc>>
<1> DEFINE next(op) == [NoCall EXCEPT !.op = op, !.steady = Resolves(file),
                                      !.phase = IF op = "stream" THEN "stream" ELSE "connect"]
<1>1. PICK op \in Op : Becomes(c, next(op))
  BY DEF Begin
<1>2. /\ next(op) \in CallRecord /\ next(op).phase \in {"stream", "connect"}
      /\ next(op).seen = {} /\ next(op).steady = Resolves(file)
  BY NoCallType, ResolvesType DEF NoCall, CallRecord, Phase
<1> QED BY <1>1, <1>2 DEF Begin

LEMMA LookupMoves ==
  ASSUME TypeOK, NEW c \in Caller, Lookup(c)
  PROVE \E next \in CallRecord :
          /\ Becomes(c, next)
          /\ next.seen = call[c].seen /\ next.steady = call[c].steady
          /\ \/ next.phase = "api" /\ next.using = client /\ client # None /\ mu' = mu
             \/ next.phase = "locked" /\ client = None /\ mu' = c
          /\ call[c].phase = "connect" /\ UNCHANGED <<boot, file, edits, moved, client, proc>>
<1>1. CASE client # None /\ mu' = mu /\ Becomes(c, [call[c] EXCEPT !.phase = "api", !.using = client])
  <2> DEFINE next == [call[c] EXCEPT !.phase = "api", !.using = client]
  <2>1. next \in CallRecord
    BY <1>1, NextStates DEF TypeOK
  <2>2. /\ next.seen = call[c].seen /\ next.steady = call[c].steady
        /\ next.phase = "api" /\ next.using = client
    BY DEF TypeOK
  <2> HIDE DEF next
  <2> QED BY <1>1, <2>1, <2>2 DEF Lookup, next
<1>2. CASE client = None /\ mu' = c /\ Becomes(c, [call[c] EXCEPT !.phase = "locked"])
  <2> DEFINE next == [call[c] EXCEPT !.phase = "locked"]
  <2>1. next \in CallRecord
    BY NextStates
  <2>2. next.seen = call[c].seen /\ next.steady = call[c].steady /\ next.phase = "locked"
    BY DEF TypeOK
  <2> HIDE DEF next
  <2> QED BY <1>2, <2>1, <2>2 DEF Lookup, next
<1> QED BY <1>1, <1>2 DEF Lookup

LEMMA BuildMoves ==
  ASSUME TypeOK, NEW c \in Caller, BuildClient(c)
  PROVE \E next \in CallRecord :
          /\ Becomes(c, next)
          /\ next.seen = call[c].seen /\ next.steady = call[c].steady
          /\ \/ /\ next.phase = "api" /\ next.using = Target(file)
                /\ client' = Target(file) /\ Target(file) \in Context
             \/ next.phase = "done" /\ ~Resolves(file) /\ client' = client
          /\ call[c].phase = "locked" /\ mu' = None
          /\ UNCHANGED <<boot, file, edits, moved, proc>>
<1>1. Target(file) \in Context
  BY TargetType DEF TypeOK
<1>2. CASE client' = Target(file) /\ Becomes(c, [call[c] EXCEPT !.phase = "api", !.using = Target(file)])
  <2> DEFINE next == [call[c] EXCEPT !.phase = "api", !.using = Target(file)]
  <2>1. next \in CallRecord
    BY <1>1, NextStates
  <2>2. /\ next.seen = call[c].seen /\ next.steady = call[c].steady
        /\ next.phase = "api" /\ next.using = Target(file)
    BY DEF TypeOK
  <2> HIDE DEF next
  <2> QED BY <1>1, <1>2, <2>1, <2>2 DEF BuildClient, next
<1>3. CASE Unreachable(c)
  <2>1. Answered(c, "noCluster") \in CallRecord
    BY NextStates DEF Answer
  <2> QED BY <1>3, <2>1, AnsweredState DEF BuildClient, Unreachable, Finish
<1> QED BY <1>2, <1>3 DEF BuildClient

LEMMA AskMoves ==
  ASSUME TypeOK, BindingInv, NEW c \in Caller, Ask(c)
  PROVE \E next \in CallRecord :
          /\ Becomes(c, next) /\ client # None
          /\ next.seen \in {call[c].seen, call[c].seen \union {client}} /\ next.steady = call[c].steady
          /\ next.phase = "wedge" \/ (next.phase = "done" /\ next.answer # "noCluster")
          /\ call[c].phase = "api" /\ UNCHANGED <<boot, cluster, proc>>
<1>1. client # None /\ call[c].using = client /\ call[c].using \in Context
  BY DEF Ask, BindingInv, Held, TypeOK
<1>2. call[c] \in CallRecord
  BY DEF TypeOK, CallRecord
<1>3. Heard(c).steady = call[c].steady /\ Heard(c).seen = call[c].seen \union {client}
  BY <1>1, <1>2 DEF Heard, CallRecord
<1>4. CASE Becomes(c, [Heard(c) EXCEPT !.phase = "wedge"])
  <2> DEFINE next == [Heard(c) EXCEPT !.phase = "wedge"]
  <2>1. next \in CallRecord
    BY <1>1, AskStates
  <2>2. next.phase = "wedge" /\ next.steady = call[c].steady /\ next.seen = call[c].seen \union {client}
    BY <1>2, <1>3 DEF Heard, CallRecord
  <2> HIDE DEF next
  <2> QED BY <1>1, <1>4, <2>1, <2>2 DEF Ask, next
<1>5. CASE Becomes(c, [Heard(c) EXCEPT !.phase = "done", !.answer = "ok"])
  <2> DEFINE next == [Heard(c) EXCEPT !.phase = "done", !.answer = "ok"]
  <2>1. next \in CallRecord
    BY <1>1, AskStates
  <2>2. /\ next.phase = "done" /\ next.answer = "ok" /\ next.steady = call[c].steady
        /\ next.seen = call[c].seen \union {client}
    BY <1>2, <1>3 DEF Heard, CallRecord
  <2> HIDE DEF next
  <2> QED BY <1>1, <1>5, <2>1, <2>2 DEF Ask, next
<1>6. CASE Finish(c, "error")
  <2>1. Answered(c, "error") \in CallRecord
    BY NextStates DEF Answer
  <2> QED BY <1>1, <1>6, <2>1, AnsweredState DEF Ask, Finish
<1> QED BY <1>4, <1>5, <1>6 DEF Ask, Heard

LEMMA AskDashboardMoves ==
  ASSUME TypeOK, NEW c \in Caller, AskDashboard(c)
  PROVE \E next \in CallRecord :
          /\ Becomes(c, next)
          /\ next.seen = call[c].seen \/ (wedge # None /\ next.seen = call[c].seen \union {wedge})
          /\ next.steady = call[c].steady /\ next.phase = "done" /\ next.answer # "noCluster"
          /\ call[c].phase = "wedge" /\ UNCHANGED <<boot, cluster, proc>>
<1>1. CASE wedge # None /\ Becomes(c, Told(c))
  <2>1. /\ Told(c) \in CallRecord /\ Told(c).seen = call[c].seen \union {wedge}
        /\ Told(c).phase = "done" /\ Told(c).answer = "ok" /\ Told(c).steady = call[c].steady
    BY <1>1, ToldState DEF TypeOK, Told
  <2> QED BY <1>1, <2>1 DEF AskDashboard
<1>2. CASE Finish(c, "degraded")
  <2>1. Answered(c, "degraded") \in CallRecord
    BY NextStates DEF Answer
  <2> QED BY <1>2, <2>1, AnsweredState DEF AskDashboard, Finish
<1> QED BY <1>1, <1>2 DEF AskDashboard, Told

LEMMA CloseStreamMoves ==
  ASSUME TypeOK, NEW c \in Caller, CloseStream(c)
  PROVE \E next \in CallRecord :
          /\ Becomes(c, next)
          /\ next.seen = call[c].seen /\ next.steady = call[c].steady
          /\ next.phase = "done" /\ next.answer # "noCluster"
          /\ call[c].phase = "stream" /\ UNCHANGED <<boot, cluster, proc>>
<1>1. Answered(c, "ok") \in CallRecord
  BY NextStates DEF Answer
<1> QED BY <1>1, AnsweredState DEF CloseStream, Finish

Request(c) == Begin(c) \/ Lookup(c) \/ Step(c) \/ CloseStream(c)

LEMMA RequestType ==
  ASSUME TypeOK, BindingInv, NEW c \in Caller, Request(c) PROVE TypeOK'
<1>1. \E next \in CallRecord : Becomes(c, next)
  BY BeginMoves, LookupMoves, BuildMoves, AskMoves, AskDashboardMoves, CloseStreamMoves DEF Request, Step
<1>2. call' \in [Caller -> CallRecord]
  BY <1>1, MovedType
<1>3. UNCHANGED <<boot, file, edits, moved, proc>>
  BY DEF Request, Begin, Lookup, Step, BuildClient, Ask, AskDashboard, CloseStream, cluster
<1>4. mu' \in Caller \union {None}
  BY DEF TypeOK, Request, Begin, Lookup, Step, BuildClient, Ask, AskDashboard, CloseStream, cluster
<1>5. client' \in Context \union {None}
  BY TargetType DEF TypeOK, Request, Begin, Lookup, Step, BuildClient, Unreachable, Ask, AskDashboard, CloseStream, cluster
<1> QED BY <1>2, <1>3, <1>4, <1>5 DEF TypeOK, CallRecord, boot

LEMMA RequestBinding ==
  ASSUME TypeOK, BindingInv, NEW c \in Caller, Request(c) PROVE BindingInv'
<1>1. PICK next \in CallRecord : Becomes(c, next) /\ UNCHANGED <<wedge, proc>>
                                /\ (client' # client => client = None /\ client' \in Context)
                                /\ (next.phase = "locked" => mu' = c /\ client' = None)
                                /\ (next.phase = "api" => client' # None /\ next.using = client')
                                /\ (mu' # mu \/ client' # client => mu \in {None, c})
                                /\ (call[c].phase # "idle" \/ proc.stage = "serving")
  <2>1. CASE Begin(c)
    BY <2>1, BeginMoves DEF boot, cluster
  <2>2. CASE Lookup(c)
    BY <2>2, LookupMoves DEF boot, Lookup
  <2>3. CASE BuildClient(c)
    <3>1. mu = c /\ client = None
      BY <2>3 DEF BuildClient, BindingInv, Held
    <3> QED BY <2>3, <3>1, BuildMoves, ContextAssumption DEF boot
  <2>4. CASE Ask(c)
    BY <2>4, AskMoves DEF boot, cluster
  <2>5. CASE AskDashboard(c)
    BY <2>5, AskDashboardMoves DEF boot, cluster
  <2>6. CASE CloseStream(c)
    BY <2>6, CloseStreamMoves DEF boot, cluster
  <2> QED BY <2>1, <2>2, <2>3, <2>4, <2>5, <2>6 DEF Request, Step
<1>2. \A d \in Caller : call'[d] = IF d = c THEN next ELSE call[d]
  BY <1>1, MovedType
<1>3. ASSUME NEW d \in Caller PROVE Held(d)'
  <2>1. CASE d = c
    BY <1>1, <1>2, <2>1 DEF Held
  <2>2. CASE d # c
    BY <1>1, <1>2, <2>2, ContextAssumption DEF Held, BindingInv
  <2> QED BY <2>1, <2>2
<1>4. wedge' \in {None, client'}
  BY <1>1 DEF BindingInv
<1>5. BootOrder'
  BY <1>1 DEF BindingInv, BootOrder
<1> QED BY <1>3, <1>4, <1>5 DEF BindingInv

LEMMA ExitBinding ==
  ASSUME TypeOK, BindingInv, NEW code \in ExitCode, Exit(code), UNCHANGED <<boot, cluster>>
  PROVE BindingInv'
BY ExitType DEF BindingInv, BootOrder, Held, boot, cluster, InFlight

LEMMA ProcessBinding ==
  ASSUME TypeOK, BindingInv, Process PROVE BindingInv'
<1>1. CASE NewClient
  BY <1>1, StageType DEF NewClient, BindingInv, BootOrder, Held, Stage
<1>2. CASE BuildWedge
  <2>1. proc'.stage = "wired" /\ call' = call /\ mu' = mu
    BY <1>2, StageType DEF BuildWedge, Stage
  <2>2. \A c \in Caller : call[c].phase = "idle"
    BY <1>2 DEF BuildWedge, BindingInv, BootOrder
  <2>3. wedge' \in {None, client'}
    BY <1>2 DEF BuildWedge, BindingInv
  <2> QED BY <2>1, <2>2, <2>3 DEF BindingInv, BootOrder, Held
<1>3. CASE RunHTTP
  <2>1. CASE Exit("1")
    BY <1>3, <2>1, ExitBinding DEF RunHTTP, ExitCode
  <2>2. CASE ~Exit("1")
    BY <1>3, <2>2 DEF RunHTTP, TypeOK, BindingInv, BootOrder, Held, boot, cluster
  <2> QED BY <2>1, <2>2
<1>4. CASE Select
  <2>1. CASE Exit("1")
    BY <1>4, <2>1, ExitBinding DEF Select, ExitCode
  <2>2. CASE ~Exit("1")
    BY <1>4, <2>2, StageType DEF Select, BindingInv, BootOrder, Held, boot, cluster, Stage
  <2> QED BY <2>1, <2>2
<1>5. CASE Shutdown
  BY <1>5, ExitBinding DEF Shutdown, ExitCode
<1> QED BY <1>1, <1>2, <1>3, <1>4, <1>5 DEF Process

LEMMA EnvironmentBinding ==
  ASSUME TypeOK, BindingInv, Environment PROVE BindingInv'
<1>1. CASE EditKubeconfig
  BY <1>1, EditCalls DEF EditKubeconfig, BindingInv, BootOrder, Held, boot
<1>2. CASE Signal
  <2>1. CASE Exit("signal")
    BY <1>2, <2>1, ExitBinding DEF Signal, ExitCode
  <2>2. CASE ~Exit("signal")
    BY <1>2, <2>2 DEF Signal, TypeOK, BindingInv, BootOrder, Held, boot, cluster
  <2> QED BY <2>1, <2>2
<1>3. CASE ListenerFails
  BY <1>3 DEF ListenerFails, TypeOK, BindingInv, BootOrder, Held, boot, cluster
<1> QED BY <1>1, <1>2, <1>3 DEF Environment

BoundInv == TypeOK /\ BindingInv

LEMMA BoundInvInit == Init => BoundInv
<1> SUFFICES ASSUME Init PROVE BindingInv
  BY TypeOKInit DEF BoundInv
<1>1. \A c \in Caller : call[c].phase = "idle"
  BY DEF Init, NoCall
<1> QED BY <1>1 DEF Init, BindingInv, BootOrder, Held

LEMMA BoundInvStep == BoundInv /\ [Next]_vars => BoundInv'
<1> SUFFICES ASSUME TypeOK, BindingInv, [Next]_vars PROVE TypeOK' /\ BindingInv'
  BY DEF BoundInv
<1>1. CASE Process
  BY <1>1, ProcessType, ProcessBinding
<1>2. CASE Environment
  BY <1>2, EnvironmentType, EnvironmentBinding
<1>3. CASE \E c \in Caller : Request(c)
  BY <1>3, RequestType, RequestBinding
<1>4. CASE UNCHANGED vars
  BY <1>4 DEF vars, boot, cluster, TypeOK, BindingInv, BootOrder, Held
<1> QED BY <1>1, <1>2, <1>3, <1>4 DEF Next, Request

LEMMA Bounded == Spec => []BoundInv
BY BoundInvInit, BoundInvStep, PTL DEF Spec

(***************************************************************************)
(* However the first calls race, the process and its requests keep their   *)
(* types: in particular nothing is ever asked of a client that is not      *)
(* there.                                                                  *)
(***************************************************************************)
THEOREM TypeCorrect == Spec => []TypeOK
BY Bounded, PTL DEF BoundInv

-----------------------------------------------------------------------------
(* The process implements OneBinding: bound is the client, seen what the requests tell. *)

Seen == [c \in Caller |-> call[c].seen]

LEMMA SeenMove ==
  ASSUME TypeOK, NEW c \in Caller, NEW next \in CallRecord, Becomes(c, next)
  PROVE Seen' = [Seen EXCEPT ![c] = next.seen]
BY MovedType DEF Seen

LEMMA SeenStays ==
  ASSUME \A c \in Caller : call'[c].seen = call[c].seen PROVE Seen' = Seen
BY DEF Seen

(* A request that binds the server, asks the bound cluster, begins, or does none of it. *)
LEMMA RequestRefines ==
  ASSUME TypeOK, BindingInv, NEW c \in Caller, Request(c)
  PROVE \/ client = None /\ client' \in Context /\ Seen' = Seen
        \/ client' = client /\ client # None /\ Seen' = [Seen EXCEPT ![c] = @ \union {client}]
        \/ client' = client /\ Seen' = [Seen EXCEPT ![c] = {}]
        \/ client' = client /\ Seen' = Seen
<1>1. Seen[c] = call[c].seen /\ [Seen EXCEPT ![c] = Seen[c]] = Seen
  BY DEF Seen
<1>2. CASE Begin(c)
  BY <1>2, BeginMoves, SeenMove DEF cluster
<1>3. CASE Lookup(c)
  BY <1>1, <1>3, LookupMoves, SeenMove
<1>4. CASE BuildClient(c)
  <2>1. client = None
    BY <1>4 DEF BuildClient, BindingInv, Held
  <2> QED BY <1>1, <1>4, <2>1, BuildMoves, SeenMove
<1>5. CASE Ask(c)
  BY <1>1, <1>5, AskMoves, SeenMove DEF cluster
<1>6. CASE AskDashboard(c)
  <2>1. wedge # None => wedge = client /\ client # None
    BY DEF BindingInv
  <2> QED BY <1>1, <1>6, <2>1, AskDashboardMoves, SeenMove DEF cluster
<1>7. CASE CloseStream(c)
  BY <1>1, <1>7, CloseStreamMoves, SeenMove DEF cluster
<1> QED BY <1>2, <1>3, <1>4, <1>5, <1>6, <1>7 DEF Request, Step

LEMMA ExitRefines ==
  ASSUME TypeOK, NEW code \in ExitCode, Exit(code) PROVE Seen' = Seen
BY ExitType, SeenStays

LEMMA OtherRefines ==
  ASSUME TypeOK, BindingInv, Process \/ Environment
  PROVE Seen' = Seen /\ (client' = client \/ (client = None /\ client' \in Context))
<1>1. CASE \E code \in ExitCode : Exit(code) /\ UNCHANGED <<boot, cluster>>
  BY <1>1, ExitRefines DEF cluster
<1>2. CASE UNCHANGED call /\ (client' = client \/ (client = None /\ client' \in Context))
  BY <1>2 DEF Seen
<1>3. CASE NewClient
  BY <1>2, <1>3 DEF NewClient
<1>4. CASE BuildWedge
  <2>1. client = None /\ Target(file) \in Context
    BY <1>4, TargetType DEF BuildWedge, BindingInv, BootOrder, TypeOK
  <2> QED BY <1>2, <1>4, <2>1 DEF BuildWedge
<1>5. CASE RunHTTP \/ Select \/ Shutdown
  BY <1>1, <1>2, <1>5 DEF RunHTTP, Select, Shutdown, ExitCode, cluster
<1>6. CASE EditKubeconfig
  <2>1. \A c \in Caller : call'[c].seen = call[c].seen
    BY <1>6, EditCalls DEF EditKubeconfig
  <2> QED BY <1>6, <2>1, SeenStays DEF EditKubeconfig
<1>7. CASE Signal \/ ListenerFails
  BY <1>1, <1>2, <1>7 DEF Signal, ListenerFails, ExitCode, cluster
<1> QED BY <1>3, <1>4, <1>5, <1>6, <1>7 DEF Process, Environment

(***************************************************************************)
(* One life of the server is bound to one cluster, and both planes of      *)
(* every call tell of that one, for any number of calls and whatever       *)
(* becomes of the kubeconfig.                                              *)
(***************************************************************************)
THEOREM OneClusterPerLife == Spec => ImplementsOneBinding
<1>1. Init => Binding!Init
  <2>1. ASSUME Init PROVE \A c \in Caller : call[c].seen = {}
    BY <2>1 DEF Init, NoCall
  <2> QED BY <2>1 DEF Init, Binding!Init
<1>2. BoundInv /\ [Next]_vars => [Binding!Next]_<<client, Seen>>
  <2> SUFFICES ASSUME TypeOK, BindingInv, [Next]_vars PROVE [Binding!Next]_<<client, Seen>>
    BY DEF BoundInv
  <2>1. CASE client = None /\ client' \in Context /\ Seen' = Seen
    BY <2>1 DEF Binding!Next, Binding!Bind, Seen
  <2>2. CASE \E c \in Caller : client' = client /\ client # None /\ Seen' = [Seen EXCEPT ![c] = @ \union {client}]
    BY <2>2 DEF Binding!Next, Binding!Ask, Seen
  <2>3. CASE \E c \in Caller : client' = client /\ Seen' = [Seen EXCEPT ![c] = {}]
    BY <2>3 DEF Binding!Next, Binding!Begin, Seen
  <2>4. CASE UNCHANGED <<client, Seen>>
    BY <2>4
  <2>5. CASE Process \/ Environment
    BY <2>1, <2>4, <2>5, OtherRefines
  <2>6. CASE \E c \in Caller : Request(c)
    BY <2>1, <2>2, <2>3, <2>4, <2>6, RequestRefines
  <2>7. CASE UNCHANGED vars
    BY <2>4, <2>7 DEF vars, cluster, Seen
  <2> QED BY <2>5, <2>6, <2>7 DEF Next, Request
<1> QED BY <1>1, <1>2, Bounded, PTL DEF Spec, ImplementsOneBinding, Binding!Spec, Seen

-----------------------------------------------------------------------------
(***************************************************************************)
(* The name to report was the target when it was read, and still is unless *)
(* the current context moved.                                              *)
(***************************************************************************)
NameInv ==
  /\ name # None => IF flag # None THEN name = flag ELSE moved \/ name = file.current
  /\ ReportedContextIsUsed

LEMMA NameInvStep == BoundInv /\ NameInv /\ [Next]_vars => NameInv'
<1> SUFFICES ASSUME TypeOK, BindingInv, NameInv, [Next]_vars PROVE NameInv'
  BY DEF BoundInv
<1>1. CASE UNCHANGED <<boot, file, moved, client>>
  BY <1>1 DEF NameInv, ReportedContextIsUsed, boot
<1>2. CASE NewClient
  <2>1. client' = None
    BY <1>2 DEF NewClient, BindingInv, BootOrder
  <2> QED BY <1>2, <2>1 DEF NewClient, NameInv, ReportedContextIsUsed
<1>3. CASE UNCHANGED <<flag, name, file, moved>> /\ client' = Target(file)
  BY <1>3 DEF NameInv, ReportedContextIsUsed, Target
<1>4. CASE EditKubeconfig
  BY <1>4 DEF EditKubeconfig, NameInv, ReportedContextIsUsed, boot
<1>5. CASE Process
  BY <1>1, <1>2, <1>3, <1>5 DEF Process, BuildWedge, RunHTTP, Select, Shutdown, boot, cluster
<1>6. CASE Environment
  BY <1>1, <1>4, <1>6 DEF Environment, Signal, ListenerFails, boot, cluster
<1>7. CASE \E c \in Caller : Request(c)
  BY <1>1, <1>3, <1>7 DEF Request, Step, Begin, Lookup, BuildClient, Unreachable, Ask, AskDashboard, CloseStream, boot, cluster
<1>8. CASE UNCHANGED vars
  BY <1>1, <1>8 DEF vars, boot, cluster
<1> QED BY <1>5, <1>6, <1>7, <1>8 DEF Next, Request

(***************************************************************************)
(* The reported context is the one the calls go to, but for a current      *)
(* context that was switched after boot.                                   *)
(***************************************************************************)
THEOREM ReportedNameIsTrue == Spec => []ReportedContextIsUsed
<1>1. Init => NameInv
  BY DEF Init, NameInv, ReportedContextIsUsed
<1>2. NameInv => ReportedContextIsUsed
  BY DEF NameInv
<1> QED BY <1>1, <1>2, NameInvStep, Bounded, PTL DEF Spec

-----------------------------------------------------------------------------
(* A call that is still steady would find a cluster now. *)
SteadyInv ==
  /\ \A c \in Caller : InFlight(c) /\ call[c].steady => Resolves(file)
  /\ FailureIsForgotten

LEMMA SteadyMove ==
  ASSUME TypeOK, SteadyInv, NEW c \in Caller, NEW next \in CallRecord, Becomes(c, next),
         UNCHANGED <<file, flag>>,
         next.steady => Resolves(file),
         next.phase = "done" /\ next.answer = "noCluster" => ~next.steady
  PROVE SteadyInv'
<1>1. Resolves(file)' = Resolves(file)
  BY DEF Resolves, Target
<1> QED BY <1>1, MovedType DEF SteadyInv, FailureIsForgotten, InFlight

LEMMA RequestSteady ==
  ASSUME TypeOK, BindingInv, SteadyInv, NEW c \in Caller, Request(c) PROVE SteadyInv'
<1>1. UNCHANGED <<file, flag>>
  BY DEF Request, Step, Begin, Lookup, BuildClient, Ask, AskDashboard, CloseStream, boot, cluster
<1>2. InFlight(c) /\ call[c].steady => Resolves(file)
  BY DEF SteadyInv
<1>3. CASE Begin(c)
  <2>1. PICK next \in CallRecord : /\ Becomes(c, next) /\ next.phase \in {"stream", "connect"}
                                  /\ next.steady = Resolves(file)
    BY <1>3, BeginMoves
  <2> QED BY <1>1, <2>1, SteadyMove
<1>4. CASE Lookup(c)
  <2>1. PICK next \in CallRecord : /\ Becomes(c, next) /\ next.phase \in {"api", "locked"}
                                  /\ next.steady = call[c].steady /\ call[c].phase = "connect"
    BY <1>4, LookupMoves
  <2> QED BY <1>1, <1>2, <2>1, SteadyMove DEF InFlight
<1>5. CASE BuildClient(c)
  <2>1. PICK next \in CallRecord :
          /\ Becomes(c, next) /\ next.steady = call[c].steady /\ call[c].phase = "locked"
          /\ next.phase = "api" \/ (next.phase = "done" /\ ~Resolves(file))
    BY <1>5, BuildMoves
  <2> QED BY <1>1, <1>2, <2>1, SteadyMove DEF InFlight
<1>6. CASE Ask(c)
  <2>1. PICK next \in CallRecord :
          /\ Becomes(c, next) /\ next.steady = call[c].steady /\ call[c].phase = "api"
          /\ next.phase = "wedge" \/ (next.phase = "done" /\ next.answer # "noCluster")
    BY <1>6, AskMoves
  <2> QED BY <1>1, <1>2, <2>1, SteadyMove DEF InFlight
<1>7. CASE AskDashboard(c)
  <2>1. PICK next \in CallRecord :
          /\ Becomes(c, next) /\ next.steady = call[c].steady /\ call[c].phase = "wedge"
          /\ next.answer # "noCluster"
    BY <1>7, AskDashboardMoves
  <2> QED BY <1>1, <1>2, <2>1, SteadyMove DEF InFlight
<1>8. CASE CloseStream(c)
  <2>1. PICK next \in CallRecord :
          /\ Becomes(c, next) /\ next.steady = call[c].steady /\ call[c].phase = "stream"
          /\ next.answer # "noCluster"
    BY <1>8, CloseStreamMoves
  <2> QED BY <1>1, <1>2, <2>1, SteadyMove DEF InFlight
<1> QED BY <1>3, <1>4, <1>5, <1>6, <1>7, <1>8 DEF Request, Step

LEMMA SteadyInvStep == BoundInv /\ SteadyInv /\ [Next]_vars => SteadyInv'
<1> SUFFICES ASSUME TypeOK, BindingInv, SteadyInv, [Next]_vars PROVE SteadyInv'
  BY DEF BoundInv
<1>1. CASE UNCHANGED <<call, file, flag>>
  BY <1>1 DEF SteadyInv, FailureIsForgotten, InFlight, Resolves, Target
<1>2. CASE \E code \in ExitCode : Exit(code) /\ UNCHANGED <<boot, cluster>>
  <2>1. \A c \in Caller : /\ ~InFlight(c)' /\ call'[c].steady = call[c].steady
                          /\ call'[c].answer = call[c].answer
                          /\ call'[c].phase = IF InFlight(c) THEN "killed" ELSE call[c].phase
    BY <1>2, ExitType
  <2> QED BY <2>1 DEF SteadyInv, FailureIsForgotten
<1>3. CASE EditKubeconfig
  <2>1. PICK f \in Kubeconfig :
          /\ file' = f
          /\ call' = [c \in Caller |->
                        IF InFlight(c) THEN [call[c] EXCEPT !.steady = @ /\ Resolves(f)] ELSE call[c]]
    BY <1>3 DEF EditKubeconfig
  <2>2. Resolves(file)' = Resolves(f)
    BY <1>3, <2>1 DEF EditKubeconfig, boot, Resolves, Target
  <2>3. \A c \in Caller :
          /\ call'[c].phase = call[c].phase /\ call'[c].answer = call[c].answer
          /\ InFlight(c) => (call'[c].steady => Resolves(f))
          /\ ~InFlight(c) => call'[c].steady = call[c].steady
    BY <2>1, EditCalls
  <2> QED BY <2>2, <2>3 DEF SteadyInv, FailureIsForgotten, InFlight
<1>4. CASE Process
  BY <1>1, <1>2, <1>4 DEF Process, NewClient, BuildWedge, RunHTTP, Select, Shutdown, boot, cluster, ExitCode
<1>5. CASE Environment
  BY <1>1, <1>2, <1>3, <1>5 DEF Environment, Signal, ListenerFails, boot, cluster, ExitCode
<1>6. CASE \E c \in Caller : Request(c)
  BY <1>6, RequestSteady
<1>7. CASE UNCHANGED vars
  BY <1>1, <1>7 DEF vars, boot, cluster
<1> QED BY <1>4, <1>5, <1>6, <1>7 DEF Next, Request

(***************************************************************************)
(* No call is told that there is no cluster because of what another call   *)
(* met: its own kubeconfig did not resolve while it ran.                   *)
(***************************************************************************)
THEOREM FailureIsNotCached == Spec => []FailureIsForgotten
<1>1. Init => SteadyInv
  <2>1. ASSUME Init PROVE \A c \in Caller : call[c].phase = "idle"
    BY <2>1 DEF Init, NoCall
  <2> QED BY <2>1 DEF SteadyInv, FailureIsForgotten, InFlight
<1>2. SteadyInv => FailureIsForgotten
  BY DEF SteadyInv
<1> QED BY <1>1, <1>2, SteadyInvStep, Bounded, PTL DEF Spec

-----------------------------------------------------------------------------
(* The end comes once, and nothing is in flight after it. *)
EndInv ==
  /\ proc.stage = "exited" => \A c \in Caller : ~InFlight(c)
  /\ proc.stage # "exited" => proc.exit = "none" /\ \A c \in Caller : call[c].phase # "killed"
  /\ proc.stage = "draining" => proc.signalled
  /\ ExitTellsTheTruth

LEMMA ExitEnds ==
  ASSUME TypeOK, EndInv, NEW code \in ExitCode, Exit(code), proc.stage # "exited",
         code = "0" => proc.signalled /\ \A c \in Caller : ~InFlight(c)
  PROVE EndInv'
BY ExitType DEF EndInv, ExitTellsTheTruth

LEMMA RequestEnds ==
  ASSUME TypeOK, BindingInv, EndInv, NEW c \in Caller, Request(c) PROVE EndInv'
<1>1. UNCHANGED proc /\ proc.stage # "exited"
  BY DEF Request, Step, Begin, Lookup, BuildClient, Ask, AskDashboard, CloseStream, EndInv, InFlight
<1>2. PICK next \in CallRecord : Becomes(c, next) /\ next.phase # "killed"
  BY BeginMoves, LookupMoves, BuildMoves, AskMoves, AskDashboardMoves, CloseStreamMoves DEF Request, Step
<1>3. \A d \in Caller : call'[d].phase # "killed"
  BY <1>1, <1>2, MovedType DEF EndInv
<1> QED BY <1>1, <1>3 DEF EndInv, ExitTellsTheTruth

LEMMA EndInvStep == BoundInv /\ EndInv /\ [Next]_vars => EndInv'
<1> SUFFICES ASSUME TypeOK, BindingInv, EndInv, [Next]_vars PROVE EndInv'
  BY DEF BoundInv
<1>1. CASE /\ call' = call /\ proc.stage # "exited" /\ proc'.stage # "exited"
           /\ proc'.exit = proc.exit /\ (proc'.stage = "draining" => proc'.signalled)
  BY <1>1 DEF EndInv, ExitTellsTheTruth, InFlight
<1>2. CASE \E code \in {"1", "signal"} : Exit(code) /\ proc.stage # "exited"
  BY <1>2, ExitEnds DEF ExitCode
<1>3. CASE NewClient \/ BuildWedge
  BY <1>1, <1>3, StageType DEF NewClient, BuildWedge, Stage
<1>4. CASE RunHTTP
  BY <1>1, <1>2, <1>4 DEF RunHTTP, TypeOK
<1>5. CASE Select
  BY <1>1, <1>2, <1>5, StageType DEF Select, Stage
<1>6. CASE Shutdown
  BY <1>2, <1>6, ExitEnds DEF Shutdown, EndInv, ExitCode
<1>7. CASE EditKubeconfig
  <2>1. \A c \in Caller : call'[c].phase = call[c].phase
    BY <1>7, EditCalls DEF EditKubeconfig
  <2> QED BY <1>7, <2>1 DEF EditKubeconfig, EndInv, ExitTellsTheTruth, InFlight
<1>8. CASE Signal \/ ListenerFails
  BY <1>1, <1>2, <1>8 DEF Signal, ListenerFails, TypeOK
<1>9. CASE \E c \in Caller : Request(c)
  BY <1>9, RequestEnds
<1>10. CASE UNCHANGED vars
  BY <1>10 DEF vars, EndInv, ExitTellsTheTruth, InFlight
<1> QED BY <1>3, <1>4, <1>5, <1>6, <1>7, <1>8, <1>9, <1>10 DEF Next, Process, Environment, Request

(***************************************************************************)
(* Exit code zero means a signal and every request answered.               *)
(***************************************************************************)
THEOREM ExitCodeIsTrue == Spec => []ExitTellsTheTruth
<1>1. Init => EndInv
  <2> SUFFICES ASSUME Init PROVE EndInv
    OBVIOUS
  <2>1. \A c \in Caller : call[c].phase = "idle"
    BY DEF Init, NoCall
  <2>2. proc.stage = "start" /\ proc.exit = "none"
    BY DEF Init
  <2> QED BY <2>1, <2>2 DEF EndInv, ExitTellsTheTruth
<1>2. EndInv => ExitTellsTheTruth
  BY DEF EndInv
<1> QED BY <1>1, <1>2, EndInvStep, Bounded, PTL DEF Spec

-----------------------------------------------------------------------------
(* The safety half of CallsReturn. *)

LEMMA RequestHolds ==
  ASSUME TypeOK, BindingInv, HolderBuilds, NEW c \in Caller, Request(c) PROVE HolderBuilds'
<1>1. PICK next \in CallRecord :
        /\ Becomes(c, next)
        /\ (next.phase = "locked" /\ mu' = c) \/ mu' = None
           \/ (mu' = mu /\ (proc.stage # "exited" => mu # c))
        /\ UNCHANGED proc
  <2>1. CASE Begin(c)
    <3>1. mu # c
      BY <2>1, ContextAssumption DEF Begin, HolderBuilds, InFlight
    <3> QED BY <2>1, <3>1, BeginMoves DEF cluster
  <2>2. CASE Lookup(c)
    BY <2>2, LookupMoves, ContextAssumption DEF Lookup
  <2>3. CASE BuildClient(c)
    BY <2>3, BuildMoves
  <2>4. CASE Ask(c) \/ AskDashboard(c) \/ CloseStream(c)
    <3>1. proc.stage # "exited" => mu # c
      BY <2>4, ContextAssumption DEF Ask, AskDashboard, CloseStream, HolderBuilds
    <3> QED BY <2>4, <3>1, AskMoves, AskDashboardMoves, CloseStreamMoves DEF cluster
  <2> QED BY <2>1, <2>2, <2>3, <2>4 DEF Request, Step
<1>2. \A d \in Caller : call'[d] = IF d = c THEN next ELSE call[d]
  BY <1>1, MovedType
<1>3. mu \in Caller \union {None}
  BY DEF TypeOK
<1> QED BY <1>1, <1>2, <1>3 DEF HolderBuilds

LEMMA HolderStep == BoundInv /\ HolderBuilds /\ [Next]_vars => HolderBuilds'
<1> SUFFICES ASSUME TypeOK, BindingInv, HolderBuilds, [Next]_vars PROVE HolderBuilds'
  BY DEF BoundInv
<1>1. CASE UNCHANGED <<mu, call>> /\ (proc.stage = "exited" => proc'.stage = "exited")
  BY <1>1 DEF HolderBuilds
<1>2. CASE \E code \in ExitCode : Exit(code)
  BY <1>2, ExitType DEF HolderBuilds
<1>3. CASE EditKubeconfig
  <2>1. UNCHANGED <<mu, proc>> /\ \A c \in Caller : call'[c].phase = call[c].phase
    BY <1>3, EditCalls DEF EditKubeconfig
  <2>2. mu \in Caller \union {None}
    BY DEF TypeOK
  <2> QED BY <2>1, <2>2 DEF HolderBuilds
<1>4. CASE Process
  BY <1>1, <1>2, <1>4 DEF Process, NewClient, BuildWedge, RunHTTP, Select, Shutdown, boot, cluster, ExitCode
<1>5. CASE Environment
  <2>1. CASE Signal
    <3>1. CASE Exit("signal")
      BY <1>2, <3>1 DEF ExitCode
    <3>2. CASE ~Exit("signal")
      BY <1>1, <2>1, <3>2 DEF Signal, cluster
    <3> QED BY <3>1, <3>2
  <2>2. CASE ListenerFails
    BY <1>1, <2>2 DEF ListenerFails, cluster
  <2> QED BY <1>3, <1>5, <2>1, <2>2 DEF Environment
<1>6. CASE \E c \in Caller : Request(c)
  BY <1>6, RequestHolds
<1>7. CASE UNCHANGED vars
  BY <1>1, <1>7 DEF vars
<1> QED BY <1>4, <1>5, <1>6, <1>7 DEF Next, Request

(***************************************************************************)
(* The mutex of the client is never left locked by a call that went on,    *)
(* failed or ended: who has it is the one call that builds the client, and *)
(* that step is always possible.                                           *)
(***************************************************************************)
THEOREM MutexIsNotAbandoned == Spec => []HolderBuilds
<1>1. Init => HolderBuilds
  BY DEF Init, HolderBuilds
<1> QED BY <1>1, HolderStep, Bounded, PTL DEF Spec

(***************************************************************************)
(* No request ever goes back, whatever it meets and whatever is done to    *)
(* the kubeconfig meanwhile: each has at most four steps to go.            *)
(***************************************************************************)
THEOREM CallsNeverLoop == Spec => CallsGoForward
<1>1. BoundInv /\ [Next]_vars =>
        \A c \in Caller : InFlight(c) /\ call'[c].phase # call[c].phase =>
          Behind(call'[c].phase) < Behind(call[c].phase)
  <2> SUFFICES ASSUME TypeOK, BindingInv, [Next]_vars, NEW c \in Caller, InFlight(c),
                      call'[c].phase # call[c].phase
               PROVE Behind(call'[c].phase) < Behind(call[c].phase)
    BY DEF BoundInv
  <2>1. CASE call'[c].phase = "killed"
    BY <2>1 DEF InFlight, Behind
  <2>2. CASE \E code \in ExitCode : Exit(code)
    BY <2>1, <2>2, ExitType
  <2>3. ~UNCHANGED call /\ ~EditKubeconfig
    BY EditCalls DEF EditKubeconfig
  <2>4. CASE Process \/ Environment
    BY <2>2, <2>3, <2>4 DEF Process, NewClient, BuildWedge, RunHTTP, Select, Shutdown,
                            Environment, Signal, ListenerFails, ExitCode
  <2>5. ASSUME NEW d \in Caller, Request(d) PROVE Behind(call'[c].phase) < Behind(call[c].phase)
    <3>1. PICK next \in CallRecord : Becomes(d, next) /\
            \/ ~InFlight(d)
            \/ call[d].phase = "connect" /\ next.phase \in {"api", "locked"}
            \/ call[d].phase = "locked" /\ next.phase \in {"api", "done"}
            \/ call[d].phase = "api" /\ next.phase \in {"wedge", "done"}
            \/ call[d].phase \in {"wedge", "stream"} /\ next.phase = "done"
      <4>1. CASE Begin(d)
        BY <4>1, BeginMoves DEF Begin
      <4>2. CASE Lookup(d)
        BY <4>2, LookupMoves
      <4>3. CASE BuildClient(d)
        BY <4>3, BuildMoves
      <4>4. CASE Ask(d)
        BY <4>4, AskMoves
      <4>5. CASE AskDashboard(d) \/ CloseStream(d)
        BY <4>5, AskDashboardMoves, CloseStreamMoves
      <4> QED BY <2>5, <4>1, <4>2, <4>3, <4>4, <4>5 DEF Request, Step
    <3>2. d = c /\ call'[c] = next
      BY <3>1, MovedType
    <3> QED BY <3>1, <3>2 DEF Behind
  <2> QED BY <2>3, <2>4, <2>5 DEF Next, Request, vars
<1> QED BY <1>1, Bounded, PTL DEF Spec, CallsGoForward
=============================================================================
