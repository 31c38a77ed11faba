----------------------------- MODULE ServerProcess -----------------------------
(***************************************************************************)
(* One life of the ray-mcp process over HTTP: it boots without a cluster   *)
(* if it must, connects on the first call that can, and drains when it is  *)
(* told to stop.                                                           *)
(*                                                                         *)
(* The context name to report is read at boot (NewClient); the client that *)
(* both planes use is built under a mutex, at boot or by the first call    *)
(* that finds a kubeconfig which resolves (ensureClient); whether there is *)
(* a dashboard plane is decided at boot (buildWedge).  Somebody edits the  *)
(* kubeconfig meanwhile.                                                   *)
(***************************************************************************)
EXTENDS Naturals

CONSTANTS
  Caller,      \* requests in flight, each served by its own goroutine
  Context,     \* clusters, by kubeconfig context; InCluster among them
  InCluster,   \* the pod's own service account
  None,        \* no context, no client, no holder of the mutex
  Kubeconfig,  \* contents the kubeconfig may have
  Flag,        \* values of --context the process may be started with
  MaxEdits     \* bound: the kubeconfig is edited so many times

(* A kubeconfig: its current context, and the contexts a client can be built for. *)
KubeconfigType == [current : Context \union {None}, usable : SUBSET Context]

ASSUME ContextAssumption == InCluster \in Context /\ None \notin Context /\ None \notin Caller
ASSUME FileAssumption    == Kubeconfig \subseteq KubeconfigType
ASSUME FlagAssumption    == Flag \subseteq Context \union {None}
ASSUME BoundAssumption   == MaxEdits \in Nat

VARIABLES
  file,      \* the kubeconfig as it is now
  edits,     \* how often it was edited
  flag,      \* --context
  name,      \* Client.contextName; None is the placeholder
  moved,     \* history: the current context was changed since name was read
  mu,        \* Client.mu: the call that builds the client
  client,    \* Client.k8s: the cluster it was built for
  wedge,     \* the cluster of the dashboard resolver; None: Unavailable
  proc,      \* the process
  call       \* the requests

vars == <<file, edits, flag, name, moved, mu, client, wedge, proc, call>>

boot    == <<flag, name, wedge>>
cluster == <<file, edits, moved, mu, client>>

Phase    == {"idle", "connect", "locked", "api", "wedge", "stream", "done", "killed"}
Op       == {"cluster", "job", "stream"}
Answer   == {"none", "ok", "error", "noCluster", "degraded"}
Stage    == {"start", "named", "wired", "serving", "draining", "exited"}
ExitCode == {"none", "0", "1", "signal"}

NoCall == [phase |-> "idle", op |-> "cluster", using |-> None, seen |-> {}, answer |-> "none",
           steady |-> FALSE]   \* history: the kubeconfig resolved ever since the call began

InFlight(c) == call[c].phase \in {"connect", "locked", "api", "wedge", "stream"}

TypeOK ==
  /\ file \in KubeconfigType
  /\ edits \in Nat
  /\ flag \in Context \union {None}
  /\ name \in Context \union {None}
  /\ moved \in BOOLEAN
  /\ mu \in Caller \union {None}
  /\ client \in Context \union {None}
  /\ wedge \in Context \union {None}
  /\ proc \in [stage : Stage, exit : ExitCode, signalled : BOOLEAN, listening : BOOLEAN]
  /\ call \in [Caller -> [phase : Phase, op : Op, using : Context \union {None},
                          seen : SUBSET Context, answer : Answer, steady : BOOLEAN]]

-----------------------------------------------------------------------------
(* The kubeconfig. *)

(* Mutant: --context is reported, but the client follows the current context. *)
TargetOfFile(f) == IF f.current # None THEN f.current ELSE InCluster

(* loadingRulesFor: --context, the current context, or else the pod's own cluster. *)
Target(f) ==
  IF flag # None THEN flag ELSE IF f.current # None THEN f.current ELSE InCluster

Resolves(f) == Target(f) \in f.usable

Init ==
  /\ file \in Kubeconfig
  /\ edits = 0
  /\ flag \in Flag
  /\ name = None /\ moved = FALSE
  /\ mu = None /\ client = None /\ wedge = None
  /\ proc = [stage |-> "start", exit |-> "none", signalled |-> FALSE, listening |-> FALSE]
  /\ call = [c \in Caller |-> NoCall]

EditKubeconfig ==
  /\ proc.stage # "exited"
  /\ edits < MaxEdits /\ edits' = edits + 1
  /\ \E f \in Kubeconfig \ {file} :
       /\ file' = f
       /\ moved' = (moved \/ f.current # file.current)
       /\ call' = [c \in Caller |->
                     IF InFlight(c) THEN [call[c] EXCEPT !.steady = @ /\ Resolves(f)] ELSE call[c]]
  /\ UNCHANGED <<boot, mu, client, proc>>

-----------------------------------------------------------------------------
(* The process: boot, serve, stop. *)

Stages(s) == proc' = [proc EXCEPT !.stage = s]

(* The process ends; what is in flight gets no answer. *)
Exit(code) ==
  /\ proc' = [proc EXCEPT !.stage = "exited", !.exit = code]
  /\ call' = [c \in Caller |-> IF InFlight(c)
                               THEN [call[c] EXCEPT !.phase = "killed", !.using = None]
                               ELSE call[c]]

(* NewClient reads the name to report, and builds nothing. *)
NewClient ==
  /\ proc.stage = "start" /\ Stages("named")
  /\ name' = IF flag # None THEN flag ELSE file.current
  /\ moved' = FALSE
  /\ UNCHANGED <<file, edits, flag, mu, client, wedge, call>>

(* buildWedge and NewServer: the dashboard plane shares the client, or is degraded for good. *)
BuildWedge ==
  /\ proc.stage = "named" /\ Stages("wired")
  /\ IF Resolves(file)
     THEN client' = Target(file) /\ wedge' = Target(file)
     ELSE UNCHANGED <<client, wedge>>
  /\ UNCHANGED <<file, edits, flag, name, moved, mu, call>>

(* RunHTTP: the handler is refused, the address cannot be bound, or the server serves. *)
RunHTTP ==
  /\ proc.stage = "wired"
  /\ \/ proc' = [proc EXCEPT !.stage = "serving", !.listening = TRUE] /\ UNCHANGED call
     \/ Exit("1")
  /\ UNCHANGED <<boot, cluster>>

(* SIGINT or SIGTERM: NotifyContext is set up when the server is wired; a second one is absorbed. *)
Signal ==
  /\ \/ proc.stage \in {"start", "named"} /\ Exit("signal")
     \/ /\ proc.stage \in {"wired", "serving"} /\ ~proc.signalled
        /\ proc' = [proc EXCEPT !.signalled = TRUE]
        /\ UNCHANGED call
  /\ UNCHANGED <<boot, cluster>>

ListenerFails ==
  /\ proc.stage = "serving" /\ proc.listening
  /\ proc' = [proc EXCEPT !.listening = FALSE]
  /\ UNCHANGED <<boot, cluster, call>>

(* serve's select: the context is done, or Serve has returned; with both, either. *)
Select ==
  /\ proc.stage = "serving"
  /\ \/ proc.signalled /\ Stages("draining") /\ UNCHANGED call
     \/ ~proc.listening /\ Exit("1")
  /\ UNCHANGED <<boot, cluster>>

(* Mutant: Shutdown's error is dropped. *)
ShutdownAnyhow ==
  /\ proc.stage = "draining"
  /\ Exit("0")
  /\ UNCHANGED <<boot, cluster>>

(* Mutant: Shutdown waits for every request, without a deadline. *)
ShutdownWaits ==
  /\ proc.stage = "draining"
  /\ ~(\E c \in Caller : InFlight(c)) /\ Exit("0")
  /\ UNCHANGED <<boot, cluster>>

(* Shutdown: every request has been answered, or ten seconds are over. *)
Shutdown ==
  /\ proc.stage = "draining"
  /\ IF \E c \in Caller : InFlight(c) THEN Exit("1") ELSE Exit("0")
  /\ UNCHANGED <<boot, cluster>>

-----------------------------------------------------------------------------
(* The requests. *)

Becomes(c, next) == call' = [call EXCEPT ![c] = next]

(* Call c as it is once it has an answer: the client it used is forgotten. *)
Answered(c, answer) == [call[c] EXCEPT !.phase = "done", !.answer = answer, !.using = None]

Finish(c, answer) == Becomes(c, Answered(c, answer))

(* A tool call, or a standing event stream of a session (GET). *)
Begin(c) ==
  /\ proc.stage = "serving"
  /\ ~InFlight(c)
  /\ \E op \in Op :
       Becomes(c, [NoCall EXCEPT !.op = op, !.steady = Resolves(file),
                                 !.phase = IF op = "stream" THEN "stream" ELSE "connect"])
  /\ UNCHANGED <<boot, cluster, proc>>

(* Mutant: the client is looked up before the mutex is taken. *)
LookupUnlocked(c) ==
  /\ call[c].phase = "connect"
  /\ Becomes(c, IF client = None
                THEN [call[c] EXCEPT !.phase = "locked"]
                ELSE [call[c] EXCEPT !.phase = "api", !.using = client])
  /\ UNCHANGED <<boot, cluster, proc>>

(* ensureClient up to its lookup: the mutex, and the client if there is one. *)
Lookup(c) ==
  /\ call[c].phase = "connect" /\ mu = None
  /\ \/ /\ client # None
        /\ Becomes(c, [call[c] EXCEPT !.phase = "api", !.using = client])
        /\ UNCHANGED mu
     \/ /\ client = None
        /\ Becomes(c, [call[c] EXCEPT !.phase = "locked"])
        /\ mu' = c
  /\ UNCHANGED <<boot, file, edits, moved, client, proc>>

(* Mutant: a failed build is remembered, as sync.Once would. *)
FailureKept(c) ==
  /\ ~Resolves(file) \/ \E d \in Caller : call[d].answer = "noCluster"
  /\ Finish(c, "noCluster")
  /\ UNCHANGED client

(* The kubeconfig does not resolve: an answer, and nothing is kept. *)
Unreachable(c) ==
  /\ ~Resolves(file)
  /\ Finish(c, "noCluster")
  /\ UNCHANGED client

(* Mutant: the early return leaves the mutex locked. *)
BuildKeepsLock(c) ==
  /\ call[c].phase = "locked"
  /\ \/ /\ Resolves(file)
        /\ client' = Target(file)
        /\ Becomes(c, [call[c] EXCEPT !.phase = "api", !.using = Target(file)])
        /\ mu' = None
     \/ Unreachable(c) /\ UNCHANGED mu
  /\ UNCHANGED <<boot, file, edits, moved, proc>>

(* The rest of ensureClient: the kubeconfig is read, the client built and kept. *)
BuildClient(c) ==
  /\ call[c].phase = "locked"
  /\ \/ /\ Resolves(file)
        /\ client' = Target(file)
        /\ Becomes(c, [call[c] EXCEPT !.phase = "api", !.using = Target(file)])
     \/ Unreachable(c)
  /\ mu' = None
  /\ UNCHANGED <<boot, file, edits, moved, proc>>

(* The request to the API server is answered, or fails. *)
Ask(c) ==
  /\ call[c].phase = "api"
  /\ \/ LET heard == [call[c] EXCEPT !.seen = @ \union {call[c].using}, !.using = None]
        IN Becomes(c, IF call[c].op = "job" THEN [heard EXCEPT !.phase = "wedge"]
                      ELSE [heard EXCEPT !.phase = "done", !.answer = "ok"])
     \/ Finish(c, "error")
  /\ UNCHANGED <<boot, cluster, proc>>

(* A job call goes on to the dashboard, which is unavailable, reached, or not reached. *)
AskDashboard(c) ==
  /\ call[c].phase = "wedge"
  /\ \/ /\ wedge # None
        /\ Becomes(c, [call[c] EXCEPT !.seen = @ \union {wedge}, !.phase = "done", !.answer = "ok"])
     \/ Finish(c, "degraded")
  /\ UNCHANGED <<boot, cluster, proc>>

(* The client closes its stream; the server never does. *)
CloseStream(c) ==
  /\ call[c].phase = "stream"
  /\ Finish(c, "ok")
  /\ UNCHANGED <<boot, cluster, proc>>

Step(c) == BuildClient(c) \/ Ask(c) \/ AskDashboard(c)

Process == NewClient \/ BuildWedge \/ RunHTTP \/ Select \/ Shutdown

Environment == EditKubeconfig \/ Signal \/ ListenerFails

Next ==
  \/ Process
  \/ Environment
  \/ \E c \in Caller : Begin(c) \/ Lookup(c) \/ Step(c) \/ CloseStream(c)

(***************************************************************************)
(* The process runs and its shutdown timer fires; a waiter for the mutex   *)
(* is not passed over for ever; API requests are answered or fail.         *)
(* Nothing is assumed of clients, signals, the kubeconfig or the listener. *)
(***************************************************************************)
Fairness ==
  /\ WF_vars(Process)
  /\ \A c \in Caller : SF_vars(Lookup(c)) /\ WF_vars(Step(c))

Spec == Init /\ [][Next]_vars /\ Fairness
-----------------------------------------------------------------------------
(* Properties. *)

Binding == INSTANCE OneBinding WITH bound <- client, seen <- [c \in Caller |-> call[c].seen]

(***************************************************************************)
(* The server is bound to one cluster for its life, however its first      *)
(* calls race and whatever becomes of the kubeconfig, and both planes of a *)
(* job call tell of that cluster (client.go, ensureClient: "the client is  *)
(* built once"; RuntimeClient shares it with the dashboard plane).         *)
(***************************************************************************)
ImplementsOneBinding == Binding!Spec

(***************************************************************************)
(* The context that ray_capabilities reports is the one the calls go to,   *)
(* unless it is the placeholder, or somebody switched the kubeconfig's     *)
(* current context after boot of a server started without --context        *)
(* (client.go, NewClient and loadingRulesFor).                             *)
(***************************************************************************)
ReportedContextIsUsed ==
  client # None /\ name # None => client = name \/ (flag = None /\ moved)

(***************************************************************************)
(* "A failure is NOT cached": a call is told that there is no cluster only *)
(* if the kubeconfig did not resolve at some moment of that very call,     *)
(* whatever earlier or concurrent calls met (client.go, ensureClient).     *)
(***************************************************************************)
FailureIsForgotten ==
  \A c \in Caller : call[c].phase = "done" /\ call[c].answer = "noCluster" => ~call[c].steady

(***************************************************************************)
(* The exit code tells how the process ended: zero only after a signal,    *)
(* and with every accepted request answered (http.go, serve).              *)
(***************************************************************************)
ExitTellsTheTruth ==
  proc.exit = "0" => proc.signalled /\ \A c \in Caller : call[c].phase # "killed"

(* A process told to stop ends, even while a client keeps its event stream open. *)
DrainIsBounded == proc.signalled ~> proc.stage = "exited"

(* Every tool call is answered or ends with the process; only streams stand. *)
CallsReturn ==
  \A c \in Caller : InFlight(c) /\ call[c].op # "stream" ~> ~(InFlight(c) /\ call[c].op # "stream")

(***************************************************************************)
(* What of CallsReturn is safety: while the process runs, who has the      *)
(* mutex builds the client, and gives it back however that ends            *)
(* (client.go, ensureClient), and a call never goes back.                  *)
(***************************************************************************)
HolderBuilds == mu # None /\ proc.stage # "exited" => call[mu].phase = "locked"

Behind(phase) == CASE phase = "connect" -> 4 [] phase = "locked" -> 3 [] phase = "api" -> 2
                   [] phase \in {"wedge", "stream"} -> 1 [] phase \in {"idle", "done", "killed"} -> 0

CallsGoForward ==
  [][\A c \in Caller : InFlight(c) /\ call'[c].phase # call[c].phase =>
       Behind(call'[c].phase) < Behind(call[c].phase)]_vars
=============================================================================
