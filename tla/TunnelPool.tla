------------------------------ MODULE TunnelPool ------------------------------
(***************************************************************************)
(* Dashboard reachability from outside the cluster: the pool of SPDY       *)
(* port-forward tunnels (adapters/reachability), one per cluster, shared   *)
(* by concurrent tool calls, with the goroutine that reaps idle tunnels    *)
(* and the one forwarder goroutine behind each tunnel.                     *)
(*                                                                         *)
(* A call takes the pool's mutex, reuses a warm tunnel or dials one with   *)
(* the mutex held, and leaves with a local URL that it reads after it has  *)
(* released the mutex.  Tunnels break, are reaped and are closed at any    *)
(* point; the operating system gives a free local port to the next dial.   *)
(***************************************************************************)
EXTENDS Naturals

CONSTANTS
  Caller,    \* concurrent calls of the read tools
  Key,       \* clusters, by namespace and name
  Port,      \* local ports the operating system hands out
  None,      \* no tunnel in the map
  Nobody,    \* the mutex is free
  Idle,      \* the idle timeout
  MaxDials,  \* bound: tunnels dialed
  MaxTime    \* bound: the clock

(* The forwarders, numbered in the order they are dialed. *)
Handle == 1 .. MaxDials

ASSUME NoneAssumption   == None \notin Handle \union Key \union Port
ASSUME NobodyAssumption == Nobody \notin Caller
ASSUME TimeAssumption   == Idle \in Nat \ {0} /\ MaxDials \in Nat /\ MaxTime \in Nat

VARIABLES
  mu,        \* the caller that holds pool.mu across its dial
  tunnels,   \* pool.tunnels: the tunnel of each cluster
  lastUsed,  \* entry.lastUsed of each cluster's tunnel
  closed,    \* pool.done
  handle,    \* the forwarder behind each tunnel
  call,      \* the calls
  reaper,    \* the reaper goroutine
  now        \* the clock

vars == <<mu, tunnels, lastUsed, closed, handle, call, reaper, now>>

(***************************************************************************)
(* A forwarder: the cluster it was dialed for, the local port it listens   *)
(* on until it is lost, and stop, the channel that Close closes.           *)
(***************************************************************************)
Forwarder == [key : Key \union {None}, port : Port \union {None}, stop : BOOLEAN]

Phase == {"idle", "lock", "dial", "handed", "reading"}

CallState == [phase : Phase, key : Key \union {None},
              port : Port \union {None},       \* in the URL it was handed
              via : Handle \union {None},      \* the tunnel its request goes through
              tunnel : Handle \union {None},   \* history: the tunnel it was handed
              since : Nat]                     \* history: when

ReaperState == [phase : {"off", "select", "reap", "stopped"}, now : Nat]

TypeOK ==
  /\ mu \in Caller \union {Nobody}
  /\ tunnels \in [Key -> Handle \union {None}]
  /\ lastUsed \in [Key -> Nat]
  /\ closed \in BOOLEAN
  /\ handle \in [Handle -> Forwarder]
  /\ call \in [Caller -> CallState]
  /\ reaper \in ReaperState
  /\ now \in Nat

Dialed(h)    == handle[h].key # None
Open(h)      == Dialed(h) /\ ~handle[h].stop
Listening(h) == handle[h].port # None

NoCall == [phase |-> "idle", key |-> None, port |-> None, via |-> None, tunnel |-> None,
           since |-> 0]

Init ==
  /\ mu = Nobody
  /\ tunnels = [k \in Key |-> None]
  /\ lastUsed = [k \in Key |-> 0]
  /\ closed = FALSE
  /\ handle = [h \in Handle |-> [key |-> None, port |-> None, stop |-> FALSE]]
  /\ call = [c \in Caller |-> NoCall]
  /\ reaper = [phase |-> "off", now |-> 0]
  /\ now = 0

-----------------------------------------------------------------------------
(* The calls. *)

(* The call's state becomes next; the other calls stay. *)
Becomes(c, next) == call' = [call EXCEPT ![c] = next]

(* handle.Close of the tunnels hs. *)
CloseHandles(hs) == handle' = [h \in Handle |-> IF h \in hs THEN [handle[h] EXCEPT !.stop = TRUE]
                                               ELSE handle[h]]

(* The entries of the clusters ks leave the map. *)
Remove(ks) ==
  /\ tunnels' = [k \in Key |-> IF k \in ks THEN None ELSE tunnels[k]]
  /\ lastUsed' = [k \in Key |-> IF k \in ks THEN 0 ELSE lastUsed[k]]

(* alive: the tunnel of cluster k is in the map and not lost. *)
Warm(k) == tunnels[k] # None /\ Listening(tunnels[k])

(* Mutant: nobody starts the reaper. *)
ReaperForgotten == UNCHANGED reaper

(* ensureReaper: the first use starts the reaper. *)
EnsureReaper ==
  reaper' = IF reaper.phase = "off" THEN [reaper EXCEPT !.phase = "select"] ELSE reaper

(* A read tool asks for the dashboard of cluster k and waits for the mutex. *)
Begin(c, k) ==
  /\ call[c].phase = "idle"
  /\ EnsureReaper
  /\ Becomes(c, [NoCall EXCEPT !.phase = "lock", !.key = k])
  /\ UNCHANGED <<mu, tunnels, lastUsed, closed, handle, now>>

(* The call leaves the pool with tunnel h's URL. *)
Handed(c, h, port) ==
  Becomes(c, [call[c] EXCEPT !.phase = "handed", !.port = port, !.tunnel = h, !.since = now])

(* Mutant: a reuse does not count as a use. *)
ReuseUnstamped(c) ==
  LET h == tunnels[call[c].key]
  IN /\ call[c].phase = "lock" /\ mu = Nobody
     /\ Warm(call[c].key)
     /\ Handed(c, h, handle[h].port)
     /\ UNCHANGED <<mu, tunnels, lastUsed, closed, handle, reaper, now>>

(* Mutant: the map is looked up by the cluster's name, without its namespace. *)
ReuseNamesake(c) ==
  \E k \in Key :
    /\ call[c].phase = "lock" /\ mu = Nobody
    /\ Warm(k)
    /\ lastUsed' = [lastUsed EXCEPT ![k] = now]
    /\ Handed(c, tunnels[k], handle[tunnels[k]].port)
    /\ UNCHANGED <<mu, tunnels, closed, handle, reaper, now>>

(* A warm tunnel is reused. *)
Reuse(c) ==
  LET h == tunnels[call[c].key]
  IN /\ call[c].phase = "lock" /\ mu = Nobody
     /\ Warm(call[c].key)
     /\ lastUsed' = [lastUsed EXCEPT ![call[c].key] = now]
     /\ Handed(c, h, handle[h].port)
     /\ UNCHANGED <<mu, tunnels, closed, handle, reaper, now>>

(* Mutant: the mutex is given up while the tunnel is dialed. *)
MissUnlocked(c) ==
  LET k == call[c].key
  IN /\ call[c].phase = "lock" /\ mu = Nobody
     /\ ~Warm(k)
     /\ Remove({k}) /\ CloseHandles({tunnels[k]})
     /\ Becomes(c, [call[c] EXCEPT !.phase = "dial"])
     /\ UNCHANGED <<mu, closed, reaper, now>>

(***************************************************************************)
(* No warm tunnel: a lost one is torn down, and the call keeps the mutex   *)
(* to resolve the head pod and to dial it.                                 *)
(***************************************************************************)
Miss(c) ==
  LET k == call[c].key
  IN /\ call[c].phase = "lock" /\ mu = Nobody
     /\ ~Warm(k)
     /\ Remove({k}) /\ CloseHandles({tunnels[k]})
     /\ mu' = c
     /\ Becomes(c, [call[c] EXCEPT !.phase = "dial"])
     /\ UNCHANGED <<closed, reaper, now>>

(***************************************************************************)
(* headPodName and Dial succeed: a forwarder listens on a port no other    *)
(* listener has, and its tunnel enters the map, closed pool or not.        *)
(***************************************************************************)
Dial(c) ==
  /\ call[c].phase = "dial"
  /\ \E h \in Handle, p \in Port :
       /\ ~Dialed(h) /\ \A g \in 1 .. h - 1 : Dialed(g)
       /\ \A g \in Handle : handle[g].port # p
       /\ handle' = [handle EXCEPT ![h] = [key |-> call[c].key, port |-> p, stop |-> FALSE]]
       /\ tunnels' = [tunnels EXCEPT ![call[c].key] = h]
       /\ lastUsed' = [lastUsed EXCEPT ![call[c].key] = now]
       /\ Handed(c, h, p)
  /\ mu' = Nobody
  /\ UNCHANGED <<closed, reaper, now>>

(* Mutant: a failed dial is tried again until it succeeds. *)
RedialForever(c) ==
  /\ call[c].phase = "dial"
  /\ UNCHANGED vars

(***************************************************************************)
(* No head pod runs, the list or the dial fails, the tunnel breaks before  *)
(* it is ready, or the caller gives up: the call degrades, nothing is      *)
(* stored.                                                                 *)
(***************************************************************************)
DialFails(c) ==
  /\ call[c].phase = "dial"
  /\ Becomes(c, NoCall)
  /\ mu' = Nobody
  /\ UNCHANGED <<tunnels, lastUsed, closed, handle, reaper, now>>

(* The call sends its request to its URL: whoever listens on the port, or nobody. *)
Connect(c) ==
  /\ call[c].phase = "handed"
  /\ \/ \E h \in Handle :
          /\ handle[h].port = call[c].port
          /\ Becomes(c, [call[c] EXCEPT !.phase = "reading", !.via = h])
     \/ /\ \A h \in Handle : handle[h].port # call[c].port
        /\ Becomes(c, NoCall)
  /\ UNCHANGED <<mu, tunnels, lastUsed, closed, handle, reaper, now>>

(* The answer, or an error: the tunnel broke, the dashboard or the caller gave up. *)
Answer(c) ==
  /\ call[c].phase = "reading"
  /\ Becomes(c, NoCall)
  /\ UNCHANGED <<mu, tunnels, lastUsed, closed, handle, reaper, now>>

-----------------------------------------------------------------------------
(* Forwarders, reaper, shutdown and time. *)

(* ForwardPorts returns, because the stream broke or because of Close: the listener is gone. *)
Lose(h) ==
  /\ Listening(h)
  /\ handle' = [handle EXCEPT ![h].port = None]
  /\ UNCHANGED <<mu, tunnels, lastUsed, closed, call, reaper, now>>

(* The ticker fires: the reaper reads the clock and waits for the mutex. *)
ReaperTick ==
  /\ reaper.phase = "select"
  /\ reaper' = [phase |-> "reap", now |-> now]
  /\ UNCHANGED <<mu, tunnels, lastUsed, closed, handle, call, now>>

(* The clusters whose tunnel was idle when the reaper read the clock. *)
IdleKeys ==
  {k \in Key : tunnels[k] # None /\ reaper.now >= lastUsed[k] + Idle}

(* Mutant: idle tunnels leave the map and are not closed. *)
ReapUnclosed ==
  /\ reaper.phase = "reap" /\ mu = Nobody
  /\ Remove(IdleKeys)
  /\ reaper' = [phase |-> "select", now |-> 0]
  /\ UNCHANGED <<mu, closed, handle, call, now>>

Reap ==
  /\ reaper.phase = "reap" /\ mu = Nobody
  /\ Remove(IdleKeys) /\ CloseHandles({tunnels[k] : k \in IdleKeys})
  /\ reaper' = [phase |-> "select", now |-> 0]
  /\ UNCHANGED <<mu, closed, call, now>>

ReaperStop ==
  /\ reaper.phase = "select" /\ closed
  /\ reaper' = [reaper EXCEPT !.phase = "stopped"]
  /\ UNCHANGED <<mu, tunnels, lastUsed, closed, handle, call, now>>

(* Resolver.Close, which may come more than once. *)
Close ==
  /\ mu = Nobody
  /\ closed' = TRUE
  /\ Remove(Key) /\ CloseHandles({tunnels[k] : k \in Key})
  /\ UNCHANGED <<mu, call, reaper, now>>

Tick ==
  /\ now < MaxTime
  /\ now' = now + 1
  /\ UNCHANGED <<mu, tunnels, lastUsed, closed, handle, call, reaper>>

-----------------------------------------------------------------------------
Lock(c) == Reuse(c) \/ Miss(c)

Step(c) == Dial(c) \/ DialFails(c) \/ Connect(c) \/ Answer(c)

Next ==
  \/ \E c \in Caller : Lock(c) \/ Step(c) \/ \E k \in Key : Begin(c, k)
  \/ \E h \in Handle : Lose(h)
  \/ ReaperTick \/ Reap \/ ReaperStop
  \/ Close
  \/ Tick

(***************************************************************************)
(* A mutex waiter is not passed over for ever (sync.Mutex's starvation     *)
(* mode), a dial and a request end because the caller gives up in the end, *)
(* and the ticker ticks.                                                   *)
(***************************************************************************)
Fairness ==
  /\ \A c \in Caller : SF_vars(Lock(c)) /\ WF_vars(Step(c))
  /\ WF_vars(ReaperTick) /\ SF_vars(Reap)

Spec == Init /\ [][Next]_vars /\ Fairness
-----------------------------------------------------------------------------
(* Properties. *)

(***************************************************************************)
(* A forwarder that was not closed is the one in the map, for its cluster: *)
(* no call, restart of a tunnel, reaping or shutdown leaves a second       *)
(* tunnel to a cluster, or one that the reaper and close cannot find.      *)
(* The map and the dial are one critical section (pool.go, endpoint).      *)
(***************************************************************************)
NothingLeaks == \A h \in Handle : Open(h) => tunnels[handle[h].key] = h

(***************************************************************************)
(* The reaper never cuts off a request whose call was handed its tunnel    *)
(* less than the idle timeout ago, although it decides with a clock value  *)
(* it read before it waited for the mutex.                                 *)
(***************************************************************************)
ReaperSparesRequests ==
  [][Reap => \A c \in Caller :
       call[c].phase \in {"handed", "reading"} /\ now < call[c].since + Idle =>
         (handle[call[c].tunnel].stop <=> handle'[call[c].tunnel].stop)]_vars

(***************************************************************************)
(* A request reaches the cluster its call asked for, whatever the ports    *)
(* that the operating system hands out again, unless the tunnel the call   *)
(* was handed is lost: the URL names a local port only, and is read after  *)
(* the mutex was released (pool.go, endpoint).                             *)
(***************************************************************************)
NoStrayRequests ==
  \A c \in Caller : call[c].phase = "reading" =>
    handle[call[c].via].key = call[c].key \/ ~Listening(call[c].tunnel)

(***************************************************************************)
(* What of CallsReturn is safety: the mutex is held by a call that dials,  *)
(* which can always give up, and a call never goes back.                   *)
(***************************************************************************)
HolderDials == mu # Nobody => call[mu].phase = "dial"

Behind(phase) == CASE phase = "lock" -> 4 [] phase = "dial" -> 3 [] phase = "handed" -> 2
                   [] phase = "reading" -> 1 [] phase = "idle" -> 0

CallsGoForward ==
  [][\A c \in Caller : call[c].phase # "idle" /\ call'[c] # call[c] =>
       Behind(call'[c].phase) < Behind(call[c].phase)]_vars

(* The tunnel to cluster k, as the abstract pool sees it. *)
TunnelOf(k) ==
  IF \E h \in Handle : Open(h) /\ handle[h].key = k
  THEN IF \E h \in Handle : Open(h) /\ handle[h].key = k /\ Listening(h) THEN "up" ELSE "lost"
  ELSE "none"

Cache == INSTANCE TunnelCache WITH tunnel <- [k \in Key |-> TunnelOf(k)]

(***************************************************************************)
(* The pool implements the one-tunnel-per-cluster cache: a tunnel is       *)
(* dialed only when its cluster has none, lost ones included               *)
(* ("a dropped one is re-dialed exactly once", pool.go).                   *)
(***************************************************************************)
ImplementsCache == Cache!Spec

(***************************************************************************)
(* Every call returns, with one re-dial at most: a dropped tunnel or a     *)
(* failed dial degrades instead of looping, and nobody waits for the mutex *)
(* for ever (pool.go, endpoint).                                           *)
(***************************************************************************)
CallsReturn == \A c \in Caller : call[c].phase # "idle" ~> call[c].phase = "idle"

(* The tunnel of cluster k has been idle for the idle timeout. *)
IdleTunnel(k) == ~closed /\ tunnels[k] # None /\ now >= lastUsed[k] + Idle

(***************************************************************************)
(* While the pool is open, a tunnel that has become idle is reaped or used *)
(* again: the reaper runs from the first call on and no tick is lost for   *)
(* good (strategy.go, ensureReaper; pool.go, runReaper).                   *)
(***************************************************************************)
IdleIsReaped == \A k \in Key : IdleTunnel(k) ~> ~IdleTunnel(k)
=============================================================================
