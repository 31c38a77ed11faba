--------------------------- MODULE TunnelPoolProofs ---------------------------
(***************************************************************************)
(* The safety of the tunnel pool, for any number of callers, clusters,     *)
(* ports and dials, and that it implements the cache of one tunnel per     *)
(* cluster.                                                                *)
(***************************************************************************)
EXTENDS TunnelPool, TLAPS

(* A tunnel in the map is open, for its cluster. *)
TunnelsFit ==
  \A k \in Key : tunnels[k] # None =>
    tunnels[k] \in Handle /\ Open(tunnels[k]) /\ handle[tunnels[k]].key = k

(* A call that dials has the mutex and its cluster has no tunnel. *)
DialsAlone ==
  \A c \in Caller : call[c].phase = "dial" => mu = c /\ tunnels[call[c].key] = None

(* A call knows its cluster, and its hand-out counts as a use of its tunnel. *)
CallsFit ==
  \A c \in Caller :
    /\ call[c].phase # "idle" => call[c].key \in Key
    /\ call[c].phase \in {"handed", "reading"} =>
         /\ call[c].tunnel \in Handle /\ Dialed(call[c].tunnel)
         /\ call[c].since <= now
         /\ Open(call[c].tunnel) => call[c].since <= lastUsed[handle[call[c].tunnel].key]

(* The reaper decides with a clock value of the past. *)
ClockIsPast == reaper.now <= now

IInv == TypeOK /\ TunnelsFit /\ NothingLeaks /\ DialsAlone /\ CallsFit /\ ClockIsPast
-----------------------------------------------------------------------------
(* The invariant holds initially: there is no tunnel and no call. *)
LEMMA InitInv == Init => IInv
<1> SUFFICES ASSUME Init PROVE IInv
  OBVIOUS
<1> USE DEF Init, NoCall
<1>1. TypeOK
  BY DEF TypeOK, Forwarder, CallState, Phase, ReaperState
<1>2. TunnelsFit /\ NothingLeaks
  BY DEF TunnelsFit, NothingLeaks, Open, Dialed
<1>3. DialsAlone /\ CallsFit /\ ClockIsPast
  BY DEF DialsAlone, CallsFit, ClockIsPast
<1>4. QED
  BY <1>1, <1>2, <1>3 DEF IInv

(* The components of a state that has its type. *)
LEMMA HasType ==
  ASSUME TypeOK
  PROVE  /\ \A c \in Caller : call[c] \in CallState
         /\ \A h \in Handle : handle[h] \in Forwarder
         /\ \A k \in Key : lastUsed[k] \in Nat /\ tunnels[k] \in Handle \union {None}
         /\ now \in Nat /\ reaper.now \in Nat
         /\ None \notin Handle /\ None \notin Key /\ None \notin Port
BY NoneAssumption DEF TypeOK, ReaperState

(* Tearing down the tunnels of some clusters stops no other tunnel and forgets no open one. *)
LEMMA TornDown ==
  ASSUME TypeOK, TunnelsFit, NothingLeaks, NEW ks \in SUBSET Key, NEW hs,
         hs = {tunnels[k] : k \in ks}, Remove(ks), CloseHandles(hs)
  PROVE  /\ tunnels' \in [Key -> Handle \union {None}] /\ lastUsed' \in [Key -> Nat]
         /\ handle' \in [Handle -> Forwarder]
         /\ TunnelsFit' /\ NothingLeaks'
         /\ \A k \in Key : tunnels'[k] = IF k \in ks THEN None ELSE tunnels[k]
         /\ \A h \in Handle :
              /\ handle'[h].key = handle[h].key /\ handle'[h].port = handle[h].port
              /\ Open(h)' => Open(h) /\ lastUsed'[handle[h].key] = lastUsed[handle[h].key]
<1>1. /\ tunnels' \in [Key -> Handle \union {None}] /\ lastUsed' \in [Key -> Nat]
      /\ handle' \in [Handle -> Forwarder]
      /\ \A k \in Key : tunnels'[k] = IF k \in ks THEN None ELSE tunnels[k]
  BY HasType DEF Remove, CloseHandles, Forwarder, TypeOK
<1>2. \A h \in Handle :
        /\ handle'[h].key = handle[h].key /\ handle'[h].port = handle[h].port
        /\ h \in hs => handle'[h].stop
        /\ h \notin hs => handle'[h].stop = handle[h].stop
  BY HasType DEF CloseHandles, Forwarder
<1>3. \A h \in Handle : Open(h)' => Open(h) /\ h \notin hs
  BY <1>2, HasType DEF Open, Dialed, Forwarder
<1>4. \A h \in Handle : Open(h) /\ h \notin hs => Open(h)'
  BY <1>2 DEF Open, Dialed
<1>5. \A h \in Handle : Open(h) => handle[h].key \in Key /\ tunnels[handle[h].key] = h
  BY HasType DEF NothingLeaks, Open, Dialed, Forwarder
<1>6. \A h \in Handle : Open(h) /\ h \notin hs => handle[h].key \notin ks
  BY <1>5
<1>7. TunnelsFit'
  <2> SUFFICES ASSUME NEW k \in Key, tunnels'[k] # None
               PROVE  tunnels'[k] \in Handle /\ Open(tunnels[k])' /\ handle'[tunnels'[k]].key = k
    BY DEF TunnelsFit
  <2>1. k \notin ks /\ tunnels'[k] = tunnels[k]
    BY <1>1
  <2>2. tunnels[k] \in Handle /\ Open(tunnels[k]) /\ handle[tunnels[k]].key = k
    BY <2>1 DEF TunnelsFit
  <2>3. tunnels[k] \notin hs
    BY <2>1, <2>2 DEF TunnelsFit
  <2>4. Open(tunnels[k])'
    BY <1>2, <2>1, <2>2, <2>3 DEF Open, Dialed
  <2>5. QED
    BY <1>2, <2>1, <2>2, <2>4 DEF Open, Dialed
<1>8. NothingLeaks'
  BY <1>1, <1>2, <1>3, <1>5, <1>6 DEF NothingLeaks
<1>9. \A h \in Handle : Open(h)' => lastUsed'[handle[h].key] = lastUsed[handle[h].key]
  BY <1>3, <1>5, <1>6 DEF Remove
<1>10. QED
  BY <1>1, <1>2, <1>3, <1>7, <1>8, <1>9
-----------------------------------------------------------------------------
(* A step of one call that leaves the map, the tunnels and the mutex alone. *)
LEMMA CallStepInv ==
  ASSUME IInv, NEW c \in Caller, NEW next \in CallState, Becomes(c, next),
         next.phase # "dial",
         next.phase # "idle" => next.key \in Key,
         next.phase \in {"handed", "reading"} =>
           /\ next.tunnel \in Handle /\ Dialed(next.tunnel) /\ next.since <= now
           /\ Open(next.tunnel) => next.since <= lastUsed[handle[next.tunnel].key],
         reaper' \in ReaperState, reaper'.now = reaper.now,
         UNCHANGED <<mu, tunnels, lastUsed, closed, handle, now>>
  PROVE  IInv'
<1>1. call' \in [Caller -> CallState] /\ \A d \in Caller : call'[d] = IF d = c THEN next ELSE call[d]
  BY DEF Becomes, IInv, TypeOK
<1>2. TypeOK'
  BY <1>1 DEF IInv, TypeOK
<1>3. TunnelsFit' /\ NothingLeaks'
  BY DEF IInv, TunnelsFit, NothingLeaks, Open, Dialed
<1>4. DialsAlone'
  BY <1>1 DEF IInv, DialsAlone
<1>5. CallsFit'
  BY <1>1 DEF IInv, CallsFit, Open, Dialed
<1>6. ClockIsPast'
  BY DEF IInv, ClockIsPast
<1>7. QED
  BY <1>2, <1>3, <1>4, <1>5, <1>6 DEF IInv

(* A step of the map and the tunnels that forgets no open tunnel's use. *)
LEMMA PoolStepInv ==
  ASSUME IInv, call' = call, now' = now, mu' = mu, closed' \in BOOLEAN,
         reaper' \in ReaperState, reaper'.now <= now,
         tunnels' \in [Key -> Handle \union {None}], lastUsed' \in [Key -> Nat],
         handle' \in [Handle -> Forwarder], TunnelsFit', NothingLeaks',
         \A k \in Key : tunnels[k] = None => tunnels'[k] = None,
         \A h \in Handle :
           /\ handle'[h].key = handle[h].key
           /\ Open(h)' => Open(h) /\ lastUsed'[handle[h].key] = lastUsed[handle[h].key]
  PROVE  IInv'
<1>1. TypeOK'
  BY DEF IInv, TypeOK
<1>2. DialsAlone'
  BY DEF IInv, DialsAlone, CallsFit
<1>3. CallsFit'
  BY DEF IInv, CallsFit, Dialed
<1>4. ClockIsPast'
  BY DEF ClockIsPast
<1>5. QED
  BY <1>1, <1>2, <1>3, <1>4 DEF IInv
-----------------------------------------------------------------------------
(* What a call does before and after its tunnel is dialed. *)
LEMMA BeginInv == ASSUME IInv, NEW c \in Caller, NEW k \in Key, Begin(c, k) PROVE IInv'
<1>1. reaper' \in ReaperState /\ reaper'.now = reaper.now
  BY DEF Begin, EnsureReaper, IInv, TypeOK, ReaperState
<1> DEFINE next == [NoCall EXCEPT !.phase = "lock", !.key = k]
<1>2. next \in CallState /\ next.phase = "lock" /\ next.key = k
  BY DEF NoCall, CallState, Phase
<1>3. Becomes(c, next) /\ UNCHANGED <<mu, tunnels, lastUsed, closed, handle, now>>
  BY DEF Begin
<1> HIDE DEF next
<1>4. QED
  BY <1>1, <1>2, <1>3, CallStepInv

(* A call ends. *)
LEMMA EndInv ==
  ASSUME IInv, NEW c \in Caller, Becomes(c, NoCall),
         UNCHANGED <<mu, tunnels, lastUsed, closed, handle, reaper, now>>
  PROVE  IInv'
<1>1. NoCall \in CallState /\ NoCall.phase = "idle"
  BY DEF NoCall, CallState, Phase
<1>2. reaper' \in ReaperState /\ reaper'.now = reaper.now
  BY DEF IInv, TypeOK
<1>3. QED
  BY <1>1, <1>2, CallStepInv

LEMMA ConnectInv == ASSUME IInv, NEW c \in Caller, Connect(c) PROVE IInv'
<1>1. CASE Becomes(c, NoCall)
  BY <1>1, EndInv DEF Connect
<1>2. ASSUME NEW h \in Handle, Becomes(c, [call[c] EXCEPT !.phase = "reading", !.via = h])
      PROVE  IInv'
  <2> DEFINE next == [call[c] EXCEPT !.phase = "reading", !.via = h]
  <2>1. call[c] \in CallState /\ call[c].phase = "handed"
    BY HasType DEF IInv, Connect
  <2>2. /\ next \in CallState /\ next.phase = "reading" /\ next.key = call[c].key
        /\ next.tunnel = call[c].tunnel /\ next.since = call[c].since
    BY <2>1 DEF CallState, Phase
  <2>3. /\ call[c].key \in Key /\ call[c].tunnel \in Handle /\ Dialed(call[c].tunnel)
        /\ call[c].since <= now
        /\ Open(call[c].tunnel) => call[c].since <= lastUsed[handle[call[c].tunnel].key]
    BY <2>1 DEF IInv, CallsFit
  <2>4. reaper' \in ReaperState /\ reaper'.now = reaper.now
    BY DEF Connect, IInv, TypeOK
  <2>5. Becomes(c, next) /\ UNCHANGED <<mu, tunnels, lastUsed, closed, handle, now>>
    BY <1>2 DEF Connect
  <2> HIDE DEF next
  <2>6. QED
    BY <2>2, <2>3, <2>4, <2>5, CallStepInv
<1>3. QED
  BY <1>1, <1>2 DEF Connect

LEMMA ReuseInv == ASSUME IInv, NEW c \in Caller, Reuse(c) PROVE IInv'
<1> DEFINE k == call[c].key
           h == tunnels[k]
           next == [call[c] EXCEPT !.phase = "handed", !.port = handle[h].port, !.tunnel = h,
                                   !.since = now]
<1>1. call[c] \in CallState /\ call[c].phase = "lock" /\ k \in Key
  BY HasType DEF IInv, Reuse, CallsFit
<1>2. h \in Handle /\ handle[h] \in Forwarder /\ Open(h) /\ handle[h].key = k
  BY <1>1, HasType DEF IInv, Reuse, Warm, TunnelsFit
<1>3. /\ next \in CallState /\ next.phase = "handed" /\ next.key = k /\ next.tunnel = h
      /\ next.since = now
  BY <1>1, <1>2, HasType DEF IInv, CallState, Phase, Forwarder
<1>4. Becomes(c, next) /\ lastUsed' = [lastUsed EXCEPT ![k] = now]
      /\ UNCHANGED <<mu, tunnels, closed, handle, reaper, now>>
  BY DEF Reuse, Handed
<1>5. /\ \A d \in Caller : call'[d] = IF d = c THEN next ELSE call[d]
      /\ call' \in [Caller -> CallState]
  BY <1>3, <1>4 DEF Becomes, IInv, TypeOK
<1>6. /\ lastUsed' \in [Key -> Nat] /\ lastUsed'[k] = now
      /\ \A j \in Key : j # k => lastUsed'[j] = lastUsed[j]
  BY <1>1, <1>4 DEF IInv, TypeOK
<1> HIDE DEF next
<1>7. TypeOK'
  BY <1>4, <1>5, <1>6 DEF IInv, TypeOK
<1>8. TunnelsFit' /\ NothingLeaks'
  BY <1>4 DEF IInv, TunnelsFit, NothingLeaks, Open, Dialed
<1>9. DialsAlone'
  BY <1>3, <1>4, <1>5 DEF IInv, DialsAlone
<1>10. CallsFit'
  <2> SUFFICES ASSUME NEW d \in Caller, call'[d].phase # "idle"
               PROVE  /\ call'[d].key \in Key
                      /\ call'[d].phase \in {"handed", "reading"} =>
                           /\ call'[d].tunnel \in Handle /\ handle[call'[d].tunnel].key # None
                           /\ call'[d].since <= now
                           /\ Open(call'[d].tunnel) =>
                                call'[d].since <= lastUsed'[handle[call'[d].tunnel].key]
    BY <1>4 DEF CallsFit, Open, Dialed
  <2>1. CASE d = c
    BY <1>1, <1>2, <1>3, <1>5, <1>6, <2>1, HasType DEF IInv, Open, Dialed
  <2>2. CASE d # c
    <3>1. call'[d] = call[d]
      BY <1>5, <2>2
    <3>2. ASSUME call[d].phase \in {"handed", "reading"}, Open(call[d].tunnel)
          PROVE  call[d].since <= lastUsed'[handle[call[d].tunnel].key]
      <4>1. /\ call[d].tunnel \in Handle /\ handle[call[d].tunnel].key \in Key
            /\ call[d].since <= now
            /\ call[d].since <= lastUsed[handle[call[d].tunnel].key]
        BY <3>2, HasType DEF IInv, CallsFit, Open, Dialed, Forwarder
      <4>2. QED
        BY <1>6, <4>1
    <3>3. QED
      BY <3>1, <3>2 DEF IInv, CallsFit, Dialed
  <2>3. QED
    BY <2>1, <2>2
<1>11. ClockIsPast'
  BY <1>4 DEF IInv, ClockIsPast
<1>12. QED
  BY <1>7, <1>8, <1>9, <1>10, <1>11 DEF IInv

(* A call takes the mutex for its dial, after it tore down a lost tunnel. *)
LEMMA MissInv == ASSUME IInv, NEW c \in Caller, Miss(c) PROVE IInv'
<1> DEFINE k == call[c].key
           next == [call[c] EXCEPT !.phase = "dial"]
<1>1. call[c] \in CallState /\ call[c].phase = "lock" /\ k \in Key /\ mu = Nobody
  BY HasType DEF IInv, Miss, CallsFit
<1>2. next \in CallState /\ next.phase = "dial" /\ next.key = k
  BY <1>1 DEF CallState, Phase
<1>3. /\ Becomes(c, next) /\ mu' = c /\ Remove({k}) /\ CloseHandles({tunnels[k]})
      /\ UNCHANGED <<closed, reaper, now>>
  BY DEF Miss
<1> HIDE DEF next
<1>4. /\ \A d \in Caller : call'[d] = IF d = c THEN next ELSE call[d]
      /\ call' \in [Caller -> CallState]
  BY <1>2, <1>3 DEF Becomes, IInv, TypeOK
<1>5. {k} \in SUBSET Key /\ {tunnels[k]} = {tunnels[j] : j \in {k}}
  BY <1>1
<1>6. /\ tunnels' \in [Key -> Handle \union {None}] /\ lastUsed' \in [Key -> Nat]
      /\ handle' \in [Handle -> Forwarder]
      /\ TunnelsFit' /\ NothingLeaks' /\ tunnels'[k] = None
      /\ \A h \in Handle :
           /\ handle'[h].key = handle[h].key
           /\ Open(h)' => Open(h) /\ lastUsed'[handle[h].key] = lastUsed[handle[h].key]
  BY <1>1, <1>3, <1>5, TornDown DEF IInv
<1>7. TypeOK'
  BY <1>3, <1>4, <1>6 DEF IInv, TypeOK
<1>8. DialsAlone'
  BY <1>1, <1>2, <1>3, <1>4, <1>6, NobodyAssumption DEF IInv, DialsAlone
<1>9. CallsFit'
  BY <1>1, <1>2, <1>3, <1>4, <1>6 DEF IInv, CallsFit, Dialed
<1>10. ClockIsPast'
  BY <1>3 DEF IInv, ClockIsPast
<1>11. QED
  BY <1>6, <1>7, <1>8, <1>9, <1>10 DEF IInv

(* The dial succeeds: the only open forwarder of its cluster enters the map. *)
LEMMA DialInv == ASSUME IInv, NEW c \in Caller, Dial(c) PROVE IInv'
<1> DEFINE k == call[c].key
<1>1. PICK h \in Handle, p \in Port :
        /\ ~Dialed(h)
        /\ handle' = [handle EXCEPT ![h] = [key |-> k, port |-> p, stop |-> FALSE]]
        /\ tunnels' = [tunnels EXCEPT ![k] = h]
        /\ lastUsed' = [lastUsed EXCEPT ![k] = now]
        /\ Handed(c, h, p)
  BY DEF Dial
<1> DEFINE next == [call[c] EXCEPT !.phase = "handed", !.port = p, !.tunnel = h, !.since = now]
<1>2. call[c] \in CallState /\ call[c].phase = "dial" /\ k \in Key /\ mu = c /\ tunnels[k] = None
  BY HasType DEF IInv, Dial, CallsFit, DialsAlone
<1>3. /\ next \in CallState /\ next.phase = "handed" /\ next.key = k /\ next.tunnel = h
      /\ next.since = now
  BY <1>2, HasType DEF IInv, CallState, Phase
<1>4. Becomes(c, next) /\ mu' = Nobody /\ UNCHANGED <<closed, reaper, now>>
  BY <1>1 DEF Dial, Handed
<1> HIDE DEF next
<1>5. /\ \A d \in Caller : call'[d] = IF d = c THEN next ELSE call[d]
      /\ call' \in [Caller -> CallState]
  BY <1>3, <1>4 DEF Becomes, IInv, TypeOK
<1>6. /\ handle' \in [Handle -> Forwarder]
      /\ handle'[h].key = k /\ ~handle'[h].stop
      /\ \A g \in Handle : g # h => handle'[g] = handle[g]
  BY <1>1, <1>2 DEF IInv, TypeOK, Forwarder
<1>7. /\ tunnels' \in [Key -> Handle \union {None}] /\ lastUsed' \in [Key -> Nat]
      /\ tunnels'[k] = h /\ lastUsed'[k] = now
      /\ \A j \in Key : j # k => tunnels'[j] = tunnels[j] /\ lastUsed'[j] = lastUsed[j]
  BY <1>1, <1>2 DEF IInv, TypeOK
<1>8. k # None /\ None \notin Handle /\ now \in Nat
  BY <1>2, HasType DEF IInv
<1>9. \A g \in Handle : g # h => (Open(g)' <=> Open(g)) /\ (Dialed(g)' <=> Dialed(g))
  BY <1>6 DEF Open, Dialed
<1>10. Open(h)' /\ Dialed(h)'
  BY <1>6, <1>8 DEF Open, Dialed
<1>11. TypeOK'
  BY <1>4, <1>5, <1>6, <1>7 DEF IInv, TypeOK
<1>12. TunnelsFit'
  <2> SUFFICES ASSUME NEW j \in Key, tunnels'[j] # None
               PROVE  tunnels'[j] \in Handle /\ Open(tunnels[j])' /\ handle'[tunnels'[j]].key = j
    BY DEF TunnelsFit
  <2>1. CASE j = k
    BY <1>6, <1>7, <1>8, <2>1 DEF Open, Dialed
  <2>2. CASE j # k
    <3>1. tunnels'[j] = tunnels[j] /\ tunnels[j] \in Handle /\ Open(tunnels[j]) /\ handle[tunnels[j]].key = j
      BY <1>7, <2>2 DEF IInv, TunnelsFit
    <3>2. tunnels[j] # h
      BY <1>1, <3>1 DEF Open
    <3>3. QED
      BY <1>6, <3>1, <3>2 DEF Open, Dialed
  <2>3. QED
    BY <2>1, <2>2
<1>13. NothingLeaks'
  <2> SUFFICES ASSUME NEW g \in Handle, Open(g)' PROVE tunnels'[handle'[g].key] = g
    BY DEF NothingLeaks
  <2>1. CASE g = h
    BY <1>6, <1>7, <2>1
  <2>2. CASE g # h
    <3>1. Open(g) /\ handle'[g] = handle[g] /\ tunnels[handle[g].key] = g
      BY <1>6, <1>9, <2>2 DEF IInv, NothingLeaks
    <3>2. handle[g].key \in Key /\ handle[g].key # k
      BY <1>2, <1>8, <3>1, HasType DEF IInv, Open, Dialed, Forwarder
    <3>3. QED
      BY <1>7, <3>1, <3>2
  <2>3. QED
    BY <2>1, <2>2
<1>14. DialsAlone'
  BY <1>2, <1>3, <1>4, <1>5 DEF IInv, DialsAlone
<1>15. CallsFit'
  <2> SUFFICES ASSUME NEW d \in Caller, call'[d].phase # "idle"
               PROVE  /\ call'[d].key \in Key
                      /\ call'[d].phase \in {"handed", "reading"} =>
                           /\ call'[d].tunnel \in Handle /\ handle'[call'[d].tunnel].key # None
                           /\ call'[d].since <= now
                           /\ ~handle'[call'[d].tunnel].stop =>
                                call'[d].since <= lastUsed'[handle'[call'[d].tunnel].key]
    BY <1>4 DEF CallsFit, Open, Dialed
  <2>1. CASE d = c
    BY <1>2, <1>3, <1>5, <1>6, <1>7, <1>8, <2>1
  <2>2. CASE d # c
    <3>1. call'[d] = call[d] /\ call[d].key \in Key
      BY <1>5, <2>2 DEF IInv, CallsFit
    <3>2. ASSUME call[d].phase \in {"handed", "reading"}
          PROVE  /\ call[d].tunnel \in Handle /\ handle'[call[d].tunnel].key # None
                 /\ call[d].since <= now
                 /\ ~handle'[call[d].tunnel].stop =>
                      call[d].since <= lastUsed'[handle'[call[d].tunnel].key]
      <4>1. /\ call[d].tunnel \in Handle /\ Dialed(call[d].tunnel) /\ call[d].since <= now
            /\ Open(call[d].tunnel) => call[d].since <= lastUsed[handle[call[d].tunnel].key]
        BY <3>2 DEF IInv, CallsFit
      <4>2. call[d].tunnel # h /\ handle'[call[d].tunnel] = handle[call[d].tunnel]
        BY <1>1, <1>6, <4>1
      <4>3. handle[call[d].tunnel].key \in Key
        BY <4>1, HasType DEF IInv, Dialed, Forwarder
      <4>4. QED
        BY <1>7, <4>1, <4>2, <4>3 DEF Open, Dialed
    <3>3. QED
      BY <3>1, <3>2
  <2>3. QED
    BY <2>1, <2>2
<1>16. ClockIsPast'
  BY <1>4 DEF IInv, ClockIsPast
<1>17. QED
  BY <1>11, <1>12, <1>13, <1>14, <1>15, <1>16 DEF IInv

(* The dial fails. *)
LEMMA DialFailsInv == ASSUME IInv, NEW c \in Caller, DialFails(c) PROVE IInv'
<1>1. /\ NoCall \in CallState /\ NoCall.phase = "idle"
  BY DEF NoCall, CallState, Phase
<1>2. Becomes(c, NoCall) /\ mu' = Nobody /\ call[c].phase = "dial"
      /\ UNCHANGED <<tunnels, lastUsed, closed, handle, reaper, now>>
  BY DEF DialFails
<1>3. /\ \A d \in Caller : call'[d] = IF d = c THEN NoCall ELSE call[d]
      /\ call' \in [Caller -> CallState]
  BY <1>1, <1>2 DEF Becomes, IInv, TypeOK
<1>4. TypeOK'
  BY <1>2, <1>3 DEF IInv, TypeOK
<1>5. TunnelsFit' /\ NothingLeaks'
  BY <1>2 DEF IInv, TunnelsFit, NothingLeaks, Open, Dialed
<1>6. DialsAlone'
  BY <1>1, <1>2, <1>3 DEF IInv, DialsAlone
<1>7. CallsFit' /\ ClockIsPast'
  BY <1>1, <1>2, <1>3 DEF IInv, CallsFit, ClockIsPast, Open, Dialed
<1>8. QED
  BY <1>4, <1>5, <1>6, <1>7 DEF IInv
-----------------------------------------------------------------------------
(* Forwarders, reaper, shutdown and time. *)
LEMMA LoseInv == ASSUME IInv, NEW h \in Handle, Lose(h) PROVE IInv'
<1>1. handle' = [handle EXCEPT ![h].port = None]
      /\ UNCHANGED <<mu, tunnels, lastUsed, closed, call, reaper, now>>
  BY DEF Lose
<1>2. /\ handle' \in [Handle -> Forwarder]
      /\ \A g \in Handle : handle'[g].key = handle[g].key /\ handle'[g].stop = handle[g].stop
  BY <1>1 DEF IInv, TypeOK, Forwarder
<1>3. \A g \in Handle : Open(g)' <=> Open(g)
  BY <1>2 DEF Open, Dialed
<1>4. TunnelsFit' /\ NothingLeaks'
  BY <1>1, <1>2 DEF IInv, TunnelsFit, NothingLeaks, Open, Dialed
<1>5. reaper' \in ReaperState /\ reaper'.now <= now /\ closed' \in BOOLEAN
      /\ tunnels' \in [Key -> Handle \union {None}] /\ lastUsed' \in [Key -> Nat]
  BY <1>1 DEF IInv, TypeOK, ClockIsPast
<1>6. QED
  BY <1>1, <1>2, <1>3, <1>4, <1>5, PoolStepInv

(* Tearing down the tunnels of some clusters, whoever does it. *)
LEMMA TearDownInv ==
  ASSUME IInv, NEW ks \in SUBSET Key, Remove(ks), CloseHandles({tunnels[k] : k \in ks}),
         closed' \in BOOLEAN, reaper' \in ReaperState, reaper'.now <= now,
         UNCHANGED <<mu, call, now>>
  PROVE  IInv'
<1>1. /\ tunnels' \in [Key -> Handle \union {None}] /\ lastUsed' \in [Key -> Nat]
      /\ handle' \in [Handle -> Forwarder]
      /\ TunnelsFit' /\ NothingLeaks'
      /\ \A k \in Key : tunnels'[k] = IF k \in ks THEN None ELSE tunnels[k]
      /\ \A h \in Handle :
           /\ handle'[h].key = handle[h].key
           /\ Open(h)' => Open(h) /\ lastUsed'[handle[h].key] = lastUsed[handle[h].key]
  BY TornDown DEF IInv
<1>2. QED
  BY <1>1, PoolStepInv

LEMMA ReapInv == IInv /\ Reap => IInv'
<1> SUFFICES ASSUME IInv, Reap PROVE IInv'
  OBVIOUS
<1>1. now \in Nat /\ IdleKeys \in SUBSET Key
  BY HasType DEF IInv, IdleKeys
<1>2. reaper' = [phase |-> "select", now |-> 0]
      /\ Remove(IdleKeys) /\ CloseHandles({tunnels[k] : k \in IdleKeys})
      /\ UNCHANGED <<mu, closed, call, now>>
  BY DEF Reap
<1>3. reaper' \in ReaperState /\ reaper'.now <= now /\ closed' \in BOOLEAN
  BY <1>1, <1>2 DEF IInv, TypeOK, ReaperState
<1>4. QED
  BY <1>1, <1>2, <1>3, TearDownInv

LEMMA CloseInv == IInv /\ Close => IInv'
<1> SUFFICES ASSUME IInv, Close PROVE IInv'
  OBVIOUS
<1>1. Remove(Key) /\ CloseHandles({tunnels[k] : k \in Key}) /\ closed' = TRUE
      /\ UNCHANGED <<mu, call, reaper, now>>
  BY DEF Close
<1>2. reaper' \in ReaperState /\ reaper'.now <= now /\ closed' \in BOOLEAN /\ Key \in SUBSET Key
  BY <1>1 DEF IInv, TypeOK, ClockIsPast
<1>3. QED
  BY <1>1, <1>2, TearDownInv

(* The reaper's own steps, and time. *)
LEMMA ReaperInv == IInv /\ (ReaperTick \/ ReaperStop \/ Tick) => IInv'
<1> SUFFICES ASSUME IInv, ReaperTick \/ ReaperStop \/ Tick PROVE IInv'
  OBVIOUS
<1>1. now \in Nat /\ reaper.now \in Nat /\ reaper.now <= now /\ reaper \in ReaperState
      /\ \A c \in Caller : call[c].since \in Nat
  BY HasType DEF IInv, ClockIsPast, CallState, TypeOK
<1>2. UNCHANGED <<mu, tunnels, lastUsed, closed, handle, call>>
      /\ now' \in Nat /\ now <= now' /\ reaper' \in ReaperState /\ reaper'.now <= now'
  BY <1>1 DEF ReaperTick, ReaperStop, Tick, ReaperState
<1>3. TypeOK'
  BY <1>2 DEF IInv, TypeOK
<1>4. TunnelsFit' /\ NothingLeaks' /\ DialsAlone' /\ ClockIsPast'
  BY <1>2 DEF IInv, TunnelsFit, NothingLeaks, DialsAlone, ClockIsPast, Open, Dialed
<1>5. CallsFit'
  BY <1>1, <1>2 DEF IInv, CallsFit, Open, Dialed
<1>6. QED
  BY <1>3, <1>4, <1>5 DEF IInv

(* Every step preserves the invariant. *)
LEMMA NextInv == IInv /\ [Next]_vars => IInv'
<1> SUFFICES ASSUME IInv, [Next]_vars PROVE IInv'
  OBVIOUS
<1>1. ASSUME NEW c \in Caller, Lock(c) \/ Step(c) \/ \E k \in Key : Begin(c, k) PROVE IInv'
  <2>1. CASE Answer(c)
    BY <2>1, EndInv DEF Answer
  <2>2. QED
    BY <1>1, <2>1, BeginInv, ReuseInv, MissInv, DialInv, DialFailsInv, ConnectInv DEF Lock, Step
<1>2. CASE UNCHANGED vars
  BY <1>2 DEF vars, IInv, TypeOK, TunnelsFit, NothingLeaks, DialsAlone, CallsFit, ClockIsPast,
     Open, Dialed
<1>3. QED
  BY <1>1, <1>2, LoseInv, ReapInv, CloseInv, ReaperInv DEF Next

LEMMA Invariance == Spec => []IInv
BY InitInv, NextInv, PTL DEF Spec

(* The variables keep their types (the state pool.go keeps). *)
THEOREM TypeCorrect == Spec => []TypeOK
<1>1. IInv => TypeOK
  BY DEF IInv
<1>2. QED
  BY <1>1, Invariance, PTL

(***************************************************************************)
(* A forwarder that was not closed is the one in the map, for its cluster: *)
(* the dial under the mutex (pool.go, endpoint) leaks no tunnel.           *)
(***************************************************************************)
THEOREM NoTunnelLeaks == Spec => []NothingLeaks
<1>1. IInv => NothingLeaks
  BY DEF IInv
<1>2. QED
  BY <1>1, Invariance, PTL

(***************************************************************************)
(* The reaper (pool.go, reap) stops no tunnel that a call in progress was  *)
(* handed less than the idle timeout ago.                                  *)
(***************************************************************************)
THEOREM RequestsAreSpared == Spec => ReaperSparesRequests
<1> DEFINE Spared ==
      Reap => \A c \in Caller :
        call[c].phase \in {"handed", "reading"} /\ now < call[c].since + Idle =>
          (handle[call[c].tunnel].stop <=> handle'[call[c].tunnel].stop)
<1>1. ASSUME IInv, Reap PROVE Spared
  <2> SUFFICES ASSUME NEW c \in Caller, call[c].phase \in {"handed", "reading"},
                      now < call[c].since + Idle
               PROVE  handle[call[c].tunnel].stop <=> handle'[call[c].tunnel].stop
    OBVIOUS
  <2> DEFINE h == call[c].tunnel
  <2>1. h \in Handle /\ (Open(h) => call[c].since <= lastUsed[handle[h].key]) /\ Dialed(h)
    BY <1>1 DEF IInv, CallsFit
  <2>2. handle[h] \in Forwarder /\ now \in Nat /\ reaper.now \in Nat /\ reaper.now <= now
        /\ call[c].since \in Nat /\ Idle \in Nat
    BY <1>1, <2>1, HasType, TimeAssumption DEF IInv, CallState, ClockIsPast
  <2>3. ASSUME Open(h), NEW k \in IdleKeys, tunnels[k] = h PROVE FALSE
    <3>1. k \in Key /\ reaper.now >= lastUsed[k] + Idle /\ handle[h].key = k /\ lastUsed[k] \in Nat
      BY <1>1, <2>3, HasType DEF IInv, TunnelsFit, IdleKeys
    <3>2. QED
      BY <2>1, <2>2, <2>3, <3>1
  <2>4. handle' = [g \in Handle |-> IF g \in {tunnels[k] : k \in IdleKeys}
                                   THEN [handle[g] EXCEPT !.stop = TRUE] ELSE handle[g]]
    BY <1>1 DEF Reap, CloseHandles
  <2>5. CASE handle[h].stop
    BY <2>1, <2>2, <2>4, <2>5 DEF Forwarder
  <2>6. CASE ~handle[h].stop
    <3>1. h \notin {tunnels[k] : k \in IdleKeys}
      BY <2>1, <2>3, <2>6 DEF Open
    <3>2. QED
      BY <2>1, <2>4, <3>1
  <2>7. QED
    BY <2>5, <2>6
<1>2. IInv /\ [Next]_vars => [Spared]_vars
  BY <1>1
<1>3. QED
  BY <1>2, Invariance, PTL DEF Spec, ReaperSparesRequests
-----------------------------------------------------------------------------
(* Requests and ports. *)

(* No two forwarders listen on one port, and who listens was dialed. *)
PortsApart ==
  \A g \in Handle : Listening(g) =>
    Dialed(g) /\ \A h \in Handle : handle[h].port = handle[g].port => h = g

(* The tunnel call c was handed is one to its cluster, on the port in its URL until it is lost. *)
HandedFit(c) ==
  /\ call[c].tunnel \in Handle /\ Dialed(call[c].tunnel)
  /\ handle[call[c].tunnel].key = call[c].key
  /\ call[c].port \in Port /\ handle[call[c].tunnel].port \in {call[c].port, None}

RequestsFit ==
  \A c \in Caller :
    /\ call[c].phase \in {"handed", "reading"} => HandedFit(c)
    /\ call[c].phase = "reading" => call[c].via = call[c].tunnel \/ ~Listening(call[c].tunnel)

RInv == PortsApart /\ RequestsFit

(* A forwarder keeps its cluster once it was dialed, and its port until it is lost. *)
Fades == \A h \in Handle : Dialed(h) =>
  handle'[h].key = handle[h].key /\ handle'[h].port \in {handle[h].port, None}

(* The steps that dial nothing. *)
LEMMA HandlesFade ==
  ASSUME IInv, PortsApart,
         handle' = handle \/ (\E hs : CloseHandles(hs)) \/ (\E h \in Handle : Lose(h))
  PROVE  Fades /\ PortsApart'
<1>1. \A h \in Handle : handle'[h].key = handle[h].key /\ handle'[h].port \in {handle[h].port, None}
  <2>1. ASSUME NEW hs, CloseHandles(hs), NEW h \in Handle
        PROVE  handle'[h].key = handle[h].key /\ handle'[h].port = handle[h].port
    BY <2>1, HasType DEF IInv, CloseHandles, Forwarder
  <2>2. ASSUME NEW g \in Handle, Lose(g), NEW h \in Handle
        PROVE  handle'[h].key = handle[h].key /\ handle'[h].port \in {handle[h].port, None}
    BY <2>2 DEF IInv, TypeOK, Lose, Forwarder
  <2>3. QED
    BY <2>1, <2>2
<1>2. PortsApart'
  BY <1>1 DEF PortsApart, Listening, Dialed
<1>3. QED
  BY <1>1, <1>2 DEF Fades

(* What a call that does not move was handed stays right. *)
LEMMA HandedStays ==
  ASSUME RequestsFit, Fades, NEW c \in Caller, call'[c] = call[c]
  PROVE  /\ call'[c].phase \in {"handed", "reading"} => HandedFit(c)'
         /\ call'[c].phase = "reading" =>
              call'[c].via = call'[c].tunnel \/ ~Listening(call[c].tunnel)'
<1>1. CASE call[c].phase \notin {"handed", "reading"}
  BY <1>1
<1>2. CASE call[c].phase \in {"handed", "reading"}
  <2>1. HandedFit(c)
    BY <1>2 DEF RequestsFit
  <2>2. /\ handle'[call[c].tunnel].key = handle[call[c].tunnel].key
        /\ handle'[call[c].tunnel].port \in {handle[call[c].tunnel].port, None}
    BY <2>1 DEF HandedFit, Fades
  <2>3. HandedFit(c)'
    BY <2>1, <2>2 DEF HandedFit, Dialed
  <2>4. call[c].phase = "reading" => call[c].via = call[c].tunnel \/ ~Listening(call[c].tunnel)'
    BY <2>2 DEF RequestsFit, Listening
  <2>5. QED
    BY <2>3, <2>4
<1>3. QED
  BY <1>1, <1>2

(* A call gets the tunnel of its cluster. *)
LEMMA HandedRight ==
  ASSUME IInv, RequestsFit, Fades, NEW c \in Caller, NEW h \in Handle, NEW p \in Port,
         Handed(c, h, p), Dialed(h)', handle'[h].key = call[c].key, handle'[h].port = p
  PROVE  RequestsFit'
<1> DEFINE next == [call[c] EXCEPT !.phase = "handed", !.port = p, !.tunnel = h, !.since = now]
<1>1. /\ next.phase = "handed" /\ next.port = p /\ next.tunnel = h /\ next.key = call[c].key
      /\ \A d \in Caller : call'[d] = IF d = c THEN next ELSE call[d]
  BY HasType DEF IInv, TypeOK, CallState, Handed, Becomes
<1> HIDE DEF next
<1>2. ASSUME NEW d \in Caller
      PROVE  /\ call'[d].phase \in {"handed", "reading"} => HandedFit(d)'
             /\ call'[d].phase = "reading" =>
                  call'[d].via = call'[d].tunnel \/ ~Listening(call[d].tunnel)'
  <2>1. CASE d = c
    BY <1>1, <2>1 DEF HandedFit
  <2>2. CASE d # c
    BY <1>1, <2>2, HandedStays
  <2>3. QED
    BY <2>1, <2>2
<1>3. QED
  BY <1>2 DEF RequestsFit

(* A new forwarder listens on a port that nobody has. *)
LEMMA DialRequests == ASSUME IInv, RInv, NEW c \in Caller, Dial(c) PROVE RInv'
<1>1. PICK h \in Handle, p \in Port :
        /\ ~Dialed(h)
        /\ \A g \in Handle : handle[g].port # p
        /\ handle' = [handle EXCEPT ![h] = [key |-> call[c].key, port |-> p, stop |-> FALSE]]
        /\ Handed(c, h, p)
  BY DEF Dial
<1>2. call[c].key \in Key /\ call[c].key # None /\ p # None
  BY HasType DEF IInv, Dial, CallsFit
<1>3. /\ handle'[h] = [key |-> call[c].key, port |-> p, stop |-> FALSE]
      /\ \A g \in Handle : g # h => handle'[g] = handle[g]
  BY <1>1 DEF IInv, TypeOK
<1>4. Fades
  BY <1>1, <1>3 DEF Fades
<1>5. PortsApart'
  BY <1>1, <1>2, <1>3 DEF RInv, PortsApart, Listening, Dialed
<1>6. Dialed(h)' /\ handle'[h].key = call[c].key /\ handle'[h].port = p
  BY <1>2, <1>3 DEF Dialed
<1>7. QED
  BY <1>1, <1>4, <1>5, <1>6, HandedRight DEF RInv

LEMMA ReuseRequests == ASSUME IInv, RInv, NEW c \in Caller, Reuse(c) PROVE RInv'
<1>1. call[c].key \in Key /\ Warm(call[c].key)
  BY DEF Reuse, IInv, CallsFit
<1>2. PICK h \in Handle : h = tunnels[call[c].key]
  BY <1>1 DEF IInv, TunnelsFit, Warm
<1>3. Dialed(h) /\ handle[h].key = call[c].key /\ Listening(h)
  BY <1>1, <1>2 DEF IInv, TunnelsFit, Open, Warm
<1>4. PICK p \in Port : p = handle[h].port
  BY <1>3, HasType DEF IInv, Forwarder, Listening
<1>5. handle' = handle /\ Handed(c, h, p)
  BY <1>2, <1>4 DEF Reuse
<1>6. Fades /\ PortsApart'
  BY <1>5, HandlesFade DEF RInv
<1>7. Dialed(h)' /\ handle'[h].key = call[c].key /\ handle'[h].port = p
  BY <1>3, <1>4, <1>5 DEF Dialed
<1>8. QED
  BY <1>5, <1>6, <1>7, HandedRight DEF RInv

(* The request goes to the listener of its port: the tunnel, unless that is lost. *)
LEMMA ConnectRequests == ASSUME IInv, RInv, NEW c \in Caller, Connect(c) PROVE RInv'
<1>1. handle' = handle /\ call[c].phase = "handed" /\ call \in [Caller -> CallState]
  BY DEF Connect, IInv, TypeOK
<1>2. Fades /\ PortsApart'
  BY <1>1, HandlesFade DEF RInv
<1>3. HandedFit(c)
  BY <1>1 DEF RInv, RequestsFit
<1>4. \A d \in Caller : d # c => call'[d] = call[d]
  BY <1>1 DEF Connect, Becomes
<1>5. /\ call'[c].phase \in {"handed", "reading"} => HandedFit(c)'
      /\ call'[c].phase = "reading" =>
           call'[c].via = call'[c].tunnel \/ ~Listening(call[c].tunnel)'
  <2>1. CASE Becomes(c, NoCall)
    BY <1>1, <2>1 DEF Becomes, NoCall
  <2>2. ASSUME NEW h \in Handle, handle[h].port = call[c].port,
               Becomes(c, [call[c] EXCEPT !.phase = "reading", !.via = h])
        PROVE  HandedFit(c)' /\ (call'[c].via = call'[c].tunnel \/ ~Listening(call[c].tunnel)')
    <3>1. /\ call'[c].tunnel = call[c].tunnel /\ call'[c].key = call[c].key
          /\ call'[c].port = call[c].port /\ call'[c].via = h
      BY <1>1, <2>2 DEF Becomes, CallState
    <3>2. HandedFit(c)'
      BY <1>1, <1>3, <3>1 DEF HandedFit, Dialed
    <3>3. Listening(call[c].tunnel) => h = call[c].tunnel
      BY <1>3, <2>2 DEF HandedFit, RInv, PortsApart, Listening
    <3>4. QED
      BY <1>1, <3>1, <3>2, <3>3 DEF Listening
  <2>3. QED
    BY <2>1, <2>2 DEF Connect
<1>6. RequestsFit'
  BY <1>2, <1>4, <1>5, HandedStays DEF RInv, RequestsFit
<1>7. QED
  BY <1>2, <1>6 DEF RInv

(* Steps that hand out nothing and dial nothing. *)
LEMMA OtherRequests ==
  ASSUME IInv, RInv,
         handle' = handle \/ (\E hs : CloseHandles(hs)) \/ (\E h \in Handle : Lose(h)),
         \A c \in Caller : call'[c] = call[c] \/ call'[c].phase \in {"idle", "lock", "dial"}
  PROVE  RInv'
<1>1. Fades /\ PortsApart'
  BY HandlesFade DEF RInv
<1>2. RequestsFit'
  BY <1>1, HandedStays DEF RInv, RequestsFit
<1>3. QED
  BY <1>1, <1>2 DEF RInv

LEMMA NextRequests == IInv /\ RInv /\ [Next]_vars => RInv'
<1> SUFFICES ASSUME IInv, RInv, [Next]_vars PROVE RInv'
  OBVIOUS
<1>1. call \in [Caller -> CallState]
  BY DEF IInv, TypeOK
<1>2. ASSUME NEW c \in Caller, DialFails(c) \/ Answer(c) \/ (\E k \in Key : Begin(c, k)) PROVE RInv'
  <2>1. PICK next : Becomes(c, next) /\ next.phase \in {"idle", "lock"} /\ handle' = handle
    BY <1>2 DEF DialFails, Answer, Begin, NoCall
  <2>2. \A d \in Caller : call'[d] = call[d] \/ call'[d].phase \in {"idle", "lock", "dial"}
    BY <1>1, <2>1 DEF Becomes
  <2>3. QED
    BY <2>1, <2>2, OtherRequests
<1>3. ASSUME NEW c \in Caller, Miss(c) PROVE RInv'
  <2>1. CloseHandles({tunnels[call[c].key]})
        /\ \A d \in Caller : call'[d] = call[d] \/ call'[d].phase \in {"idle", "lock", "dial"}
    BY <1>1, <1>3 DEF Miss, Becomes, CallState
  <2>2. QED
    BY <2>1, OtherRequests
<1>4. CASE (\E h \in Handle : Lose(h)) \/ Reap \/ Close
  <2>1. call' = call /\ ((\E hs : CloseHandles(hs)) \/ (\E h \in Handle : Lose(h)))
    BY <1>4 DEF Lose, Reap, Close
  <2>2. QED
    BY <2>1, OtherRequests
<1>5. CASE ReaperTick \/ ReaperStop \/ Tick \/ UNCHANGED vars
  <2>1. handle' = handle /\ call' = call
    BY <1>5 DEF ReaperTick, ReaperStop, Tick, vars
  <2>2. QED
    BY <2>1, OtherRequests
<1>6. QED
  BY <1>2, <1>3, <1>4, <1>5, DialRequests, ReuseRequests, ConnectRequests DEF Next, Lock, Step

LEMMA InitRequests == Init => RInv
BY DEF Init, NoCall, RInv, PortsApart, RequestsFit, Listening

(***************************************************************************)
(* A request reaches its own cluster, unless the tunnel its call was       *)
(* handed is lost: however many tunnels come and go, the URL (pool.go,     *)
(* endpoint) names no other live tunnel.                                   *)
(***************************************************************************)
THEOREM RequestsStayHome == Spec => []NoStrayRequests
<1>1. RInv => NoStrayRequests
  BY DEF RInv, RequestsFit, HandedFit, NoStrayRequests
<1>2. Spec => []RInv
  BY InitRequests, NextRequests, Invariance, PTL DEF Spec
<1>3. QED
  BY <1>1, <1>2, PTL
-----------------------------------------------------------------------------
(* The mutex. *)

(* The caller that has the mutex is the one that dials. *)
LEMMA NextHolder == IInv /\ HolderDials /\ [Next]_vars => HolderDials'
<1> SUFFICES ASSUME IInv, HolderDials, [Next]_vars PROVE HolderDials'
  OBVIOUS
<1>1. call \in [Caller -> CallState] /\ mu \in Caller \union {Nobody}
  BY DEF IInv, TypeOK
<1>2. ASSUME NEW c \in Caller, Miss(c) PROVE HolderDials'
  BY <1>1, <1>2 DEF Miss, Becomes, CallState, HolderDials
<1>3. ASSUME NEW c \in Caller, Dial(c) \/ DialFails(c) PROVE HolderDials'
  BY <1>3 DEF Dial, DialFails, HolderDials
<1>4. ASSUME NEW c \in Caller, Reuse(c) \/ Connect(c) \/ Answer(c) \/ \E k \in Key : Begin(c, k)
      PROVE  HolderDials'
  BY <1>1, <1>4 DEF Reuse, Connect, Answer, Begin, Handed, Becomes, HolderDials
<1>5. CASE call' = call /\ mu' = mu
  BY <1>5 DEF HolderDials
<1>6. QED
  BY <1>2, <1>3, <1>4, <1>5 DEF Next, Lock, Step, Lose, ReaperTick, Reap, ReaperStop, Close, Tick, vars

(***************************************************************************)
(* The mutex is never abandoned: whoever holds it dials, and may fail      *)
(* (pool.go, endpoint: the lock is released on every return).              *)
(***************************************************************************)
THEOREM MutexIsNotAbandoned == Spec => []HolderDials
<1>1. Init => HolderDials
  BY DEF Init, HolderDials
<1>2. QED
  BY <1>1, NextHolder, Invariance, PTL DEF Spec

(* What is behind each phase. *)
LEMMA BehindIs ==
  /\ Behind("lock") = 4 /\ Behind("dial") = 3 /\ Behind("handed") = 2
  /\ Behind("reading") = 1 /\ Behind("idle") = 0
BY DEF Behind

(***************************************************************************)
(* A call only goes forward: it waits for the mutex once, dials once at    *)
(* most and sends one request ("re-dialed exactly once per call", pool.go, *)
(* endpoint), so that it cannot loop whatever the tunnels do.              *)
(***************************************************************************)
THEOREM CallsNeverLoop == Spec => CallsGoForward
<1> DEFINE Forward ==
      \A c \in Caller : call[c].phase # "idle" /\ call'[c] # call[c] =>
        Behind(call'[c].phase) < Behind(call[c].phase)
<1>1. ASSUME IInv, Next PROVE Forward
  <2>1. call \in [Caller -> CallState]
    BY <1>1 DEF IInv, TypeOK
  <2>2. ASSUME NEW c \in Caller, NEW next, Becomes(c, next),
               call[c].phase # "idle" => Behind(next.phase) < Behind(call[c].phase)
        PROVE  Forward
    BY <2>1, <2>2 DEF Becomes
  <2>3. ASSUME NEW c \in Caller, Dial(c) \/ Reuse(c) PROVE Forward
    <3>1. PICK h, p : Handed(c, h, p)
      BY <2>3 DEF Dial, Reuse
    <3>2. call[c].phase \in {"lock", "dial"}
      BY <2>3 DEF Dial, Reuse
    <3>3. [call[c] EXCEPT !.phase = "handed", !.port = p, !.tunnel = h, !.since = now].phase = "handed"
      BY <2>1 DEF CallState
    <3>4. QED
      BY <2>2, <3>1, <3>2, <3>3, BehindIs, 4 > 2, 3 > 2 DEF Handed
  <2>4. ASSUME NEW c \in Caller, Miss(c) PROVE Forward
    <3>1. [call[c] EXCEPT !.phase = "dial"].phase = "dial"
      BY <2>1 DEF CallState
    <3>2. QED
      BY <2>2, <2>4, <3>1, BehindIs, 4 > 3 DEF Miss
  <2>5. ASSUME NEW c \in Caller, Becomes(c, NoCall), call[c].phase \in {"dial", "handed", "reading"}
        PROVE  Forward
    BY <2>2, <2>5, NoCall.phase = "idle", BehindIs, 3 > 0, 2 > 0, 1 > 0 DEF NoCall
  <2>6. ASSUME NEW c \in Caller, NEW h, Becomes(c, [call[c] EXCEPT !.phase = "reading", !.via = h]),
               call[c].phase = "handed"
        PROVE  Forward
    <3>1. [call[c] EXCEPT !.phase = "reading", !.via = h].phase = "reading"
      BY <2>1 DEF CallState
    <3>2. QED
      BY <2>2, <2>6, <3>1, BehindIs, 2 > 1
  <2>7. ASSUME NEW c \in Caller, NEW k \in Key, Begin(c, k) PROVE Forward
    BY <2>2, <2>7 DEF Begin
  <2>8. CASE call' = call
    BY <2>8
  <2>9. ASSUME NEW c \in Caller, DialFails(c) \/ Connect(c) \/ Answer(c) PROVE Forward
    BY <2>5, <2>6, <2>9 DEF DialFails, Connect, Answer
  <2>10. QED
    BY <1>1, <2>3, <2>4, <2>7, <2>8, <2>9 DEF Next, Lock, Step, Lose, ReaperTick, Reap, ReaperStop,
       Close, Tick
<1>2. IInv /\ [Next]_vars => [Forward]_vars
  BY <1>1
<1>3. QED
  BY <1>2, Invariance, PTL DEF Spec, CallsGoForward
-----------------------------------------------------------------------------
(* Refinement: the pool's map decides what the abstract pool sees. *)
Seen(k) == IF tunnels[k] = None THEN "none" ELSE IF Listening(tunnels[k]) THEN "up" ELSE "lost"

SeenIsRight == [k \in Key |-> TunnelOf(k)] = [k \in Key |-> Seen(k)]

LEMMA TunnelIsSeen == IInv => SeenIsRight
<1> SUFFICES ASSUME IInv, NEW k \in Key PROVE TunnelOf(k) = Seen(k)
  BY DEF SeenIsRight
<1>1. \A h \in Handle : Open(h) /\ handle[h].key = k => tunnels[k] = h
  BY DEF IInv, NothingLeaks
<1>2. CASE tunnels[k] = None
  BY <1>1, <1>2, HasType DEF TunnelOf, Seen, IInv
<1>3. CASE tunnels[k] # None
  <2>1. tunnels[k] \in Handle /\ Open(tunnels[k]) /\ handle[tunnels[k]].key = k
    BY <1>3 DEF IInv, TunnelsFit
  <2>2. CASE Listening(tunnels[k])
    BY <1>3, <2>1, <2>2 DEF TunnelOf, Seen
  <2>3. CASE ~Listening(tunnels[k])
    BY <1>1, <1>3, <2>1, <2>3 DEF TunnelOf, Seen
  <2>4. QED
    BY <2>2, <2>3
<1>4. QED
  BY <1>2, <1>3

(* The initial states map to the empty cache. *)
LEMMA InitImplements == Init => Cache!Init
<1> SUFFICES ASSUME Init PROVE [k \in Key |-> TunnelOf(k)] = [k \in Key |-> "none"]
  BY DEF Cache!Init
<1>1. \A k \in Key : Seen(k) = "none"
  BY DEF Init, Seen
<1>2. QED
  BY <1>1, InitInv, TunnelIsSeen DEF SeenIsRight

(* What a tear-down leaves of what is seen. *)
LEMMA TearDownImplements ==
  ASSUME IInv, NEW ks \in SUBSET Key, Remove(ks), CloseHandles({tunnels[k] : k \in ks})
  PROVE  \A k \in Key : Seen(k)' = IF k \in ks THEN "none" ELSE Seen(k)
<1>1. /\ \A k \in Key : tunnels'[k] = IF k \in ks THEN None ELSE tunnels[k]
      /\ \A h \in Handle : handle'[h].port = handle[h].port
  BY TornDown DEF IInv
<1>2. \A k \in Key : tunnels[k] # None => tunnels[k] \in Handle
  BY DEF IInv, TunnelsFit
<1>3. QED
  BY <1>1, <1>2 DEF Seen, Listening

(* Every step of the pool is a step of the cache, or leaves it alone. *)
LEMMA NextImplements ==
  IInv /\ IInv' /\ [Next]_vars => [Cache!Next]_([k \in Key |-> TunnelOf(k)])
<1> SUFFICES ASSUME IInv, IInv', [Next]_vars
             PROVE  Cache!Next \/ [k \in Key |-> TunnelOf(k)]' = [k \in Key |-> TunnelOf(k)]
  OBVIOUS
<1> DEFINE seen == [k \in Key |-> Seen(k)]
<1>1. seen = [k \in Key |-> TunnelOf(k)] /\ seen' = [k \in Key |-> TunnelOf(k)]'
  <2>1. SeenIsRight
    BY TunnelIsSeen
  <2>2. SeenIsRight'
    BY TunnelIsSeen, PTL
  <2>3. QED
    BY <2>1, <2>2 DEF SeenIsRight
<1>2. ASSUME UNCHANGED <<tunnels, handle>> PROVE seen' = seen
  BY <1>2 DEF Seen, Listening
<1>3. ASSUME NEW ks \in SUBSET Key, Remove(ks), CloseHandles({tunnels[k] : k \in ks})
      PROVE  Cache!Next
  <2>1. seen' = [k \in Key |-> IF k \in ks THEN "none" ELSE seen[k]]
    BY <1>3, TearDownImplements
  <2>2. Cache!TearDown(ks)
    BY <1>1, <2>1 DEF Cache!TearDown
  <2>3. QED
    BY <2>2 DEF Cache!Next
<1>4. ASSUME NEW c \in Caller, Miss(c) PROVE Cache!Next
  <2>1. call[c].key \in Key
    BY <1>4 DEF Miss, IInv, CallsFit
  <2>2. {call[c].key} \in SUBSET Key
        /\ {tunnels[call[c].key]} = {tunnels[k] : k \in {call[c].key}}
    BY <2>1
  <2>3. Remove({call[c].key}) /\ CloseHandles({tunnels[call[c].key]})
    BY <1>4 DEF Miss
  <2>4. QED
    BY <1>3, <2>2, <2>3
<1>5. ASSUME NEW c \in Caller, Dial(c) PROVE Cache!Next
  <2>0. PICK k \in Key : k = call[c].key
    BY <1>5 DEF Dial, IInv, CallsFit
  <2>1. PICK h \in Handle, p \in Port :
          /\ ~Dialed(h)
          /\ handle' = [handle EXCEPT ![h] = [key |-> k, port |-> p, stop |-> FALSE]]
          /\ tunnels' = [tunnels EXCEPT ![k] = h]
    BY <1>5, <2>0 DEF Dial
  <2>2. tunnels[k] = None
    BY <1>5, <2>0 DEF Dial, IInv, CallsFit, DialsAlone
  <2>3. handle'[h].port = p /\ p # None /\ h # None
        /\ \A g \in Handle : g # h => handle'[g] = handle[g]
    BY <2>1, HasType DEF IInv, TypeOK
  <2>4. tunnels'[k] = h /\ \A j \in Key : j # k => tunnels'[j] = tunnels[j] /\ tunnels[j] # h
    <3>1. \A j \in Key : tunnels[j] # h
      BY <2>1, <2>3 DEF IInv, TunnelsFit, Open
    <3>2. QED
      BY <2>1, <2>2, <3>1 DEF IInv, TypeOK
  <2>5. Seen(k) = "none" /\ Seen(k)' = "up" /\ \A j \in Key : j # k => Seen(j)' = Seen(j)
    <3>1. \A j \in Key : tunnels[j] # None => tunnels[j] \in Handle
      BY DEF IInv, TunnelsFit
    <3>2. QED
      BY <2>2, <2>3, <2>4, <3>1 DEF Seen, Listening
  <2>6. seen' = [seen EXCEPT ![k] = "up"] /\ seen[k] = "none"
    BY <2>2, <2>5
  <2>7. Cache!Establish(k)
    BY <1>1, <2>6 DEF Cache!Establish
  <2>8. QED
    BY <2>2, <2>7 DEF Cache!Next
<1>6. ASSUME NEW h \in Handle, Lose(h) PROVE Cache!Next \/ seen' = seen
  <2>1. handle'[h].port = None /\ tunnels' = tunnels /\ Listening(h)
        /\ \A g \in Handle : g # h => handle'[g] = handle[g]
    BY <1>6 DEF Lose, IInv, TypeOK, Forwarder
  <2>2. \A j \in Key : tunnels[j] # None => tunnels[j] \in Handle /\ handle[tunnels[j]].key = j
    BY DEF IInv, TunnelsFit
  <2>3. CASE \A j \in Key : tunnels[j] # h
    BY <2>1, <2>2, <2>3 DEF Seen, Listening
  <2>4. ASSUME NEW k \in Key, tunnels[k] = h PROVE Cache!Next
    <3>1. \A j \in Key : j # k => tunnels[j] # h
      BY <2>2, <2>4, HasType DEF IInv
    <3>2. h # None
      BY HasType DEF IInv
    <3>3. Seen(k) = "up" /\ Seen(k)' = "lost"
      BY <2>1, <2>4, <3>2 DEF Seen, Listening
    <3>4. \A j \in Key : j # k => Seen(j)' = Seen(j)
      BY <2>1, <2>2, <3>1 DEF Seen, Listening
    <3>5. seen' = [seen EXCEPT ![k] = "lost"] /\ seen[k] = "up"
      BY <3>3, <3>4
    <3>6. Cache!Lose(k)
      BY <1>1, <3>5 DEF Cache!Lose
    <3>7. QED
      BY <3>6 DEF Cache!Next
  <2>5. QED
    BY <2>3, <2>4
<1>7. CASE Reap
  <2>1. IdleKeys \in SUBSET Key
    BY DEF IdleKeys
  <2>2. QED
    BY <1>3, <1>7, <2>1 DEF Reap
<1>8. CASE Close
  BY <1>3, <1>8 DEF Close
<1>9. CASE \E c \in Caller :
             Reuse(c) \/ DialFails(c) \/ Connect(c) \/ Answer(c) \/ \E k \in Key : Begin(c, k)
  BY <1>1, <1>2, <1>9 DEF Reuse, DialFails, Connect, Answer, Begin
<1>10. CASE ReaperTick \/ ReaperStop \/ Tick \/ UNCHANGED vars
  BY <1>1, <1>2, <1>10 DEF ReaperTick, ReaperStop, Tick, vars
<1> HIDE DEF seen
<1>11. QED
  BY <1>1, <1>4, <1>5, <1>6, <1>7, <1>8, <1>9, <1>10 DEF Next, Lock, Step

(***************************************************************************)
(* The pool implements the cache of one tunnel per cluster: endpoint dials *)
(* a cluster only when it has no tunnel, the lost one included.            *)
(***************************************************************************)
THEOREM Refinement == Spec => ImplementsCache
<1>1. Init => Cache!Init
  BY InitImplements
<1>2. IInv /\ IInv' /\ [Next]_vars => [Cache!Next]_([k \in Key |-> TunnelOf(k)])
  BY NextImplements
<1>3. QED
  BY <1>1, <1>2, Invariance, PTL DEF Spec, ImplementsCache, Cache!Spec
=============================================================================
