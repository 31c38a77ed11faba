------------------------- MODULE GuardedDeleteProofs -------------------------
(***************************************************************************)
(* The safety of the confirmed deletions, for every kind and any number of *)
(* agents, versions and incarnations.                                      *)
(***************************************************************************)
EXTENDS GuardedDelete, TLAPS

InDelete(a) == call[a].phase = "delete"

(* Nobody has seen an incarnation that does not exist yet. *)
UidsArePast ==
  \A a \in Agent :
    /\ agent[a].known # None => agent[a].known.uid <= live.uid
    /\ InDelete(a) => call[a].seen <= live.uid

(* An open moment is remembered for the rest of the incarnation. *)
OpenIsRemembered == Open(live) => live.open

(* A confirm and a force argument came through the agent's hands. *)
ArgumentsAreTheAgents ==
  \A a \in Agent :
    /\ call[a].confirm # None => agent[a].known # None
    /\ call[a].force => agent[a].forced

(* A call about to delete what it read has passed the guards of its kind. *)
DeleteIsConfirmed ==
  \A a \in Agent : InDelete(a) =>
    /\ call[a].cascade \/ Kind = "RayJob"
    /\ call[a].confirm # None \/ Kind = "RayJob"
    /\ call[a].seen = live.uid /\ call[a].cascade =>
         /\ tier
         /\ call[a].confirm # None /\ call[a].confirm.uid = live.uid

(* How far a call is decides what it has done. *)
Progress ==
  \A a \in Agent :
    /\ call[a].phase \in {"read", "delete", "record"} => call[a].records = 0
    /\ call[a].phase \in {"read", "delete"} => ~call[a].deleted /\ call[a].out = "none"
    /\ call[a].phase = "record" =>
         /\ call[a].confirm # None \/ Kind = "RayJob"
         /\ call[a].out = "ok" => call[a].deleted \/ call[a].dry

IInv ==
  /\ TypeOK
  /\ UidsArePast
  /\ OpenIsRemembered
  /\ ArgumentsAreTheAgents
  /\ DeleteIsConfirmed
  /\ Progress
  /\ ClosedYieldsNoFingerprint
  /\ DeletionIsAudited
-----------------------------------------------------------------------------
(* The invariant holds initially: no call has begun. *)
LEMMA InitInv == Init => IInv
<1> SUFFICES ASSUME Init PROVE IInv
  OBVIOUS
<1> USE DEF Init
<1>1. live \in Resource /\ live.uid = 0 /\ live.open = Open(live)
  BY DEF Incarnation
<1>2. TypeOK
  BY <1>1 DEF TypeOK, AgentState, CallState, Phase, Outcome
<1>3. QED
  BY <1>1, <1>2 DEF IInv, UidsArePast, OpenIsRemembered, ArgumentsAreTheAgents, DeleteIsConfirmed,
     Progress, ClosedYieldsNoFingerprint, DeletionIsAudited, InDelete

(* Others write the resource, within an incarnation or by starting the next. *)
LEMMA EnvironmentInv == IInv /\ Environment => IInv'
<1> SUFFICES ASSUME IInv, Environment PROVE IInv'
  OBVIOUS
<1>1. agent' = agent /\ call' = call /\ tier' = tier
  BY DEF Environment, Churn, KubectlDelete, Recreate
<1>2. /\ live' \in Resource /\ OpenIsRemembered'
      /\ \/ live'.uid = live.uid /\ (live.open => live'.open)
         \/ live'.uid = live.uid + 1
  <2>0. live \in Resource /\ OpenIsRemembered
    BY DEF IInv, TypeOK
  <2>1. CASE Churn
    BY <2>0, <2>1 DEF Churn, Incarnation, Resource, OpenIsRemembered, Open
  <2>2. CASE KubectlDelete
    BY <2>0, <2>2 DEF KubectlDelete, Resource, OpenIsRemembered, Open
  <2>3. CASE Recreate
    BY <2>0, <2>3 DEF Recreate, Incarnation, Resource, OpenIsRemembered, Open
  <2>4. QED
    BY <2>1, <2>2, <2>3 DEF Environment
<1>3. live.uid \in Nat /\ live'.uid \in Nat
  BY <1>2 DEF IInv, TypeOK, AgentState, CallState, Resource
<1>4. \A a \in Agent : /\ agent[a].known # None => agent[a].known.uid \in Nat
                       /\ call[a].seen \in Nat
  BY DEF IInv, TypeOK, AgentState, CallState, Token
<1>5. TypeOK'
  BY <1>1, <1>2 DEF IInv, TypeOK
<1>6. UidsArePast'
  BY <1>1, <1>2, <1>3, <1>4 DEF IInv, UidsArePast, InDelete
<1>7. DeleteIsConfirmed'
  BY <1>1, <1>2, <1>3, <1>4 DEF IInv, UidsArePast, DeleteIsConfirmed, InDelete
<1>8. ClosedYieldsNoFingerprint'
  BY <1>1, <1>2, <1>3, <1>4 DEF IInv, UidsArePast, ClosedYieldsNoFingerprint
<1>9. ArgumentsAreTheAgents' /\ Progress' /\ DeletionIsAudited'
  BY <1>1 DEF IInv, ArgumentsAreTheAgents, Progress, DeletionIsAudited
<1>10. QED
  BY <1>2, <1>5, <1>6, <1>7, <1>8, <1>9 DEF IInv

(* An agent calls the tool. *)
LEMMA BeginInv ==
  ASSUME IInv, NEW a \in Agent, NEW confirm \in {None, agent[a].known},
         NEW force \in BOOLEAN, NEW dry \in BOOLEAN, Begin(a, confirm, force, dry)
  PROVE  IInv'
<1> USE DEF Begin, Becomes
<1>1. TypeOK'
  BY DEF IInv, TypeOK, AgentState, CallState, Phase, Outcome
<1>2. UidsArePast' /\ OpenIsRemembered' /\ DeleteIsConfirmed'
  BY DEF IInv, TypeOK, AgentState, CallState, UidsArePast, OpenIsRemembered, DeleteIsConfirmed, InDelete, Open
<1>3. ArgumentsAreTheAgents'
  BY DEF IInv, TypeOK, AgentState, CallState, ArgumentsAreTheAgents
<1>4. ClosedYieldsNoFingerprint'
  BY DEF IInv, TypeOK, AgentState, CallState, ClosedYieldsNoFingerprint
<1>5. Progress' /\ DeletionIsAudited'
  BY DEF IInv, TypeOK, AgentState, CallState, Progress, DeletionIsAudited
<1>6. QED
  BY <1>1, <1>2, <1>3, <1>4, <1>5 DEF IInv

(* The fingerprint of a resource is a token, for its incarnation. *)
LEMMA FingerprintToken ==
  ASSUME NEW o \in Resource
  PROVE  /\ Fingerprint(o, "delete") \in Token /\ Fingerprint(o, "delete").uid = o.uid
         /\ o.version \in Version
BY DEF Fingerprint, Token, Operation, BindsResourceVersion, Resource

(* The step of one call, as far as types go. *)
LEMMA CallMoves ==
  ASSUME call \in [Agent -> CallState], NEW a \in Agent, NEW next \in CallState, Becomes(a, next)
  PROVE  call' \in [Agent -> CallState]
BY DEF Becomes

LEMMA CallHasType == ASSUME TypeOK, NEW a \in Agent PROVE call[a] \in CallState /\ agent[a] \in AgentState
BY DEF TypeOK

(* The read and the guards: a preview, a refusal, an error, or a call that may delete. *)
LEMMA ReadInv == ASSUME IInv, NEW a \in Agent, Read(a) PROVE IInv'
<1>1. live \in Resource /\ live' = live /\ live.uid \in Nat /\ tier' = tier
  BY DEF IInv, TypeOK, AgentState, CallState, Read, Resource
<1>2. call[a].phase = "read" /\ call[a].records = 0 /\ ~call[a].deleted
  BY DEF IInv, Read, Progress
<1>3. CASE /\ UNCHANGED agent
           /\ \E out \in {"notFound", "refused", "mismatch", "error"} : Finish(a, out)
  <2> PICK out \in {"notFound", "refused", "mismatch", "error"} : Finish(a, out)
    BY <1>3
  <2>1. TypeOK'
    <3>1. [call[a] EXCEPT !.phase = "done", !.out = out] \in CallState
      BY CallHasType DEF IInv, CallState, Phase, Outcome
    <3>2. QED
      BY <1>1, <1>3, <3>1, CallMoves DEF IInv, TypeOK, Finish
  <2>2. UidsArePast' /\ OpenIsRemembered' /\ DeleteIsConfirmed'
    BY <1>1, <1>3 DEF IInv, TypeOK, AgentState, CallState, UidsArePast, OpenIsRemembered, DeleteIsConfirmed, InDelete, Finish, Becomes
  <2>3. ArgumentsAreTheAgents' /\ ClosedYieldsNoFingerprint'
    BY <1>1, <1>3 DEF IInv, TypeOK, AgentState, CallState, ArgumentsAreTheAgents, ClosedYieldsNoFingerprint, Finish, Becomes
  <2>4. Progress' /\ DeletionIsAudited'
    BY <1>2, <1>3 DEF IInv, TypeOK, AgentState, CallState, Progress, DeletionIsAudited, Finish, Becomes
  <2>5. QED
    BY <1>1, <2>1, <2>2, <2>3, <2>4 DEF IInv
<1>4. CASE /\ ~Refused(live, call[a])
           /\ Finish(a, "preview")
           /\ agent' = [agent EXCEPT ![a].known = Fingerprint(live, "delete")]
  <2>0. agent'[a].known # None => agent'[a].known.uid = live.uid
    BY <1>1, <1>4, FingerprintToken DEF IInv, TypeOK
  <2>a. agent'[a].known # None
    BY <1>1, <1>4, FingerprintToken, NoneAssumption DEF IInv, TypeOK
  <2>1. TypeOK'
    <3>1. [call[a] EXCEPT !.phase = "done", !.out = "preview"] \in CallState
      BY CallHasType DEF IInv, CallState, Phase, Outcome
    <3>2. [agent[a] EXCEPT !.known = Fingerprint(live, "delete")] \in AgentState
      BY <1>1, CallHasType, FingerprintToken DEF IInv, AgentState
    <3>3. agent' \in [Agent -> AgentState]
      BY <1>4, <3>2 DEF IInv, TypeOK
    <3>4. QED
      BY <1>1, <1>4, <3>1, <3>3, CallMoves DEF IInv, TypeOK, Finish
  <2>2. UidsArePast' /\ OpenIsRemembered' /\ DeleteIsConfirmed'
    BY <1>1, <1>4, <2>0 DEF IInv, TypeOK, AgentState, CallState, UidsArePast, OpenIsRemembered, DeleteIsConfirmed, InDelete, Finish, Becomes
  <2>3. ArgumentsAreTheAgents'
    BY <1>1, <1>4, <2>a DEF IInv, TypeOK, AgentState, CallState, ArgumentsAreTheAgents, Finish, Becomes
  <2>4. ClosedYieldsNoFingerprint'
    BY <1>1, <1>4, <2>0 DEF IInv, TypeOK, AgentState, CallState, ArgumentsAreTheAgents, ClosedYieldsNoFingerprint,
       OpenIsRemembered, Open, Refused, Finish, Becomes
  <2>5. Progress' /\ DeletionIsAudited'
    BY <1>2, <1>4 DEF IInv, TypeOK, AgentState, CallState, Progress, DeletionIsAudited, Finish, Becomes
  <2>6. QED
    BY <1>1, <2>1, <2>2, <2>3, <2>4, <2>5 DEF IInv
<1>5. CASE /\ ~Refused(live, call[a])
           /\ Cascades(live) => Confirmed(live, "delete", call[a].confirm)
           /\ Becomes(a, [call[a] EXCEPT !.phase = "delete", !.seen = live.uid, !.cascade = Cascades(live)])
           /\ UNCHANGED agent
  <2>1. TypeOK'
    <3>0. Cascades(live) \in BOOLEAN
      BY <1>1 DEF Cascades, Resource
    <3>1. [call[a] EXCEPT !.phase = "delete", !.seen = live.uid, !.cascade = Cascades(live)] \in CallState
      BY <1>1, <3>0, CallHasType DEF IInv, CallState, Phase
    <3>2. QED
      BY <1>1, <1>5, <3>1, CallMoves DEF IInv, TypeOK
  <2>2. UidsArePast' /\ OpenIsRemembered'
    BY <1>1, <1>5 DEF Becomes, IInv, TypeOK, AgentState, CallState, UidsArePast, OpenIsRemembered, InDelete
  <2>3. ArgumentsAreTheAgents' /\ ClosedYieldsNoFingerprint'
    BY <1>1, <1>5 DEF Becomes, IInv, TypeOK, AgentState, CallState, ArgumentsAreTheAgents, ClosedYieldsNoFingerprint
  <2>4. DeleteIsConfirmed'
    <3>1. Cascades(live) => /\ tier
                            /\ call[a].confirm # None /\ call[a].confirm.uid = live.uid
      BY <1>1, <1>5, FingerprintToken, NoneAssumption DEF Refused, Confirmed
    <3>2. (call[a].confirm # None /\ Cascades(live)) \/ Kind = "RayJob"
      BY <3>1 DEF Cascades
    <3>3. /\ call'[a].confirm = call[a].confirm /\ call'[a].cascade = Cascades(live)
          /\ \A b \in Agent : b # a => call'[b] = call[b]
      BY <1>5 DEF IInv, TypeOK, CallState, Becomes
    <3>4. QED
      BY <1>1, <3>1, <3>2, <3>3 DEF IInv, DeleteIsConfirmed, InDelete
  <2>5. Progress' /\ DeletionIsAudited'
    BY <1>2, <1>5 DEF Becomes, IInv, TypeOK, AgentState, CallState, Progress, DeletionIsAudited
  <2>6. QED
    BY <1>1, <2>1, <2>2, <2>3, <2>4, <2>5 DEF IInv
<1>6. QED
  BY <1>3, <1>4, <1>5 DEF Read

(* The delete request: done, validated, too late or failed. *)
LEMMA DeleteInv == ASSUME IInv, NEW a \in Agent, Delete(a) PROVE IInv'
<1>1. /\ live \in Resource /\ agent' = agent /\ tier' = tier
      /\ call[a].phase = "delete" /\ call[a].records = 0 /\ ~call[a].deleted
      /\ call[a].confirm # None \/ Kind = "RayJob"
  BY DEF IInv, TypeOK, Delete, Progress, DeleteIsConfirmed, InDelete
<1>2. /\ live' \in Resource /\ live'.uid = live.uid /\ live'.open = live.open
      /\ OpenIsRemembered'
  BY <1>1 DEF IInv, OpenIsRemembered, Open, Delete, Resource
<1>3. PICK out \in Outcome, deleted \in BOOLEAN :
        /\ Becomes(a, [call[a] EXCEPT !.phase = "record", !.out = out, !.deleted = deleted])
        /\ out = "ok" => deleted \/ call[a].dry
  <2>1. CASE \E out \in {"ok", "error"} :
               Becomes(a, [call[a] EXCEPT !.phase = "record", !.out = out, !.deleted = TRUE])
    BY <2>1 DEF Outcome
  <2>2. ASSUME NEW out \in {"ok", "notFound", "error"}, out = "ok" => call[a].dry,
               Becomes(a, [call[a] EXCEPT !.phase = "record", !.out = out])
        PROVE  Becomes(a, [call[a] EXCEPT !.phase = "record", !.out = out, !.deleted = FALSE])
    <3>1. [call[a] EXCEPT !.phase = "record", !.out = out]
            = [call[a] EXCEPT !.phase = "record", !.out = out, !.deleted = FALSE]
      BY <1>1, CallHasType DEF IInv, CallState
    <3>2. QED
      BY <2>2, <3>1
  <2>3. QED
    BY <2>1, <2>2 DEF Delete, Outcome
<1>4. TypeOK'
  <2>1. [call[a] EXCEPT !.phase = "record", !.out = out, !.deleted = deleted] \in CallState
    BY CallHasType DEF IInv, CallState, Phase
  <2>2. QED
    BY <1>1, <1>2, <1>3, <2>1, CallMoves DEF IInv, TypeOK
<1>5. UidsArePast' /\ DeleteIsConfirmed'
  BY <1>1, <1>2, <1>3 DEF IInv, TypeOK, CallState, UidsArePast, DeleteIsConfirmed, InDelete, Becomes
<1>6. ArgumentsAreTheAgents' /\ ClosedYieldsNoFingerprint'
  BY <1>1, <1>2, <1>3 DEF IInv, TypeOK, CallState, ArgumentsAreTheAgents, ClosedYieldsNoFingerprint, Becomes
<1>7. Progress' /\ DeletionIsAudited'
  BY <1>1, <1>3 DEF IInv, TypeOK, CallState, Progress, DeletionIsAudited, Becomes
<1>8. QED
  BY <1>2, <1>4, <1>5, <1>6, <1>7 DEF IInv

(* The audit record. *)
LEMMA RecordInv == ASSUME IInv, NEW a \in Agent, Record(a) PROVE IInv'
<1>1. call[a].phase = "record" /\ call[a].records = 0 /\ UNCHANGED <<live, tier, agent>>
  BY DEF IInv, Record, Progress
<1>2. TypeOK'
  <2>0. call[a].records + 1 \in 0 .. 1
    BY <1>1
  <2>1. [call[a] EXCEPT !.phase = "done", !.records = @ + 1] \in CallState
    BY <2>0, CallHasType DEF IInv, CallState, Phase
  <2>2. QED
    BY <1>1, <2>1, CallMoves DEF IInv, TypeOK, Record
<1>3. UidsArePast' /\ DeleteIsConfirmed' /\ OpenIsRemembered'
  BY <1>1 DEF IInv, TypeOK, CallState, UidsArePast, DeleteIsConfirmed, InDelete, OpenIsRemembered,
     Open, Record, Becomes
<1>4. ArgumentsAreTheAgents' /\ ClosedYieldsNoFingerprint'
  BY <1>1 DEF IInv, TypeOK, CallState, ArgumentsAreTheAgents, ClosedYieldsNoFingerprint, Record, Becomes
<1>5. Progress' /\ DeletionIsAudited'
  BY <1>1 DEF IInv, TypeOK, CallState, Progress, DeletionIsAudited, Record, Becomes
<1>6. QED
  BY <1>2, <1>3, <1>4, <1>5 DEF IInv

(* The process restarts. *)
LEMMA RestartInv == IInv /\ Restart => IInv'
<1> SUFFICES ASSUME IInv, Restart PROVE IInv'
  OBVIOUS
<1>1. UNCHANGED <<live, agent>> /\ tier' \in BOOLEAN
  BY DEF Restart
<1>2. \A a \in Agent : \/ call'[a] = call[a] /\ call[a].phase \in {"idle", "done"}
                       \/ call'[a] = [call[a] EXCEPT !.phase = "idle", !.out = "error"]
  BY DEF Restart, IInv, TypeOK, CallState, Phase
<1>3. TypeOK'
  <2>1. \A a \in Agent : [call[a] EXCEPT !.phase = "idle", !.out = "error"] \in CallState
    BY CallHasType DEF IInv, CallState, Phase, Outcome
  <2>2. \A a \in Agent : (IF call[a].phase \in {"read", "delete", "record"}
                          THEN [call[a] EXCEPT !.phase = "idle", !.out = "error"]
                          ELSE call[a]) \in CallState
    BY <2>1, CallHasType DEF IInv
  <2>3. call' \in [Agent -> CallState]
    BY <2>2, Zenon DEF Restart
  <2>4. QED
    BY <1>1, <2>3 DEF IInv, TypeOK
<1>4. \A a \in Agent : /\ call'[a].phase \in {"idle", "done"}
                       /\ call'[a].phase = "done" => call'[a] = call[a]
                       /\ call'[a].confirm = call[a].confirm /\ call'[a].force = call[a].force
  BY <1>2, CallHasType DEF IInv, CallState
<1>5. UidsArePast' /\ DeleteIsConfirmed' /\ OpenIsRemembered' /\ ClosedYieldsNoFingerprint'
  BY <1>1, <1>4 DEF IInv, UidsArePast, DeleteIsConfirmed, InDelete, OpenIsRemembered, Open,
     ClosedYieldsNoFingerprint
<1>6. ArgumentsAreTheAgents' /\ Progress' /\ DeletionIsAudited'
  BY <1>1, <1>4 DEF IInv, ArgumentsAreTheAgents, Progress, DeletionIsAudited
<1>7. QED
  BY <1>3, <1>5, <1>6 DEF IInv

LEMMA NextInv == IInv /\ [Next]_vars => IInv'
<1> SUFFICES ASSUME IInv, [Next]_vars PROVE IInv'
  OBVIOUS
<1>1. CASE UNCHANGED vars
  BY <1>1 DEF vars, IInv, TypeOK, UidsArePast, OpenIsRemembered, Open, ArgumentsAreTheAgents,
     DeleteIsConfirmed, InDelete, Progress, ClosedYieldsNoFingerprint, DeletionIsAudited
<1>2. CASE Environment
  BY <1>2, EnvironmentInv
<1>3. CASE Restart
  BY <1>3, RestartInv
<1>4. ASSUME NEW a \in Agent, Step(a) PROVE IInv'
  BY <1>4, ReadInv, DeleteInv, RecordInv DEF Step
<1>5. ASSUME NEW a \in Agent, NEW confirm \in {None, agent[a].known},
             NEW force \in BOOLEAN, NEW dry \in BOOLEAN, Begin(a, confirm, force, dry)
      PROVE  IInv'
  BY <1>5, BeginInv
<1>6. QED
  BY <1>1, <1>2, <1>3, <1>4, <1>5 DEF Next

LEMMA Invariant == Spec => []IInv
BY InitInv, NextInv, PTL DEF Spec
-----------------------------------------------------------------------------
(* Every reachable state has the declared types; a call writes at most one audit record. *)
THEOREM TypeCorrect == Spec => []TypeOK
<1>1. IInv => TypeOK
  BY DEF IInv
<1>2. QED
  BY Invariant, <1>1, PTL

(***************************************************************************)
(* A resource that was never open has no working fingerprint with an agent *)
(* that does not force: the protected and serving guards of the three      *)
(* Delete pipelines come before RequireConfirm mints one.                  *)
(***************************************************************************)
THEOREM ClosedResourcesYieldNoFingerprint == Spec => []ClosedYieldsNoFingerprint
<1>1. IInv => ClosedYieldsNoFingerprint
  BY DEF IInv
<1>2. QED
  BY Invariant, <1>1, PTL

(* A returned call was audited exactly when it reached the delete request (RecordDestructive). *)
THEOREM DeletionsAreAudited == Spec => []DeletionIsAudited
<1>1. IInv => DeletionIsAudited
  BY DEF IInv
<1>2. QED
  BY Invariant, <1>1, PTL

(***************************************************************************)
(* A deletion that takes a cluster with it was confirmed for the           *)
(* incarnation the call read and is allowed by the destructive tier        *)
(* (Delete, RequireConfirm), unless after that read the resource was       *)
(* replaced, or an attached job was given a cluster of its own.  For a     *)
(* cluster and a service only the first can be.                            *)
(***************************************************************************)
THEOREM CascadesAreConfirmed == Spec => CascadeIsConfirmed
<1>1. IInv /\ [Next]_vars =>
        [\A a \in Agent :
           DeletesFor(a) /\ Cascades(live) /\ call[a].seen = live.uid =>
             \/ /\ tier
                /\ call[a].confirm # None /\ call[a].confirm.uid = live.uid
                /\ agent[a].known # None
             \/ TurnedEphemeral(a)]_vars
  BY DEF IInv, DeletesFor, DeleteIsConfirmed, InDelete, ArgumentsAreTheAgents, Cascades, TurnedEphemeral
<1>2. QED
  BY Invariant, <1>1, PTL DEF Spec, CascadeIsConfirmed
-----------------------------------------------------------------------------
(* The fingerprint of a deletion names an incarnation and nothing else. *)
IsPlain(token) == token # None => token = [op |-> "delete", uid |-> token.uid, version |-> None]

TokensArePlain == \A a \in Agent : IsPlain(agent[a].known) /\ IsPlain(call[a].confirm)

LEMMA FingerprintIsPlain == ASSUME NEW o PROVE IsPlain(Fingerprint(o, "delete"))
BY DEF IsPlain, Fingerprint, BindsResourceVersion

LEMMA ReadPlain == ASSUME TypeOK, TokensArePlain, NEW a \in Agent, Read(a) PROVE TokensArePlain'
<1>1. /\ \A b \in Agent : call[b] \in CallState /\ agent[b] \in AgentState
      /\ call \in [Agent -> CallState] /\ agent \in [Agent -> AgentState]
  BY DEF TypeOK
<1>2. \A b \in Agent : call'[b].confirm = call[b].confirm
  <2>1. ASSUME NEW next, Becomes(a, next), next.confirm = call[a].confirm
        PROVE  \A b \in Agent : call'[b].confirm = call[b].confirm
    BY <1>1, <2>1 DEF Becomes
  <2>2. ASSUME NEW out, Finish(a, out) PROVE \A b \in Agent : call'[b].confirm = call[b].confirm
    BY <1>1, <2>1, <2>2 DEF Finish, CallState
  <2>3. [call[a] EXCEPT !.phase = "delete", !.seen = live.uid, !.cascade = Cascades(live)].confirm
          = call[a].confirm
    BY <1>1 DEF CallState
  <2>4. QED
    BY <2>1, <2>2, <2>3 DEF Read
<1>3. \A b \in Agent :
        \/ agent'[b].known = agent[b].known
        \/ agent'[b].known = Fingerprint(live, "delete")
  BY <1>1 DEF Read, AgentState
<1>4. QED
  BY <1>2, <1>3, FingerprintIsPlain DEF TokensArePlain

LEMMA NextPlain == TypeOK /\ TokensArePlain /\ [Next]_vars => TokensArePlain'
<1> SUFFICES ASSUME TypeOK, TokensArePlain, [Next]_vars PROVE TokensArePlain'
  OBVIOUS
<1>1. /\ \A b \in Agent : call[b] \in CallState /\ agent[b] \in AgentState
      /\ call \in [Agent -> CallState] /\ agent \in [Agent -> AgentState]
  BY DEF TypeOK
<1>2. ASSUME \A b \in Agent : /\ agent'[b].known = agent[b].known
                              /\ call'[b].confirm \in {call[b].confirm, agent[b].known, None}
      PROVE  TokensArePlain'
  BY <1>2 DEF TokensArePlain, IsPlain
<1>3. CASE Environment \/ UNCHANGED vars
  BY <1>2, <1>3 DEF Environment, Churn, KubectlDelete, Recreate, vars
<1>4. CASE Restart
  BY <1>1, <1>2, <1>4 DEF Restart, CallState
<1>5. ASSUME NEW a \in Agent, Delete(a) \/ Record(a) PROVE TokensArePlain'
  <2>1. PICK next : Becomes(a, next) /\ next.confirm = call[a].confirm
    <3>1. /\ \A out : [call[a] EXCEPT !.phase = "record", !.out = out].confirm = call[a].confirm
          /\ \A out : [call[a] EXCEPT !.phase = "record", !.out = out, !.deleted = TRUE].confirm
                     = call[a].confirm
          /\ [call[a] EXCEPT !.phase = "done", !.records = @ + 1].confirm = call[a].confirm
      BY <1>1 DEF CallState
    <3>2. QED
      BY <1>5, <3>1 DEF Delete, Record
  <2>2. \A b \in Agent : call'[b].confirm = call[b].confirm
    BY <1>1, <2>1 DEF Becomes
  <2>3. agent' = agent
    BY <1>5 DEF Delete, Record
  <2>4. QED
    BY <1>2, <2>2, <2>3
<1>6. ASSUME NEW a \in Agent, NEW confirm \in {None, agent[a].known}, NEW force \in BOOLEAN,
             NEW dry \in BOOLEAN, Begin(a, confirm, force, dry)
      PROVE  TokensArePlain'
  BY <1>1, <1>2, <1>6 DEF Begin, Becomes, AgentState
<1>7. QED
  BY <1>3, <1>4, <1>5, <1>6, ReadPlain DEF Next, Step

(***************************************************************************)
(* A fingerprint an agent was given goes on confirming the deletion until  *)
(* the resource is replaced: it does not bind the resourceVersion          *)
(* (guards.go), so that no churn can refuse it for ever.                   *)
(***************************************************************************)
THEOREM ConfirmOutlivesChurn == Spec => MismatchMeansReplaced
<1> DEFINE Replaced ==
      \A a \in Agent :
        call[a].phase = "read" /\ call'[a].out = "mismatch" => call[a].confirm.uid # live.uid
<1>1. ASSUME IInv, TokensArePlain, Next PROVE Replaced
  <2> SUFFICES ASSUME NEW a \in Agent, call[a].phase = "read", call'[a].out = "mismatch"
               PROVE  call[a].confirm.uid # live.uid
    OBVIOUS
  <2>1. call \in [Agent -> CallState] /\ call[a].out = "none"
    BY <1>1 DEF IInv, TypeOK, Progress
  <2>2. ASSUME NEW b \in Agent, NEW next, Becomes(b, next), b # a PROVE FALSE
    BY <2>1, <2>2 DEF Becomes
  <2>3. CASE call' = call
    BY <2>1, <2>3
  <2>4. CASE Restart
    BY <2>1, <2>4 DEF Restart, CallState
  <2>5. ASSUME NEW b \in Agent, NEW confirm, NEW force, NEW dry, Begin(b, confirm, force, dry)
        PROVE  FALSE
    BY <2>2, <2>5 DEF Begin
  <2>6. ASSUME NEW b \in Agent, Delete(b) \/ Record(b) PROVE FALSE
    BY <2>2, <2>6 DEF Delete, Record
  <2>7. ASSUME NEW b \in Agent, b # a, Read(b) PROVE FALSE
    BY <2>2, <2>7 DEF Read, Finish
  <2>8. CASE Read(a)
    <3>1. ASSUME NEW out, out # "mismatch", Finish(a, out) PROVE FALSE
      BY <2>1, <3>1 DEF Finish, Becomes, CallState
    <3>2. ASSUME Becomes(a, [call[a] EXCEPT !.phase = "delete", !.seen = live.uid,
                                            !.cascade = Cascades(live)])
          PROVE  FALSE
      BY <2>1, <3>2 DEF Becomes, CallState
    <3>3. call[a].confirm # None /\ ~Confirmed(live, "delete", call[a].confirm)
      BY <2>8, <3>1, <3>2 DEF Read
    <3>4. IsPlain(call[a].confirm)
      BY <1>1 DEF TokensArePlain
    <3>5. QED
      BY <3>3, <3>4 DEF IsPlain, Confirmed, Fingerprint, BindsResourceVersion
  <2>9. QED
    BY <1>1, <2>3, <2>4, <2>5, <2>6, <2>7, <2>8 DEF Next, Step, Environment, Churn, KubectlDelete, Recreate
<1>2. IInv /\ TokensArePlain /\ [Next]_vars => [Replaced]_vars
  BY <1>1
<1>3. Spec => []TokensArePlain
  <2>1. Init => TokensArePlain
    BY DEF Init, TokensArePlain, IsPlain
  <2>2. IInv => TypeOK
    BY DEF IInv
  <2>3. QED
    BY <2>1, <2>2, NextPlain, Invariant, PTL DEF Spec
<1>4. QED
  BY <1>2, <1>3, Invariant, PTL DEF Spec, MismatchMeansReplaced
=============================================================================
