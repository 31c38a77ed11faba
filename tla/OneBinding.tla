------------------------------ MODULE OneBinding ------------------------------
(***************************************************************************)
(* What one life of the server promises about clusters: it is bound to a   *)
(* cluster at most once, and all that any call tells comes from that one.  *)
(***************************************************************************)
CONSTANTS
  Caller,    \* tool calls
  Context,   \* clusters, by kubeconfig context
  None       \* no cluster yet

VARIABLES
  bound,     \* the cluster the server is bound to
  seen       \* the clusters each call has read from

TypeOK == bound \in Context \union {None} /\ seen \in [Caller -> SUBSET Context]

Init == bound = None /\ seen = [c \in Caller |-> {}]

Bind(k) == bound = None /\ bound' = k /\ UNCHANGED seen

Begin(c) == seen' = [seen EXCEPT ![c] = {}] /\ UNCHANGED bound

Ask(c) ==
  /\ bound # None
  /\ seen' = [seen EXCEPT ![c] = @ \union {bound}]
  /\ UNCHANGED bound

Next ==
  \/ \E k \in Context : Bind(k)
  \/ \E c \in Caller : Begin(c) \/ Ask(c)

Spec == Init /\ [][Next]_<<bound, seen>>
=============================================================================
