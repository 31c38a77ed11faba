--------------------------- MODULE MCPureFunctions ---------------------------
(***************************************************************************)
(* Small inputs of the pure functions: objects with scalars, objects and   *)
(* lists of objects down to four levels, and rawSpecs that set, merge,     *)
(* replace and delete at each of them; events of every shape KubeRay, the  *)
(* scheduler and the kubelet write; settings that matter to one another.   *)
(***************************************************************************)
EXTENDS PureFunctions, TLC

Empty     == <<>>
Group(x)  == Object("x" :> Scalar(x))
Pair(x,y) == Object("x" :> Scalar(x) @@ "y" :> Scalar(y))

MCId == [name |-> "this", namespace |-> "here"]

Meta(name) == Object("name" :> name)

MCBase ==
  {Object("metadata" :> Object("name" :> Scalar("this") @@ "namespace" :> Scalar("here")) @@
          "spec" :> Object("a" :> Scalar(1) @@ "g" :> List("[0]" :> Pair(1, 1) @@ "[1]" :> Group(2))))}

(* What a rawSpec may say of spec.a and of spec.g. *)
OfA == {Null, Scalar(1), Scalar(2), Object(Empty), Group(1), Pair(1, 2),
        Object("x" :> Null), Object("x" :> Group(1)), Object("y" :> Null @@ "x" :> Object("z" :> Null))}
OfG == {Null, Scalar(1), List(Empty), List("[0]" :> Group(1)), List("[0]" :> Pair(1, 2) @@ "[1]" :> Group(2)),
        Object("x" :> Scalar(2))}

MCRawSpec ==
  {Object("spec" :> Object("a" :> a)) : a \in OfA}
  \union {Object("spec" :> Object("g" :> g)) : g \in OfG}
  \union {Object("spec" :> Object("a" :> a @@ "g" :> g)) : a \in {Null, Scalar(2), Group(1)}, g \in OfG}
  \union {Object("spec" :> v) : v \in {Null, Scalar(1), Object(Empty)}}
  \union {Object("metadata" :> v) : v \in {Null, Meta(Null), Meta(Scalar("other")), Object("namespace" :> Scalar("other")),
                                   Object("namespace" :> Null), Object("l" :> Scalar("on"))}}

MCDepth == 0 .. 5
MCLimit == -1 .. 5

(* Legacy events carry first and last, aggregated ones time and observed, single ones a time alone. *)
Legacy(about, warning, first, last) ==
  [about |-> about, warning |-> warning, last |-> last, observed |-> 0, time |-> 0, first |-> first]
Modern(about, warning, time, observed) ==
  [about |-> about, warning |-> warning, last |-> 0, observed |-> observed, time |-> time, first |-> 0]

MCTarget == {"cluster", "pod"}
MCHappening ==
  {Legacy("cluster", TRUE, 1, 1), Legacy("pod", TRUE, 1, 3), Legacy("cluster", FALSE, 2, 2),
   Legacy("pod", FALSE, 3, 0), Modern("pod", TRUE, 2, 0), Modern("cluster", FALSE, 1, 3),
   Legacy("other", TRUE, 3, 3)}

(* The settings of the bind, or those of the namespace; what the others are does not matter to them. *)
Plain == [flag |-> Unset, env |-> Unset]

MCSetting ==
  {s \in Settings({"localhost", "other ip"}, {Blank, "token"}, {Blank, "team"}) :
     \/ /\ s.namespace = Plain /\ s.saFile = Unset
        /\ s.others /\ s.transport.env = Unset /\ s.httpAddr.env = Unset
        /\ Unset \in {s.authMode.flag, s.authMode.env}
     \/ s.transport = Plain /\ s.httpAddr = Plain /\ s.authMode = Plain /\ s.authToken = Plain}
=============================================================================
