------------------------------ MODULE ConfigRules ------------------------------
(***************************************************************************)
(* What the process makes of its flags, its environment and its pod: the   *)
(* configuration it starts with or refuses (config/config.go), the handler *)
(* it then serves HTTP with (transport/http.go), and the namespaces that a *)
(* list reads (domain/cluster.go, adapters/kuberay/cluster.go).            *)
(*                                                                         *)
(* A setting is given by flag, by environment or not at all (Unset); a     *)
(* value that is given may be empty.  An address is told by its host.      *)
(***************************************************************************)
CONSTANTS
  Unset,   \* not given
  All      \* every namespace

Blank == ""

(* Where a process reads and writes that is told nothing. *)
LastResort == "default"

(* LastResort is a string, but the provers cannot see that. *)
ASSUME NoneAssumption == Unset \notin STRING /\ All \notin STRING \union {Unset, LastResort}

Given(values) == [flag : values \union {Unset}, env : values \union {Unset}]

Host == {Blank, "localhost", "loopback ip", "other ip", "name"}

(* others: every other enumeration and boolean that is given can be parsed. *)
Settings(hosts, tokens, namespaces) ==
  [transport : Given({"http", "stdio", "grpc"}), httpAddr : Given(hosts),
   authMode : Given({"static", "tokenreview", Blank}), authToken : Given(tokens),
   namespace : Given(namespaces), saFile : namespaces \union {Unset}, others : BOOLEAN]

(* Flags win over the environment, and that over the default, even when they are empty. *)
Resolve(given, default) ==
  CASE given.flag # Unset                      -> given.flag
    [] given.flag = Unset /\ given.env # Unset -> given.env
    [] given.flag = Unset /\ given.env = Unset -> default

(* Mutant: a service account file with nothing in it counts. *)
NamespaceFromFile(s) == Resolve(s.namespace, IF s.saFile # Unset THEN s.saFile ELSE LastResort)

(* The service account's namespace file counts only if there is something in it. *)
ResolveNamespace(s) ==
  Resolve(s.namespace, IF s.saFile \notin {Unset, Blank} THEN s.saFile ELSE LastResort)

Config(s) ==
  [transport        |-> Resolve(s.transport, "stdio"),
   httpAddr         |-> Resolve(s.httpAddr, "loopback ip"),
   authMode         |-> Resolve(s.authMode, "static"),
   authToken        |-> Resolve(s.authToken, Blank),
   defaultNamespace |-> ResolveNamespace(s)]

IsLoopback(host) == host \in {"localhost", "loopback ip"}

HasToken(c) == (c.authMode = "static" /\ c.authToken # Blank) \/ c.authMode = "tokenreview"

(* Load: nothing starts with a value it cannot parse, or on an open address. *)
Accepted(s) ==
  LET c == Config(s)
  IN /\ s.others
     /\ c.transport \in {"stdio", "http"}
     /\ c.authMode \in {"static", "tokenreview"}
     /\ c.transport = "http" => IsLoopback(c.httpAddr) \/ HasToken(c)

(* Mutant: the transport's own copy of the rule knows addresses only. *)
AddressIsLoopback(host) == host = "loopback ip"

(* The transport's own copy of the rule. *)
TransportIsLoopback(host) == host \in {"localhost", "loopback ip"}

(* buildHTTPHandler. *)
Handler(c) ==
  CASE c.authMode = "static" /\ c.authToken # Blank -> "bearer"
    [] c.authMode = "static" /\ c.authToken = Blank -> IF TransportIsLoopback(c.httpAddr) THEN "open" ELSE "refused"
    [] c.authMode # "static"                        -> "refused"

(* A list's scope: its namespace, or the default for none; the empty one is all of them. *)
Scope(c, namespace, allNamespaces) ==
  LET scope == IF namespace = Blank THEN c.defaultNamespace ELSE namespace
  IN IF allNamespaces \/ scope = Blank THEN {All} ELSE {scope}
=============================================================================
