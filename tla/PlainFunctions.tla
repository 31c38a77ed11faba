---------------------------- MODULE PlainFunctions ----------------------------
(***************************************************************************)
(* The pure algorithms of ray-mcp that do not recurse, on the inputs a run *)
(* of the system gives them: a log that a job writes, of which a tail is   *)
(* read; the events of a namespace, of which a cluster's are read; and the *)
(* settings a process is started with.  They have nothing to do with each  *)
(* other, so one of them moves and the others do not.                      *)
(***************************************************************************)
EXTENDS LogTail, EventBound, ConfigRules, FiniteSetsExt

CONSTANTS
  Limit,     \* line, byte and event limits
  MaxLog,    \* bound: the length of a log
  Target,    \* the names of a cluster and its pods
  Happening, \* what events of a namespace may be
  MaxEvents, \* bound: the events of a namespace
  Setting    \* flags, environments and pods a process may be started with

ASSUME LimitAssumption == Limit \subseteq Int

(* A field that is set is not earlier than those that are looked at after it. *)
ASSUME HappeningAssumption ==
  \A e \in Happening : /\ e \in Event
                       /\ e.last # 0 => e.last >= e.observed /\ e.last >= e.time /\ e.last >= e.first
                       /\ e.observed # 0 => e.observed >= e.time /\ e.observed >= e.first
                       /\ e.time # 0 => e.time >= e.first

ASSUME SettingAssumption == Setting \subseteq Settings(STRING, STRING, STRING)

VARIABLES
  log,       \* the log
  events,    \* the events of a namespace, in the order they are listed
  settings   \* what a process was started with, or nothing yet

plainVars == <<log, events, settings>>

(* What a job writes: a newline, or a character of one byte or of several. *)
Rune == {<<"newline">>, <<"char">>, <<"lead", "later">>, <<"lead", "later", "later">>}

PlainInit == log = <<>> /\ events = <<>> /\ settings = Unset

(* The job writes. *)
Write ==
  /\ events = <<>> /\ settings = Unset
  /\ \E rune \in Rune : Len(log) + Len(rune) <= MaxLog /\ log' = log \o rune
  /\ UNCHANGED <<events, settings>>

(* Something happens in the namespace. *)
Happen ==
  /\ log = <<>> /\ settings = Unset
  /\ Len(events) < MaxEvents
  /\ \E e \in Happening : events' = Append(events, e)
  /\ UNCHANGED <<log, settings>>

(* A process is started. *)
Start ==
  /\ log = <<>> /\ events = <<>> /\ settings = Unset
  /\ settings' \in Setting
  /\ UNCHANGED <<log, events>>

PlainNext == Write \/ Happen \/ Start

PlainSpec == PlainInit /\ [][PlainNext]_plainVars
-----------------------------------------------------------------------------
(* Properties. *)

(***************************************************************************)
(* The tail of a log is its longest end that splits no character and has   *)
(* no more lines and no more bytes than asked for, and the bytes omitted   *)
(* are the rest (client.go, boundLogs).                                    *)
(***************************************************************************)
LineCount(s) == Cardinality(Newlines(TrimSuffix(s))) + (IF s = <<>> THEN 0 ELSE 1)

Ends(s) == {From(s, i) : i \in 1 .. Len(s) + 1}

Fits(s, lines, bytes) ==
  /\ s # <<>> => RuneStart(s[1])
  /\ LineCount(s) <= (IF lines <= 0 THEN DefaultTailLines ELSE lines)
  /\ Len(s) <= (IF bytes <= 0 THEN DefaultMaxBytes ELSE bytes)

TailIsLongest ==
  \A lines, bytes \in Limit :
    LET tail == BoundLogs(log, lines, bytes)
    IN /\ tail.text \in Ends(log) /\ Fits(tail.text, lines, bytes)
       /\ \A s \in Ends(log) : Fits(s, lines, bytes) => Len(s) <= Len(tail.text)
       /\ tail.omitted = Len(log) - Len(tail.text)

(***************************************************************************)
(* Of the events listed, those about the cluster and its pods are shown in *)
(* their place: after every Warning if it is none, and after every one of  *)
(* its kind that was seen later, by the latest time it carries.  So a      *)
(* Warning is left out only for Warnings (events.go, boundEvents and the   *)
(* ladder of eventLastSeen).                                               *)
(***************************************************************************)
Latest(e) == Max({e.last, e.observed, e.time, e.first})

WarningsSurvive ==
  \A limit \in Limit :
    LET shown  == Events(events, Target, limit)
        listed == {i \in DOMAIN events : i <= EventListCap /\ events[i].about \in Target}
        Above(i) == {j \in listed : \/ events[j].warning /\ ~events[i].warning
                                    \/ /\ events[j].warning = events[i].warning
                                       /\ \/ Latest(events[j]) > Latest(events[i])
                                          \/ Latest(events[j]) = Latest(events[i]) /\ j < i}
    IN /\ Len(shown) = Min({Cardinality(listed), IF limit <= 0 THEN DefaultEventLimit ELSE limit})
       /\ \A i \in listed :
            LET place == Cardinality(Above(i)) + 1
            IN place <= Len(shown) => shown[place] = events[i]

(***************************************************************************)
(* What the configuration accepts the transport serves, except for the     *)
(* mode it does not know yet, and without a token only on a loopback       *)
(* address: the rule is written twice and the copies agree (config.go,     *)
(* validate; http.go, buildHTTPHandler).                                   *)
(***************************************************************************)
AcceptedIsServed ==
  settings # Unset /\ Accepted(settings) =>
    LET c == Config(settings)
    IN c.transport = "http" =>
         /\ Handler(c) = "refused" <=> c.authMode = "tokenreview"
         /\ Handler(c) = "open" => IsLoopback(c.httpAddr)
         /\ c.authToken # Blank => Handler(c) # "open"

(***************************************************************************)
(* A list that does not ask for all namespaces reads one: the one it       *)
(* names, or else the default.  Only a process that was told, by flag or   *)
(* by environment, that its default is the empty one lists them all; a     *)
(* service account file that is empty does not tell it so (cluster.go,     *)
(* resolveNamespace; config.go, resolveNamespace).  Nothing is said of the *)
(* list that asks for all: no code consults AllowAllNamespaces, which is   *)
(* to permit it (config.go:26), neither there nor for an empty default.    *)
(***************************************************************************)
OneNamespaceUnlessTold ==
  settings # Unset =>
    \A namespace \in {Blank, "asked"} :
      LET scope == Scope(Config(settings), namespace, FALSE)
      IN \/ namespace # Blank /\ scope = {namespace}
         \/ namespace = Blank /\ All \notin scope /\ Blank \notin scope
         \/ namespace = Blank /\ Blank \in {settings.namespace.flag, settings.namespace.env}
=============================================================================
