----------------------------- MODULE AtomicWrite -----------------------------
(***************************************************************************)
(* What a write tool promises its callers about the one object that they   *)
(* and others write: a call writes at most once, and as if it read,        *)
(* overlaid and wrote at one moment, but for the fields that somebody      *)
(* changed after its read; and its answer tells whether it wrote, unless   *)
(* it is an error, which tells nothing.                                    *)
(***************************************************************************)
EXTENDS Naturals

CONSTANTS
  Call,       \* tool calls
  Part,       \* the fields of the object, and perhaps whether it exists
  Request,    \* what a call may ask for
  None,       \* nothing asked yet
  Dry(_),     \* Dry(r): request r only asks what would happen
  Overlays(_,_,_,_)
    \* Overlays(r, f, v, w): request r may make w of the value v of field f

VARIABLES
  obj,   \* the values of the fields
  tx     \* how each call stands

vars == <<obj, tx>>

Tx(state, req, raced, writes, answer) ==
  [state |-> state, req |-> req, raced |-> raced, writes |-> writes, answer |-> answer]

Init == tx = [c \in Call |-> Tx("idle", None, {}, 0, "none")]

Open(t) == t.state \in {"begun", "read", "written"}

(* Transaction t moves on, and has no race to lose yet, or any more. *)
Moved(t, state, answer) == Tx(state, t.req, {}, t.writes, answer)

(* The fields that change. *)
Changed == {f \in Part : obj'[f] # obj[f]}

(* Call t loses a race for the fields that change after its read. *)
Noticed(t) == IF t.state = "read" THEN [t EXCEPT !.raced = @ \union Changed] ELSE t

(* Somebody else changes fields, or deletes or creates the object. *)
Others == tx' = [c \in Call |-> Noticed(tx[c])]

(* Only call c moves, and the object stays. *)
Moves(c, t) == obj' = obj /\ tx' = [tx EXCEPT ![c] = t]

Begin(c, r) == tx[c].state = "idle" /\ Moves(c, Tx("begun", r, {}, 0, "none"))

Refuse(c, r) == tx[c].state = "idle" /\ Moves(c, Tx("done", r, {}, 0, "refused"))

Read(c) == tx[c].state = "begun" /\ Moves(c, Moved(tx[c], "read", "none"))

(* It starts over. *)
Retry(c) == tx[c].state = "read" /\ Moves(c, Moved(tx[c], "begun", "none"))

(* A call that has not read reads, overlays and writes at this moment. *)
Write(c) ==
  /\ tx[c].state \in {"begun", "read"} /\ ~Dry(tx[c].req)
  /\ \A f \in Part \ tx[c].raced : Overlays(tx[c].req, f, obj[f], obj'[f])
  /\ tx' = [d \in Call |-> IF d = c THEN Tx("written", tx[c].req, {}, 1, "none") ELSE Noticed(tx[d])]

(* What an answer tells of the writes. *)
Truthful(t, answer) ==
  CASE answer = "ok"                                  -> t.writes = IF Dry(t.req) THEN 0 ELSE 1
    [] answer \in {"conflict", "notFound", "refused"} -> t.writes = 0
    [] answer = "error"                               -> TRUE

Answer(c, answer) ==
  /\ Open(tx[c]) /\ Truthful(tx[c], answer)
  /\ Moves(c, Moved(tx[c], "done", answer))

(* The process dies, and all calls with it. *)
Crash ==
  /\ obj' = obj
  /\ tx' = [c \in Call |-> IF Open(tx[c]) THEN Moved(tx[c], "crashed", "none") ELSE tx[c]]

Next ==
  \/ Others \/ Crash
  \/ \E c \in Call :
       \/ \E r \in Request : Begin(c, r) \/ Refuse(c, r)
       \/ Read(c) \/ Retry(c) \/ Write(c)
       \/ \E answer \in {"ok", "conflict", "notFound", "refused", "error"} : Answer(c, answer)

Spec == Init /\ [][Next]_vars
=============================================================================
