------------------------------ MODULE MCJobSubmit ------------------------------
(* A small instance of JobSubmit; edits of the kubectl user never take a target away. *)
EXTENDS JobSubmit, TLC

CONSTANTS c1, c2, e1, t1

Submit(existing, template, shutdown) ==
  [op |-> "submit", complete |-> TRUE, existing |-> existing, template |-> template,
   shutdown |-> shutdown, raw |-> <<>>, retarget |-> FALSE, dry |-> FALSE]

Attached  == Submit(e1, Absent, Absent)
Ephemeral == Submit(Absent, t1, Absent)

MCRequest ==
  {Attached, Ephemeral, Submit(Absent, t1, No),
   [Ephemeral EXCEPT !.dry = TRUE], [Ephemeral EXCEPT !.raw = "selector" :> e1],
   [Attached EXCEPT !.raw = "selector" :> Absent],
   [op |-> "delete"],
   Submit(e1, t1, Absent), Submit(Absent, Absent, Absent), Submit(e1, Absent, Yes),
   [Attached EXCEPT !.complete = FALSE], [Attached EXCEPT !.retarget = TRUE]}

MCUserJob  == [selector |-> Absent, cluster |-> t1, shutdown |-> Yes]
MCUserEdit == {"shutdown" :> Yes, "selector" :> e1}
=============================================================================
