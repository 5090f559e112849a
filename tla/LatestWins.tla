----------------------------- MODULE LatestWins -----------------------------
(***************************************************************************)
(* What the plugin promises of an IR change ("desired-state                *)
(* reconciliation ... latest request always wins", audio.rs): every place  *)
(* shows some request, moves to newer ones only, may skip any of them, and *)
(* as long as the plugin is active it ends up with the last.               *)
(***************************************************************************)
EXTENDS Naturals

CONSTANT Places

VARIABLES
  requests,  (* requests made so far, the first one on activation           *)
  shown,     (* the request each place shows, 0 before the first            *)
  open       (* not deactivated                                             *)

vars == <<requests, shown, open>>

Init == requests = 1 /\ shown = [p \in Places |-> 0] /\ open = TRUE

Request == open /\ requests' = requests + 1 /\ UNCHANGED <<shown, open>>

Show(p) ==
  /\ open
  /\ \E n \in shown[p] + 1 .. requests : shown' = [shown EXCEPT ![p] = n]
  /\ UNCHANGED <<requests, open>>

Close == open /\ open' = FALSE /\ UNCHANGED <<requests, shown>>

Next == Request \/ Close \/ \E p \in Places : Show(p)

Safety == Init /\ [][Next]_vars

Spec == Safety /\ \A p \in Places : WF_vars(Show(p))
=============================================================================
