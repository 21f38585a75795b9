---------------------------- MODULE MCEscalation ----------------------------
(***************************************************************************)
(* LegionRun and SovereignRun on small instances: the two ways the system    *)
(* goes one tier up after a failure.  They share no variable and neither     *)
(* calls the other, so a behaviour of one is checked while the other rests   *)
(* where it starts; `moving` guards the fairness, as both could start.       *)
(***************************************************************************)
EXTENDS LegionRun, SovereignRun

VARIABLE moving    \* whose behaviour it is

escalationVars == <<legionVars, routeVars, moving>>

EscalationInit ==
  /\ moving \in {"legion", "route"}
  /\ LegionInit /\ RunInit
  /\ moving = "route" => \A w \in Workers : tier[w] = "cheap"

EscalationNext ==
  \/ moving = "legion" /\ LegionNext /\ UNCHANGED <<routeVars, moving>>
  \/ moving = "route" /\ RunNext /\ UNCHANGED <<legionVars, moving>>

EscalationSpec ==
  /\ EscalationInit /\ [][EscalationNext]_escalationVars
  /\ \A r \in Runs : WF_legionVars(moving = "legion" /\ SupervisorStep(r))
  /\ \A c \in Commands : WF_routeVars(moving = "route" /\ RunStep(c))
=============================================================================
