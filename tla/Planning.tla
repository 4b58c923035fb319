------------------------------- MODULE Planning -------------------------------
(***************************************************************************)
(* Plans as they are made and as they take effect: the calls that create,  *)
(* activate and replace the plans of a run (RunPlans), and what a plan may *)
(* hold and is made into (PlanContent).                                    *)
(***************************************************************************)
EXTENDS RunPlans, PlanContent

(* The tables of plans, runs and tasks, and what a plan may hold. *)
PlanningInv == PlansInv /\ ContentInv
=============================================================================
