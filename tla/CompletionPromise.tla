-------------------------- MODULE CompletionPromise --------------------------
(***************************************************************************)
(* What completing a run promises its owner, without ticks, phases or      *)
(* restarts: the work of the tasks is merged and re-merged as often as     *)
(* needed while every task branch exists; a task branch is given up only   *)
(* when everything is merged, and then nothing is re-merged any more; the  *)
(* run succeeds only with everything merged, and is decided once.          *)
(***************************************************************************)
CONSTANT Tasks       \* the tasks with commits of their own

VARIABLES
  outcome,   \* "open", or how the run ended
  merged,    \* the tasks on the integration branch
  dropped    \* the tasks whose branch has been removed

promiseVars == <<outcome, merged, dropped>>

Init ==
  /\ outcome = "open"
  /\ merged = {}
  /\ dropped = {}

\* Merging goes on, or starts over.
Integrate ==
  /\ dropped = {}
  /\ merged' \in SUBSET Tasks
  /\ UNCHANGED <<outcome, dropped>>

Drop(t) ==
  /\ merged = Tasks
  /\ dropped' = dropped \cup {t}
  /\ UNCHANGED <<outcome, merged>>

Decide ==
  /\ outcome = "open"
  /\ outcome' \in {"succeeded", "failed", "canceled"}
  /\ outcome' = "succeeded" => merged = Tasks
  /\ UNCHANGED <<merged, dropped>>

Next == Integrate \/ (\E t \in Tasks : Drop(t)) \/ Decide

Spec == Init /\ [][Next]_promiseVars
=============================================================================
