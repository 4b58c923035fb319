---------------------------- MODULE RunLifecycle ----------------------------
(***************************************************************************)
(* The phase machine every Project Run obeys (src/src/runs/                *)
(* state-machine.ts): which phase may follow which, and where a suspended  *)
(* run may return to.  It has no state of its own; the services that move  *)
(* a run use CanMove as the guard of their step.                           *)
(***************************************************************************)

ActivePhases ==
  {"created", "planning", "awaiting_approval", "executing", "integrating",
   "validating", "finalizing"}

SuspendedPhases == {"paused", "blocked"}

TerminalPhases == {"succeeded", "failed", "canceled"}

Phases == ActivePhases \cup SuspendedPhases \cup TerminalPhases

\* The value of suspendedFrom on a record that does not carry the field.
NoPhase == "none"

\* The static edges, one row per phase.  Suspended phases add the dynamic
\* edge back to the phase they were entered from (see CanMove).
RunEdges ==
  ({"created"} \X {"planning", "canceled"}) \cup
  ({"planning"} \X {"awaiting_approval", "executing", "paused", "blocked",
                    "failed", "canceled"}) \cup
  ({"awaiting_approval"} \X {"executing", "integrating", "planning", "paused",
                             "blocked", "failed", "canceled"}) \cup
  ({"executing"} \X {"integrating", "validating", "finalizing",
                     "awaiting_approval", "paused", "blocked", "failed",
                     "canceled"}) \cup
  ({"integrating"} \X {"validating", "finalizing", "paused", "blocked",
                       "failed", "canceled"}) \cup
  ({"validating"} \X {"finalizing", "executing", "paused", "blocked",
                      "failed", "canceled"}) \cup
  ({"finalizing"} \X {"succeeded", "failed", "canceled"})

\* allowedTransitions: a record in phase `from`, suspended from `origin`,
\* may move to `to`.
CanMove(from, origin, to) ==
  IF from \in SuspendedPhases
  THEN origin # NoPhase /\ to \in {origin, "failed", "canceled"}
  ELSE <<from, to>> \in RunEdges

\* Mutant of OriginAfter: the field is written on every move.
OriginAfterAlways(from, to) == from

\* transitionRun: the suspendedFrom field of the next record.  Entering a
\* suspended phase records the phase being left; every other move drops it.
OriginAfter(from, to) == IF to \in SuspendedPhases THEN from ELSE NoPhase
=============================================================================
