----------------------------- MODULE MCTriggers -----------------------------
(***************************************************************************)
(* A finite instance of Triggers for TLC: a schedule, a tracker and a      *)
(* webhook, with one poll and one pushed event at a time.                         *)
(***************************************************************************)
EXTENDS Triggers

Kinds == <<"schedule", "tracker", "webhook">>

\* Every two minutes, at minute one of the hour, a period that is refused, and
\* a minute that is accepted and never comes.
Schedules == {[form |-> "every", n |-> 2], [form |-> "minute", n |-> 1],
              [form |-> "every", n |-> 0], [form |-> "minute", n |-> 5]}
=============================================================================
