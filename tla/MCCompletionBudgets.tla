------------------------- MODULE MCCompletionBudgets -------------------------
(***************************************************************************)
(* The completion of a run of MCRunCompletion and, explored beside it and  *)
(* not multiplied with it, the budget of a run that is executing.          *)
(***************************************************************************)
EXTENDS MCRunCompletion, RunBudgets

Limits(total, output, minutes) ==
  [k \in Keys |-> CASE k = "maxTotalTokens" -> total
                    [] k = "maxOutputTokens" -> output
                    [] k = "maxRuntimeMinutes" -> minutes]

\* A result of one token reaches the first limit of output tokens and comes
\* near the limit of all tokens, a second one stays near it.
TwoBudgets == {Limits(10, 8, Unset), Limits(10, 12, 1)}

VARIABLE part   \* "completion" or "budget"

NoBudget ==
  /\ rec = [phase |-> "executing", origin |-> NoPhase, usage |-> 0,
            budget |-> CHOOSE b \in Budgets : TRUE, warnings |-> {}]
  /\ events = <<>> /\ frame = [x \in Callers |-> Off] /\ now = 0
  /\ bounds = [results |-> 0, ticks |-> 0, requests |-> 0]
  /\ spent = 0 /\ over = FALSE /\ warned = [once |-> {}, twice |-> {}, overlapped |-> {}]

SideInit ==
  \/ part = "completion" /\ Init /\ NoBudget
  \/ part = "budget" /\ Init /\ BudgetInit

SideNext ==
  \/ part = "completion" /\ Next /\ UNCHANGED <<budgetVars, part>>
  \/ part = "budget" /\ BudgetNext /\ UNCHANGED <<vars, part>>

SideBySide == SideInit /\ [][SideNext]_<<vars, budgetVars, part>> /\ Fairness
=============================================================================
