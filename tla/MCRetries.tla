----------------------------- MODULE MCRetries -----------------------------
(***************************************************************************)
(* Retrying and RetryBudget on small instances.  They share no variable:   *)
(* Retrying leaves open what the budget answers, and RetryBudget who asks  *)
(* it.  So a behaviour goes through one of them, and the other stays as it *)
(* was initially; their product would show nothing more.                   *)
(***************************************************************************)
EXTENDS MCRetrying, RetryBudget

CONSTANTS g1, g2, g3

ThreeGoroutines == {g1, g2, g3}

RetriesInit == Init /\ BudgetInit

RetriesNext ==
  \/ BudgetInit /\ Next /\ UNCHANGED budgetVars
  \/ given = <<>> /\ phase = "options" /\ BudgetNext /\ UNCHANGED vars

\* Metrics registered by another client matter to WithMetrics alone, whatever else is
\* given: one option is enough with them.
FewOptionsElsewhere == elsewhere => Len(given) <= 1

RetriesSpec == RetriesInit /\ [][RetriesNext]_<<vars, budgetVars>>
=============================================================================
