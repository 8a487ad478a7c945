-------------------------- MODULE MCWorkflowBudgets --------------------------
(* WorkflowBudgets for TLC: a run and one scope below its root.            *)
EXTENDS WorkflowBudgets, TLC

CallSymmetry == Permutations(Calls)
===============================================================================
