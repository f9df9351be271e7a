--------------------------- MODULE MCBudgetAdmission ---------------------------
(***************************************************************************)
(* An agent, a workflow, a chat and a judge on one budget, for TLC.  The   *)
(* bounds of BudgetAdmission.cfg make every state finite: what is spent    *)
(* stays near the caps, and MaxLost limits what is forgotten.              *)
(***************************************************************************)
EXTENDS BudgetAdmission
=============================================================================
