----------------------------- MODULE MCWorkflow -----------------------------
(* Instances of Workflow for TLC.                                          *)
EXTENDS Workflow

CONSTANTS b1, b2, w1, c1

TwoBranches == <<b1, b2>>

(* b1 is declared first and needs b2.                                      *)
BackwardChain == [b \in Branch |-> IF b = b1 THEN {b2} ELSE {}]

WholeApi ==
  {"workflow", "workflow_rollback", "prepare", "schedule_submit",
   "schedule_abort", "recover", "force_stop", "reset_retry"}

=============================================================================
