-------------------------------- MODULE MCXa --------------------------------
(* Instances of Xa for TLC.                                                *)
EXTENDS Xa

CONSTANTS b1, b2, w1, c1

OneBranch == <<b1>>

WholeApi ==
  {"prepare", "schedule_submit", "schedule_abort", "register", "force_stop",
   "reset_retry", "commit", "rollback", "recover"}

=============================================================================
