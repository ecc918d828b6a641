------------------------------- MODULE MCSaga -------------------------------
(* Instances of Saga for TLC.                                              *)
EXTENDS Saga

CONSTANTS b1, b2, w1, c1

TwoBranches == <<b1, b2>>

WholeApi ==
  {"action", "compensate", "recover", "schedule_abort", "force_stop",
   "reset_retry"}

=============================================================================
