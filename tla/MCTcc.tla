------------------------------- MODULE MCTcc -------------------------------
(* Instances of Tcc for TLC.                                               *)
EXTENDS Tcc

CONSTANTS b1, x1, w1, c1

OneBranch == <<b1>>

(* What dtm-labs clients use with WaitResult=false, and the admin API.     *)
ScheduledApi ==
  {"schedule_submit", "schedule_abort", "register", "force_stop",
   "reset_retry"}

(* With the native API, which runs the handlers inside the request.        *)
WholeApi == ScheduledApi \cup {"prepare", "confirm", "cancel", "recover"}

=============================================================================
