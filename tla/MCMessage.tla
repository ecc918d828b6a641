----------------------------- MODULE MCMessage -----------------------------
(* Instances of Message for TLC.                                           *)
EXTENDS Message

CONSTANTS b1, b2, w1, c1

TwoBranches == <<b1, b2>>

WholeApi ==
  {"prepare", "schedule_submit", "abort_message", "force_stop", "reset_retry",
   "message", "recover"}

=============================================================================
