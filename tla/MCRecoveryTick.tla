--------------------------- MODULE MCRecoveryTick ---------------------------
(* Instances of RecoveryTick for TLC.                                      *)
EXTENDS RecoveryTick

CONSTANTS g1, g2, w1, w2

=============================================================================
