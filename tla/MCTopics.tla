------------------------------ MODULE MCTopics ------------------------------
(* Instances of Topics for TLC.                                            *)
EXTENDS Topics

CONSTANTS p1, p2, p3, u1, u2

=============================================================================
