---------------------------- MODULE MCXaResource ----------------------------
(* Instances of XaResource for TLC.                                        *)
EXTENDS XaResource, TLC

CONSTANTS b1, b2, w1, c1, p1, p2, o1, o2, i1, i2

NoBranches == << >>

XaApi == {"prepare", "register", "commit", "rollback"}

Symmetry == Permutations(Proc) \cup Permutations(Operator) \cup Permutations(Decision)

=============================================================================
