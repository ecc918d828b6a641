------------------------------ MODULE MCStores ------------------------------
(* Instances of Stores for TLC.                                            *)
EXTENDS Stores, TLC

CONSTANTS p1, p2, p3, m1, m2

AllBackends == {"memory", "sqlite", "postgres", "mysql", "redis"}

(* Callers that are not recovery workers are alike, and so are mutations.  *)
Alike == Permutations({p1, p2}) \cup Permutations({m1, m2})

Short == [finished |-> 1, open |-> 2]

=============================================================================
