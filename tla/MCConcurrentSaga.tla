-------------------------- MODULE MCConcurrentSaga --------------------------
(* Instances of ConcurrentSaga for TLC.                                    *)
EXTENDS ConcurrentSaga

CONSTANTS b1, b2, b3, b4, w1, c1

ThreeBranches == <<b1, b2, b3>>

Graph(d1, d2, d3) ==
  [b \in Branch |-> CASE b = b1 -> d1 [] b = b2 -> d2 [] OTHER -> d3]

(* A fork whose layers cross the declared order; and graphs that are       *)
(* refused: a cycle, a branch that depends on itself, and an unknown       *)
(* branch.                                                                 *)
SomeGraphs ==
  {Graph({b2}, {}, {b2}),
   Graph({b3}, {b1}, {b2}), Graph({}, {b2}, {}), Graph({}, {}, {b4})}

WholeApi ==
  {"action", "compensate", "recover", "schedule_abort", "force_stop",
   "reset_retry"}

=============================================================================
