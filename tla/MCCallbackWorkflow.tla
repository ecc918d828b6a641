------------------------- MODULE MCCallbackWorkflow -------------------------
(* Instances of CallbackWorkflow for TLC.                                  *)
EXTENDS CallbackWorkflow

CONSTANTS w1, w2, c1, s1, v1, v2

(* JSON-RPC by its URL alone, whose HTTP statuses count as well, gRPC, and *)
(* a contract whose data cannot be read.                                   *)
ThreeContracts ==
  {[protocol |-> "none", http |-> TRUE, method |-> TRUE, valid |-> TRUE],
   [protocol |-> "none", http |-> FALSE, method |-> FALSE, valid |-> TRUE],
   [protocol |-> "http", http |-> TRUE, method |-> FALSE, valid |-> FALSE]}

=============================================================================
