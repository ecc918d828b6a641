------------------------------- MODULE Layers -------------------------------
(***************************************************************************)
(* A layer of branches that one driver runs at the same time, the way      *)
(* start_concurrent_saga, abort_concurrent_saga and the concurrent half of *)
(* dispatch_message do it: the barriers of all branches of the layer are   *)
(* claimed one after the other, and given back if one of them is refused;  *)
(* the attempts are stored; the calls run in a JoinSet, and each one that  *)
(* failed gives its barrier back when it is joined.  A driver in a layer   *)
(* has one of three more program counters:                                 *)
(*                                                                         *)
(*   claim    claiming the barriers of layer.todo, layer.held are claimed  *)
(*   unclaim  giving layer.held back, about to return the stored record    *)
(*   calls    the calls of layer.calling run, layer.todo are failed calls  *)
(*            that were joined and whose barriers are about to be released *)
(***************************************************************************)
EXTENDS Coordinator

VARIABLE layer

layerVars == <<vars, layer>>

NoLayer == [todo |-> {}, held |-> {}, calling |-> {}]

LayerInit == Init /\ layer = [d \in Driver |-> NoLayer]

LayerKey(d, b) == <<b, BarrierOp(drv[d].op)>>

(* The driver is outside of a layer and stays there.                       *)
NoLayerStep == UNCHANGED layer

LeaveLayer(d) == layer' = [layer EXCEPT ![d] = NoLayer]

(* The layer of the branches in ready is entered.                          *)
EnterLayer(d, ready) ==
  /\ drv' = [drv EXCEPT ![d].pc = "claim"]
  /\ layer' = [layer EXCEPT ![d].todo = ready]

(* The branch of S that is declared first: barriers are claimed, and given *)
(* back, in declared order.                                                *)
IsFirst(d, b, S) ==
  LET ids == drv[d].tx.ids IN
  \E i \in 1..Len(ids) :
    ids[i] = b /\ b \in S /\ \A j \in 1..(i - 1) : ids[j] \notin S

(* barrier() for the next branch of the layer.                             *)
ClaimNext(d, b) ==
  LET key  == LayerKey(d, b)
      free == BarrierDecision(key) = "Execute"
  IN
  /\ drv[d].pc = "claim" /\ IsFirst(d, b, layer[d].todo)
  /\ barriers' = BarrierTable(key)
  /\ \/ /\ free
        /\ layer' = [layer EXCEPT ![d].todo = @ \ {b}, ![d].held = @ \cup {b}]
        /\ UNCHANGED drv
     \/ /\ ~free
        /\ drv' = [drv EXCEPT ![d].pc = "unclaim"]
        /\ UNCHANGED layer
  /\ UNCHANGED <<tx, expired, budget, acked, effects>>

(* A barrier was refused: the ones claimed before it are released, and the *)
(* handler returns the stored record.                                      *)
Unclaim(d) ==
  /\ drv[d].pc = "unclaim"
  /\ \/ /\ layer[d].held = {}
        /\ Return(d) /\ LeaveLayer(d)
        /\ UNCHANGED barriers
     \/ \E b \in layer[d].held :
          /\ IsFirst(d, b, layer[d].held)
          /\ barriers' = barriers \ {LayerKey(d, b)}
          /\ layer' = [layer EXCEPT ![d].held = @ \ {b}]
          /\ UNCHANGED drv
  /\ UNCHANGED <<tx, expired, budget, acked, effects>>

(* The copy with the attempts counted; a compensated branch stays          *)
(* Compensating while it is called.                                        *)
Attempted(d) ==
  LET inLayer == layer[d].held
      t == drv[d].tx
  IN [t EXCEPT
        !.att = [b \in Branch |-> IF b \in inLayer THEN @[b] + 1 ELSE @[b]],
        !.bst = [b \in Branch |->
                   IF b \in inLayer /\ drv[d].op # "compensate"
                   THEN "Running" ELSE @[b]]]

(* Every barrier is claimed: the attempts are stored and the calls are     *)
(* spawned.  A store that refuses the write ends the handler, which keeps  *)
(* the barriers.                                                           *)
StoreLayer(d) ==
  /\ drv[d].pc = "claim" /\ layer[d].todo = {}
  /\ PersistAndGo(d, Attempted(d), "calls", 1)
  /\ layer' = [layer EXCEPT ![d] =
                 IF CanStore(drv[d].tx)
                 THEN [@ EXCEPT !.calling = layer[d].held]
                 ELSE NoLayer]
  /\ UNCHANGED <<barriers, expired, budget, acked, effects>>

(* A task of the JoinSet ended, in any order, and was joined.              *)
TaskDone(d, b, status) ==
  /\ drv[d].pc = "calls"
  /\ b \in layer[d].calling
  /\ drv' = [drv EXCEPT ![d].tx.bst[b] = status]

TaskOk(d, b) ==
  /\ TaskDone(d, b, IF drv[d].op = "compensate" THEN "Skipped" ELSE "Succeeded")
  /\ layer' = [layer EXCEPT ![d].calling = @ \ {b}]
  /\ acked' = acked \cup {LayerKey(d, b)}
  /\ effects' = effects \cup {LayerKey(d, b)}
  /\ UNCHANGED <<tx, barriers, expired, budget>>

TaskErr(d, b) ==
  /\ TaskDone(d, b, IF drv[d].op = "compensate" THEN "Compensating" ELSE "Failed")
  /\ layer' = [layer EXCEPT ![d].calling = @ \ {b}, ![d].todo = @ \cup {b}]
  /\ Spend("failure")
  /\ effects' \in {effects, effects \cup {LayerKey(d, b)}}
  /\ UNCHANGED <<tx, barriers, expired, acked>>

ReleaseFailed(d, b) ==
  /\ drv[d].pc = "calls" /\ b \in layer[d].todo
  /\ barriers' = barriers \ {LayerKey(d, b)}
  /\ layer' = [layer EXCEPT ![d].todo = @ \ {b}]
  /\ UNCHANGED <<tx, drv, expired, budget, acked, effects>>

(* Every task of the layer is joined.                                      *)
Joined(d) ==
  drv[d].pc = "calls" /\ layer[d].calling = {} /\ layer[d].todo = {}

(* The branches of the layer whose call failed.                            *)
FailedTasks(d) ==
  {b \in layer[d].held :
     drv[d].tx.bst[b] \in {"Failed", "Compensating"}}

LayerStep(d) ==
  \/ Unclaim(d) \/ StoreLayer(d)
  \/ \E b \in Branch :
       ClaimNext(d, b) \/ TaskOk(d, b) \/ TaskErr(d, b) \/ ReleaseFailed(d, b)

(* The handler is abandoned in a layer; the JoinSet is dropped with it,    *)
(* and each call it was running may have taken effect.                     *)
AbandonLayer(d) ==
  /\ drv[d].pc \in {"claim", "unclaim", "calls"}
  /\ Spend("crash")
  /\ \E done \in SUBSET layer[d].calling :
       effects' = effects \cup {LayerKey(d, b) : b \in done}
  /\ Return(d) /\ LeaveLayer(d)
  /\ UNCHANGED <<tx, barriers, expired, acked>>

-----------------------------------------------------------------------------
(* The types of the drivers and their layers.                              *)

LayerDriver ==
  [pc : Pc \cup {"claim", "unclaim", "calls"}, op : Handler, pos : Nat,
   tx : Transaction]

Layer == [todo : SUBSET Branch, held : SUBSET Branch, calling : SUBSET Branch]

LayersTypeOK ==
  /\ tx \in Transaction
  /\ drv \in [Driver -> LayerDriver]
  /\ layer \in [Driver -> Layer]

InLayer(l) == l.todo \cup l.held \cup l.calling

=============================================================================
