--------------------------- MODULE ConcurrentSaga ---------------------------
(***************************************************************************)
(* One Saga with options.concurrent: start_concurrent_saga runs the        *)
(* branches in layers along their dependencies, and abort_concurrent_saga  *)
(* compensates them in layers against the dependencies.  What start_saga,  *)
(* abort_saga and the worker decide before they branch to these handlers   *)
(* is taken from module Saga.  The dependencies are what the client        *)
(* submitted, and any graph validate_transaction_dependencies accepts.     *)
(***************************************************************************)
EXTENDS Layers, Saga

CONSTANTS
  Graphs,      \* the dependency graphs clients submit
  MaxEvents    \* bound: requests, failing calls and crashes together

ASSUME ConcurrentSagaAssumption == MaxEvents \in Nat

VARIABLE deps      \* the dependencies of each branch, fixed by submit

concurrentVars == <<layerVars, deps>>

(* Mutant of ValidGraph: cycles are not looked for.                        *)
NoCycleCheck(graph) ==
  \A b \in Members(Initial) : graph[b] \subseteq Members(Initial) \ {b}

(* validate_dependency_graph.  Its depth-first visit meets a branch that   *)
(* it is visiting unless every set of branches has one without a           *)
(* dependency in the set.                                                  *)
ValidGraph(graph) ==
  /\ \A i, j \in 1..Len(Initial) : i # j => Initial[i] # Initial[j]
  /\ \A b \in Members(Initial) : graph[b] \subseteq Members(Initial) \ {b}
  /\ \A S \in SUBSET Members(Initial) \ {{}} :
       \E b \in S : graph[b] \cap S = {}

-----------------------------------------------------------------------------
(* The handlers up to their loop.                                          *)

(* The record as abort_concurrent_saga marks it.                           *)
MarkedForAbort(t) ==
  [t EXCEPT
     !.status = "Aborting",
     !.bst = [b \in Branch |->
                CASE @[b] = "Succeeded" -> "Compensating"
                  [] @[b] \in {"Pending", "Running", "Failed"} -> "Skipped"
                  [] OTHER -> @[b]]]

(* Both handlers store the decision before their loop.                     *)
EnterConcurrent(d, op) ==
  drv' = [drv EXCEPT ![d] =
            [pc |-> "mark", op |-> op, pos |-> 1,
             tx |-> IF op = "action" THEN [tx EXCEPT !.status = "Succeeding"]
                    ELSE MarkedForAbort(tx)]]

CallConcurrent(d, op) ==
  /\ Request(d, "call", op)
  /\ tx.status \in AllowedFrom(op)
  /\ EnterConcurrent(d, op)
  /\ UNCHANGED <<tx, barriers, expired, acked, effects, layer, deps>>

StartConcurrent(d) ==
  /\ drv[d].pc = "chosen"
  /\ IF tx.status \in AllowedFrom(drv[d].op)
     THEN EnterConcurrent(d, drv[d].op)
     ELSE Return(d)
  /\ UNCHANGED <<tx, barriers, expired, budget, acked, effects, layer, deps>>

StoreDecision(d) ==
  /\ drv[d].pc = "mark"
  /\ PersistAndGo(d, drv[d].tx, "loop", 1)
  /\ UNCHANGED <<barriers, expired, budget, acked, effects, layer, deps>>

-----------------------------------------------------------------------------
(* The loops.                                                              *)

InState(d, statuses) ==
  {b \in Members(drv[d].tx.ids) : drv[d].tx.bst[b] \in statuses}

(* Mutant of ReadyActions: dependencies are not waited for.                *)
AllOpenActions(d) == InState(d, {"Pending", "Failed"})

(* The branches start_concurrent_saga may run now.  A branch a crashed     *)
(* handler left Running is not among them.                                 *)
ReadyActions(d) ==
  {b \in InState(d, {"Pending", "Failed"}) :
     deps[b] \subseteq InState(d, {"Succeeded"})}

(* Mutant of ReadyCompensations: the order is the forward one.             *)
ForwardCompensations(d) ==
  {b \in InState(d, {"Compensating"}) :
     deps[b] \cap InState(d, {"Compensating"}) = {}}

(* The branches abort_concurrent_saga may compensate now.                  *)
ReadyCompensations(d) ==
  {b \in InState(d, {"Compensating"}) :
     \A c \in InState(d, {"Compensating"}) : b \notin deps[c]}

(* start_concurrent_saga: the head of the loop.                            *)
NextActions(d) ==
  LET all == InState(d, BranchStatus) IN
  /\ drv[d].pc = "loop" /\ drv[d].op = "action"
  /\ \/ /\ InState(d, {"Succeeded"}) = all
        /\ Persist(d, [drv[d].tx EXCEPT !.status = "Succeeded"])
        /\ NoLayerStep
     \/ /\ InState(d, {"Succeeded"}) # all /\ ReadyActions(d) = {}
        /\ Return(d) /\ NoLayerStep /\ UNCHANGED tx
     \/ /\ ReadyActions(d) # {}
        /\ EnterLayer(d, ReadyActions(d)) /\ UNCHANGED tx
  /\ UNCHANGED <<barriers, expired, budget, acked, effects, deps>>

(* abort_concurrent_saga: the head of the loop.  That a compensation is    *)
(* ready is ensured by the code, and follows from ValidGraph.              *)
NextCompensations(d) ==
  /\ drv[d].pc = "loop" /\ drv[d].op = "compensate"
  /\ \/ /\ InState(d, {"Compensating"}) = {}
        /\ Persist(d, [drv[d].tx EXCEPT !.status = "Aborted"])
        /\ NoLayerStep
     \/ /\ ReadyCompensations(d) # {}
        /\ EnterLayer(d, ReadyCompensations(d)) /\ UNCHANGED tx
  /\ UNCHANGED <<barriers, expired, budget, acked, effects, deps>>

(* The record when start_concurrent_saga gives up: unlike start_saga it    *)
(* skips the failed branch.                                                *)
LayersGivenUp(d) ==
  [drv[d].tx EXCEPT
     !.status = "Aborting",
     !.bst = [b \in Branch |->
                IF @[b] = "Succeeded" THEN "Compensating" ELSE "Skipped"]]

Exhausted(d) ==
  drv[d].op = "action"
    /\ \E b \in FailedTasks(d) : drv[d].tx.att[b] >= MaxAttempts

(* A layer without an exhausted action is stored; the handler goes on with *)
(* the next layer, or returns if a call failed.                            *)
StoreJoined(d) ==
  /\ Joined(d) /\ ~Exhausted(d)
  /\ \/ FailedTasks(d) = {} /\ PersistAndGo(d, drv[d].tx, "loop", 1)
     \/ FailedTasks(d) # {} /\ Persist(d, drv[d].tx)
  /\ LeaveLayer(d)
  /\ UNCHANGED <<barriers, expired, budget, acked, effects, deps>>

(* A layer with an exhausted action is given up: the abort is stored and   *)
(* abort_concurrent_saga goes on with the same copy.                       *)
HandOverLayers(d) ==
  /\ Joined(d) /\ Exhausted(d)
  /\ IF CanStore(LayersGivenUp(d))
     THEN /\ tx' = Bumped(LayersGivenUp(d))
          /\ drv' = [drv EXCEPT ![d] =
                       [pc |-> "mark", op |-> "compensate", pos |-> 1,
                        tx |-> Bumped(LayersGivenUp(d))]]
     ELSE tx' = tx /\ Return(d)
  /\ LeaveLayer(d)
  /\ UNCHANGED <<barriers, expired, budget, acked, effects, deps>>

-----------------------------------------------------------------------------

ConcurrentInit ==
  /\ LayerInit
  /\ deps \in Graphs
  /\ ValidGraph(deps)

ConcurrentStep(d) ==
  \/ StartConcurrent(d) \/ StoreDecision(d)
  \/ NextActions(d) \/ NextCompensations(d)
  \/ StoreJoined(d) \/ HandOverLayers(d)
  \/ LayerStep(d) /\ UNCHANGED deps
  \/ Save(d) /\ UNCHANGED <<layer, deps>>

ConcurrentTick(d) ==
  WorkerTick(d, RecoverHandler) /\ UNCHANGED <<layer, deps>>

ConcurrentClient(d) ==
  \/ \E op \in SagaHandler : CallConcurrent(d, op)
  \/ /\ \/ ScheduleAbort(d) \/ ForceStop(d) \/ ResetRetry(d)
        \/ RecoverRequest(d, RecoverHandler)
     /\ UNCHANGED <<layer, deps>>

ConcurrentCrash(d) ==
  /\ \/ AbandonLayer(d)
     \/ /\ drv[d].pc \notin {"claim", "unclaim", "calls"}
        /\ Abandon(d) /\ UNCHANGED layer
  /\ UNCHANGED deps

(* The bounded events that are left; a call can always still succeed.      *)
Left == budget.request + budget.call + budget.failure + budget.crash

ConcurrentNext ==
  /\ \/ \E d \in Driver :
          \/ ConcurrentStep(d) \/ ConcurrentClient(d)
          \/ ConcurrentTick(d) \/ ConcurrentCrash(d)
     \/ Expire /\ UNCHANGED <<layer, deps>>
  /\ MaxRequests + MaxCalls + MaxFailures + MaxCrashes - Left' <= MaxEvents

ConcurrentSpec == ConcurrentInit /\ [][ConcurrentNext]_concurrentVars

(* The worker loop keeps ticking and a handler that runs keeps running.    *)
ConcurrentFairness ==
  /\ \A d \in Worker : WF_concurrentVars(ConcurrentTick(d))
  /\ \A d \in Driver : WF_concurrentVars(ConcurrentStep(d))

FairConcurrentSpec == ConcurrentSpec /\ ConcurrentFairness

-----------------------------------------------------------------------------
(* Properties.                                                             *)

(* start_concurrent_saga keeps the dependencies: an action is only called  *)
(* once every branch it depends on has accepted its own, and the Saga is   *)
(* only stored as Succeeded once every branch has, whoever raced, crashed  *)
(* or overwrote the record.                                                *)
LayerOrder ==
  /\ \A b, c \in Branch :
       c \in deps[b] /\ <<b, "action">> \in effects => <<c, "action">> \in acked
  /\ tx.status = "Succeeded" =>
       \A b \in Members(Initial) : <<b, "action">> \in acked

(* While the worker is undisturbed, abort_concurrent_saga undoes against   *)
(* the dependencies: a branch is only compensated once every branch that   *)
(* depends on it and accepted its action has accepted its compensation,    *)
(* and the Saga is only stored as Aborted once all of them have.           *)
LayeredUndo ==
  Undisturbed =>
    \A b, c \in Branch :
      /\ <<c, "action">> \in acked
      /\ \/ tx.status = "Aborted"
         \/ b \in deps[c] /\ <<b, "compensate">> \in effects
      => <<c, "compensate">> \in acked

(* An undisturbed worker brings a concurrent Saga over every dependency    *)
(* graph that submit accepts to Succeeded or Aborted, through every retry. *)
GraphTerminates == <>(IsTerminal(tx.status) \/ ~Undisturbed)

-----------------------------------------------------------------------------
(* The inductive invariants behind LayerOrder and LayeredUndo.             *)

(* A branch that t shows as Succeeded was accepted.                        *)
Truthful(t) ==
  /\ t.ids = Initial
  /\ \A b \in Branch : t.bst[b] = "Succeeded" => <<b, "action">> \in acked

(* A driver in state s holds a true copy, and in a layer l of actions only *)
(* branches of the Saga whose dependencies were accepted.                  *)
InOrder(s, l) ==
  /\ Truthful(s.tx)
  /\ s.tx.status # "Succeeded"
  /\ s.pc # "invoke"
  /\ s.pc \notin {"idle", "persist"} => s.op \in SagaHandler
  /\ s.pc \notin {"claim", "unclaim", "calls"} => l = NoLayer
  /\ InLayer(l) \subseteq Members(Initial)
  /\ s.op = "action" =>
       \A b \in InLayer(l) : \A c \in deps[b] : <<c, "action">> \in acked

OrderInv ==
  /\ LayersTypeOK
  /\ Truthful(tx)
  /\ acked \subseteq effects
  /\ \A key \in acked : key[1] \in Members(Initial)
  /\ \A d \in Driver : InOrder(drv[d], layer[d])
  /\ LayerOrder

(* The record t shows what became of the accepted operations.              *)
Tracked(t) ==
  \A b \in Branch :
    /\ Recorded(t, b)
    /\ <<b, "compensate">> \in acked => t.bst[b] = "Skipped"

(* What depends on b is compensated.                                       *)
Unneeded(b) ==
  \A c \in Branch :
    b \in deps[c] /\ <<c, "action">> \in acked => <<c, "compensate">> \in acked

(* The branches of the layer that are not called yet, or are being called, *)
(* and the statuses that they have.                                        *)
Outstanding(s, l) ==
  CASE s.pc = "claim" -> l.todo \cup l.held
    [] s.pc = "calls" -> l.calling
    [] OTHER          -> {}

OpenStatus(op) ==
  IF op = "action" THEN {"Pending", "Failed", "Running"} ELSE {"Compensating"}

(* Only a worker runs, with a copy that is not stale; its actions come     *)
(* before any compensation, its compensations after what depends on them.  *)
RunsAlone(d, s, l) ==
  /\ s.pc \in {"idle", "chosen", "mark", "loop", "claim", "unclaim", "calls"}
  /\ s.pc # "idle" => d \in Worker /\ s.op \in SagaHandler
  /\ s.pc \notin {"idle", "chosen"} =>
       /\ s.tx.rev = tx.rev
       /\ Tracked(s.tx)
       /\ \A b \in Outstanding(s, l) : s.tx.bst[b] \in OpenStatus(s.op)
       /\ s.op = "action" =>
            /\ tx.status \in {"Submitted", "Succeeding"}
            /\ s.tx.status = "Succeeding"
            /\ \A b \in Branch : s.tx.bst[b] # "Compensating"
       /\ s.op = "compensate" =>
            /\ tx.status \in {"Submitted", "Succeeding", "Aborting"}
            /\ s.pc # "mark" => tx.status = "Aborting"
            /\ s.tx.status = "Aborting"
            /\ \A b \in Branch : s.tx.bst[b] # "Succeeded"
            /\ \A b \in InLayer(l) : Unneeded(b)

(* The record is at most one layer behind, and nothing is compensated but  *)
(* under the stored decision and when nothing depends on it.               *)
UndoneRecord ==
  /\ Tracked(tx) \/ \E d \in Driver : drv[d].pc = "calls"
  /\ NotUndone \/ tx.status \in {"Aborting", "Aborted"}
  /\ tx.status \in {"Submitted", "Succeeding"} =>
       \A b \in Branch : tx.bst[b] # "Compensating"
  /\ tx.status = "Aborted" =>
       \A b \in Branch : <<b, "action">> \in acked => <<b, "compensate">> \in acked
  /\ \A b \in Branch : <<b, "compensate">> \in effects => Unneeded(b)

LayeredInv ==
  Undisturbed =>
    UndoneRecord /\ \A d \in Driver : RunsAlone(d, drv[d], layer[d])

=============================================================================
