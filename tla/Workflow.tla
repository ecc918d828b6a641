------------------------------ MODULE Workflow ------------------------------
(***************************************************************************)
(* One static Workflow transaction: start_workflow, which runs the first   *)
(* branch in declared order whose dependencies succeeded, over and over,   *)
(* and abort_workflow, which rolls back in reverse declared order.         *)
(***************************************************************************)
EXTENDS Coordinator, FiniteSetsExt

CONSTANT Deps   \* the dependencies of each branch, an acyclic graph

ASSUME WorkflowAssumption == Deps \in [Branch -> SUBSET Branch]

WorkflowHandler == {"workflow", "workflow_rollback"}

(* The statuses ensure_status lets the handler start from.                 *)
AllowedFrom(op) ==
  CASE op = "workflow" -> {"Submitted", "Prepared", "Succeeding"}
    [] op = "workflow_rollback" ->
         {"Submitted", "Prepared", "Succeeding", "Aborting"}

(* Neither handler writes before its loop.                                 *)
Enter(d, op) ==
  Begin(d, op, "loop", IF op = "workflow" THEN "Succeeding" ELSE "Aborting")

(* The endpoints start and abort call the handler in the request.          *)
Call(d, op) ==
  /\ Request(d, "call", op)
  /\ tx.status \in AllowedFrom(op)
  /\ Enter(d, op)
  /\ UNCHANGED <<tx, barriers, expired, acked, effects>>

(* Mutant of Ready: dependencies are not looked at.                        *)
ReadyAnyhow(t) ==
  {i \in 1..Len(t.ids) : t.bst[t.ids[i]] \in {"Pending", "Failed"}}

(* The positions of the branches that can run now.                         *)
Ready(t) ==
  {i \in 1..Len(t.ids) :
     /\ t.bst[t.ids[i]] \in {"Pending", "Failed"}
     /\ \A b \in Deps[t.ids[i]] : t.bst[b] = "Succeeded"}

(* start_workflow: pick the next branch.                                   *)
PickBranch(d) ==
  /\ drv[d].pc = "loop" /\ drv[d].op = "workflow" /\ Ready(drv[d].tx) # {}
  /\ drv' = [drv EXCEPT ![d].pc = "mark", ![d].pos = Min(Ready(drv[d].tx))]
  /\ UNCHANGED <<tx, barriers, expired, budget, acked, effects>>

(* start_workflow: take the barrier of the branch or return.               *)
RunBranch(d) ==
  /\ drv[d].pc = "mark"
  /\ \/ /\ BarrierDecision(DriverKey(d)) = "Execute"
        /\ Claim(d, Mark(d, "Running"))
     \/ /\ BarrierDecision(DriverKey(d)) # "Execute"
        /\ Return(d)
        /\ UNCHANGED barriers
  /\ UNCHANGED <<tx, expired, budget, acked, effects>>

(* start_workflow: nothing is left to run.  If a branch is not Succeeded   *)
(* the handler returns an error.                                           *)
WorkflowEnds(d) ==
  LET t == drv[d].tx
  IN
  /\ drv[d].pc = "loop" /\ drv[d].op = "workflow" /\ Ready(t) = {}
  /\ IF \A b \in Members(t.ids) : t.bst[b] = "Succeeded"
     THEN Persist(d, [t EXCEPT !.status = "Succeeded"])
     ELSE tx' = tx /\ Return(d)
  /\ UNCHANGED <<barriers, expired, budget, acked, effects>>

(* abort_workflow: one turn of the loop up to the rollback call.           *)
RollbackBranch(d) ==
  LET st   == drv[d].tx.bst[Current(d)]
      free == BarrierDecision(DriverKey(d)) = "Execute"
  IN
  /\ drv[d].pc = "loop" /\ drv[d].op = "workflow_rollback" /\ MoreBranches(d)
  /\ \/ /\ st = "Succeeded" /\ free
        /\ Claim(d, drv[d].tx)
     \/ /\ st = "Pending" \/ (st = "Succeeded" /\ ~free)
        /\ Advance(d, Mark(d, "Skipped"))
        /\ UNCHANGED barriers
     \/ /\ st \notin {"Pending", "Succeeded"}
        /\ Advance(d, drv[d].tx)
        /\ UNCHANGED barriers
  /\ UNCHANGED <<tx, expired, budget, acked, effects>>

RollbackEnds(d) ==
  /\ drv[d].pc = "loop" /\ drv[d].op = "workflow_rollback" /\ ~MoreBranches(d)
  /\ Persist(d, [drv[d].tx EXCEPT !.status = "Aborted"])
  /\ UNCHANGED <<barriers, expired, budget, acked, effects>>

(* The call returned Ok: start_workflow stores the branch and goes on.     *)
BranchOk(d) ==
  /\ CallSucceeds(d)
  /\ \/ drv[d].op = "workflow" /\ Goto(d, "save", Mark(d, "Succeeded"))
     \/ drv[d].op = "workflow_rollback" /\ Advance(d, Mark(d, "Skipped"))

StoreProgress(d) ==
  /\ drv[d].pc = "save"
  /\ PersistAndGo(d, drv[d].tx, "loop", 1)
  /\ UNCHANGED <<barriers, expired, budget, acked, effects>>

(* Mutant of BranchErr: a failed rollback is taken for a success.          *)
RollbackErrDropped(d) ==
  /\ CallFails(d)
  /\ \/ /\ drv[d].op = "workflow"
        /\ Goto(d, "release", [Mark(d, "Failed") EXCEPT !.status = "Aborting"])
     \/ /\ drv[d].op = "workflow_rollback"
        /\ Advance(d, Mark(d, "Skipped"))

(* The call failed: the first failure of a branch aborts the workflow, a   *)
(* failed rollback is left for later.                                      *)
BranchErr(d) ==
  /\ CallFails(d)
  /\ \/ /\ drv[d].op = "workflow"
        /\ Goto(d, "release", [Mark(d, "Failed") EXCEPT !.status = "Aborting"])
     \/ /\ drv[d].op = "workflow_rollback"
        /\ Goto(d, "release", Mark(d, "Compensating"))

Release(d) ==
  /\ ReleaseBarrier(d)
  /\ Goto(d, IF drv[d].op = "workflow" THEN "handover" ELSE "persist", drv[d].tx)

(* start_workflow stores the abort and calls abort_workflow.               *)
HandOver(d) ==
  /\ drv[d].pc = "handover"
  /\ IF CanStore(drv[d].tx)
     THEN tx' = Bumped(drv[d].tx) /\ Choose(d, "workflow_rollback")
     ELSE tx' = tx /\ Return(d)
  /\ UNCHANGED <<barriers, expired, budget, acked, effects>>

-----------------------------------------------------------------------------
(* Decisions recorded for the worker, and the worker.                      *)

(* prepare_workflow; schedule_submit turns it back.                        *)
Prepare(d) == tx.status = "Submitted" /\ StatusRequest(d, "prepare", "Prepared")

ScheduleSubmit(d) ==
  tx.status = "Prepared" /\ StatusRequest(d, "schedule_submit", "Submitted")

ScheduleAbort(d) ==
  /\ tx.status \in {"Submitted", "Prepared", "Succeeding", "Aborting"}
  /\ StatusRequest(d, "schedule_abort", "Aborting")

(* Mutant of RecoverHandler: an abort is not picked up.                    *)
RecoverSkipsAbort ==
  CASE IsTerminal(tx.status) \/ tx.status \in {"Aborting", "Prepared"} -> "none"
    [] OTHER -> IF expired THEN "workflow_rollback" ELSE "workflow"

(* The handler tick_recover_once and recover() call for the record.        *)
RecoverHandler ==
  CASE IsTerminal(tx.status) -> "none"
    [] ~IsTerminal(tx.status) /\ (expired \/ tx.status = "Aborting")
                             -> "workflow_rollback"
    [] ~expired /\ tx.status = "Prepared" -> "none"
    [] OTHER                 -> "workflow"

Tick(d) == WorkerTick(d, RecoverHandler)

StartChosen(d) ==
  /\ drv[d].pc = "chosen"
  /\ IF tx.status \in AllowedFrom(drv[d].op)
     THEN Enter(d, drv[d].op)
     ELSE Return(d)
  /\ UNCHANGED <<tx, barriers, expired, budget, acked, effects>>

-----------------------------------------------------------------------------

HandlerStep(d) ==
  \/ StartChosen(d) \/ PickBranch(d) \/ RunBranch(d) \/ WorkflowEnds(d)
  \/ RollbackBranch(d) \/ RollbackEnds(d) \/ BranchOk(d) \/ StoreProgress(d)
  \/ BranchErr(d) \/ Release(d) \/ HandOver(d) \/ Save(d)

ClientStep(d) ==
  \/ \E op \in WorkflowHandler : Call(d, op)
  \/ Prepare(d) \/ ScheduleSubmit(d) \/ ScheduleAbort(d)
  \/ RecoverRequest(d, RecoverHandler)
  \/ ForceStop(d) \/ ResetRetry(d)

WorkflowNext ==
  \/ \E d \in Driver : HandlerStep(d) \/ ClientStep(d) \/ Tick(d) \/ Abandon(d)
  \/ Expire

Spec == Init /\ [][WorkflowNext]_vars

(* The worker loop keeps ticking and a handler that runs keeps running.    *)
Fairness ==
  /\ \A d \in Worker : WF_vars(Tick(d))
  /\ \A d \in Driver : WF_vars(HandlerStep(d))

FairSpec == Spec /\ Fairness

-----------------------------------------------------------------------------
(* Properties.                                                             *)

(* start_workflow runs a branch only once its dependencies were accepted,  *)
(* and stores Succeeded only once every branch was, whoever raced, crashed *)
(* or overwrote the record.                                                *)
WorkflowComplete ==
  \A c \in Members(Initial) :
    \/ tx.status = "Succeeded"
    \/ \E b \in Branch : c \in Deps[b] /\ <<b, "workflow">> \in effects
    => <<c, "workflow">> \in acked

(* While the worker is undisturbed, a Workflow that abort_workflow stored  *)
(* as Aborted had every accepted branch rolled back, or its record says    *)
(* that a rollback failed.                                                 *)
RollbackAccounted ==
  Undisturbed /\ tx.status = "Aborted" =>
    \A b \in Branch : <<b, "workflow">> \in acked =>
      <<b, "workflow_rollback">> \in acked \/ tx.bst[b] = "Compensating"

(* An undisturbed worker brings every static Workflow to Succeeded or      *)
(* Aborted with start_workflow and abort_workflow.                         *)
WorkflowTerminates == <>(IsTerminal(tx.status) \/ ~Undisturbed)

-----------------------------------------------------------------------------
(* The inductive invariants behind the properties above.                   *)

(* The branches never change, only WorkflowEnds and RollbackEnds write a   *)
(* Succeeded or an Aborted that is new, and a branch that was picked is    *)
(* ready.                                                                  *)
ControlInv ==
  /\ tx.ids = Initial
  /\ \A d \in Driver :
       /\ drv[d].tx.ids = Initial
       /\ drv[d].tx.status \notin {"Succeeded", "Aborted"}
       /\ drv[d].pc \notin {"idle", "persist"} => drv[d].op \in WorkflowHandler
       /\ drv[d].pc \in {"mark", "save", "handover"} => drv[d].op = "workflow"
       /\ drv[d].pc = "mark" => drv[d].pos \in Ready(drv[d].tx)

(* A branch that any copy of the record shows as Succeeded was accepted,   *)
(* and so were the dependencies of a branch that is being called.          *)
ProgressInv ==
  /\ \A key \in acked : key[1] \in Members(Initial)
  /\ \A b \in Branch :
       \/ tx.bst[b] = "Succeeded"
       \/ \E d \in Driver : drv[d].tx.bst[b] = "Succeeded"
       => <<b, "workflow">> \in acked
  /\ \A d \in Driver : drv[d].op = "workflow" /\ drv[d].pc = "invoke" =>
       \A c \in Deps[Current(d)] : <<c, "workflow">> \in acked

(* The record t shows what became of an accepted branch.                   *)
Recorded(t, b) ==
  <<b, "workflow">> \in acked =>
    \/ t.bst[b] \in {"Succeeded", "Compensating"}
    \/ t.bst[b] = "Skipped" /\ <<b, "workflow_rollback">> \in acked

HasCopy(d) == drv[d].pc \notin {"idle", "chosen"}

(* Whoever runs is a worker, and nobody runs after the end.                *)
TurnInv ==
  \A d \in Driver : drv[d].pc # "idle" =>
    d \in Worker /\ drv[d].op \in WorkflowHandler /\ tx.status # "Aborted"

(* A key in the table was accepted or is in flight: no barrier is leaked.  *)
HeldInv ==
  \A key \in barriers :
    key \in acked \/ \E d \in Driver : InFlight(d) /\ DriverKey(d) = key

(* No copy is stale, and the record lags behind by at most the branch that *)
(* is being saved.                                                         *)
RecordedInv ==
  /\ \A d \in Driver : HasCopy(d) => drv[d].tx.rev = tx.rev
  /\ \A b \in Branch :
       Recorded(tx, b) \/ \E d \in Driver : drv[d].pc = "save" /\ Current(d) = b
  /\ \A d \in Driver, b \in Branch : HasCopy(d) => Recorded(drv[d].tx, b)

(* abort_workflow leaves no Succeeded behind.                              *)
PassedInv ==
  \A d \in Driver, j \in 1..Len(Initial) :
    /\ drv[d].op = "workflow_rollback" /\ HasCopy(d)
    /\ j > Len(Initial) + 1 - drv[d].pos
    => drv[d].tx.bst[Initial[j]] # "Succeeded"

(* What holds while one worker runs undisturbed.                           *)
UndoInv ==
  Undisturbed =>
    TurnInv /\ HeldInv /\ RecordedInv /\ PassedInv /\ RollbackAccounted

=============================================================================
