-------------------------------- MODULE Saga --------------------------------
(***************************************************************************)
(* One sequential Saga transaction: start_saga, which runs the actions in  *)
(* order and stores its progress after each one, and abort_saga, which     *)
(* compensates in reverse order, run by recovery ticks and by requests     *)
(* over one stored record and one barrier table.  Every branch has a       *)
(* compensate URL: the control plane accepts no other.                     *)
(***************************************************************************)
EXTENDS Coordinator

(* The control plane refuses a request that names a branch id twice, and   *)
(* numbers the branches of a compatibility request itself.                 *)
ASSUME SagaAssumption ==
  \A i, j \in 1..Len(Initial) : Initial[i] = Initial[j] => i = j

SagaHandler == {"action", "compensate"}

(* The statuses ensure_status lets the handler start from.                 *)
AllowedFrom(op) ==
  CASE op = "action"     -> {"Submitted", "Succeeding"}
    [] op = "compensate" -> {"Submitted", "Succeeding", "Aborting"}

(* start_saga stores Succeeding before its loop, abort_saga stores nothing.*)
Enter(d, op) ==
  \/ op = "action" /\ Begin(d, op, "mark", "Succeeding")
  \/ op = "compensate" /\ Begin(d, op, "loop", "Aborting")

(* The native endpoints start and abort, and the compatibility endpoints   *)
(* with WaitResult, call the handler in the request.                       *)
Call(d, op) ==
  /\ Request(d, "call", op)
  /\ tx.status \in AllowedFrom(op)
  /\ Enter(d, op)
  /\ UNCHANGED <<tx, barriers, expired, acked, effects>>

(* The first write of start_saga.                                          *)
StoreMark(d) ==
  /\ drv[d].pc = "mark"
  /\ PersistAndGo(d, drv[d].tx, "loop", 1)
  /\ UNCHANGED <<barriers, expired, budget, acked, effects>>

(* start_saga: one turn of the loop up to the branch call.  A branch that  *)
(* another driver is running, or ran, ends the handler.                    *)
ActionBranch(d) ==
  LET done == drv[d].tx.bst[Current(d)] = "Succeeded"
      free == BarrierDecision(DriverKey(d)) = "Execute"
  IN
  /\ drv[d].pc = "loop" /\ drv[d].op = "action" /\ MoreBranches(d)
  /\ \/ done /\ Advance(d, drv[d].tx) /\ UNCHANGED barriers
     \/ ~done /\ free /\ Claim(d, Mark(d, "Running"))
     \/ ~done /\ ~free /\ Return(d) /\ UNCHANGED barriers
  /\ UNCHANGED <<tx, expired, budget, acked, effects>>

(* abort_saga: one turn of the loop up to the branch call.                 *)
CompensateBranch(d) ==
  LET st   == drv[d].tx.bst[Current(d)]
      due  == st \in {"Succeeded", "Compensating"}
      free == BarrierDecision(DriverKey(d)) = "Execute"
  IN
  /\ drv[d].pc = "loop" /\ drv[d].op = "compensate" /\ MoreBranches(d)
  /\ \/ /\ st = "Pending"
        /\ Advance(d, Mark(d, "Skipped"))
        /\ UNCHANGED barriers
     \/ /\ st # "Pending" /\ ~due
        /\ Advance(d, drv[d].tx)
        /\ UNCHANGED barriers
     \/ /\ due /\ free
        /\ Claim(d, Mark(d, "Compensating"))
     \/ /\ due /\ ~free
        /\ Goto(d, "persist", Mark(d, "Compensating"))
        /\ UNCHANGED barriers
  /\ UNCHANGED <<tx, expired, budget, acked, effects>>

(* The call returned Ok: start_saga stores the branch before it goes on.   *)
BranchOk(d) ==
  /\ CallSucceeds(d)
  /\ \/ drv[d].op = "action" /\ Goto(d, "save", Mark(d, "Succeeded"))
     \/ drv[d].op = "compensate" /\ Advance(d, Mark(d, "Skipped"))

StoreProgress(d) ==
  /\ drv[d].pc = "save"
  /\ PersistAndGo(d, drv[d].tx, "loop", drv[d].pos + 1)
  /\ UNCHANGED <<barriers, expired, budget, acked, effects>>

(* The record when start_saga gives up: the failed branch and every branch *)
(* that succeeded are to be compensated.                                   *)
GivenUp(d) ==
  [drv[d].tx EXCEPT
     !.status = "Aborting",
     !.bst = [b \in Branch |->
                IF b = Current(d) \/ @[b] = "Succeeded" THEN "Compensating"
                ELSE @[b]]]

(* Mutants of BranchErr: the error is dropped and the loop goes on; only   *)
(* the error of a compensation is.                                         *)
BranchErrDropped(d) == CallFails(d) /\ Goto(d, "save", Mark(d, "Failed"))

CompensateErrDropped(d) ==
  /\ CallFails(d)
  /\ \/ drv[d].op = "action" /\ Goto(d, "release", Mark(d, "Failed"))
     \/ drv[d].op = "compensate" /\ Advance(d, Mark(d, "Skipped"))

(* The call failed: an action with attempts left and a compensation are    *)
(* released for a retry; an action without attempts left keeps its barrier *)
(* and the handler goes over to the abort.                                 *)
BranchErr(d) ==
  /\ CallFails(d)
  /\ \/ /\ drv[d].op = "action"
        /\ drv[d].tx.att[Current(d)] < MaxAttempts
        /\ Goto(d, "release", Mark(d, "Failed"))
     \/ /\ drv[d].op = "action"
        /\ drv[d].tx.att[Current(d)] >= MaxAttempts
        /\ Goto(d, "handover", GivenUp(d))
     \/ /\ drv[d].op = "compensate"
        /\ Goto(d, "release", Mark(d, "Compensating"))

Release(d) == ReleaseBarrier(d) /\ Goto(d, "persist", drv[d].tx)

(* start_saga stores the abort and calls abort_saga, which reads again.    *)
HandOver(d) ==
  /\ drv[d].pc = "handover"
  /\ IF CanStore(drv[d].tx)
     THEN tx' = Bumped(drv[d].tx) /\ Choose(d, "compensate")
     ELSE tx' = tx /\ Return(d)
  /\ UNCHANGED <<barriers, expired, budget, acked, effects>>

(* The loop is over: the final status is stored.                           *)
Complete(d) ==
  LET end == IF drv[d].op = "action" THEN "Succeeded" ELSE "Aborted"
  IN
  /\ drv[d].pc = "loop"
  /\ ~MoreBranches(d)
  /\ Persist(d, [drv[d].tx EXCEPT !.status = end])
  /\ UNCHANGED <<barriers, expired, budget, acked, effects>>

-----------------------------------------------------------------------------
(* Decisions recorded for the worker, and the worker.  schedule_submit of  *)
(* a Saga writes nothing: Submitted already is the decision.               *)

ScheduleAbort(d) ==
  /\ tx.status \in {"Submitted", "Succeeding", "Aborting"}
  /\ StatusRequest(d, "schedule_abort", "Aborting")

(* The handler tick_recover_once and recover() call for the record.        *)
RecoverHandler ==
  CASE IsTerminal(tx.status)                              -> "none"
    [] ~IsTerminal(tx.status) /\ (expired \/ tx.status = "Aborting")
                                                          -> "compensate"
    [] OTHER                                              -> "action"

Tick(d) == WorkerTick(d, RecoverHandler)

(* The chosen handler reads the record again, and starts or is refused.    *)
StartChosen(d) ==
  /\ drv[d].pc = "chosen"
  /\ IF tx.status \in AllowedFrom(drv[d].op)
     THEN Enter(d, drv[d].op)
     ELSE Return(d)
  /\ UNCHANGED <<tx, barriers, expired, budget, acked, effects>>

-----------------------------------------------------------------------------

HandlerStep(d) ==
  \/ StartChosen(d) \/ StoreMark(d) \/ ActionBranch(d) \/ CompensateBranch(d)
  \/ BranchOk(d) \/ StoreProgress(d) \/ BranchErr(d) \/ Release(d)
  \/ HandOver(d) \/ Save(d) \/ Complete(d)

ClientStep(d) ==
  \/ \E op \in SagaHandler : Call(d, op)
  \/ ScheduleAbort(d)
  \/ RecoverRequest(d, RecoverHandler)
  \/ ForceStop(d) \/ ResetRetry(d)

SagaNext ==
  \/ \E d \in Driver : HandlerStep(d) \/ ClientStep(d) \/ Tick(d) \/ Abandon(d)
  \/ Expire

Spec == Init /\ [][SagaNext]_vars

(* The worker loop keeps ticking and a handler that runs keeps running.    *)
Fairness ==
  /\ \A d \in Worker : WF_vars(Tick(d))
  /\ \A d \in Driver : WF_vars(HandlerStep(d))

FairSpec == Spec /\ Fairness

-----------------------------------------------------------------------------
(* Properties.                                                             *)

(* start_saga keeps the declared order, whoever raced, crashed or          *)
(* overwrote the record: an action is only executed once every earlier one *)
(* was accepted, and Succeeded is only stored once all were.               *)
SagaComplete ==
  \A i \in 1..Len(Initial) :
    \/ tx.status = "Succeeded"
    \/ \E j \in 1..Len(Initial) : i < j /\ <<Initial[j], "action">> \in effects
    => <<Initial[i], "action">> \in acked

(* While the worker is undisturbed, abort_saga undoes in reverse order: a  *)
(* branch is only compensated once every later branch that accepted its    *)
(* action, or that start_saga gave up, has accepted its compensation.      *)
ReverseOrder ==
  Undisturbed =>
    \A i, j \in 1..Len(Initial) :
      /\ i < j
      /\ <<Initial[i], "compensate">> \in effects
      /\ \/ <<Initial[j], "action">> \in acked
         \/ tx.bst[Initial[j]] = "Compensating"
      => <<Initial[j], "compensate">> \in acked

(* While the worker is undisturbed, a Saga that abort_saga stored as       *)
(* Aborted had every accepted action compensated, and one that start_saga  *)
(* stored as Succeeded none.                                               *)
CompensationComplete ==
  Undisturbed =>
    \A b \in Branch :
      /\ tx.status = "Aborted" /\ <<b, "action">> \in acked =>
           <<b, "compensate">> \in acked
      /\ tx.status = "Succeeded" => <<b, "compensate">> \notin effects

(* An undisturbed worker brings every Saga to Succeeded or Aborted with    *)
(* start_saga and abort_saga, through every retry of failed calls.         *)
SagaTerminates == <>(IsTerminal(tx.status) \/ ~Undisturbed)

-----------------------------------------------------------------------------
(* The inductive invariants behind the properties above.                   *)

(* The branches never change, only Complete writes a Succeeded or an       *)
(* Aborted that is new, and the steps of start_saga are start_saga's.      *)
ControlInv ==
  /\ tx.ids = Initial
  /\ \A d \in Driver :
       /\ drv[d].tx.ids = Initial
       /\ drv[d].tx.status \notin {"Succeeded", "Aborted"}
       /\ drv[d].pc \notin {"idle", "persist"} => drv[d].op \in SagaHandler
       /\ drv[d].pc \in {"mark", "save", "handover"} => drv[d].op = "action"
       /\ drv[d].op = "compensate" =>
            drv[d].pc = "chosen" \/ drv[d].tx.status = "Aborting"

(* A branch that any copy of the record shows as Succeeded was accepted,   *)
(* and so was every branch that the loop of start_saga has passed.         *)
ProgressInv ==
  /\ \A key \in acked : key[1] \in Members(Initial)
  /\ \A b \in Branch :
       \/ tx.bst[b] = "Succeeded"
       \/ \E d \in Driver : drv[d].tx.bst[b] = "Succeeded"
       => <<b, "action">> \in acked
  /\ \A d \in Driver, i \in 1..Len(Initial) :
       /\ drv[d].op = "action"
       /\ \/ drv[d].pc \in {"loop", "invoke", "release"} /\ i < drv[d].pos
          \/ drv[d].pc = "save" /\ i <= drv[d].pos
       => <<Initial[i], "action">> \in acked

(* No compensation has reached a branch.                                   *)
NotUndone == \A key \in effects : key[2] # "compensate"

(* The record t shows what became of an accepted action.                   *)
Recorded(t, b) ==
  <<b, "action">> \in acked =>
    \/ t.bst[b] \in {"Succeeded", "Compensating"}
    \/ t.bst[b] = "Skipped" /\ <<b, "compensate">> \in acked

HasCopy(d) == drv[d].pc \notin {"idle", "chosen"}

(* Whoever runs is a worker; start_saga runs only while nothing is undone  *)
(* and nothing is undone but under abort_saga's decision.                  *)
TurnInv ==
  /\ \A d \in Driver : drv[d].pc # "idle" =>
       /\ d \in Worker /\ drv[d].op \in SagaHandler
       /\ drv[d].op = "action" => NotUndone /\ tx.status # "Aborted"
       /\ drv[d].op = "compensate" /\ HasCopy(d) => tx.status # "Succeeded"
  /\ \/ NotUndone
     \/ tx.status \in {"Aborting", "Aborted"}
     \/ \E d \in Driver : drv[d].op = "compensate" /\ HasCopy(d)

(* No copy is stale, and the record lags behind by at most the branch that *)
(* is being saved.                                                         *)
RecordedInv ==
  /\ \A d \in Driver : HasCopy(d) => drv[d].tx.rev = tx.rev
  /\ \A b \in Branch :
       Recorded(tx, b) \/ \E d \in Driver : drv[d].pc = "save" /\ Current(d) = b
  /\ \A d \in Driver, b \in Branch : HasCopy(d) => Recorded(drv[d].tx, b)

(* In abort_saga the branches ahead are as stored and those behind, which  *)
(* are later in the declared order, are done with.                         *)
UndoneInv ==
  \A d \in Driver, j \in 1..Len(Initial) :
    LET b  == Initial[j]
        at == Len(Initial) + 1 - drv[d].pos
    IN
    drv[d].op = "compensate" /\ HasCopy(d) =>
      /\ drv[d].tx.bst[b] = "Compensating" =>
           tx.bst[b] \in {"Succeeded", "Compensating"}
      /\ j < at \/ (j = at /\ drv[d].pc = "loop") => drv[d].tx.bst[b] = tx.bst[b]
      /\ j > at =>
           /\ drv[d].tx.bst[b] \notin {"Pending", "Succeeded", "Compensating"}
           /\ tx.bst[b] = "Compensating" => <<b, "compensate">> \in acked
      /\ j = at /\ drv[d].pc = "invoke" => tx.bst[b] \in {"Succeeded", "Compensating"}

(* What holds while one worker runs undisturbed.                           *)
UndoInv == Undisturbed => TurnInv /\ RecordedInv /\ UndoneInv

=============================================================================
