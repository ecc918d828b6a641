-------------------------------- MODULE Tcc --------------------------------
(***************************************************************************)
(* One TCC transaction: prepare_tcc, confirm_tcc and cancel_tcc, the API   *)
(* operations that start them or record a decision for the recovery        *)
(* worker, and the recovery tick, run by any number of drivers over one    *)
(* stored record and one barrier table.                                    *)
(***************************************************************************)
EXTENDS Coordinator

CONSTANT External   \* branches registered by clients that run Try themselves:
                    \* stored with an empty action and status Succeeded

ASSUME TccAssumption == External \subseteq Branch

VARIABLE nulled     \* history: branches whose Cancel was skipped as null

tccVars == <<vars, nulled>>

-----------------------------------------------------------------------------
(* The three handlers.                                                     *)

PhaseHandler == {"prepare", "confirm", "cancel"}

(* Mutant of AllowedFrom: a Cancel may start after the commit decision.    *)
AllowCancelAnytime(op) ==
  CASE op = "prepare" -> {"Submitted", "Trying"}
    [] op = "confirm" -> {"Prepared", "Succeeding"}
    [] op = "cancel"  ->
         {"Submitted", "Trying", "Prepared", "Succeeding", "Aborting"}

(* The statuses ensure_status lets the handler start from.  In any other   *)
(* the handler returns, with the record if its work is done and with an    *)
(* error if not, and changes nothing.                                      *)
AllowedFrom(op) ==
  CASE op = "prepare" -> {"Submitted", "Trying"}
    [] op = "confirm" -> {"Prepared", "Succeeding"}
    [] op = "cancel"  -> {"Submitted", "Trying", "Prepared", "Aborting"}

(* The status the handler gives its copy, before and after its loop.       *)
Working(op) ==
  CASE op = "prepare" -> "Trying"
    [] op = "confirm" -> "Succeeding"
    [] op = "cancel"  -> "Aborting"

Finished(op) ==
  CASE op = "prepare" -> "Prepared"
    [] op = "confirm" -> "Succeeded"
    [] op = "cancel"  -> "Aborted"

(* The native endpoints prepare, confirm and cancel call the handler in    *)
(* the request.                                                            *)
Call(d, op) ==
  /\ Request(d, "call", op)
  /\ tx.status \in AllowedFrom(op)
  /\ Begin(d, op, "loop", Working(op))
  /\ UNCHANGED <<tx, barriers, expired, acked, effects, nulled>>

(* prepare_tcc: one turn of the loop up to the branch call.                *)
PrepareBranch(d) ==
  LET b   == Current(d)
      key == <<b, "try">>
      dec == BarrierDecision(key)
  IN
  /\ drv[d].pc = "loop" /\ drv[d].op = "prepare" /\ MoreBranches(d)
  /\ \/ /\ drv[d].tx.bst[b] = "Succeeded"
        /\ Advance(d, drv[d].tx)
        /\ UNCHANGED barriers
     \/ /\ drv[d].tx.bst[b] # "Succeeded"
        /\ dec = "Execute"
        /\ Claim(d, Mark(d, "Running"))
     \/ /\ drv[d].tx.bst[b] # "Succeeded"
        /\ dec = "SkipCancelledTry"
        /\ Goto(d, "persist", [Mark(d, "Skipped") EXCEPT !.status = "Aborting"])
        /\ UNCHANGED barriers
     \/ /\ drv[d].tx.bst[b] # "Succeeded"
        /\ dec = "SkipDuplicate"
        /\ Advance(d, drv[d].tx)
        /\ UNCHANGED barriers
  /\ UNCHANGED <<tx, expired, budget, acked, effects, nulled>>

(* confirm_tcc: one turn of the loop up to the branch call.                *)
ConfirmBranch(d) ==
  LET key == <<Current(d), "confirm">>
  IN
  /\ drv[d].pc = "loop" /\ drv[d].op = "confirm" /\ MoreBranches(d)
  /\ \/ /\ BarrierDecision(key) = "Execute"
        /\ Claim(d, drv[d].tx)
     \/ /\ BarrierDecision(key) # "Execute"
        /\ Advance(d, drv[d].tx)
        /\ UNCHANGED barriers
  /\ UNCHANGED <<tx, expired, budget, acked, effects, nulled>>

(* cancel_tcc: one turn of the loop up to the branch call.                 *)
CancelBranch(d) ==
  LET b   == Current(d)
      key == <<b, "cancel">>
      dec == BarrierDecision(key)
  IN
  /\ drv[d].pc = "loop" /\ drv[d].op = "cancel" /\ MoreBranches(d)
  /\ \/ /\ dec = "Execute" \/ (b \in External /\ dec = "SkipNullCompensation")
        /\ Claim(d, drv[d].tx)
        /\ UNCHANGED nulled
     \/ /\ dec = "SkipNullCompensation" /\ b \notin External
        /\ barriers' = BarrierTable(key)
        /\ Advance(d, Mark(d, "Skipped"))
        /\ nulled' = nulled \cup {b}
     \/ /\ dec = "SkipDuplicate"
        /\ Advance(d, drv[d].tx)
        /\ UNCHANGED <<barriers, nulled>>
  /\ UNCHANGED <<tx, expired, budget, acked, effects>>

(* The three loops give the branch its status when the call returns Ok.    *)
BranchOk(d) ==
  /\ CallSucceeds(d)
  /\ Advance(d, Mark(d, IF drv[d].op = "cancel" THEN "Skipped" ELSE "Succeeded"))
  /\ UNCHANGED nulled

(* Mutant of BranchErr: the error is dropped and the loop goes on.         *)
BranchErrDropped(d) ==
  CallFails(d) /\ Advance(d, Mark(d, "Failed")) /\ UNCHANGED nulled

BranchErr(d) ==
  /\ CallFails(d)
  /\ Goto(d, "release", Mark(d, "Failed"))
  /\ UNCHANGED nulled

(* After a failed Try the transaction is given up once the branch used all *)
(* its attempts; after a failed Confirm or Cancel it is retried forever.   *)
AfterFailure(d) ==
  IF drv[d].op = "prepare" /\ drv[d].tx.att[Current(d)] >= MaxAttempts
  THEN "Aborting"
  ELSE drv[d].tx.status

Release(d) ==
  /\ ReleaseBarrier(d)
  /\ Goto(d, "persist", [drv[d].tx EXCEPT !.status = AfterFailure(d)])
  /\ UNCHANGED nulled

SaveCopy(d) == Save(d) /\ UNCHANGED nulled

(* The loop is over: the final status is stored.                           *)
Complete(d) ==
  /\ drv[d].pc = "loop"
  /\ ~MoreBranches(d)
  /\ Persist(d, [drv[d].tx EXCEPT !.status = Finished(drv[d].op)])
  /\ UNCHANGED <<barriers, expired, budget, acked, effects, nulled>>

-----------------------------------------------------------------------------
(* Decisions recorded for the worker, and the worker.                      *)

(* schedule_submit; Succeeding and Succeeded return without a write.       *)
ScheduleSubmit(d) ==
  /\ tx.status = "Prepared"
  /\ StatusRequest(d, "schedule_submit", "Succeeding")
  /\ UNCHANGED nulled

(* schedule_abort.                                                         *)
ScheduleAbort(d) ==
  /\ tx.status \in {"Submitted", "Trying", "Prepared", "Aborting"}
  /\ StatusRequest(d, "schedule_abort", "Aborting")
  /\ UNCHANGED nulled

(* Mutant of TickHandler: an abort decision is not picked up.              *)
TickSkipsAbort ==
  IF IsTerminal(tx.status) THEN "none"
  ELSE IF expired THEN "cancel"
  ELSE CASE tx.status \in {"Submitted", "Trying"} -> "prepare"
         [] tx.status = "Succeeding" -> "confirm"
         [] OTHER                    -> "none"

(* The handler tick_recover_once calls for the record it listed.           *)
TickHandler ==
  IF IsTerminal(tx.status) THEN "none"
  ELSE IF expired THEN "cancel"
  ELSE CASE tx.status \in {"Submitted", "Trying"} -> "prepare"
         [] tx.status = "Succeeding" -> "confirm"
         [] tx.status = "Aborting"   -> "cancel"
         [] OTHER                    -> "none"

(* The handler recover() calls for the record it read.                     *)
RecoverHandler ==
  IF ~IsTerminal(tx.status) /\ ~expired /\ tx.status = "Prepared"
  THEN "confirm" ELSE TickHandler

Tick(d) == WorkerTick(d, TickHandler) /\ UNCHANGED nulled

Recover(d) == RecoverRequest(d, RecoverHandler) /\ UNCHANGED nulled

(* The chosen handler reads the record again, and starts or is refused.    *)
StartChosen(d) ==
  /\ drv[d].pc = "chosen"
  /\ IF tx.status \in AllowedFrom(drv[d].op)
     THEN Begin(d, drv[d].op, "loop", Working(drv[d].op))
     ELSE Return(d)
  /\ UNCHANGED <<tx, barriers, expired, budget, acked, effects, nulled>>

-----------------------------------------------------------------------------

TccInit == Init /\ nulled = {}

(* One step of a handler that is running.                                  *)
HandlerStep(d) ==
  \/ PrepareBranch(d) \/ ConfirmBranch(d) \/ CancelBranch(d)
  \/ BranchOk(d) \/ BranchErr(d) \/ Release(d) \/ SaveCopy(d) \/ Complete(d)
  \/ StartChosen(d)

(* A client starts something.                                              *)
ClientStep(d) ==
  \/ \E op \in PhaseHandler : Call(d, op)
  \/ ScheduleSubmit(d) \/ ScheduleAbort(d) \/ Recover(d)
  \/ ForceStop(d) /\ UNCHANGED nulled
  \/ ResetRetry(d) /\ UNCHANGED nulled

Crash(d) == Abandon(d) /\ UNCHANGED nulled

Register ==
  \E b \in External : RegisterBranch(b, "Succeeded") /\ UNCHANGED nulled

TccNext ==
  \/ \E d \in Driver : HandlerStep(d) \/ ClientStep(d) \/ Tick(d) \/ Crash(d)
  \/ Register
  \/ Expire /\ UNCHANGED nulled

Spec == TccInit /\ [][TccNext]_tccVars

(* The worker loop keeps ticking and a handler that runs keeps running.    *)
Fairness ==
  /\ \A d \in Worker : WF_tccVars(Tick(d))
  /\ \A d \in Driver : WF_tccVars(HandlerStep(d))

FairSpec == Spec /\ Fairness

-----------------------------------------------------------------------------
(* Properties.                                                             *)

(* The variables stay in their types: the stored record, every private     *)
(* copy a handler of Dtm works on, the barrier table and the history.      *)
TccTypeOK == TypeOK /\ nulled \subseteq Branch

(* A Try never runs after its Cancel was answered as a null compensation,  *)
(* and such a Cancel never follows a Try that succeeded: a branch that     *)
(* cancel_tcc skipped has no Try in flight and none that returned Ok.      *)
NoHangingTry ==
  \A b \in nulled :
    /\ <<b, "try">> \notin acked
    /\ \A d \in Driver : InFlight(d) => DriverKey(d) # <<b, "try">>

(* With revision checks in update_transaction the stored transaction       *)
(* implements the abstract lifecycle: one decision, stable ends, and       *)
(* force_stop is permanent.                                                *)
LifecycleSpec == Lifecycle!Spec

(* A branch register_branch accepted is never dropped by a handler that    *)
(* writes back the copy it read before the registration.                   *)
RegisteredKept == [][Members(tx.ids) \subseteq Members(tx'.ids)]_tx

(* While only workers have called branches, and none of them was           *)
(* abandoned: confirm_tcc stores Succeeded once every branch accepted      *)
(* Confirm, and cancel_tcc stores Aborted once Cancel was accepted by      *)
(* every branch whose Try succeeded or is run by the client, branches that *)
(* registered in between included.                                         *)
EndsComplete ==
  WorkersOnly =>
    \A b \in Members(tx.ids) :
      /\ tx.status = "Succeeded" => <<b, "confirm">> \in acked
      /\ tx.status = "Aborted" /\ (b \in External \/ <<b, "try">> \in acked) =>
           <<b, "cancel">> \in acked

(* While only workers have called branches, and none of them was           *)
(* abandoned, confirm_tcc and cancel_tcc do not both reach branches of one *)
(* transaction, even when the timeout races schedule_submit.               *)
DecisionExclusive ==
  WorkersOnly =>
    \A b, c \in Branch :
      ~(<<b, "confirm">> \in effects /\ <<c, "cancel">> \in effects)

(* A decision that schedule_submit, schedule_abort or prepare_tcc stored   *)
(* is carried out, also after crashes; a commit, unless the transaction    *)
(* expires first.                                                          *)
DecisionsCarriedOut ==
  /\ tx.status = "Succeeding" ~> tx.status \in {"Succeeded", "Failed"} \/ expired
  /\ tx.status = "Aborting" ~> tx.status \in {"Aborted", "Failed"}

(* A decision to commit that schedule_submit stored is carried out by      *)
(* confirm_tcc, whatever the timeout.                                      *)
CommitCarriedOut ==
  tx.status = "Succeeding" ~> tx.status \in {"Succeeded", "Failed"}

-----------------------------------------------------------------------------
(* The inductive invariants behind the properties above.                   *)

(* Program counter, handler and status of a driver's copy fit together;    *)
(* only Complete writes a Succeeded or an Aborted that is new.             *)
ControlInv ==
  \A d \in Driver :
    /\ drv[d].pc \in {"idle", "chosen", "loop", "invoke", "release", "persist"}
    /\ drv[d].pc = "chosen" => drv[d].op \in PhaseHandler
    /\ drv[d].pc \in {"loop", "invoke", "release"} =>
         drv[d].op \in PhaseHandler /\ drv[d].tx.status = Working(drv[d].op)
    /\ drv[d].pc = "persist" => drv[d].tx.status \notin {"Succeeded", "Aborted"}

(* A key that answered a Cancel as null is in the table and has no owner,  *)
(* and it keeps the Try of its branch out.                                 *)
NullInv ==
  \A b \in nulled :
    /\ b \notin External
    /\ <<b, "cancel">> \in barriers
    /\ <<b, "try">> \notin barriers
    /\ \A d \in Driver : InFlight(d) => DriverKey(d) # <<b, "cancel">>

(* While only workers have called branches: whoever calls branches is a    *)
(* worker, and a key in the table was accepted, is being called, or        *)
(* answered a Cancel as null.                                              *)
SettledInv ==
  WorkersOnly =>
    /\ \A d \in Driver :
         drv[d].pc \in {"chosen", "loop", "invoke", "release"} => d \in Worker
    /\ \A key \in barriers \ acked :
         \/ \E d \in Driver : InFlight(d) /\ DriverKey(d) = key
         \/ key[2] = "cancel" /\ key[1] \in nulled

(* With one worker, moreover: what the loops of confirm_tcc and cancel_tcc *)
(* leave behind is accepted or null, and so is all of it at the end.       *)
Resolved(b, op) == <<b, op>> \in acked \/ (op = "cancel" /\ b \in nulled)

PassedInv ==
  WorkersOnly =>
    \A d \in Driver :
      /\ drv[d].pc \in {"loop", "invoke", "release"}
      /\ drv[d].op \in {"confirm", "cancel"}
      => \A i \in 1..Len(drv[d].tx.ids) :
           i < drv[d].pos => Resolved(drv[d].tx.ids[i], drv[d].op)

EndInv ==
  WorkersOnly =>
    \A b \in Members(tx.ids) :
      /\ tx.status = "Succeeded" => Resolved(b, "confirm")
      /\ tx.status = "Aborted" => Resolved(b, "cancel")

(* With revision checks: a copy whose write would be accepted was taken    *)
(* from the stored record as it is now.                                    *)
FreshCopy(d) ==
  /\ drv[d].tx.ids = tx.ids
  /\ drv[d].op \in PhaseHandler =>
       /\ tx.status \in AllowedFrom(drv[d].op)
       /\ \/ drv[d].tx.status = Working(drv[d].op)
          \/ drv[d].op = "prepare" /\ drv[d].tx.status = "Aborting"
  /\ drv[d].op \notin PhaseHandler =>
       Phase(drv[d].tx.status) \in Lifecycle!Successors(Phase(tx.status))

CasInv ==
  Cas => \A d \in Driver :
           drv[d].pc \in {"loop", "invoke", "release", "persist"} =>
             /\ drv[d].tx.rev <= tx.rev
             /\ drv[d].tx.rev = tx.rev => FreshCopy(d)

(* Handler op is at work or has reached a branch, or is about to.          *)
Acting(op) ==
  \/ \E key \in effects : key[2] = op
  \/ \E d \in Driver :
       drv[d].op = op /\ drv[d].pc \in {"loop", "invoke", "release"}

Chosen(op) == \E d \in Driver : drv[d].op = op /\ drv[d].pc = "chosen"

(* confirm_tcc is only chosen for a record that says so, cancel_tcc for    *)
(* one that says so or because the timeout has elapsed; and cancel_tcc     *)
(* does not start once confirm_tcc was chosen.                             *)
DecidedInv ==
  WorkersOnly =>
    /\ Acting("confirm") \/ Chosen("confirm") =>
         tx.status \in {"Succeeding", "Succeeded", "Failed"}
    /\ Acting("cancel") \/ Chosen("cancel") =>
         expired \/ tx.status \in {"Aborting", "Aborted", "Failed"}
    /\ ~((Acting("confirm") \/ Chosen("confirm")) /\ Acting("cancel"))

=============================================================================
