--------------------------------- MODULE Xa ---------------------------------
(***************************************************************************)
(* One XA transaction as the coordinator drives it: prepare_xa, commit_xa  *)
(* and rollback_xa, branches that register while it is open, the scheduled *)
(* decisions and the recovery tick.                                        *)
(***************************************************************************)
EXTENDS Coordinator

XaHandler == {"prepare", "commit", "rollback"}

(* The statuses ensure_status lets the handler start from.                 *)
AllowedFrom(op) ==
  CASE op = "prepare"  -> {"Submitted"}
    [] op = "commit"   -> {"Prepared", "Succeeding"}
    [] op = "rollback" -> {"Submitted", "Prepared", "Aborting"}

(* Neither phase-2 handler writes before its loop.                         *)
Enter(d, op) ==
  \/ op = "prepare" /\ Begin(d, op, "persist", "Prepared")
  \/ op = "commit" /\ Begin(d, op, "loop", "Succeeding")
  \/ op = "rollback" /\ Begin(d, op, "loop", "Aborting")

(* The endpoints prepare, commit and rollback call the handler in the      *)
(* request.                                                                *)
Call(d, op) ==
  /\ Request(d, IF op = "prepare" THEN "request" ELSE "call", op)
  /\ tx.status \in AllowedFrom(op)
  /\ Enter(d, op)
  /\ UNCHANGED <<tx, barriers, expired, acked, effects>>

(* One turn of either phase-2 loop up to the branch call.                  *)
ResolveBranch(d) ==
  LET free == BarrierDecision(DriverKey(d)) = "Execute"
  IN
  /\ drv[d].pc = "loop" /\ MoreBranches(d)
  /\ \/ free /\ Claim(d, drv[d].tx)
     \/ ~free /\ Advance(d, drv[d].tx) /\ UNCHANGED barriers
  /\ UNCHANGED <<tx, expired, budget, acked, effects>>

BranchOk(d) ==
  /\ CallSucceeds(d)
  /\ Advance(d, Mark(d, IF drv[d].op = "commit" THEN "Succeeded" ELSE "Skipped"))

(* Mutant of BranchErr: the error is dropped and the loop goes on.         *)
BranchErrDropped(d) == CallFails(d) /\ Advance(d, Mark(d, "Failed"))

BranchErr(d) == CallFails(d) /\ Goto(d, "release", Mark(d, "Failed"))

Release(d) == ReleaseBarrier(d) /\ Goto(d, "persist", drv[d].tx)

Complete(d) ==
  LET end == IF drv[d].op = "commit" THEN "Succeeded" ELSE "Aborted"
  IN
  /\ drv[d].pc = "loop"
  /\ ~MoreBranches(d)
  /\ Persist(d, [drv[d].tx EXCEPT !.status = end])
  /\ UNCHANGED <<barriers, expired, budget, acked, effects>>

-----------------------------------------------------------------------------
(* Decisions recorded for the worker, and the worker.                      *)

ScheduleSubmit(d) ==
  tx.status = "Prepared" /\ StatusRequest(d, "schedule_submit", "Succeeding")

(* Mutant of ScheduleAbort: a commit decision can be revoked.              *)
ScheduleAbortAnytime(d) ==
  ~IsTerminal(tx.status) /\ StatusRequest(d, "schedule_abort", "Aborting")

ScheduleAbort(d) ==
  /\ tx.status \in {"Submitted", "Prepared", "Aborting"}
  /\ StatusRequest(d, "schedule_abort", "Aborting")

(* The handler tick_recover_once calls for the record.                     *)
TickHandler ==
  CASE IsTerminal(tx.status)    -> "none"
    [] tx.status = "Succeeding" -> "commit"
    [] tx.status = "Aborting"   -> "rollback"
    [] tx.status = "Submitted"  -> IF expired THEN "rollback" ELSE "prepare"
    [] OTHER                    -> IF expired THEN "rollback" ELSE "none"

(* The handler recover() calls.                                            *)
RecoverHandler ==
  IF tx.status = "Prepared" /\ ~expired THEN "commit" ELSE TickHandler

Tick(d) == WorkerTick(d, TickHandler)

StartChosen(d) ==
  /\ drv[d].pc = "chosen"
  /\ IF tx.status \in AllowedFrom(drv[d].op)
     THEN Enter(d, drv[d].op)
     ELSE Return(d)
  /\ UNCHANGED <<tx, barriers, expired, budget, acked, effects>>

-----------------------------------------------------------------------------

HandlerStep(d) ==
  \/ StartChosen(d) \/ ResolveBranch(d) \/ BranchOk(d) \/ BranchErr(d)
  \/ Release(d) \/ Save(d) \/ Complete(d)

ClientStep(d) ==
  \/ \E op \in XaHandler : Call(d, op)
  \/ ScheduleSubmit(d) \/ ScheduleAbort(d)
  \/ RecoverRequest(d, RecoverHandler)
  \/ ForceStop(d) \/ ResetRetry(d)

(* registerXaBranch: a resource that prepared its part joins.              *)
Register == \E b \in Branch : RegisterBranch(b, "Pending")

XaNext ==
  \/ \E d \in Driver : HandlerStep(d) \/ ClientStep(d) \/ Tick(d) \/ Abandon(d)
  \/ Register
  \/ Expire

Spec == Init /\ [][XaNext]_vars

(* The worker loop keeps ticking and a handler that runs keeps running.    *)
Fairness ==
  /\ \A d \in Worker : WF_vars(Tick(d))
  /\ \A d \in Driver : WF_vars(HandlerStep(d))

FairSpec == Spec /\ Fairness

-----------------------------------------------------------------------------
(* Properties.                                                             *)

Committed == {b \in Branch : <<b, "commit">> \in effects}
RolledBack == {b \in Branch : <<b, "rollback">> \in effects}

(* Not both of commit_xa and rollback_xa have reached a resource.          *)
XaAtomic == Committed = {} \/ RolledBack = {}

(* While only workers have called resources and the timeout has not        *)
(* elapsed, commit_xa and rollback_xa never both reach a resource.         *)
XaExclusive == WorkersOnly /\ ~expired => XaAtomic

(* The end that is stored was accepted by every registered resource.       *)
Ended ==
  \A b \in Members(tx.ids) :
    /\ tx.status = "Succeeded" => <<b, "commit">> \in acked
    /\ tx.status = "Aborted" => <<b, "rollback">> \in acked

(* While only workers have called resources, commit_xa stores Succeeded    *)
(* and rollback_xa stores Aborted only when every registered resource      *)
(* accepted, the ones that registered late included.                       *)
EndsComplete == WorkersOnly => Ended

-----------------------------------------------------------------------------
(* The inductive invariants behind the properties above.                   *)

(* The status commit_xa and rollback_xa give their copy before the loop,   *)
(* and prepare_xa before its write.                                        *)
Working(op) ==
  CASE op = "prepare"  -> "Prepared"
    [] op = "commit"   -> "Succeeding"
    [] op = "rollback" -> "Aborting"

(* Program counter, handler and status of a driver's copy fit together;    *)
(* only Complete writes a Succeeded or an Aborted that is new.             *)
ControlInv ==
  \A d \in Driver :
    /\ drv[d].pc \in {"idle", "chosen", "loop", "invoke", "release", "persist"}
    /\ drv[d].pc = "chosen" => drv[d].op \in XaHandler
    /\ drv[d].pc \in {"loop", "invoke", "release"} =>
         /\ drv[d].op \in {"commit", "rollback"}
         /\ drv[d].tx.status = Working(drv[d].op)
    /\ drv[d].pc = "persist" => drv[d].tx.status \notin {"Succeeded", "Aborted"}

(* A key in the table was accepted or is being called.                     *)
Held ==
  \A key \in barriers \ acked :
    \E d \in Driver : InFlight(d) /\ DriverKey(d) = key

(* While only workers have called resources: whoever drives the resources  *)
(* is a worker.                                                            *)
SettledInv ==
  WorkersOnly =>
    /\ \A d \in Driver :
         drv[d].pc \in {"chosen", "loop", "invoke", "release"} => d \in Worker
    /\ Held

(* A loop leaves only accepted branches behind.                            *)
Passed ==
  \A d \in Driver : drv[d].pc \in {"loop", "invoke", "release"} =>
    \A i \in 1..Len(drv[d].tx.ids) :
      i < drv[d].pos => <<drv[d].tx.ids[i], drv[d].op>> \in acked

(* With one worker, moreover.                                              *)
PassedInv == WorkersOnly => Passed

(* With revision checks: a copy whose write would be accepted was taken    *)
(* from the stored record as it is now.                                    *)
FreshCopy(d) ==
  /\ drv[d].tx.ids = tx.ids
  /\ drv[d].op \in XaHandler =>
       tx.status \in AllowedFrom(drv[d].op) /\ drv[d].tx.status = Working(drv[d].op)
  /\ drv[d].op \notin XaHandler =>
       Phase(drv[d].tx.status) \in Lifecycle!Successors(Phase(tx.status))

CasInv ==
  \A d \in Driver :
    drv[d].pc \in {"loop", "invoke", "release", "persist"} =>
      /\ drv[d].tx.rev <= tx.rev
      /\ drv[d].tx.rev = tx.rev => FreshCopy(d)

(* Handler op is at work or has reached a resource.                        *)
Acting(op) ==
  \/ \E key \in effects : key[2] = op
  \/ \E d \in Driver : /\ drv[d].op = op
                       /\ drv[d].pc \in {"chosen", "loop", "invoke", "release"}

(* ... and then the record says so and the other handler is not.           *)
DecidedInv ==
  WorkersOnly /\ ~expired =>
    /\ Acting("commit") => tx.status \in {"Succeeding", "Succeeded", "Failed"}
    /\ Acting("rollback") => tx.status \in {"Aborting", "Aborted", "Failed"}
    /\ ~(Acting("commit") /\ Acting("rollback"))

=============================================================================
