------------------------------ MODULE Message ------------------------------
(***************************************************************************)
(* One two-phase Message transaction: prepare_message, dispatch_message,   *)
(* which stores the submit decision and delivers once the delay has passed *)
(* in declared order, or with options.concurrent to all branches at once,  *)
(* and abort_message.                                                      *)
(***************************************************************************)
EXTENDS Layers

CONSTANT Delayed   \* does the Message carry options.delay_millis

(* submit() of a Message refuses a branch id that occurs twice.            *)
ASSUME MessageAssumption ==
  /\ Delayed \in BOOLEAN
  /\ \A i, j \in 1..Len(Initial) : Initial[i] = Initial[j] => i = j

VARIABLES
  due,         \* message_dispatch_due
  concurrent   \* options.concurrent, fixed by submit

messageVars == <<layerVars, due, concurrent>>

(* What a step outside of a layer leaves alone.                            *)
fixed == <<due, concurrent, layer>>

MessageHandler == {"prepare", "message", "abort_message"}

(* The statuses ensure_status lets the handler start from.                 *)
AllowedFrom(op) ==
  CASE op = "prepare"       -> {"Submitted"}
    [] op = "message"       -> {"Submitted", "Prepared", "Succeeding"}
    [] op = "abort_message" -> {"Submitted", "Prepared"}

(* The record as abort_message leaves it.                                  *)
Dropped ==
  [tx EXCEPT !.status = "Aborted",
             !.bst = [b \in Branch |->
                        IF b \in Members(tx.ids) THEN "Skipped" ELSE @[b]]]

(* The handler read the record.  A dispatch that finds the decision stored *)
(* has nothing to do before the Message is due.                            *)
Enter(d, op) ==
  \/ op = "prepare" /\ Begin(d, op, "persist", "Prepared")
  \/ /\ op = "abort_message"
     /\ drv' = [drv EXCEPT ![d] =
                  [Idle EXCEPT !.pc = "persist", !.op = op, !.tx = Dropped]]
  \/ /\ op = "message" /\ tx.status # "Succeeding"
     /\ Begin(d, op, "mark", "Succeeding")
  \/ /\ op = "message" /\ tx.status = "Succeeding"
     /\ IF due THEN Begin(d, op, "loop", "Succeeding") ELSE Return(d)

(* The endpoints prepare, dispatch and abort call the handler in the       *)
(* request; schedule_abort of a Message is abort_message.                  *)
Call(d, op) ==
  /\ Request(d, IF op = "message" THEN "call" ELSE "request", op)
  /\ tx.status \in AllowedFrom(op)
  /\ Enter(d, op)
  /\ UNCHANGED <<tx, barriers, expired, acked, effects, fixed>>

(* Mutant of StoreMark: the delay is not looked at.                        *)
StoreMarkAtOnce(d) ==
  /\ drv[d].pc = "mark"
  /\ PersistAndGo(d, drv[d].tx, "loop", 1)
  /\ UNCHANGED <<barriers, expired, budget, acked, effects, fixed>>

(* dispatch_message stores the decision, and goes on if the Message is due.*)
StoreMark(d) ==
  /\ drv[d].pc = "mark"
  /\ IF due
     THEN PersistAndGo(d, drv[d].tx, "loop", 1)
     ELSE Persist(d, drv[d].tx)
  /\ UNCHANGED <<barriers, expired, budget, acked, effects, fixed>>

(* One turn of the delivery loop up to the call.  A barrier that another   *)
(* driver holds counts as delivered.                                       *)
DeliverBranch(d) ==
  LET open == /\ drv[d].tx.bst[Current(d)] # "Succeeded"
              /\ BarrierDecision(DriverKey(d)) = "Execute"
  IN
  /\ drv[d].pc = "loop" /\ ~concurrent /\ MoreBranches(d)
  /\ \/ open /\ Claim(d, Mark(d, "Running"))
     \/ ~open /\ Advance(d, drv[d].tx) /\ UNCHANGED barriers
  /\ UNCHANGED <<tx, expired, budget, acked, effects, fixed>>

BranchOk(d) ==
  /\ CallSucceeds(d)
  /\ Advance(d, Mark(d, "Succeeded"))
  /\ UNCHANGED fixed

BranchErr(d) ==
  /\ CallFails(d)
  /\ Goto(d, "release", Mark(d, "Failed"))
  /\ UNCHANGED fixed

Release(d) ==
  ReleaseBarrier(d) /\ Goto(d, "persist", drv[d].tx) /\ UNCHANGED fixed

SaveCopy(d) == Save(d) /\ UNCHANGED fixed

Complete(d) ==
  /\ drv[d].pc = "loop" /\ ~concurrent
  /\ ~MoreBranches(d)
  /\ Persist(d, [drv[d].tx EXCEPT !.status = "Succeeded"])
  /\ UNCHANGED <<barriers, expired, budget, acked, effects, fixed>>

-----------------------------------------------------------------------------
(* Concurrent delivery: one layer of all branches that are open.           *)

OpenBranches(d) ==
  {b \in Members(drv[d].tx.ids) : drv[d].tx.bst[b] # "Succeeded"}

DeliverAll(d) ==
  /\ drv[d].pc = "loop" /\ concurrent
  /\ \/ /\ OpenBranches(d) = {}
        /\ Persist(d, [drv[d].tx EXCEPT !.status = "Succeeded"])
        /\ UNCHANGED layer
     \/ /\ OpenBranches(d) # {}
        /\ EnterLayer(d, OpenBranches(d)) /\ UNCHANGED tx
  /\ UNCHANGED <<barriers, expired, budget, acked, effects, due, concurrent>>

(* Mutant of StoreJoined: the mixed result counts as delivered.            *)
StoreSucceeded(d) ==
  /\ Joined(d)
  /\ Persist(d, [drv[d].tx EXCEPT !.status = "Succeeded"])
  /\ LeaveLayer(d)
  /\ UNCHANGED <<barriers, expired, budget, acked, effects, due, concurrent>>

(* The mixed result is stored, and stays open if a call failed.            *)
StoreJoined(d) ==
  /\ Joined(d)
  /\ Persist(d, [drv[d].tx EXCEPT !.status =
                   IF FailedTasks(d) = {} THEN "Succeeded" ELSE "Succeeding"])
  /\ LeaveLayer(d)
  /\ UNCHANGED <<barriers, expired, budget, acked, effects, due, concurrent>>

-----------------------------------------------------------------------------
(* Decisions recorded for the worker, and the worker.                      *)

ScheduleSubmit(d) ==
  /\ tx.status \in {"Submitted", "Prepared"}
  /\ StatusRequest(d, "schedule_submit", "Succeeding")
  /\ UNCHANGED fixed

(* Mutant of TickHandler: the timeout also aborts a Message that was       *)
(* submitted.                                                              *)
TickExpiresSubmitted ==
  CASE IsTerminal(tx.status)   -> "none"
    [] ~IsTerminal(tx.status) /\ expired -> "abort_message"
    [] ~expired /\ tx.status = "Succeeding" -> IF due THEN "message" ELSE "none"
    [] ~expired /\ tx.status = "Submitted" -> "prepare"
    [] OTHER                   -> "none"

(* The handler tick_recover_once calls for the record.                     *)
TickHandler ==
  CASE IsTerminal(tx.status)   -> "none"
    [] tx.status = "Succeeding" -> IF due THEN "message" ELSE "none"
    [] tx.status = "Submitted" -> IF expired THEN "abort_message" ELSE "prepare"
    [] OTHER                   -> IF expired THEN "abort_message" ELSE "none"

(* The handler recover() calls.                                            *)
RecoverHandler ==
  IF tx.status = "Prepared" /\ ~expired THEN "message" ELSE TickHandler

Tick(d) == WorkerTick(d, TickHandler) /\ UNCHANGED fixed

Recover(d) == RecoverRequest(d, RecoverHandler) /\ UNCHANGED fixed

StartChosen(d) ==
  /\ drv[d].pc = "chosen"
  /\ IF tx.status \in AllowedFrom(drv[d].op)
     THEN Enter(d, drv[d].op)
     ELSE Return(d)
  /\ UNCHANGED <<tx, barriers, expired, budget, acked, effects, fixed>>

(* created_at_millis + delay_millis is reached.                            *)
DelayPasses ==
  ~due /\ due' = TRUE /\ UNCHANGED <<layerVars, concurrent>>

-----------------------------------------------------------------------------

MessageInit == LayerInit /\ due = ~Delayed /\ concurrent \in BOOLEAN

HandlerStep(d) ==
  \/ StartChosen(d) \/ StoreMark(d) \/ DeliverBranch(d) \/ BranchOk(d)
  \/ BranchErr(d) \/ Release(d) \/ SaveCopy(d) \/ Complete(d)
  \/ DeliverAll(d) \/ StoreJoined(d)
  \/ LayerStep(d) /\ UNCHANGED <<due, concurrent>>

ClientStep(d) ==
  \/ \E op \in MessageHandler : Call(d, op)
  \/ ScheduleSubmit(d) \/ Recover(d)
  \/ (ForceStop(d) \/ ResetRetry(d)) /\ UNCHANGED fixed

Crash(d) ==
  \/ AbandonLayer(d) /\ UNCHANGED <<due, concurrent>>
  \/ /\ drv[d].pc \notin {"claim", "unclaim", "calls"}
     /\ Abandon(d) /\ UNCHANGED fixed

MessageNext ==
  \/ \E d \in Driver : HandlerStep(d) \/ ClientStep(d) \/ Tick(d) \/ Crash(d)
  \/ Expire /\ UNCHANGED fixed
  \/ DelayPasses

Spec == MessageInit /\ [][MessageNext]_messageVars

(* The worker loop keeps ticking, a handler that runs keeps running, and   *)
(* the delay passes.                                                       *)
Fairness ==
  /\ \A d \in Worker : WF_messageVars(Tick(d))
  /\ \A d \in Driver : WF_messageVars(HandlerStep(d))
  /\ WF_messageVars(DelayPasses)

FairSpec == Spec /\ Fairness

-----------------------------------------------------------------------------
(* Properties.                                                             *)

Delivered == {b \in Branch : <<b, "message">> \in effects}

(* dispatch_message stores the submit decision before it delivers, and     *)
(* the decision stays: nothing is delivered of a Message whose record says *)
(* that it was not submitted or that it was aborted.                       *)
DecisionFirst ==
  Delivered # {} => tx.status \in {"Succeeding", "Succeeded", "Failed"}

(* Nothing is delivered before the delay has passed, whichever of          *)
(* dispatch_message, schedule_submit and the tick gets there first.        *)
NotBeforeDue == Delivered # {} => due

(* While only workers have called branches, dispatch_message stores        *)
(* Succeeded once every branch has accepted, and delivers in declared      *)
(* order unless the Message is concurrent.                                 *)
DeliveryComplete ==
  WorkersOnly =>
    \A i \in 1..Len(Initial) :
      \/ tx.status = "Succeeded"
      \/ /\ ~concurrent
         /\ \E j \in (i + 1)..Len(Initial) : Initial[j] \in Delivered
      => <<Initial[i], "message">> \in acked

(* The barrier of a branch that is open and that nobody is delivering: its *)
(* driver died in a layer, or a write of its was refused.                  *)
Leaked ==
  \E b \in Members(Initial) :
    /\ <<b, "message">> \in barriers /\ tx.bst[b] # "Succeeded"
    /\ \A d \in Driver : b \notin layer[d].held

(* A Message that was submitted ends, also if it expired and if drivers of *)
(* dispatch_message died; a concurrent one unless the barrier of a layer   *)
(* was leaked.  It ends Failed or delivered to every branch; but one that  *)
(* is not concurrent only while none but workers have called branches and  *)
(* none of them died: SkipDuplicate passes for an acceptance, so that      *)
(* Succeeded is stored undelivered when another driver holds the barrier   *)
(* or died with it.                                                        *)
DeliveryCompletes ==
  tx.status = "Succeeding" ~>
    \/ /\ tx.status = "Succeeded"
       /\ (concurrent \/ WorkersOnly) =>
            \A b \in Members(Initial) : <<b, "message">> \in acked
    \/ tx.status = "Failed"
    \/ concurrent /\ Leaked

-----------------------------------------------------------------------------
(* The inductive invariants behind DecisionFirst and NotBeforeDue.         *)

MessageTypeOK == tx \in Transaction /\ drv \in [Driver -> LayerDriver]

ControlInv ==
  \A d \in Driver : drv[d].pc = "chosen" => drv[d].op \in MessageHandler

(* A driver in state s is in dispatch_message, past the stored decision.   *)
Delivers(s) ==
  s.pc \in {"loop", "invoke", "release", "claim", "unclaim", "calls"}

DueInv == \A d \in Driver : Delivers(drv[d]) => due

HasCopy(s) == s.pc \notin {"idle", "chosen"}

(* A copy is of the record as it is, and what the driver is about to store *)
(* may follow it; or it is of an older one, and cannot be stored.          *)
CopyInv ==
  \A d \in Driver : HasCopy(drv[d]) =>
    /\ drv[d].tx.rev <= tx.rev
    /\ drv[d].tx.rev = tx.rev =>
         Phase(drv[d].tx.status) \in Lifecycle!Successors(Phase(tx.status))
    /\ Delivers(drv[d]) \/ drv[d].pc = "mark" => drv[d].tx.status = "Succeeding"

(* A driver only delivers what was decided.                                *)
DecidedInv ==
  \A d \in Driver : Delivers(drv[d]) =>
    tx.status \in {"Succeeding", "Succeeded", "Failed"}

-----------------------------------------------------------------------------
(* The inductive invariant behind DeliveryComplete.                        *)

(* A branch that t shows as Succeeded has accepted.                        *)
Confirmed(t) ==
  /\ t.ids = Initial
  /\ \A b \in Branch : t.bst[b] = "Succeeded" => <<b, "message">> \in acked

(* The layer of concurrent delivery holds every branch that is open, and   *)
(* one whose call has ended is shown as Succeeded or as Failed.            *)
Covered(s, l) ==
  /\ s.pc = "calls" => l.calling \subseteq l.held
  /\ \A b \in Members(Initial) : s.tx.bst[b] # "Succeeded" =>
       /\ s.pc = "claim" => b \in l.todo \cup l.held
       /\ s.pc = "calls" =>
            b \in l.held /\ (b \in l.calling \/ s.tx.bst[b] = "Failed")

(* A driver in state s and layer l.                                        *)
DispatchInv(s, l) ==
  /\ Confirmed(s.tx) /\ s.tx.status # "Succeeded"
  /\ Delivers(s) \/ s.pc = "mark" => s.op = "message" /\ s.pos >= 1
  /\ s.pc \in {"claim", "unclaim", "calls"} => concurrent
  /\ s.pc \in {"invoke", "release"} =>
       ~concurrent /\ s.pos <= Len(Initial)
  /\ s.pc \notin {"claim", "unclaim", "calls"} => l = NoLayer
  /\ Covered(s, l)

(* Delivery in declared order, by the one worker: what is behind it, and   *)
(* behind what was delivered, has accepted, and so has every branch whose  *)
(* barrier is set but for the one that is being called.                    *)
InSequence ==
  /\ \A d \in Driver : drv[d].pc \notin {"idle", "persist"} => d \in Worker
  /\ \A d \in Driver, i \in 1..Len(Initial) :
       drv[d].pc \in {"loop", "invoke", "release"} /\ i < drv[d].pos =>
         <<Initial[i], "message">> \in acked
  /\ \A b \in Branch : <<b, "message">> \in barriers =>
       \/ <<b, "message">> \in acked
       \/ \E d \in Driver : InFlight(d) /\ Initial[drv[d].pos] = b
  /\ \A i, j \in 1..Len(Initial) :
       i < j /\ <<Initial[j], "message">> \in effects =>
         <<Initial[i], "message">> \in acked

DeliveryInv ==
  /\ LayersTypeOK
  /\ Confirmed(tx)
  /\ \A d \in Driver : DispatchInv(drv[d], layer[d])
  /\ tx.status = "Succeeded" /\ (concurrent \/ WorkersOnly) =>
       \A b \in Members(Initial) : <<b, "message">> \in acked
  /\ ~concurrent /\ WorkersOnly => InSequence

=============================================================================
