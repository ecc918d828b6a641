----------------------------- MODULE SagaProofs -----------------------------
(***************************************************************************)
(* Proofs of the safety properties of Saga for every list of branches,     *)
(* every number of clients and every bound.                                *)
(***************************************************************************)
EXTENDS ConcurrentSaga, CoordinatorProofs

-----------------------------------------------------------------------------
(* The actions of Saga in the shapes of CoordinatorProofs.                 *)

EntryPc(op) == IF op = "action" THEN "mark" ELSE "loop"

Working(op) == IF op = "action" THEN "Succeeding" ELSE "Aborting"

Finished(op) == IF op = "action" THEN "Succeeded" ELSE "Aborted"

Due == {"Succeeded", "Compensating"}

(* A tick or recover() chooses a handler.                                  *)
ChooseShape(d) ==
  \E op \in SagaHandler :
    /\ Chooses(d, op)
    /\ \/ d \in Worker /\ drv[d].pc = "idle" /\ budget' = budget
          /\ op = RecoverHandler
       \/ Spend("call")

(* A handler starts, in a worker or in a request.                          *)
StartShape(d) ==
  \E op \in SagaHandler, t \in Transaction :
    /\ Takes(d, op, EntryPc(op), t)
    /\ tx.status \in AllowedFrom(op) /\ t.status = Working(op)
    /\ \/ drv[d].pc = "chosen" /\ drv[d].op = op /\ budget' = budget
       \/ Spend("call")

(* A request reads the record to write it with a new status.               *)
RequestShape(d) ==
  \E op \in Handler \ SagaHandler, t \in Transaction :
    /\ Takes(d, op, "persist", t)
    /\ t.status \notin {"Succeeded", "Aborted"}
    /\ Spend("request")

(* The handler is refused, or finds its branch taken.                      *)
EndShape(d) ==
  /\ drv[d].pc = "chosen" \/ (drv[d].pc = "loop" /\ drv[d].op = "action")
  /\ Ends(d)

(* The writes of start_saga before and in its loop.                        *)
StoreShape(d) ==
  \/ drv[d].pc = "mark" /\ StoresOn(d, drv[d].tx, 1)
  \/ drv[d].pc = "save" /\ StoresOn(d, drv[d].tx, drv[d].pos + 1)

(* start_saga passes a branch that is done, abort_saga one that is not due.*)
PassShape(d) ==
  /\ drv[d].pc = "loop" /\ drv[d].op = "action" /\ MoreBranches(d)
  /\ Status(d) = "Succeeded"
  /\ Moves(d, "loop", drv[d].pos + 1, drv[d].tx)

SkipShape(d) ==
  /\ drv[d].pc = "loop" /\ drv[d].op = "compensate" /\ MoreBranches(d)
  /\ Status(d) \notin Due
  /\ \E t : /\ Moves(d, "loop", drv[d].pos + 1, t)
            /\ IF Status(d) = "Pending" THEN Marks(d, t, "Skipped")
                                        ELSE t = drv[d].tx

(* A due branch whose key is taken, and a key that is free.                *)
StuckShape(d) ==
  /\ drv[d].pc = "loop" /\ drv[d].op = "compensate" /\ MoreBranches(d)
  /\ Status(d) \in Due
  /\ \E t : /\ Moves(d, "persist", drv[d].pos, t)
            /\ Marks(d, t, "Compensating")

ClaimShape(d) ==
  \E t : /\ Claims(d, t)
         /\ \/ drv[d].op = "action" /\ Marks(d, t, "Running")
            \/ /\ drv[d].op = "compensate" /\ Status(d) \in Due
               /\ Marks(d, t, "Compensating")

(* The call and what follows it.                                           *)
ActionOkShape(d) ==
  /\ drv[d].op = "action"
  /\ \E t : Accepted(d, "save", drv[d].pos, t) /\ Marks(d, t, "Succeeded")

CompensateOkShape(d) ==
  /\ drv[d].op = "compensate"
  /\ \E t : Accepted(d, "loop", drv[d].pos + 1, t) /\ Marks(d, t, "Skipped")

ErrShape(d) ==
  \E t : /\ Rejected(d, "release", t)
         /\ \/ drv[d].op = "action" /\ Marks(d, t, "Failed")
            \/ drv[d].op = "compensate" /\ Marks(d, t, "Compensating")

GiveUpShape(d) ==
  /\ drv[d].op = "action"
  /\ \E t : /\ Rejected(d, "handover", t)
            /\ t.status = "Aborting"
            /\ \A b \in Branch :
                 \/ t.bst[b] = "Compensating"
                 \/ t.bst[b] = drv[d].tx.bst[b] /\ t.bst[b] # "Succeeded"

HandShape(d) == HandsOver(d, drv[d].tx, "compensate")

SaveShape(d) == drv[d].pc = "persist" /\ Writes(d, drv[d].tx)

CompleteShape(d) ==
  /\ drv[d].pc = "loop" /\ ~MoreBranches(d)
  /\ \E t : /\ Writes(d, t)
            /\ t.status = Finished(drv[d].op) /\ t.bst = drv[d].tx.bst

DriverShape(d) ==
  \/ ChooseShape(d) \/ StartShape(d) \/ RequestShape(d) \/ EndShape(d)
  \/ StoreShape(d) \/ PassShape(d) \/ SkipShape(d) \/ StuckShape(d)
  \/ ClaimShape(d) \/ ActionOkShape(d) \/ CompensateOkShape(d)
  \/ ErrShape(d) \/ GiveUpShape(d) \/ Releases(d, drv[d].tx)
  \/ HandShape(d) \/ SaveShape(d) \/ CompleteShape(d) \/ Abandons(d)

LEMMA EnterShape ==
  ASSUME CoreInv, NEW d \in Driver, NEW op \in SagaHandler, Enter(d, op),
         ~InFlight(d), UNCHANGED <<tx, barriers, expired, acked, effects>>
  PROVE  \E t \in Transaction :
           Takes(d, op, EntryPc(op), t) /\ t.status = Working(op)
<1>1. /\ Begin(d, op, EntryPc(op), Working(op))
      /\ op \in Handler /\ EntryPc(op) \in Pc /\ Working(op) \in TransactionStatus
  BY DEF Enter, EntryPc, Working, SagaHandler, Handler, Pc, TransactionStatus
<1> DEFINE t == [tx EXCEPT !.status = Working(op)]
<1>2. /\ Puts(d, At(EntryPc(op), op, 1, t)) /\ t \in Transaction
      /\ t.status = Working(op) /\ t.ids = tx.ids /\ t.bst = tx.bst
      /\ t.rev = tx.rev
  BY <1>1, BeginPuts DEF CoreInv
<1> HIDE DEF t
<1> QED BY <1>2 DEF Takes

(* The driver takes its free key with the branch marked.                   *)
LEMMA ClaimedShape ==
  ASSUME CoreInv, NEW d \in Driver, NEW st \in BranchStatus,
         drv[d].pc = "loop", MoreBranches(d), drv[d].op \in SagaHandler,
         Claim(d, Mark(d, st)), DriverKey(d) \notin barriers,
         UNCHANGED <<tx, expired, budget, acked, effects>>
  PROVE  \E t : Claims(d, t) /\ Marks(d, t, st)
<1> DEFINE m == Mark(d, st)
           t == [m EXCEPT !.att[Current(d)] = @ + 1]
<1>1. Current(d) \in Branch /\ drv[d].tx \in Transaction
  BY CopiesTyped
<1>2. /\ m \in Transaction /\ m.status = drv[d].tx.status
      /\ m.ids = drv[d].tx.ids /\ m.rev = drv[d].tx.rev
      /\ m.bst = [drv[d].tx.bst EXCEPT ![Current(d)] = st]
  BY <1>1, Marked
<1>3. Goto(d, "invoke", t) /\ barriers' = BarrierTable(DriverKey(d))
  BY DEF Claim
<1> HIDE DEF m
<1>4. OwnCopyOf(d, t) /\ Marks(d, t, st)
  BY <1>1, <1>2, Counted DEF OwnCopyOf, Marks
<1>5. BarrierOp(drv[d].op) \in BarrierOps /\ BarrierOp(drv[d].op) \in SagaHandler
  BY DEF BarrierOp, BarrierOps, SagaHandler
<1>6. barriers' = barriers \cup {DriverKey(d)}
  BY <1>3, <1>5 DEF BarrierTable, BarrierDecision, DriverKey, SagaHandler
<1> HIDE DEF t
<1>7. Puts(d, At("invoke", drv[d].op, drv[d].pos, t))
  BY <1>3, <1>4, GotoPuts DEF OwnCopyOf, Pc, CoreInv
<1> QED BY <1>4, <1>5, <1>6, <1>7 DEF Claims

LEMMA HandlerShape ==
  ASSUME CoreInv, ControlInv, NEW d \in Driver, HandlerStep(d)
  PROVE  DriverShape(d)
<1> USE CopiesTyped
<1>t. TypeOK /\ drv[d].pos >= 1 /\ drv[d].pos \in Nat
  BY DEF CoreInv, PositionInv, TypeOK, DriverState
<1>m. ASSUME NEW st \in BranchStatus, Current(d) \in Branch
      PROVE  OwnCopyOf(d, Mark(d, st)) /\ Marks(d, Mark(d, st), st)
  BY <1>m, Marked DEF OwnCopyOf, Marks
<1>k. ASSUME drv[d].op \in SagaHandler
      PROVE  BarrierDecision(DriverKey(d)) = "Execute"
               <=> DriverKey(d) \notin barriers
  BY <1>k DEF BarrierDecision, DriverKey, SagaHandler, BarrierOp
<1>1. CASE StartChosen(d)
  <2>1. drv[d].pc = "chosen" /\ drv[d].op \in SagaHandler /\ ~InFlight(d)
    BY <1>1 DEF StartChosen, ControlInv, InFlight
  <2>2. CASE tx.status \in AllowedFrom(drv[d].op)
    BY <1>1, <2>1, <2>2, EnterShape DEF StartChosen, StartShape, DriverShape
  <2>3. CASE tx.status \notin AllowedFrom(drv[d].op)
    BY <1>1, <2>1, <2>3, ReturnPuts DEF StartChosen, Ends, EndShape, DriverShape
  <2> QED BY <2>2, <2>3
<1>2. CASE StoreMark(d)
  BY <1>2, StoresPuts DEF StoreMark, StoreShape, DriverShape
<1>3. CASE StoreProgress(d)
  <2>1. drv[d].pos + 1 \in Nat
    BY <1>t
  <2> QED BY <1>3, <2>1, StoresPuts DEF StoreProgress, StoreShape, DriverShape
<1>4. CASE ActionBranch(d)
  <2>1. /\ drv[d].pc = "loop" /\ drv[d].op = "action" /\ MoreBranches(d)
        /\ Current(d) \in Branch /\ ~InFlight(d) /\ drv[d].op \in SagaHandler
        /\ UNCHANGED <<tx, expired, budget, acked, effects>>
    BY <1>4 DEF ActionBranch, InFlight, SagaHandler
  <2>2. CASE Status(d) = "Succeeded" /\ Advance(d, drv[d].tx) /\ UNCHANGED barriers
    <3>1. Puts(d, At("loop", drv[d].op, drv[d].pos + 1, drv[d].tx))
      BY <1>t, <2>2, AdvancePuts
    <3> QED BY <2>1, <2>2, <3>1 DEF Moves, PassShape, DriverShape
  <2>3. CASE DriverKey(d) \notin barriers /\ Claim(d, Mark(d, "Running"))
    <3>1. \E t : Claims(d, t) /\ Marks(d, t, "Running")
      BY <2>1, <2>3, ClaimedShape DEF BranchStatus
    <3> QED BY <2>1, <3>1 DEF ClaimShape, DriverShape
  <2>4. CASE Return(d) /\ UNCHANGED barriers
    BY <2>1, <2>4, ReturnPuts DEF Ends, EndShape, DriverShape
  <2> QED BY <1>4, <1>k, <2>1, <2>2, <2>3, <2>4 DEF ActionBranch, Status
<1>5. CASE CompensateBranch(d)
  <2>1. /\ drv[d].pc = "loop" /\ drv[d].op = "compensate" /\ MoreBranches(d)
        /\ Current(d) \in Branch /\ ~InFlight(d) /\ drv[d].op \in SagaHandler
        /\ UNCHANGED <<tx, expired, budget, acked, effects>>
    BY <1>5 DEF CompensateBranch, InFlight, SagaHandler
  <2>a. ASSUME NEW t, OwnCopyOf(d, t), Advance(d, t), UNCHANGED barriers
        PROVE  Moves(d, "loop", drv[d].pos + 1, t)
    BY <1>t, <2>1, <2>a, AdvancePuts DEF Moves, OwnCopyOf
  <2>2. CASE Status(d) = "Pending" /\ Advance(d, Mark(d, "Skipped"))
             /\ UNCHANGED barriers
    <3>1. OwnCopyOf(d, Mark(d, "Skipped")) /\ Marks(d, Mark(d, "Skipped"), "Skipped")
      BY <1>m, <2>1 DEF BranchStatus
    <3> QED BY <2>1, <2>2, <2>a, <3>1 DEF SkipShape, DriverShape, Due
  <2>3. CASE Status(d) # "Pending" /\ Status(d) \notin Due
             /\ Advance(d, drv[d].tx) /\ UNCHANGED barriers
    BY <2>1, <2>3, <2>a DEF SkipShape, DriverShape
  <2>4. CASE /\ Status(d) \in Due /\ DriverKey(d) \notin barriers
             /\ Claim(d, Mark(d, "Compensating"))
    <3>1. \E t : Claims(d, t) /\ Marks(d, t, "Compensating")
      BY <2>1, <2>4, ClaimedShape DEF BranchStatus
    <3> QED BY <2>1, <2>4, <3>1 DEF ClaimShape, DriverShape
  <2>5. CASE /\ Status(d) \in Due /\ UNCHANGED barriers
             /\ Goto(d, "persist", Mark(d, "Compensating"))
    <3>1. /\ OwnCopyOf(d, Mark(d, "Compensating"))
          /\ Marks(d, Mark(d, "Compensating"), "Compensating")
      BY <1>m, <2>1 DEF BranchStatus
    <3>2. Puts(d, At("persist", drv[d].op, drv[d].pos, Mark(d, "Compensating")))
      BY <1>t, <2>5, <3>1, GotoPuts DEF OwnCopyOf, Pc
    <3> QED BY <2>1, <2>5, <3>1, <3>2 DEF Moves, StuckShape, DriverShape
  <2> QED
    BY <1>5, <1>k, <2>1, <2>2, <2>3, <2>4, <2>5 DEF CompensateBranch, Status, Due
<1>6. CASE BranchOk(d)
  <2>1. drv[d].pc = "invoke" /\ Current(d) \in Branch
    BY <1>6 DEF BranchOk, CallSucceeds, InFlight
  <2>2. CASE drv[d].op = "action" /\ Goto(d, "save", Mark(d, "Succeeded"))
    <3> DEFINE t == Mark(d, "Succeeded")
    <3>1. OwnCopyOf(d, t) /\ Marks(d, t, "Succeeded")
      BY <1>m, <2>1 DEF BranchStatus
    <3> HIDE DEF t
    <3>2. Puts(d, At("save", drv[d].op, drv[d].pos, t))
      BY <1>t, <2>2, <3>1, GotoPuts DEF OwnCopyOf, Pc, t
    <3> QED
      BY <1>6, <2>2, <3>1, <3>2
         DEF BranchOk, CallSucceeds, Accepted, ActionOkShape, DriverShape
  <2>3. CASE drv[d].op = "compensate" /\ Advance(d, Mark(d, "Skipped"))
    <3> DEFINE t == Mark(d, "Skipped")
    <3>1. OwnCopyOf(d, t) /\ Marks(d, t, "Skipped")
      BY <1>m, <2>1 DEF BranchStatus
    <3> HIDE DEF t
    <3>2. Puts(d, At("loop", drv[d].op, drv[d].pos + 1, t))
      BY <1>t, <2>3, <3>1, AdvancePuts DEF OwnCopyOf, t
    <3> QED
      BY <1>6, <2>3, <3>1, <3>2
         DEF BranchOk, CallSucceeds, Accepted, CompensateOkShape, DriverShape
  <2> QED BY <1>6, <2>2, <2>3 DEF BranchOk
<1>7. CASE BranchErr(d)
  <2>1. drv[d].pc = "invoke" /\ Current(d) \in Branch
    BY <1>7 DEF BranchErr, CallFails, InFlight
  <2>r. ASSUME NEW st \in BranchStatus, Goto(d, "release", Mark(d, st))
        PROVE  \E t : Rejected(d, "release", t) /\ Marks(d, t, st)
    <3>1. OwnCopyOf(d, Mark(d, st)) /\ Marks(d, Mark(d, st), st)
      BY <1>m, <2>1
    <3>2. Puts(d, At("release", drv[d].op, drv[d].pos, Mark(d, st)))
      BY <1>t, <2>r, <3>1, GotoPuts DEF OwnCopyOf, Pc
    <3> QED BY <1>7, <3>1, <3>2 DEF BranchErr, CallFails, Rejected
  <2>2. CASE drv[d].op = "action" /\ Goto(d, "release", Mark(d, "Failed"))
    BY <2>2, <2>r DEF BranchStatus, ErrShape, DriverShape
  <2>3. CASE drv[d].op = "compensate" /\ Goto(d, "release", Mark(d, "Compensating"))
    BY <2>3, <2>r DEF BranchStatus, ErrShape, DriverShape
  <2>4. CASE drv[d].op = "action" /\ Goto(d, "handover", GivenUp(d))
    <3> DEFINE bst2 == [b \in Branch |->
                          IF b = Current(d) \/ drv[d].tx.bst[b] = "Succeeded"
                          THEN "Compensating" ELSE drv[d].tx.bst[b]]
               t == [drv[d].tx EXCEPT !.status = "Aborting", !.bst = bst2]
    <3>1. t = GivenUp(d)
      BY DEF GivenUp
    <3>2. bst2 \in [Branch -> BranchStatus]
      BY DEF Transaction, BranchStatus
    <3>3. \A b \in Branch :
            \/ bst2[b] = "Compensating"
            \/ bst2[b] = drv[d].tx.bst[b] /\ bst2[b] # "Succeeded"
      OBVIOUS
    <3> HIDE DEF bst2
    <3>4. OwnCopyOf(d, t) /\ t.status = "Aborting" /\ t.bst = bst2
      BY <3>2 DEF OwnCopyOf, Transaction, TransactionStatus
    <3> HIDE DEF t
    <3>5. Puts(d, At("handover", drv[d].op, drv[d].pos, t))
      BY <1>t, <2>4, <3>1, <3>4, GotoPuts DEF OwnCopyOf, Pc
    <3>6. Rejected(d, "handover", t)
      BY <1>7, <3>4, <3>5 DEF BranchErr, CallFails, Rejected
    <3> QED BY <2>4, <3>3, <3>4, <3>6 DEF GiveUpShape, DriverShape
  <2> QED BY <1>7, <2>2, <2>3, <2>4 DEF BranchErr
<1>8. CASE Release(d)
  <2>1. Puts(d, At("persist", drv[d].op, drv[d].pos, drv[d].tx))
    BY <1>t, <1>8, GotoPuts DEF Release, Pc
  <2> QED BY <1>8, <2>1 DEF Release, ReleaseBarrier, Releases, DriverShape
<1>9. CASE HandOver(d)
  <2>1. CASE CanStore(drv[d].tx)
    <3>1. Puts(d, At("chosen", "compensate", 1, NewTransaction))
      BY <1>9, <2>1, ChoosePuts DEF HandOver, Handler
    <3> QED
      BY <1>9, <2>1, <3>1 DEF HandOver, HandsOver, HandShape, DriverShape
  <2>2. CASE ~CanStore(drv[d].tx)
    BY <1>9, <2>2, ReturnPuts DEF HandOver, HandsOver, HandShape, DriverShape
  <2> QED BY <2>1, <2>2
<1>10. CASE Save(d)
  BY <1>10, ReturnPuts DEF Save, Persist, Writes, SaveShape, DriverShape
<1>11. CASE Complete(d)
  <2> DEFINE t == [drv[d].tx EXCEPT !.status = Finished(drv[d].op)]
  <2>1. /\ drv[d].pc = "loop" /\ ~MoreBranches(d) /\ Persist(d, t)
        /\ UNCHANGED <<barriers, expired, budget, acked, effects>>
    BY <1>11 DEF Complete, Finished
  <2>2. Finished(drv[d].op) \in TransactionStatus
    BY DEF Finished, TransactionStatus
  <2>3. /\ OwnCopyOf(d, t) /\ t.status = Finished(drv[d].op)
        /\ t.bst = drv[d].tx.bst
    BY <2>2, Restated DEF OwnCopyOf
  <2> HIDE DEF t
  <2> QED
    BY <2>1, <2>3, ReturnPuts DEF Persist, Writes, CompleteShape, DriverShape
<1> QED
  BY <1>1, <1>2, <1>3, <1>4, <1>5, <1>6, <1>7, <1>8, <1>9, <1>10, <1>11
     DEF HandlerStep

LEMMA ClientShape ==
  ASSUME CoreInv, ControlInv, NEW d \in Driver,
         ClientStep(d) \/ Tick(d) \/ Abandon(d)
  PROVE  DriverShape(d)
<1>t. TypeOK /\ tx.status \in TransactionStatus
  BY DEF CoreInv, TypeOK, Transaction
<1>r. ASSUME NEW op \in Handler \ SagaHandler, NEW st \in TransactionStatus,
             StatusRequest(d, op, st), st \notin {"Succeeded", "Aborted"}
      PROVE  DriverShape(d)
  <2> DEFINE t == [tx EXCEPT !.status = st]
  <2>1. Begin(d, op, "persist", st) /\ op \in Handler /\ "persist" \in Pc
    BY <1>r DEF StatusRequest, Pc
  <2>2. /\ Puts(d, At("persist", op, 1, t)) /\ t \in Transaction
        /\ t.status = st /\ t.ids = tx.ids /\ t.bst = tx.bst
        /\ t.rev = tx.rev
    BY <1>t, <2>1, BeginPuts
  <2> HIDE DEF t
  <2> QED
    BY <1>r, <2>2
       DEF StatusRequest, Request, RequestShape, Takes, InFlight, DriverShape
<1>h. RecoverHandler # "none" => RecoverHandler \in SagaHandler
  BY DEF RecoverHandler, SagaHandler
<1> USE DEF Handler, SagaHandler, TransactionStatus
<1>1. CASE \E op \in SagaHandler : Call(d, op)
  <2> PICK op \in SagaHandler : Call(d, op)
    BY <1>1
  <2>1. \E t \in Transaction :
          Takes(d, op, EntryPc(op), t) /\ t.status = Working(op)
    BY EnterShape DEF Call, Request, InFlight
  <2> QED BY <2>1 DEF Call, Request, StartShape, DriverShape
<1>2. CASE ScheduleAbort(d)
  BY <1>2, <1>r DEF ScheduleAbort
<1>3. CASE RecoverRequest(d, RecoverHandler)
  BY <1>3, <1>h, ChoosePuts
     DEF RecoverRequest, Request, Chooses, ChooseShape, DriverShape, InFlight
<1>4. CASE ForceStop(d)
  BY <1>4, <1>r DEF ForceStop
<1>5. CASE ResetRetry(d)
  BY <1>t, <1>5, <1>r DEF ResetRetry, IsTerminal
<1>6. CASE Tick(d)
  BY <1>6, <1>h, ChoosePuts
     DEF Tick, WorkerTick, Chooses, ChooseShape, DriverShape, InFlight
<1>7. CASE Abandon(d)
  BY <1>7, ReturnPuts DEF Abandon, Abandons, DriverShape
<1> QED
  BY <1>1, <1>2, <1>3, <1>4, <1>5, <1>6, <1>7 DEF ClientStep

(* The shapes of Saga are among those of every kind.                       *)
LEMMA SagaShaped ==
  ASSUME CoreInv, NEW d \in Driver, DriverShape(d)
  PROVE  Shaped(d)
<1>1. drv[d].pos + 1 >= 1 /\ drv[d].pos >= 1
  BY DEF CoreInv, TypeOK, DriverState, PositionInv
<1> USE DEF Shaped, Quiet
<1>2. CASE StartShape(d) \/ RequestShape(d)
  BY <1>2 DEF StartShape, RequestShape, EntryPc
<1>3. CASE PassShape(d) \/ SkipShape(d) \/ StuckShape(d)
  BY <1>1, <1>3 DEF PassShape, SkipShape, StuckShape
<1>4. CASE ActionOkShape(d) \/ CompensateOkShape(d)
  BY <1>1, <1>4 DEF ActionOkShape, CompensateOkShape
<1>5. CASE ErrShape(d) \/ GiveUpShape(d)
  BY <1>5 DEF ErrShape, GiveUpShape
<1>6. CASE ChooseShape(d) \/ ClaimShape(d) \/ EndShape(d)
  BY <1>6 DEF ChooseShape, ClaimShape, EndShape
<1>7. CASE StoreShape(d) \/ HandShape(d)
  BY <1>1, <1>7 DEF StoreShape, HandShape
<1> QED
  BY <1>2, <1>3, <1>4, <1>5, <1>6, <1>7 DEF DriverShape, SaveShape, CompleteShape

-----------------------------------------------------------------------------
(* Types, keys and control.                                                *)

LEMMA ControlStep ==
  ASSUME CoreInv, ControlInv, NEW d \in Driver, DriverShape(d)
  PROVE  CoreInv' /\ ControlInv'
<1>f. drv \in [Driver -> DriverState] /\ NewTransaction.ids = Initial
      /\ NewTransaction.status = "Submitted"
  BY DEF CoreInv, TypeOK, NewTransaction
<1> SUFFICES ControlInv'
  BY SagaShaped, CoreShaped
<1> DEFINE Good(s) ==
             /\ s.tx.ids = Initial
             /\ s.tx.status \notin {"Succeeded", "Aborted"}
             /\ s.pc \notin {"idle", "persist"} => s.op \in SagaHandler
             /\ s.pc \in {"mark", "save", "handover"} => s.op = "action"
             /\ s.op = "compensate" => s.pc = "chosen" \/ s.tx.status = "Aborting"
<1>c. ASSUME NEW s, Puts(d, s), Good(s), tx'.ids = Initial
      PROVE  ControlInv'
  BY <1>c, <1>f, PutsFacts DEF ControlInv
<1>o. tx.ids = Initial /\ Good(drv[d])
  BY DEF ControlInv
<1>i. Good(Idle)
  BY <1>f DEF Idle
<1>w. ASSUME NEW t, OwnCopyOf(d, t)
      PROVE  Bumped(t).ids = Initial /\ Bumped(t).status = t.status
  BY <1>o, <1>w, Stored DEF OwnCopyOf
<1>1. CASE ChooseShape(d)
  <2>1. PICK op \in SagaHandler : Chooses(d, op)
    BY <1>1 DEF ChooseShape
  <2> QED BY <1>c, <1>f, <1>o, <2>1 DEF Chooses, At
<1>2. CASE StartShape(d)
  <2>1. PICK op \in SagaHandler, t \in Transaction :
          Takes(d, op, EntryPc(op), t) /\ t.status = Working(op)
    BY <1>2 DEF StartShape
  <2>2. t.status \notin {"Succeeded", "Aborted"}
    BY <2>1 DEF Working
  <2>3. EntryPc(op) \in {"mark", "loop"} /\ (EntryPc(op) = "mark" => op = "action")
        /\ (op = "compensate" => Working(op) = "Aborting")
    BY DEF EntryPc, Working
  <2> QED BY <1>c, <1>o, <2>1, <2>2, <2>3 DEF Takes, At
<1>3. CASE RequestShape(d)
  BY <1>3, <1>c, <1>o DEF RequestShape, Takes, At, SagaHandler
<1>4. CASE EndShape(d) \/ Abandons(d)
  BY <1>4, <1>c, <1>i, <1>o DEF EndShape, Ends, Abandons
<1>5. CASE StoreShape(d)
  <2>1. PICK pos : StoresOn(d, drv[d].tx, pos)
    BY <1>5 DEF StoreShape
  <2>2. /\ Bumped(drv[d].tx).ids = Initial
        /\ Bumped(drv[d].tx).status = drv[d].tx.status
    BY <1>w, <2>1 DEF StoresOn
  <2> QED BY <1>c, <1>i, <1>o, <2>1, <2>2 DEF StoresOn, At
<1>6. CASE PassShape(d)
  BY <1>6, <1>c, <1>o DEF PassShape, Moves, At
<1>7. CASE SkipShape(d)
  <2>1. PICK t : /\ Moves(d, "loop", drv[d].pos + 1, t)
                 /\ Marks(d, t, "Skipped") \/ t = drv[d].tx
    BY <1>7 DEF SkipShape
  <2> QED BY <1>7, <2>1, <1>c, <1>o DEF SkipShape, Moves, Marks, OwnCopyOf, At
<1>8. CASE StuckShape(d)
  BY <1>8, <1>c, <1>o DEF StuckShape, Moves, Marks, OwnCopyOf, At
<1>9. CASE ClaimShape(d)
  BY <1>9, <1>c, <1>o DEF ClaimShape, Claims, Marks, OwnCopyOf, At
<1>10. CASE ActionOkShape(d)
  BY <1>10, <1>c, <1>o
     DEF ActionOkShape, Accepted, Marks, OwnCopyOf, At, SagaHandler
<1>11. CASE CompensateOkShape(d)
  BY <1>11, <1>c, <1>o
     DEF CompensateOkShape, Accepted, Marks, OwnCopyOf, At, SagaHandler
<1>12. CASE ErrShape(d)
  BY <1>12, <1>c, <1>o DEF ErrShape, Rejected, Marks, OwnCopyOf, At
<1>13. CASE GiveUpShape(d)
  BY <1>13, <1>c, <1>o DEF GiveUpShape, Rejected, OwnCopyOf, At, SagaHandler
<1>14. CASE Releases(d, drv[d].tx)
  BY <1>14, <1>c, <1>o DEF Releases, At
<1>15. CASE HandShape(d)
  BY <1>15, <1>c, <1>f, <1>i, <1>o, <1>w
     DEF HandShape, HandsOver, At, SagaHandler
<1>16. CASE SaveShape(d) \/ CompleteShape(d)
  BY <1>16, <1>c, <1>i, <1>o, <1>w DEF SaveShape, CompleteShape, Writes
<1> QED
  BY <1>1, <1>2, <1>3, <1>4, <1>5, <1>6, <1>7, <1>8, <1>9, <1>10, <1>11,
     <1>12, <1>13, <1>14, <1>15, <1>16 DEF DriverShape

(* A step is a driver's, or moves nothing but the clock.                   *)
LEMMA StepCases ==
  ASSUME CoreInv, ControlInv, [SagaNext]_vars
  PROVE  \/ \E d \in Driver : DriverShape(d)
         \/ Expire
         \/ UNCHANGED vars
BY HandlerShape, ClientShape DEF SagaNext

LEMMA CoreStep ==
  ASSUME CoreInv, ControlInv, [SagaNext]_vars
  PROVE  CoreInv' /\ ControlInv'
<1>1. CASE \E d \in Driver : DriverShape(d)
  BY <1>1, ControlStep
<1>2. CASE Expire \/ UNCHANGED vars
  BY <1>2, CoreIdle DEF Expire, vars, ControlInv
<1> QED BY <1>1, <1>2, StepCases

(* Types, ownership of barrier keys and control, for any drivers.          *)
THEOREM SagaTypeCorrect == Spec => [](CoreInv /\ ControlInv)
<1>1. Init => CoreInv /\ ControlInv
  BY CoreInit DEF Init, ControlInv, Idle, NewTransaction
<1>2. CoreInv /\ ControlInv /\ [SagaNext]_vars => CoreInv' /\ ControlInv'
  BY CoreStep
<1> QED BY <1>1, <1>2, PTL DEF Spec

(* No action and no compensation of a branch is called by two drivers at a *)
(* time, nor repeated after it was accepted.                               *)
THEOREM SagaBarrierExclusion == Spec => []BarrierExclusion
<1>1. CoreInv => BarrierExclusion
  BY DEF CoreInv, KeysInv, BarrierExclusion
<1> QED BY <1>1, SagaTypeCorrect, PTL

-----------------------------------------------------------------------------
(* The order and the completeness of the actions, whatever happens.        *)

LEMMA KeyFacts ==
  ASSUME CoreInv, ControlInv, NEW d \in Driver, MoreBranches(d)
  PROVE  /\ Len(Initial) \in Nat
         /\ drv[d].pos \in 1..Len(Initial)
         /\ Len(Initial) + 1 - drv[d].pos \in 1..Len(Initial)
         /\ drv[d].op = "action" =>
              /\ Current(d) = Initial[drv[d].pos]
              /\ DriverKey(d) = <<Initial[drv[d].pos], "action">>
         /\ drv[d].op = "compensate" =>
              /\ Current(d) = Initial[Len(Initial) + 1 - drv[d].pos]
              /\ DriverKey(d) =
                   <<Initial[Len(Initial) + 1 - drv[d].pos], "compensate">>
<1>1. Len(Initial) \in Nat
  BY CoordinatorAssumption
<1>2. drv[d].pos \in Nat /\ drv[d].pos >= 1 /\ drv[d].tx.ids = Initial
      /\ drv[d].pos <= Len(Initial)
  BY DEF CoreInv, TypeOK, PositionInv, DriverState, ControlInv, MoreBranches
<1>3. /\ drv[d].pos \in 1..Len(Initial)
      /\ Len(Initial) + 1 - drv[d].pos \in 1..Len(Initial)
  BY <1>1, <1>2
<1> QED
  BY <1>1, <1>2, <1>3 DEF Current, DriverKey, Backwards, BarrierOp

LEMMA ProgressStep ==
  ASSUME CoreInv, ControlInv, ProgressInv, [SagaNext]_vars
  PROVE  ProgressInv'
<1> DEFINE Honest(t) == \A b \in Branch : t.bst[b] = "Succeeded" =>
                                            <<b, "action">> \in acked'
           Passed(s) == \A i \in 1..Len(Initial) :
             /\ s.op = "action"
             /\ \/ s.pc \in {"loop", "invoke", "release"} /\ i < s.pos
                \/ s.pc = "save" /\ i <= s.pos
             => <<Initial[i], "action">> \in acked'
           Known == \A key \in acked' : key[1] \in Members(Initial)
<1>p. ASSUME Known, Honest(tx'), \A e \in Driver : Honest(drv'[e].tx) /\ Passed(drv'[e])
      PROVE  ProgressInv'
  BY <1>p DEF ProgressInv, Members
<1>t. drv \in [Driver -> DriverState] /\ Honest(NewTransaction)
      /\ drv' \in [Driver -> DriverState] /\ Len(Initial) \in Nat
  BY CoreStep, CoordinatorAssumption DEF CoreInv, TypeOK, NewTransaction
<1>o. ASSUME acked \subseteq acked'
      PROVE  /\ Honest(tx)
             /\ \A e \in Driver : Honest(drv[e].tx) /\ Passed(drv[e])
  BY <1>o DEF ProgressInv
<1>1. ASSUME NEW d \in Driver, DriverShape(d)
      PROVE  ProgressInv'
  <2>a. acked \subseteq acked' /\ \A e \in Driver : e # d => drv'[e] = drv[e]
    BY <1>1, SagaShaped, ShapedFacts
  <2>o. Honest(tx) /\ Honest(drv[d].tx) /\ Passed(drv[d]) /\ Honest(Idle.tx)
        /\ Passed(Idle)
    BY <1>o, <1>t, <2>a DEF Idle
  <2>c. ASSUME NEW s, Puts(d, s), Honest(s.tx), Passed(s), Honest(tx'), Known
        PROVE  ProgressInv'
    <3>1. drv'[d] = s
      BY <1>t, <2>c, PutsFacts
    <3> HIDE DEF Honest, Passed
    <3> QED BY <1>o, <1>p, <2>a, <2>c, <3>1
  <2>k. acked' = acked => Known
    BY DEF ProgressInv, Members
  <2>s. ASSUME NEW t, OwnCopyOf(d, t)
        PROVE  /\ Honest(t) => Honest(Bumped(t))
               /\ t.ids = Initial
    BY <2>s, Stored DEF OwnCopyOf, ControlInv
  <2>m. ASSUME NEW t, NEW st, Marks(d, t, st), Current(d) \in Branch,
               st # "Succeeded" \/ <<Current(d), "action">> \in acked'
        PROVE  Honest(t)
    <3>1. drv[d].tx.bst \in [Branch -> BranchStatus]
      BY <1>t DEF DriverState, Transaction
    <3>2. \A b \in Branch : \/ b = Current(d) /\ t.bst[b] = st
                            \/ t.bst[b] = drv[d].tx.bst[b]
      BY <2>m, <3>1 DEF Marks
    <3> QED BY <2>m, <2>o, <3>2
  <2>b. /\ MoreBranches(d) => Current(d) \in Branch /\ Current(d) \in Members(Initial)
        /\ InFlight(d) => MoreBranches(d) /\ drv[d].op \in SagaHandler
        /\ drv[d].pos \in Nat /\ drv[d].pos >= 1
    <3>1. MoreBranches(d) => Current(d) \in Members(Initial)
      <4> SUFFICES ASSUME MoreBranches(d) PROVE Current(d) \in Members(Initial)
        OBVIOUS
      <4>1. /\ drv[d].pos \in 1..Len(Initial)
            /\ Len(Initial) + 1 - drv[d].pos \in 1..Len(Initial)
        BY KeyFacts
      <4>2. drv[d].tx.ids = Initial
        BY DEF ControlInv
      <4> QED BY <4>1, <4>2 DEF Members, Current
    <3> QED
      BY <3>1, CopiesTyped
         DEF CoreInv, TypeOK, PositionInv, DriverState, InFlight, ControlInv
  <2>1. CASE ChooseShape(d)
    <3>1. PICK op : Chooses(d, op)
      BY <2>1 DEF ChooseShape
    <3>2. Passed(At("chosen", op, 1, NewTransaction))
      BY DEF At
    <3> HIDE DEF Honest, Passed, Known
    <3> QED BY <1>t, <2>c, <2>k, <2>o, <3>1, <3>2 DEF Chooses, At
  <2>2. ASSUME NEW op, NEW pc, NEW t, Takes(d, op, pc, t), pc \notin {"save"}
        PROVE  ProgressInv'
    <3>1. Passed(At(pc, op, 1, t))
      BY <1>t, <2>2 DEF At
    <3>2. Honest(t)
      BY <2>2, <2>o DEF Takes
    <3> HIDE DEF Honest, Passed, Known
    <3> QED BY <2>2, <2>c, <2>k, <2>o, <3>1, <3>2 DEF Takes, At
  <2>3. CASE EndShape(d) \/ Abandons(d)
    <3> HIDE DEF Honest, Passed, Known
    <3> QED BY <2>3, <2>c, <2>k, <2>o DEF EndShape, Ends, Abandons
  <2>4. CASE StoreShape(d)
    <3>1. PICK pos : /\ StoresOn(d, drv[d].tx, pos)
                     /\ \/ drv[d].pc = "mark" /\ pos = 1
                        \/ drv[d].pc = "save" /\ pos = drv[d].pos + 1
      BY <2>4 DEF StoreShape
    <3>2. OwnCopyOf(d, drv[d].tx) /\ acked' = acked
      BY <3>1 DEF StoresOn
    <3>3. Passed(At("loop", drv[d].op, pos, Bumped(drv[d].tx)))
      BY <1>t, <2>b, <2>o, <3>1 DEF At
    <3>4. Honest(Bumped(drv[d].tx))
      BY <2>s, <2>o, <3>2
    <3> HIDE DEF Honest, Passed, Known
    <3> QED BY <2>c, <2>k, <2>o, <3>1, <3>2, <3>3, <3>4 DEF StoresOn, At
  <2>5. CASE PassShape(d)
    <3>1. /\ drv[d].pc = "loop" /\ drv[d].op = "action" /\ MoreBranches(d)
          /\ Status(d) = "Succeeded" /\ acked' = acked /\ tx' = tx
          /\ Puts(d, At("loop", drv[d].op, drv[d].pos + 1, drv[d].tx))
      BY <2>5 DEF PassShape, Moves
    <3>2. <<Initial[drv[d].pos], "action">> \in acked'
      BY <2>b, <2>o, <3>1, KeyFacts DEF Status
    <3>3. Passed(At("loop", drv[d].op, drv[d].pos + 1, drv[d].tx))
      BY <1>t, <2>b, <2>o, <3>1, <3>2 DEF At
    <3> HIDE DEF Honest, Passed, Known
    <3> QED BY <2>c, <2>k, <2>o, <3>1, <3>3 DEF At
  <2>6. CASE SkipShape(d)
    <3>1. PICK t : /\ Moves(d, "loop", drv[d].pos + 1, t)
                   /\ Marks(d, t, "Skipped") \/ t = drv[d].tx
      BY <2>6 DEF SkipShape
    <3>2. Honest(t)
      <4>1. Current(d) \in Branch
        BY <2>6, <2>b DEF SkipShape
      <4> HIDE DEF Honest
      <4> QED BY <2>m, <2>o, <3>1, <4>1
    <3>3. Passed(At("loop", drv[d].op, drv[d].pos + 1, t))
      BY <2>6 DEF SkipShape, At
    <3> HIDE DEF Honest, Passed, Known
    <3> QED BY <2>c, <2>k, <2>o, <3>1, <3>2, <3>3 DEF Moves, At
  <2>7. CASE StuckShape(d)
    <3>1. PICK t : /\ Moves(d, "persist", drv[d].pos, t)
                   /\ Marks(d, t, "Compensating")
      BY <2>7 DEF StuckShape
    <3>2. Honest(t)
      BY <2>7, <2>m, <2>b, <3>1 DEF StuckShape
    <3>3. Passed(At("persist", drv[d].op, drv[d].pos, t))
      BY DEF At
    <3> HIDE DEF Honest, Passed, Known
    <3> QED BY <2>c, <2>k, <2>o, <3>1, <3>2, <3>3 DEF Moves, At
  <2>8. CASE ClaimShape(d)
    <3>1. PICK t, st : Claims(d, t) /\ Marks(d, t, st) /\ st # "Succeeded"
      BY <2>8 DEF ClaimShape
    <3>2. Honest(t)
      BY <2>m, <2>b, <3>1 DEF Claims
    <3>3. Passed(At("invoke", drv[d].op, drv[d].pos, t))
      BY <2>o, <3>1 DEF At, Claims
    <3> HIDE DEF Honest, Passed, Known
    <3> QED BY <2>c, <2>k, <2>o, <3>1, <3>2, <3>3 DEF Claims, At
  <2>9. CASE ActionOkShape(d)
    <3>1. PICK t : Accepted(d, "save", drv[d].pos, t) /\ Marks(d, t, "Succeeded")
      BY <2>9 DEF ActionOkShape
    <3>2. /\ drv[d].pc = "invoke" /\ drv[d].op = "action" /\ MoreBranches(d)
          /\ acked' = acked \cup {DriverKey(d)}
      BY <2>9, <2>b, <3>1 DEF ActionOkShape, Accepted, InFlight
    <3>3. /\ DriverKey(d) = <<Initial[drv[d].pos], "action">>
          /\ Current(d) = Initial[drv[d].pos]
      BY <3>2, KeyFacts
    <3>4. Honest(t)
      BY <2>m, <2>b, <3>1, <3>2, <3>3
    <3>5. Passed(At("save", drv[d].op, drv[d].pos, t))
      BY <1>t, <2>b, <2>o, <3>2, <3>3 DEF At
    <3>6. Known
      BY <2>b, <3>2, <3>3 DEF ProgressInv
    <3> HIDE DEF Honest, Passed, Known
    <3> QED BY <2>c, <2>o, <3>1, <3>4, <3>5, <3>6 DEF Accepted, At
  <2>10. CASE CompensateOkShape(d)
    <3>1. PICK t : Accepted(d, "loop", drv[d].pos + 1, t) /\ Marks(d, t, "Skipped")
      BY <2>10 DEF CompensateOkShape
    <3>2. /\ drv[d].pc = "invoke" /\ drv[d].op = "compensate" /\ MoreBranches(d)
          /\ acked' = acked \cup {DriverKey(d)} /\ Current(d) \in Branch
      BY <2>10, <2>b, <3>1 DEF CompensateOkShape, Accepted, InFlight
    <3>3. Honest(t)
      BY <2>m, <3>1, <3>2
    <3>4. Passed(At("loop", drv[d].op, drv[d].pos + 1, t))
      BY <3>2 DEF At
    <3>5. Known
      BY <2>b, <3>2, KeyFacts DEF ProgressInv
    <3> HIDE DEF Honest, Passed, Known
    <3> QED BY <2>c, <2>o, <3>1, <3>3, <3>4, <3>5 DEF Accepted, At
  <2>11. CASE ErrShape(d)
    <3>1. PICK t, st : Rejected(d, "release", t) /\ Marks(d, t, st) /\ st # "Succeeded"
      BY <2>11 DEF ErrShape
    <3>2. Honest(t)
      BY <2>m, <2>b, <3>1 DEF Rejected, InFlight
    <3>3. Passed(At("release", drv[d].op, drv[d].pos, t))
      BY <2>o, <3>1 DEF At, Rejected
    <3> HIDE DEF Honest, Passed, Known
    <3> QED BY <2>c, <2>k, <2>o, <3>1, <3>2, <3>3 DEF Rejected, At
  <2>12. CASE GiveUpShape(d)
    <3>1. PICK t : /\ Rejected(d, "handover", t)
                   /\ \A b \in Branch : t.bst[b] # "Succeeded"
      BY <2>12 DEF GiveUpShape
    <3>2. Honest(t) /\ Passed(At("handover", drv[d].op, drv[d].pos, t))
      BY <3>1 DEF At
    <3> HIDE DEF Honest, Passed, Known
    <3> QED BY <2>c, <2>k, <2>o, <3>1, <3>2 DEF Rejected, At
  <2>13. CASE Releases(d, drv[d].tx)
    <3>1. Passed(At("persist", drv[d].op, drv[d].pos, drv[d].tx))
      BY DEF At
    <3> HIDE DEF Honest, Passed, Known
    <3> QED BY <2>13, <2>c, <2>k, <2>o, <3>1 DEF Releases, At
  <2>14. CASE HandShape(d)
    <3>1. Passed(At("chosen", "compensate", 1, NewTransaction))
      BY DEF At
    <3> HIDE DEF Honest, Passed, Known
    <3> QED BY <1>t, <2>14, <2>c, <2>k, <2>o, <2>s, <3>1 DEF HandShape, HandsOver, At
  <2>15. CASE SaveShape(d) \/ CompleteShape(d)
    <3>1. PICK t : Writes(d, t) /\ t.bst = drv[d].tx.bst
      BY <2>15 DEF SaveShape, CompleteShape
    <3>2. Honest(t)
      BY <2>o, <3>1
    <3> HIDE DEF Honest, Passed, Known
    <3> QED BY <2>c, <2>k, <2>o, <2>s, <3>1, <3>2 DEF Writes
  <2> HIDE DEF Honest, Passed, Known
  <2>16. CASE StartShape(d)
    BY <2>16, <2>2 DEF StartShape, EntryPc
  <2>17. CASE RequestShape(d)
    BY <2>17, <2>2 DEF RequestShape
  <2> QED
    BY <1>1, <2>1, <2>3, <2>4, <2>5, <2>6, <2>7, <2>8, <2>9, <2>10, <2>11,
       <2>12, <2>13, <2>14, <2>15, <2>16, <2>17 DEF DriverShape
<1>2. CASE UNCHANGED <<tx, drv, acked>>
  BY <1>2 DEF ProgressInv
<1> QED BY <1>1, <1>2, StepCases DEF Expire, vars

(* An action takes effect after all earlier ones, and the end is complete. *)
LEMMA CompleteStep ==
  ASSUME CoreInv, ControlInv, ProgressInv, SagaComplete, [SagaNext]_vars
  PROVE  SagaComplete'
<1>t. Len(Initial) \in Nat /\ \A d \in Driver : drv[d].pos \in Nat
  BY CoordinatorAssumption DEF CoreInv, TypeOK, DriverState
<1> SUFFICES ASSUME NEW i \in 1..Len(Initial),
                    \/ tx'.status = "Succeeded"
                    \/ \E j \in 1..Len(Initial) :
                         i < j /\ <<Initial[j], "action">> \in effects'
             PROVE  <<Initial[i], "action">> \in acked'
  BY DEF SagaComplete
<1>1. ASSUME NEW d \in Driver, DriverShape(d)
      PROVE  <<Initial[i], "action">> \in acked'
  <2>a. acked \subseteq acked'
    BY <1>1, SagaShaped, ShapedFacts
  <2>1. ASSUME NEW j \in 1..Len(Initial), i < j,
               <<Initial[j], "action">> \in effects'
        PROVE  <<Initial[i], "action">> \in acked'
    <3>1. CASE <<Initial[j], "action">> \in effects
      BY <2>1, <2>a, <3>1 DEF SagaComplete
    <3>2. CASE <<Initial[j], "action">> \notin effects
      <4>1. drv[d].pc = "invoke" /\ DriverKey(d) = <<Initial[j], "action">>
        BY <1>1, <2>1, <3>2, SagaShaped, ShapedFacts
      <4>2. MoreBranches(d) /\ drv[d].op \in SagaHandler
        BY <4>1, CopiesTyped DEF InFlight, ControlInv
      <4>3. drv[d].op = "action" /\ Initial[drv[d].pos] = Initial[j]
            /\ drv[d].pos \in 1..Len(Initial)
        BY <4>1, <4>2, KeyFacts DEF SagaHandler
      <4>4. drv[d].pos = j
        BY <4>3, SagaAssumption
      <4> QED BY <2>1, <2>a, <4>1, <4>3, <4>4 DEF ProgressInv
    <3> QED BY <3>1, <3>2
  <2>2. CASE tx'.status = "Succeeded"
    <3>1. CASE tx'.status = tx.status
      BY <2>2, <2>a, <3>1 DEF SagaComplete
    <3>w. ASSUME NEW t, OwnCopyOf(d, t), tx' = Bumped(t)
          PROVE  tx'.status = t.status
      BY <3>w, Stored DEF OwnCopyOf
    <3>2. CASE StoreShape(d) \/ HandShape(d) \/ SaveShape(d)
      <4>1. /\ OwnCopyOf(d, drv[d].tx)
            /\ tx' = Bumped(drv[d].tx) \/ tx' = tx
        BY <3>2 DEF StoreShape, StoresOn, HandShape, HandsOver, SaveShape, Writes
      <4>2. drv[d].tx.status # "Succeeded"
        BY DEF ControlInv
      <4> QED BY <2>2, <3>1, <3>w, <4>1, <4>2
    <3>3. CASE CompleteShape(d)
      <4>1. PICK t : /\ drv[d].pc = "loop" /\ ~MoreBranches(d) /\ Writes(d, t)
                     /\ t.status = Finished(drv[d].op)
        BY <3>3 DEF CompleteShape
      <4>2. CASE tx' = Bumped(t)
        <5>1. drv[d].op = "action"
          BY <2>2, <3>w, <4>1, <4>2 DEF Writes, Finished
        <5>2. i < drv[d].pos
          BY <1>t, <4>1 DEF MoreBranches, ControlInv
        <5> QED BY <2>a, <4>1, <5>1, <5>2 DEF ProgressInv
      <4> QED BY <3>1, <4>1, <4>2 DEF Writes
    <3> QED
      BY <1>1, <3>1, <3>2, <3>3
         DEF DriverShape, ChooseShape, StartShape, RequestShape, EndShape,
             PassShape, SkipShape, StuckShape, ClaimShape, ActionOkShape,
             CompensateOkShape, ErrShape, GiveUpShape, Chooses, Takes, Ends,
             Moves, Claims, Accepted, Rejected, Releases, Abandons
  <2> QED BY <2>1, <2>2
<1>2. CASE UNCHANGED <<tx, acked, effects>>
  BY <1>2 DEF SagaComplete
<1> QED BY <1>1, <1>2, StepCases DEF Expire, vars

(* Whoever races, crashes or overwrites the record, on every store: an     *)
(* action of a Saga takes effect only after every earlier one was          *)
(* accepted, and Succeeded is stored only when all of them were.           *)
THEOREM SagaCompleteHolds == Spec => []SagaComplete
<1> DEFINE I == ProgressInv /\ SagaComplete
<1>1. Init => I
  BY DEF Init, ProgressInv, SagaComplete, Idle, NewTransaction
<1>2. CoreInv /\ ControlInv /\ I /\ [SagaNext]_vars => I'
  BY ProgressStep, CompleteStep
<1> QED BY <1>1, <1>2, SagaTypeCorrect, PTL DEF Spec

-----------------------------------------------------------------------------
(* One worker, undisturbed.  The other drivers rest, so that the invariant *)
(* is about the state s of one driver, the record t and the histories.     *)

Copying(s) == s.pc \notin {"idle", "chosen"}

Undone(eff) == \E key \in eff : key[2] = "compensate"

Shows(t, b, ack) ==
  <<b, "action">> \in ack =>
    \/ t.bst[b] \in Due
    \/ t.bst[b] = "Skipped" /\ <<b, "compensate">> \in ack

TurnOf(s, t, eff) ==
  /\ s.pc # "idle" =>
       /\ s.op \in SagaHandler
       /\ s.op = "action" => ~Undone(eff) /\ t.status # "Aborted"
       /\ s.op = "compensate" /\ Copying(s) => t.status # "Succeeded"
  /\ \/ ~Undone(eff)
     \/ t.status \in {"Aborting", "Aborted"}
     \/ s.op = "compensate" /\ Copying(s)

RecordedOf(s, t, ack) ==
  /\ Copying(s) => s.tx.rev = t.rev
  /\ \A b \in Branch : Shows(t, b, ack) \/ (s.pc = "save" /\ KeyOf(s)[1] = b)
  /\ \A b \in Branch : Copying(s) => Shows(s.tx, b, ack)

Place(s) == Len(Initial) + 1 - s.pos

UndoneOf(s, t, ack) ==
  s.op = "compensate" /\ Copying(s) =>
    \A j \in 1..Len(Initial) :
      /\ s.tx.bst[Initial[j]] = "Compensating" => t.bst[Initial[j]] \in Due
      /\ j < Place(s) \/ (j = Place(s) /\ s.pc = "loop") =>
           s.tx.bst[Initial[j]] = t.bst[Initial[j]]
      /\ j > Place(s) =>
           /\ s.tx.bst[Initial[j]] \notin Due \cup {"Pending"}
           /\ t.bst[Initial[j]] = "Compensating" =>
                <<Initial[j], "compensate">> \in ack
      /\ j = Place(s) /\ s.pc = "invoke" => t.bst[Initial[j]] \in Due

(* The events that remain possible.                                        *)
LEMMA UndisturbedKept ==
  ASSUME CoreInv, ControlInv, [SagaNext]_vars, Undisturbed'
  PROVE  Undisturbed /\ ~Spend("call") /\ ~Spend("crash") /\ ~Spend("request")
<1>1. \/ budget' = budget \/ Spend("request") \/ Spend("call")
      \/ Spend("failure") \/ Spend("crash")
  BY StepCases, SagaShaped, ShapedFacts DEF Expire, vars
<1>2. CASE budget' = budget
  <2>1. ~Spend("call") /\ ~Spend("crash") /\ ~Spend("request")
    BY <1>2 DEF Spend, CoreInv, TypeOK
  <2> QED BY <1>2, <2>1 DEF Undisturbed, WorkersOnly
<1> QED BY <1>1, <1>2, Spent DEF CoreInv, Undisturbed

(* The worker that moves is alone and its copy can be stored.              *)
LEMMA Solo ==
  ASSUME OneWorker, CoreInv, ControlInv, UndoInv, [SagaNext]_vars, Undisturbed',
         NEW d \in Driver, DriverShape(d)
  PROVE  /\ d \in Worker
         /\ \A e \in Driver : e # d => drv[e].pc = "idle"
         /\ TurnOf(drv[d], tx, effects)
         /\ RecordedOf(drv[d], tx, acked)
         /\ UndoneOf(drv[d], tx, acked)
         /\ Copying(drv[d]) => CanStore(drv[d].tx)
<1>1. Undisturbed /\ ~Spend("call") /\ ~Spend("crash") /\ ~Spend("request")
  BY UndisturbedKept
<1>2. TurnInv /\ RecordedInv /\ UndoneInv
  BY <1>1 DEF UndoInv
<1>3. d \in Worker
  <2>1. drv[d].pc # "idle" \/ d \in Worker
    BY <1>1
       DEF DriverShape, ChooseShape, StartShape, RequestShape, EndShape,
           StoreShape, PassShape, SkipShape, StuckShape, ClaimShape,
           ActionOkShape, CompensateOkShape, ErrShape, GiveUpShape, Claims,
           Accepted, Rejected, Releases, HandShape, HandsOver, SaveShape,
           CompleteShape, Abandons
  <2> QED BY <1>2, <2>1 DEF TurnInv
<1>4. \A e \in Driver : e # d => drv[e].pc = "idle"
  BY <1>2, <1>3 DEF TurnInv, OneWorker
<1>5. TurnOf(drv[d], tx, effects)
  BY <1>2, <1>4 DEF TurnInv, TurnOf, NotUndone, Undone, HasCopy, Copying
<1>6. RecordedOf(drv[d], tx, acked)
  BY <1>2, <1>4
     DEF RecordedInv, RecordedOf, Recorded, Shows, Due, HasCopy, Copying, KeyOf,
         Current
<1>7. UndoneOf(drv[d], tx, acked)
  BY <1>2 DEF UndoneInv, UndoneOf, Due, HasCopy, Copying, Place
<1>8. Copying(drv[d]) => CanStore(drv[d].tx)
  BY <1>6 DEF RecordedOf, CanStore
<1> QED BY <1>3, <1>4, <1>5, <1>6, <1>7, <1>8

(* ... and what holds of it makes up the invariant.                        *)
LEMMA Together ==
  ASSUME CoreInv, NEW d \in Worker, NEW s, Puts(d, s),
         \A e \in Driver : e # d => drv[e].pc = "idle",
         TurnOf(s, tx', effects'), RecordedOf(s, tx', acked'),
         UndoneOf(s, tx', acked')
  PROVE  TurnInv' /\ RecordedInv' /\ UndoneInv'
<1>1. /\ d \in Driver /\ drv'[d] = s
      /\ \A e \in Driver : e # d => drv'[e].pc = "idle"
  BY PutsFacts DEF CoreInv, TypeOK, Driver
<1>2. TurnInv'
  BY <1>1 DEF TurnInv, TurnOf, NotUndone, Undone, HasCopy, Copying
<1>3. RecordedInv'
  BY <1>1 DEF RecordedInv, RecordedOf, Recorded, Shows, Due, HasCopy, Copying,
              KeyOf, Current
<1>4. UndoneInv'
  BY <1>1 DEF UndoneInv, UndoneOf, Due, HasCopy, Copying, Place
<1> QED BY <1>2, <1>3, <1>4

(* The order and the completeness of the compensations.                    *)
OrderOf(t, ack, eff) ==
  /\ \A i, j \in 1..Len(Initial) :
       /\ i < j
       /\ <<Initial[i], "compensate">> \in eff
       /\ <<Initial[j], "action">> \in ack \/ t.bst[Initial[j]] = "Compensating"
       => <<Initial[j], "compensate">> \in ack
  /\ \A b \in Branch :
       /\ t.status = "Aborted" /\ <<b, "action">> \in ack =>
            <<b, "compensate">> \in ack
       /\ t.status = "Succeeded" => <<b, "compensate">> \notin eff

Good(s, t, ack, eff) ==
  /\ TurnOf(s, t, eff) /\ RecordedOf(s, t, ack)
  /\ UndoneOf(s, t, ack) /\ OrderOf(t, ack, eff)

(* The step leads to a good state.                                         *)
Fine(d) == \E s : Puts(d, s) /\ Good(s, tx', acked', effects')

LEMMA PlaceFacts ==
  ASSUME CoreInv, ControlInv, NEW d \in Driver, drv[d].op = "compensate"
  PROVE  /\ Len(Initial) \in Nat /\ Place(drv[d]) \in Int
         /\ \A j \in 1..Len(Initial) : Initial[j] \in Branch
         /\ ~MoreBranches(d) => \A j \in 1..Len(Initial) : j > Place(drv[d])
         /\ MoreBranches(d) =>
              /\ Place(drv[d]) \in 1..Len(Initial)
              /\ Current(d) = Initial[Place(drv[d])] /\ Current(d) \in Branch
              /\ DriverKey(d) = <<Current(d), "compensate">>
              /\ \A j \in 1..Len(Initial) :
                   Initial[j] = Current(d) => j = Place(drv[d])
         /\ \A pc, t : Place(At(pc, "compensate", drv[d].pos, t)) = Place(drv[d])
         /\ \A pc, t : Place(At(pc, "compensate", drv[d].pos + 1, t))
                         = Place(drv[d]) - 1
<1>1. Len(Initial) \in Nat /\ \A j \in 1..Len(Initial) : Initial[j] \in Branch
  BY CoordinatorAssumption
<1>2. drv[d].pos \in Nat /\ drv[d].tx.ids = Initial
  BY DEF CoreInv, TypeOK, DriverState, ControlInv
<1>3. MoreBranches(d) =>
        /\ Place(drv[d]) \in 1..Len(Initial)
        /\ Current(d) = Initial[Place(drv[d])]
        /\ DriverKey(d) = <<Current(d), "compensate">>
  BY KeyFacts DEF Place
<1>4. ~MoreBranches(d) => \A j \in 1..Len(Initial) : j > Place(drv[d])
  BY <1>1, <1>2 DEF MoreBranches, Place
<1>5. MoreBranches(d) =>
        \A j \in 1..Len(Initial) : Initial[j] = Current(d) => j = Place(drv[d])
  BY <1>3, SagaAssumption
<1>6. /\ \A pc, t : Place(At(pc, "compensate", drv[d].pos, t)) = Place(drv[d])
      /\ \A pc, t : Place(At(pc, "compensate", drv[d].pos + 1, t))
                      = Place(drv[d]) - 1
      /\ Place(drv[d]) \in Int
  BY <1>1, <1>2 DEF Place, At
<1>7. MoreBranches(d) => Current(d) \in Branch
  BY <1>1, <1>3
<1> QED BY <1>1, <1>3, <1>4, <1>5, <1>6, <1>7

(* The histories grow by what the branch accepts.                          *)
LEMMA ShowsMore ==
  ASSUME NEW t, NEW b, NEW ack, NEW key, key[2] = "compensate", Shows(t, b, ack)
  PROVE  Shows(t, b, ack \cup {key})
<1>1. <<b, "action">> # key
  OBVIOUS
<1> QED BY <1>1 DEF Shows

(* Choosing, starting and returning.                                       *)
LEMMA FineEnds ==
  ASSUME CoreInv, ControlInv, NEW d \in Driver, EndShape(d),
         Good(drv[d], tx, acked, effects)
  PROVE  Fine(d)
<1>1. Puts(d, Idle) /\ UNCHANGED <<tx, acked, effects>>
  BY DEF EndShape, Ends
<1>2. drv[d].pc = "chosen" \/ (drv[d].pc = "loop" /\ drv[d].op = "action")
  BY DEF EndShape
<1>3. TurnOf(Idle, tx, effects)
  BY <1>2 DEF Good, TurnOf, Idle, Copying
<1>4. RecordedOf(Idle, tx, acked) /\ UndoneOf(Idle, tx, acked)
  BY <1>2 DEF Good, RecordedOf, UndoneOf, Idle, Copying
<1> QED BY <1>1, <1>3, <1>4 DEF Fine, Good

LEMMA FineChooses ==
  ASSUME CoreInv, ControlInv, NEW d \in Driver, ChooseShape(d), ~Spend("call"),
         Good(drv[d], tx, acked, effects)
  PROVE  Fine(d)
<1>1. PICK op \in SagaHandler :
        Chooses(d, op) /\ drv[d].pc = "idle" /\ op = RecoverHandler
  BY DEF ChooseShape
<1> DEFINE s == At("chosen", op, 1, NewTransaction)
<1>2. Puts(d, s) /\ UNCHANGED <<tx, acked, effects>>
  BY <1>1 DEF Chooses
<1>3. s.pc = "chosen" /\ s.op = op
  BY DEF At
<1> HIDE DEF s
<1>4. op = "action" => tx.status \notin {"Aborting", "Aborted"}
  BY <1>1 DEF RecoverHandler, IsTerminal
<1>5. TurnOf(s, tx, effects)
  BY <1>1, <1>3, <1>4 DEF Good, TurnOf, Copying
<1>6. RecordedOf(s, tx, acked) /\ UndoneOf(s, tx, acked)
  BY <1>1, <1>3 DEF Good, RecordedOf, UndoneOf, Copying
<1> QED BY <1>2, <1>5, <1>6 DEF Fine, Good

LEMMA FineStarts ==
  ASSUME CoreInv, ControlInv, NEW d \in Driver, StartShape(d), ~Spend("call"),
         Good(drv[d], tx, acked, effects)
  PROVE  Fine(d)
<1>1. PICK op \in SagaHandler, t \in Transaction :
        /\ Takes(d, op, EntryPc(op), t) /\ tx.status \in AllowedFrom(op)
        /\ drv[d].pc = "chosen" /\ drv[d].op = op
  BY DEF StartShape
<1> DEFINE s == At(EntryPc(op), op, 1, t)
<1>2. /\ Puts(d, s) /\ UNCHANGED <<tx, acked, effects>>
      /\ t.rev = tx.rev /\ t.bst = tx.bst
  BY <1>1 DEF Takes
<1>3. /\ s.op = op /\ s.pos = 1 /\ s.tx = t /\ s.pc \in {"mark", "loop"}
      /\ op = "compensate" => s.pc = "loop"
  BY DEF At, EntryPc
<1> HIDE DEF s
<1>4. op = "compensate" => tx.status # "Succeeded"
  BY <1>1 DEF AllowedFrom
<1>5. TurnOf(s, tx, effects)
  BY <1>1, <1>3, <1>4 DEF Good, TurnOf, Copying, SagaHandler
<1>6. RecordedOf(s, tx, acked)
  BY <1>1, <1>2, <1>3 DEF Good, RecordedOf, Copying, Shows
<1>7. UndoneOf(s, tx, acked)
  <2>1. Len(Initial) \in Nat
    BY CoordinatorAssumption
  <2>2. Place(s) = Len(Initial)
    BY <1>3, <2>1 DEF Place
  <2>3. \A j \in 1..Len(Initial) : ~(j > Place(s))
    BY <2>1, <2>2
  <2> QED BY <1>2, <1>3, <2>3 DEF UndoneOf, Due
<1> QED BY <1>2, <1>5, <1>6, <1>7 DEF Fine, Good

(* start_saga.                                                             *)
LEMMA FineAction ==
  ASSUME CoreInv, ControlInv, NEW d \in Driver, drv[d].op = "action",
         drv[d].pc # "idle", Good(drv[d], tx, acked, effects), NEW s, Puts(d, s),
         s.op = "action", s.tx.rev = drv[d].tx.rev, Copying(drv[d]),
         drv[d].pc # "save", s.pc # "idle", tx' = tx,
         \/ effects' = effects
         \/ effects' = effects \cup {DriverKey(d)},
         \/ s.pc # "save" /\ acked' = acked
         \/ /\ s.pc = "save" /\ KeyOf(s) = DriverKey(d)
            /\ acked' = acked \cup {DriverKey(d)},
         \A b \in Branch : Shows(s.tx, b, acked')
  PROVE  Fine(d)
<1>k. DriverKey(d)[2] = "action"
  BY DEF DriverKey, BarrierOp
<1>1. ~Undone(effects') /\ ~Undone(effects) /\ tx.status # "Aborted"
  BY <1>k DEF Good, TurnOf, Undone
<1>2. TurnOf(s, tx, effects')
  BY <1>1 DEF TurnOf, SagaHandler
<1>3. RecordedOf(s, tx, acked')
  <2>1. ASSUME NEW b \in Branch
        PROVE  Shows(tx, b, acked') \/ (s.pc = "save" /\ KeyOf(s)[1] = b)
    <3>1. Shows(tx, b, acked)
      BY DEF Good, RecordedOf
    <3>2. CASE acked' = acked
      BY <3>1, <3>2
    <3>3. CASE s.pc = "save" /\ KeyOf(s) = DriverKey(d)
               /\ acked' = acked \cup {DriverKey(d)}
      <4>1. CASE DriverKey(d)[1] = b
        BY <3>3, <4>1
      <4>2. CASE DriverKey(d)[1] # b
        <5>1. <<b, "action">> \in acked' => <<b, "action">> \in acked
          BY <3>3, <4>2
        <5> QED BY <3>1, <3>3, <5>1 DEF Shows
      <4> QED BY <4>1, <4>2
    <3> QED BY <3>2, <3>3
  <2>2. s.tx.rev = tx.rev
    BY DEF Good, RecordedOf
  <2> QED BY <2>1, <2>2 DEF RecordedOf
<1>4. UndoneOf(s, tx, acked')
  BY DEF UndoneOf
<1>5. OrderOf(tx, acked', effects')
  BY <1>1 DEF OrderOf, Undone
<1> QED BY <1>2, <1>3, <1>4, <1>5 DEF Fine, Good

LEMMA FineForward ==
  ASSUME CoreInv, ControlInv, ProgressInv, NEW d \in Driver, drv[d].op = "action",
         \/ PassShape(d) \/ ClaimShape(d) \/ ActionOkShape(d) \/ ErrShape(d)
         \/ GiveUpShape(d) \/ Releases(d, drv[d].tx),
         Good(drv[d], tx, acked, effects)
  PROVE  Fine(d)
<1>c. Copying(drv[d]) /\ drv[d].pc \notin {"idle", "save"}
  BY DEF PassShape, ClaimShape, ActionOkShape, ErrShape, GiveUpShape, Releases,
         Claims, Accepted, Rejected, Copying
<1>h. \A b \in Branch : Shows(drv[d].tx, b, acked)
  BY <1>c DEF Good, RecordedOf
<1>k. MoreBranches(d) => Current(d) \in Branch /\ DriverKey(d) = <<Current(d), "action">>
  BY CopiesTyped DEF DriverKey, BarrierOp
<1>i. InFlight(d) => MoreBranches(d) /\ DriverKey(d) \notin acked
  BY CopiesTyped DEF CoreInv, KeysInv
(* The branch the driver is at has not been accepted.                      *)
<1>m. ASSUME NEW t, NEW st, Marks(d, t, st), MoreBranches(d),
             DriverKey(d) \notin acked, NEW b \in Branch
      PROVE  Shows(t, b, acked)
  <2>1. CASE b = Current(d)
    BY <1>k, <1>m, <2>1 DEF Shows
  <2>2. CASE b # Current(d)
    <3>1. t.bst[b] = drv[d].tx.bst[b]
      BY <1>k, <1>m, <2>2, MarksFacts
    <3>2. Shows(drv[d].tx, b, acked)
      BY <1>h
    <3> QED BY <3>1, <3>2 DEF Shows
  <2> QED BY <2>1, <2>2
<1>1. CASE PassShape(d)
  <2> DEFINE s == At("loop", drv[d].op, drv[d].pos + 1, drv[d].tx)
  <2>1. Puts(d, s) /\ UNCHANGED <<tx, acked, effects>>
    BY <1>1 DEF PassShape, Moves
  <2>2. s.op = "action" /\ s.tx = drv[d].tx /\ s.pc = "loop"
    BY DEF At
  <2> HIDE DEF s
  <2> QED BY <1>c, <1>h, <2>1, <2>2, FineAction
<1>2. CASE ClaimShape(d)
  <2>1. PICK t : Claims(d, t) /\ Marks(d, t, "Running")
    BY <1>2 DEF ClaimShape
  <2> DEFINE s == At("invoke", drv[d].op, drv[d].pos, t)
  <2>2. Puts(d, s) /\ UNCHANGED <<tx, acked, effects>> /\ t.rev = drv[d].tx.rev
        /\ MoreBranches(d) /\ DriverKey(d) \notin acked
    BY <2>1 DEF Claims, OwnCopyOf, CoreInv, KeysInv
  <2>3. s.op = "action" /\ s.tx = t /\ s.pc = "invoke"
    BY DEF At
  <2>4. \A b \in Branch : Shows(t, b, acked)
    BY <1>m, <2>1, <2>2
  <2> HIDE DEF s
  <2> QED BY <1>c, <2>2, <2>3, <2>4, FineAction
<1>3. CASE ActionOkShape(d)
  <2>1. PICK t : Accepted(d, "save", drv[d].pos, t) /\ Marks(d, t, "Succeeded")
    BY <1>3 DEF ActionOkShape
  <2> DEFINE s == At("save", drv[d].op, drv[d].pos, t)
  <2>2. /\ Puts(d, s) /\ tx' = tx /\ t.rev = drv[d].tx.rev /\ t.ids = drv[d].tx.ids
        /\ acked' = acked \cup {DriverKey(d)}
        /\ effects' = effects \cup {DriverKey(d)} /\ MoreBranches(d)
    BY <1>i, <2>1 DEF Accepted, OwnCopyOf, InFlight
  <2>3. s.op = "action" /\ s.tx = t /\ s.pc = "save" /\ KeyOf(s) = DriverKey(d)
    BY <2>2 DEF At, KeyOf, DriverKey, Current, Backwards
  <2>4. ASSUME NEW b \in Branch
        PROVE  Shows(t, b, acked')
    <3>1. CASE b = Current(d)
      BY <1>k, <2>1, <2>2, <3>1, MarksFacts DEF Shows, Due
    <3>2. CASE b # Current(d)
      <4>1. t.bst[b] = drv[d].tx.bst[b]
        BY <1>k, <2>1, <2>2, <3>2, MarksFacts
      <4>2. <<b, "action">> \in acked' => <<b, "action">> \in acked
        BY <1>k, <2>2, <3>2
      <4> QED BY <1>h, <2>2, <4>1, <4>2 DEF Shows
    <3> QED BY <3>1, <3>2
  <2> HIDE DEF s
  <2> QED BY <1>c, <2>2, <2>3, <2>4, FineAction
<1>4. CASE ErrShape(d)
  <2>1. PICK t : Rejected(d, "release", t) /\ Marks(d, t, "Failed")
    BY <1>4 DEF ErrShape
  <2> DEFINE s == At("release", drv[d].op, drv[d].pos, t)
  <2>2. /\ Puts(d, s) /\ tx' = tx /\ acked' = acked /\ t.rev = drv[d].tx.rev
        /\ MoreBranches(d) /\ DriverKey(d) \notin acked
        /\ effects' = effects \/ effects' = effects \cup {DriverKey(d)}
    BY <1>i, <2>1 DEF Rejected, OwnCopyOf, InFlight
  <2>3. s.op = "action" /\ s.tx = t /\ s.pc = "release"
    BY DEF At
  <2>4. \A b \in Branch : Shows(t, b, acked)
    BY <1>m, <2>1, <2>2
  <2> HIDE DEF s
  <2> QED BY <1>c, <2>2, <2>3, <2>4, FineAction
<1>5. CASE GiveUpShape(d)
  <2>1. PICK t : /\ Rejected(d, "handover", t)
                 /\ \A b \in Branch :
                      t.bst[b] = "Compensating" \/ t.bst[b] = drv[d].tx.bst[b]
    BY <1>5 DEF GiveUpShape
  <2> DEFINE s == At("handover", drv[d].op, drv[d].pos, t)
  <2>2. /\ Puts(d, s) /\ tx' = tx /\ acked' = acked /\ t.rev = drv[d].tx.rev
        /\ effects' = effects \/ effects' = effects \cup {DriverKey(d)}
    BY <2>1 DEF Rejected, OwnCopyOf
  <2>3. s.op = "action" /\ s.tx = t /\ s.pc = "handover"
    BY DEF At
  <2>4. \A b \in Branch : Shows(t, b, acked)
    BY <1>h, <2>1 DEF Shows, Due
  <2> HIDE DEF s
  <2> QED BY <1>c, <2>2, <2>3, <2>4, FineAction
<1>6. CASE Releases(d, drv[d].tx)
  <2> DEFINE s == At("persist", drv[d].op, drv[d].pos, drv[d].tx)
  <2>1. Puts(d, s) /\ UNCHANGED <<tx, acked, effects>>
    BY <1>6 DEF Releases
  <2>2. s.op = "action" /\ s.tx = drv[d].tx /\ s.pc = "persist"
    BY DEF At
  <2> HIDE DEF s
  <2> QED BY <1>c, <1>h, <2>1, <2>2, FineAction
<1> QED BY <1>1, <1>2, <1>3, <1>4, <1>5, <1>6

(* abort_saga.                                                             *)
LEMMA FineBackward ==
  ASSUME CoreInv, ControlInv, NEW d \in Driver, drv[d].op = "compensate",
         Copying(drv[d]), MoreBranches(d), Good(drv[d], tx, acked, effects),
         NEW s, Puts(d, s), s.op = "compensate", Copying(s),
         s.tx.rev = drv[d].tx.rev, tx' = tx,
         effects' = effects \/ effects' = effects \cup {DriverKey(d)},
         acked' = acked \/ acked' = acked \cup {DriverKey(d)},
         \A b \in Branch : Shows(s.tx, b, acked'),
         UndoneOf(s, tx, acked')
  PROVE  Fine(d)
<1>p. /\ Place(drv[d]) \in 1..Len(Initial)
      /\ DriverKey(d) = <<Current(d), "compensate">>
      /\ \A j \in 1..Len(Initial) :
           Initial[j] \in Branch /\ (Initial[j] = Current(d) => j = Place(drv[d]))
      /\ Len(Initial) \in Nat
  BY PlaceFacts
<1>g. tx.status # "Succeeded"
  BY DEF Good, TurnOf, Copying
<1>1. TurnOf(s, tx, effects')
  BY <1>g DEF TurnOf, Copying, SagaHandler
<1>2. RecordedOf(s, tx, acked')
  <2>1. \A b \in Branch : Shows(tx, b, acked)
    BY DEF Good, RecordedOf, ControlInv
  <2>2. \A b \in Branch : Shows(tx, b, acked')
    BY <1>p, <2>1, ShowsMore
  <2>3. s.tx.rev = tx.rev
    BY DEF Good, RecordedOf
  <2> QED BY <2>2, <2>3 DEF RecordedOf
<1>3. OrderOf(tx, acked', effects')
  <2>1. \A b : <<b, "action">> \in acked' <=> <<b, "action">> \in acked
    BY <1>p
  <2>2. ASSUME NEW i \in 1..Len(Initial), NEW j \in 1..Len(Initial), i < j,
               <<Initial[i], "compensate">> \in effects',
               \/ <<Initial[j], "action">> \in acked
               \/ tx.bst[Initial[j]] = "Compensating"
        PROVE  <<Initial[j], "compensate">> \in acked
    <3>1. CASE <<Initial[i], "compensate">> \in effects
      BY <2>2, <3>1 DEF Good, OrderOf
    <3>2. CASE <<Initial[i], "compensate">> \notin effects
      <4>1. <<Initial[i], "compensate">> = <<Current(d), "compensate">>
        BY <1>p, <2>2, <3>2
      <4>2. i = Place(drv[d])
        BY <1>p, <4>1
      <4>3. j > Place(drv[d])
        BY <2>2, <4>2
      <4>4. /\ drv[d].tx.bst[Initial[j]] \notin Due
            /\ tx.bst[Initial[j]] = "Compensating" =>
                 <<Initial[j], "compensate">> \in acked
        BY <4>3 DEF Good, UndoneOf
      <4>5. Shows(drv[d].tx, Initial[j], acked)
        BY <1>p DEF Good, RecordedOf
      <4> QED BY <2>2, <4>4, <4>5 DEF Shows
    <3> QED BY <3>1, <3>2
  <2>3. ASSUME NEW b \in Branch
        PROVE  tx.status = "Aborted" /\ <<b, "action">> \in acked' =>
                 <<b, "compensate">> \in acked'
    BY <2>1 DEF Good, OrderOf
  <2> QED BY <1>g, <2>1, <2>2, <2>3 DEF OrderOf
<1> QED BY <1>1, <1>2, <1>3 DEF Fine, Good

LEMMA FineUndoes ==
  ASSUME CoreInv, ControlInv, NEW d \in Driver, drv[d].op = "compensate",
         \/ SkipShape(d) \/ StuckShape(d) \/ ClaimShape(d)
         \/ CompensateOkShape(d) \/ ErrShape(d) \/ Releases(d, drv[d].tx),
         Good(drv[d], tx, acked, effects)
  PROVE  Fine(d)
<1>c. Copying(drv[d]) /\ MoreBranches(d)
  BY CopiesTyped
     DEF SkipShape, StuckShape, ClaimShape, CompensateOkShape, ErrShape,
         Releases, Claims, Accepted, Rejected, Copying, InFlight
<1> DEFINE N == 1..Len(Initial)
           P == Place(drv[d])
<1>p. /\ P \in N /\ Len(Initial) \in Nat
      /\ Current(d) = Initial[P] /\ Current(d) \in Branch
      /\ DriverKey(d) = <<Current(d), "compensate">>
      /\ \A j \in N : Initial[j] \in Branch /\ (Initial[j] = Current(d) => j = P)
      /\ \A pc, t : /\ Place(At(pc, "compensate", drv[d].pos, t)) = P
                    /\ Place(At(pc, "compensate", drv[d].pos + 1, t)) = P - 1
  BY <1>c, PlaceFacts
<1>h. \A b \in Branch : Shows(drv[d].tx, b, acked)
  BY <1>c DEF Good, RecordedOf
<1>u. \A j \in N :
        /\ drv[d].tx.bst[Initial[j]] = "Compensating" => tx.bst[Initial[j]] \in Due
        /\ j < P \/ (j = P /\ drv[d].pc = "loop") =>
             drv[d].tx.bst[Initial[j]] = tx.bst[Initial[j]]
        /\ j > P =>
             /\ drv[d].tx.bst[Initial[j]] \notin Due \cup {"Pending"}
             /\ tx.bst[Initial[j]] = "Compensating" =>
                  <<Initial[j], "compensate">> \in acked
        /\ j = P /\ drv[d].pc = "invoke" => tx.bst[Initial[j]] \in Due
  BY <1>c DEF Good, UndoneOf
<1> HIDE DEF P
(* The handler stays at a branch that is due.                              *)
<1>m. ASSUME NEW pc \in {"persist", "invoke", "release"}, NEW t, OwnCopyOf(d, t),
             Puts(d, At(pc, drv[d].op, drv[d].pos, t)), tx' = tx, acked' = acked,
             effects' = effects \/ effects' = effects \cup {DriverKey(d)},
             Marks(d, t, "Compensating"), tx.bst[Current(d)] \in Due
      PROVE  Fine(d)
  <2> DEFINE s == At(pc, drv[d].op, drv[d].pos, t)
  <2>1. /\ s.op = "compensate" /\ s.tx = t /\ s.pc = pc /\ Copying(s)
        /\ s.tx.rev = drv[d].tx.rev
    BY <1>m DEF At, Copying, OwnCopyOf
  <2>2. Place(s) = P
    BY <1>p
  <2> HIDE DEF s
  <2>3. t.bst[Current(d)] = "Compensating"
        /\ \A b \in Branch : b # Current(d) => t.bst[b] = drv[d].tx.bst[b]
    BY <1>m, <1>p, MarksFacts
  <2>4. \A b \in Branch : Shows(t, b, acked)
    BY <1>h, <2>3 DEF Shows, Due
  <2>5. ASSUME NEW j \in N
        PROVE  /\ t.bst[Initial[j]] = "Compensating" => tx.bst[Initial[j]] \in Due
               /\ j < P => t.bst[Initial[j]] = tx.bst[Initial[j]]
               /\ j > P =>
                    /\ t.bst[Initial[j]] \notin Due \cup {"Pending"}
                    /\ tx.bst[Initial[j]] = "Compensating" =>
                         <<Initial[j], "compensate">> \in acked
               /\ j = P => tx.bst[Initial[j]] \in Due
    <3>1. CASE j = P
      BY <1>m, <1>p, <3>1
    <3>2. CASE j # P
      <4>1. t.bst[Initial[j]] = drv[d].tx.bst[Initial[j]]
        BY <1>p, <2>3, <3>2
      <4> QED BY <1>u, <3>2, <4>1
    <3> QED BY <3>1, <3>2
  <2>6. UndoneOf(s, tx, acked)
    BY <1>m, <2>1, <2>2, <2>5 DEF UndoneOf
  <2>7. Puts(d, s) /\ \A b \in Branch : Shows(s.tx, b, acked)
    BY <1>m, <2>1, <2>4 DEF s
  <2> QED BY <1>c, <1>m, <2>1, <2>6, <2>7, FineBackward
(* The handler has done with its branch.                                   *)
<1>n. ASSUME NEW t, OwnCopyOf(d, t), tx' = tx,
             Puts(d, At("loop", drv[d].op, drv[d].pos + 1, t)),
             effects' = effects \/ effects' = effects \cup {DriverKey(d)},
             acked' = acked \/ acked' = acked \cup {DriverKey(d)},
             \A b \in Branch : b # Current(d) => t.bst[b] = drv[d].tx.bst[b],
             Shows(t, Current(d), acked'),
             t.bst[Current(d)] \notin Due \cup {"Pending"},
             tx.bst[Current(d)] = "Compensating" => DriverKey(d) \in acked'
      PROVE  Fine(d)
  <2> DEFINE s == At("loop", drv[d].op, drv[d].pos + 1, t)
  <2>1. /\ s.op = "compensate" /\ s.tx = t /\ s.pc = "loop" /\ Copying(s)
        /\ s.tx.rev = drv[d].tx.rev
    BY <1>n DEF At, Copying, OwnCopyOf
  <2>2. Place(s) = P - 1
    BY <1>p
  <2> HIDE DEF s
  <2>3. ASSUME NEW b \in Branch
        PROVE  Shows(t, b, acked')
    <3>1. CASE b = Current(d)
      BY <1>n, <3>1
    <3>2. CASE b # Current(d)
      <4>1. Shows(drv[d].tx, b, acked')
        BY <1>h, <1>n, <1>p, ShowsMore
      <4> QED BY <1>n, <3>2, <4>1 DEF Shows
    <3> QED BY <3>1, <3>2
  <2>5. ASSUME NEW j \in N
        PROVE  /\ t.bst[Initial[j]] = "Compensating" => tx.bst[Initial[j]] \in Due
               /\ j < P => t.bst[Initial[j]] = tx.bst[Initial[j]]
               /\ j >= P =>
                    /\ t.bst[Initial[j]] \notin Due \cup {"Pending"}
                    /\ tx.bst[Initial[j]] = "Compensating" =>
                         <<Initial[j], "compensate">> \in acked'
    <3>1. CASE j = P
      BY <1>n, <1>p, <3>1 DEF Due
    <3>2. CASE j # P
      <4>1. t.bst[Initial[j]] = drv[d].tx.bst[Initial[j]]
        BY <1>n, <1>p, <3>2
      <4>2. acked \subseteq acked'
        BY <1>n
      <4> QED BY <1>p, <1>u, <3>2, <4>1, <4>2
    <3> QED BY <3>1, <3>2
  <2>6. \A j \in N : (j < P - 1 => j < P) /\ (j = P - 1 => j < P)
                     /\ (j > P - 1 => j >= P)
    BY <1>p
  <2>7. UndoneOf(s, tx, acked')
    BY <2>1, <2>2, <2>5, <2>6 DEF UndoneOf
  <2>8. Puts(d, s) /\ \A b \in Branch : Shows(s.tx, b, acked')
    BY <1>n, <2>1, <2>3 DEF s
  <2> QED BY <1>c, <1>n, <2>1, <2>7, <2>8, FineBackward
<1>1. CASE SkipShape(d)
  <2>1. PICK t : /\ Moves(d, "loop", drv[d].pos + 1, t)
                 /\ IF Status(d) = "Pending" THEN Marks(d, t, "Skipped")
                                             ELSE t = drv[d].tx
    BY <1>1 DEF SkipShape
  <2>2. /\ drv[d].pc = "loop" /\ Status(d) \notin Due
        /\ tx.bst[Current(d)] = Status(d) /\ Shows(drv[d].tx, Current(d), acked)
    BY <1>1, <1>h, <1>p, <1>u DEF SkipShape, Status
  <2>3. /\ OwnCopyOf(d, t) /\ UNCHANGED <<tx, acked, effects>>
        /\ Puts(d, At("loop", drv[d].op, drv[d].pos + 1, t))
    BY <2>1 DEF Moves
  <2>4. /\ \A b \in Branch : b # Current(d) => t.bst[b] = drv[d].tx.bst[b]
        /\ t.bst[Current(d)] =
             IF Status(d) = "Pending" THEN "Skipped" ELSE Status(d)
    BY <1>p, <2>1, MarksFacts DEF Status
  <2>5. Shows(t, Current(d), acked)
    BY <2>2, <2>4 DEF Shows, Status
  <2>6. /\ t.bst[Current(d)] \notin Due \cup {"Pending"}
        /\ tx.bst[Current(d)] # "Compensating"
    BY <2>2, <2>4 DEF Due
  <2> QED BY <1>n, <2>3, <2>4, <2>5, <2>6
<1>2. CASE CompensateOkShape(d)
  <2>1. PICK t : Accepted(d, "loop", drv[d].pos + 1, t) /\ Marks(d, t, "Skipped")
    BY <1>2 DEF CompensateOkShape
  <2>2. /\ OwnCopyOf(d, t) /\ tx' = tx /\ acked' = acked \cup {DriverKey(d)}
        /\ effects' = effects \cup {DriverKey(d)}
        /\ Puts(d, At("loop", drv[d].op, drv[d].pos + 1, t))
    BY <2>1 DEF Accepted
  <2>3. /\ \A b \in Branch : b # Current(d) => t.bst[b] = drv[d].tx.bst[b]
        /\ t.bst[Current(d)] = "Skipped"
    BY <1>p, <2>1, MarksFacts
  <2>4. Shows(t, Current(d), acked')
    BY <1>p, <2>2, <2>3 DEF Shows
  <2>5. t.bst[Current(d)] \notin Due \cup {"Pending"} /\ DriverKey(d) \in acked'
    BY <2>2, <2>3 DEF Due
  <2> QED BY <1>n, <2>2, <2>3, <2>4, <2>5
<1>3. CASE StuckShape(d)
  <2>1. PICK t : /\ Moves(d, "persist", drv[d].pos, t)
                 /\ Marks(d, t, "Compensating")
    BY <1>3 DEF StuckShape
  <2>2. tx.bst[Current(d)] \in Due
    BY <1>3, <1>p, <1>u DEF StuckShape, Status
  <2> QED BY <1>m, <2>1, <2>2 DEF Moves
<1>4. CASE ClaimShape(d)
  <2>1. PICK t : Claims(d, t) /\ Marks(d, t, "Compensating") /\ Status(d) \in Due
    BY <1>4 DEF ClaimShape
  <2>2. tx.bst[Current(d)] \in Due
    BY <1>p, <1>u, <2>1 DEF Claims, Status
  <2> QED BY <1>m, <2>1, <2>2 DEF Claims
<1>5. CASE ErrShape(d)
  <2>1. PICK t : Rejected(d, "release", t) /\ Marks(d, t, "Compensating")
    BY <1>5 DEF ErrShape
  <2>2. tx.bst[Current(d)] \in Due
    BY <1>p, <1>u, <2>1 DEF Rejected
  <2> QED BY <1>m, <2>1, <2>2 DEF Rejected
<1>6. CASE Releases(d, drv[d].tx)
  <2> DEFINE s == At("persist", drv[d].op, drv[d].pos, drv[d].tx)
  <2>1. Puts(d, s) /\ UNCHANGED <<tx, acked, effects>>
    BY <1>6 DEF Releases
  <2>2. /\ s.op = "compensate" /\ s.tx = drv[d].tx /\ s.pc = "persist"
        /\ Copying(s)
    BY DEF At, Copying
  <2>3. Place(s) = P
    BY <1>p
  <2> HIDE DEF s
  <2>4. UndoneOf(s, tx, acked)
    BY <1>u, <2>2, <2>3 DEF UndoneOf
  <2> QED BY <1>c, <1>h, <2>1, <2>2, <2>4, FineBackward
<1> QED BY <1>1, <1>2, <1>3, <1>4, <1>5, <1>6

(* The writes.                                                             *)
LEMMA FineStores ==
  ASSUME CoreInv, ControlInv, NEW d \in Driver, drv[d].op = "action",
         Copying(drv[d]), Good(drv[d], tx, acked, effects),
         NEW t, OwnCopyOf(d, t), t.bst = drv[d].tx.bst, t.status # "Aborted",
         tx' = Bumped(t), UNCHANGED <<acked, effects>>,
         NEW s, Puts(d, s), s.pc # "save",
         \/ s.pc = "idle"
         \/ s.pc = "chosen" /\ s.op \in SagaHandler
         \/ s.op = "action" /\ s.tx = Bumped(t)
  PROVE  Fine(d)
<1>1. Bumped(t).bst = drv[d].tx.bst /\ Bumped(t).status = t.status
  BY Stored DEF OwnCopyOf
<1>2. ~Undone(effects)
  BY DEF Good, TurnOf, Copying
<1>3. \A b \in Branch : Shows(Bumped(t), b, acked)
  BY <1>1 DEF Good, RecordedOf, Shows
<1>4. TurnOf(s, Bumped(t), effects)
  BY <1>1, <1>2 DEF TurnOf, SagaHandler, Copying
<1>5. RecordedOf(s, Bumped(t), acked)
  BY <1>3 DEF RecordedOf, Copying
<1>6. UndoneOf(s, Bumped(t), acked)
  BY DEF UndoneOf, Copying
<1>7. OrderOf(Bumped(t), acked, effects)
  BY <1>1, <1>2 DEF OrderOf, Undone
<1> QED BY <1>4, <1>5, <1>6, <1>7 DEF Fine, Good

LEMMA FineClosesUndo ==
  ASSUME CoreInv, ControlInv, NEW d \in Driver, drv[d].op = "compensate",
         Copying(drv[d]), Good(drv[d], tx, acked, effects),
         NEW t, OwnCopyOf(d, t), t.bst = drv[d].tx.bst,
         t.status \in {"Aborting", "Aborted"}, Puts(d, Idle),
         tx' = Bumped(t), UNCHANGED <<acked, effects>>,
         OrderOf(t, acked, effects)
  PROVE  Fine(d)
<1>1. Bumped(t).bst = drv[d].tx.bst /\ Bumped(t).status = t.status
  BY Stored DEF OwnCopyOf
<1>2. Idle.pc = "idle"
  BY DEF Idle
<1>3. TurnOf(Idle, Bumped(t), effects)
  BY <1>1, <1>2 DEF TurnOf
<1>4. RecordedOf(Idle, Bumped(t), acked)
  BY <1>1, <1>2 DEF Good, RecordedOf, Shows, Copying
<1>5. UndoneOf(Idle, Bumped(t), acked)
  BY <1>2 DEF UndoneOf, Copying
<1>6. OrderOf(Bumped(t), acked, effects)
  BY <1>1 DEF OrderOf
<1> QED BY <1>3, <1>4, <1>5, <1>6 DEF Fine, Good

LEMMA FineWrites ==
  ASSUME CoreInv, ControlInv, ProgressInv, NEW d \in Driver,
         \/ StoreShape(d) \/ HandShape(d) \/ SaveShape(d) \/ CompleteShape(d),
         Good(drv[d], tx, acked, effects)
  PROVE  Fine(d)
<1>c. Copying(drv[d]) /\ drv[d].pc # "idle"
  BY DEF StoreShape, HandShape, HandsOver, SaveShape, CompleteShape, Copying
<1>o. drv[d].op \in SagaHandler
  BY <1>c DEF Good, TurnOf
<1>r. \A t : OwnCopyOf(d, t) => CanStore(t)
  BY <1>c DEF Good, RecordedOf, CanStore, OwnCopyOf
<1>s. /\ drv[d].tx.status \notin {"Succeeded", "Aborted"}
      /\ drv[d].op = "compensate" => drv[d].tx.status = "Aborting"
      /\ drv[d].pc \in {"mark", "save", "handover"} => drv[d].op = "action"
  BY <1>c DEF ControlInv, Copying
<1>i. Idle.pc = "idle"
  BY DEF Idle
<1>1. CASE StoreShape(d)
  <2>1. PICK pos : StoresOn(d, drv[d].tx, pos)
    BY <1>1 DEF StoreShape
  <2> DEFINE s == At("loop", drv[d].op, pos, Bumped(drv[d].tx))
  <2>2. /\ drv[d].op = "action" /\ OwnCopyOf(d, drv[d].tx)
        /\ tx' = Bumped(drv[d].tx) /\ Puts(d, s) /\ UNCHANGED <<acked, effects>>
    BY <1>r, <1>s, <2>1 DEF StoresOn
  <2>3. s.pc = "loop" /\ s.op = drv[d].op /\ s.tx = Bumped(drv[d].tx)
    BY DEF At
  <2> HIDE DEF s
  <2> QED BY <1>c, <1>s, <2>2, <2>3, FineStores
<1>2. CASE HandShape(d)
  <2> DEFINE s == At("chosen", "compensate", 1, NewTransaction)
  <2>2. /\ drv[d].op = "action" /\ OwnCopyOf(d, drv[d].tx)
        /\ tx' = Bumped(drv[d].tx) /\ Puts(d, s) /\ UNCHANGED <<acked, effects>>
    BY <1>2, <1>r, <1>s DEF HandShape, HandsOver
  <2>3. s.pc = "chosen" /\ s.op \in SagaHandler
    BY DEF At, SagaHandler
  <2> HIDE DEF s
  <2> QED BY <1>c, <1>s, <2>2, <2>3, FineStores
<1>3. CASE SaveShape(d)
  <2>1. /\ OwnCopyOf(d, drv[d].tx) /\ tx' = Bumped(drv[d].tx)
        /\ Puts(d, Idle) /\ UNCHANGED <<acked, effects>>
    BY <1>3, <1>r DEF SaveShape, Writes
  <2>2. CASE drv[d].op = "action"
    BY <1>c, <1>i, <1>s, <2>1, <2>2, FineStores
  <2>3. CASE drv[d].op = "compensate"
    <3>1. ASSUME NEW i \in 1..Len(Initial), NEW j \in 1..Len(Initial), i < j,
                 <<Initial[i], "compensate">> \in effects,
                 \/ <<Initial[j], "action">> \in acked
                 \/ drv[d].tx.bst[Initial[j]] = "Compensating"
          PROVE  <<Initial[j], "compensate">> \in acked
      <4>1. Initial[j] \in Branch
        BY CoordinatorAssumption
      <4>2. \/ <<Initial[j], "action">> \in acked
            \/ tx.bst[Initial[j]] \in Due
        BY <1>c, <2>3, <3>1 DEF Good, UndoneOf
      <4>3. \/ <<Initial[j], "action">> \in acked
            \/ tx.bst[Initial[j]] = "Compensating"
        BY <4>1, <4>2 DEF ProgressInv, Due
      <4> QED BY <3>1, <4>3 DEF Good, OrderOf
    <3>2. OrderOf(drv[d].tx, acked, effects)
      BY <1>s, <3>1 DEF OrderOf
    <3> QED BY <1>c, <1>s, <2>1, <2>3, <3>2, FineClosesUndo
  <2> QED BY <1>o, <2>2, <2>3 DEF SagaHandler
<1>4. CASE CompleteShape(d)
  <2>1. PICK t : /\ OwnCopyOf(d, t) /\ tx' = Bumped(t) /\ Puts(d, Idle)
                 /\ UNCHANGED <<acked, effects>>
                 /\ t.status = Finished(drv[d].op) /\ t.bst = drv[d].tx.bst
    BY <1>4, <1>r DEF CompleteShape, Writes
  <2>2. CASE drv[d].op = "action"
    <3>1. t.status = "Succeeded"
      BY <2>1, <2>2 DEF Finished
    <3> QED BY <1>c, <1>i, <2>1, <2>2, <3>1, FineStores
  <2>3. CASE drv[d].op = "compensate"
    <3>1. t.status = "Aborted"
      BY <2>1, <2>3 DEF Finished
    <3>2. \A j \in 1..Len(Initial) : Initial[j] \in Branch /\ j > Place(drv[d])
      BY <1>4, <2>3, PlaceFacts DEF CompleteShape
    <3>3. ASSUME NEW j \in 1..Len(Initial)
          PROVE  /\ t.bst[Initial[j]] # "Compensating"
                 /\ <<Initial[j], "action">> \in acked =>
                      <<Initial[j], "compensate">> \in acked
      <4>1. drv[d].tx.bst[Initial[j]] \notin Due
        BY <1>c, <2>3, <3>2 DEF Good, UndoneOf
      <4>2. Shows(drv[d].tx, Initial[j], acked)
        BY <1>c, <3>2 DEF Good, RecordedOf
      <4> QED BY <2>1, <4>1, <4>2 DEF Shows, Due
    <3>4. ASSUME NEW b \in Branch, <<b, "action">> \in acked
          PROVE  <<b, "compensate">> \in acked
      <4>1. b \in Members(Initial)
        BY <3>4 DEF ProgressInv
      <4>2. PICK j \in 1..Len(Initial) : b = Initial[j]
        BY <4>1 DEF Members
      <4> QED BY <3>3, <3>4, <4>2
    <3>5. OrderOf(t, acked, effects)
      BY <3>1, <3>3, <3>4 DEF OrderOf
    <3> QED BY <1>c, <2>1, <2>3, <3>1, <3>5, FineClosesUndo
  <2> QED BY <1>o, <2>2, <2>3 DEF SagaHandler
<1> QED BY <1>1, <1>2, <1>3, <1>4

LEMMA UndoStep ==
  ASSUME OneWorker, CoreInv, ControlInv, ProgressInv, UndoInv,
         Undisturbed => OrderOf(tx, acked, effects), [SagaNext]_vars
  PROVE  UndoInv' /\ (Undisturbed' => OrderOf(tx, acked, effects)')
<1> SUFFICES ASSUME Undisturbed'
             PROVE  /\ TurnInv' /\ RecordedInv' /\ UndoneInv'
                    /\ OrderOf(tx, acked, effects)'
  BY DEF UndoInv
<1>1. Undisturbed /\ ~Spend("call") /\ ~Spend("crash") /\ ~Spend("request")
  BY UndisturbedKept
<1>2. CASE \E d \in Driver : DriverShape(d)
  <2>1. PICK d \in Driver : DriverShape(d)
    BY <1>2
  <2>2. /\ d \in Worker /\ \A e \in Driver : e # d => drv[e].pc = "idle"
        /\ Good(drv[d], tx, acked, effects)
    BY <1>1, <2>1, Solo DEF Good
  <2>3. ~Abandons(d) /\ ~RequestShape(d)
    BY <1>1 DEF Abandons, RequestShape
  <2>4. Fine(d)
    <3>1. CASE ChooseShape(d)
      BY <1>1, <2>2, <3>1, FineChooses
    <3>2. CASE StartShape(d)
      BY <1>1, <2>2, <3>2, FineStarts
    <3>3. CASE EndShape(d)
      BY <2>2, <3>3, FineEnds
    <3>4. CASE StoreShape(d) \/ HandShape(d) \/ SaveShape(d) \/ CompleteShape(d)
      BY <2>2, <3>4, FineWrites
    <3>5. CASE PassShape(d) \/ ActionOkShape(d) \/ GiveUpShape(d)
      <4>1. drv[d].op = "action"
        BY <3>5 DEF PassShape, ActionOkShape, GiveUpShape
      <4> QED BY <2>2, <3>5, <4>1, FineForward
    <3>6. CASE SkipShape(d) \/ StuckShape(d) \/ CompensateOkShape(d)
      <4>1. drv[d].op = "compensate"
        BY <3>6 DEF SkipShape, StuckShape, CompensateOkShape
      <4> QED BY <2>2, <3>6, <4>1, FineUndoes
    <3>7. CASE ClaimShape(d) \/ ErrShape(d) \/ Releases(d, drv[d].tx)
      <4>1. drv[d].pc # "idle"
        BY <3>7 DEF ClaimShape, Claims, ErrShape, Rejected, Releases
      <4>2. drv[d].op \in SagaHandler
        BY <2>2, <4>1 DEF Good, TurnOf
      <4> QED BY <2>2, <3>7, <4>2, FineForward, FineUndoes DEF SagaHandler
    <3> QED
      BY <2>1, <2>3, <3>1, <3>2, <3>3, <3>4, <3>5, <3>6, <3>7 DEF DriverShape
  <2>5. PICK s : Puts(d, s) /\ Good(s, tx', acked', effects')
    BY <2>4 DEF Fine
  <2>6. OrderOf(tx, acked, effects)'
    BY <2>5 DEF Good, OrderOf
  <2> QED BY <2>2, <2>5, <2>6, Together DEF Good
<1>3. CASE Expire \/ UNCHANGED vars
  <2>1. UNCHANGED <<tx, barriers, drv, acked, effects>>
    BY <1>3 DEF Expire, vars
  <2>2. TurnInv /\ RecordedInv /\ UndoneInv /\ OrderOf(tx, acked, effects)
    BY <1>1 DEF UndoInv
  <2>3. TurnInv'
    BY <2>1, <2>2 DEF TurnInv, NotUndone, HasCopy
  <2>4. RecordedInv'
    BY <2>1, <2>2 DEF RecordedInv, Recorded, HasCopy, Current
  <2>5. UndoneInv'
    BY <2>1, <2>2 DEF UndoneInv, HasCopy
  <2>6. OrderOf(tx, acked, effects)'
    BY <2>1, <2>2 DEF OrderOf
  <2> QED BY <2>3, <2>4, <2>5, <2>6
<1> QED BY <1>2, <1>3, StepCases

LEMMA UndoInit == Init => UndoInv /\ OrderOf(tx, acked, effects)
<1> SUFFICES ASSUME Init PROVE UndoInv /\ OrderOf(tx, acked, effects)
  OBVIOUS
<1>1. /\ \A d \in Driver : drv[d].pc = "idle" /\ drv[d].op = "none"
      /\ acked = {} /\ effects = {} /\ tx.status = "Submitted"
      /\ \A b \in Branch : tx.bst[b] = "Pending"
  BY DEF Init, Idle, NewTransaction
<1>2. TurnInv
  BY <1>1 DEF TurnInv, NotUndone
<1>3. RecordedInv
  BY <1>1 DEF RecordedInv, Recorded, HasCopy
<1>4. UndoneInv
  BY <1>1 DEF UndoneInv, HasCopy
<1>5. OrderOf(tx, acked, effects)
  BY <1>1 DEF OrderOf
<1> QED BY <1>2, <1>3, <1>4, <1>5 DEF UndoInv

(* While one worker runs undisturbed, its turn, its copy and the histories *)
(* fit together, and the compensations are in order and complete.          *)
LEMMA UndoHolds ==
  ASSUME OneWorker
  PROVE  Spec => [](UndoInv /\ (Undisturbed => OrderOf(tx, acked, effects)))
<1> DEFINE J == /\ ProgressInv /\ UndoInv
                /\ Undisturbed => OrderOf(tx, acked, effects)
<1>1. Init => J
  BY UndoInit DEF Init, ProgressInv, Idle, NewTransaction
<1>2. CoreInv /\ ControlInv /\ J /\ [SagaNext]_vars => J'
  BY ProgressStep, UndoStep
<1> QED BY <1>1, <1>2, SagaTypeCorrect, PTL DEF Spec

(* abort_saga, run by one undisturbed worker, undoes in reverse order: a   *)
(* branch is compensated only once every later branch that accepted its    *)
(* action, or was given up, has accepted its compensation, whatever calls  *)
(* failed and were retried, for any number of branches.                    *)
THEOREM ReverseOrderHolds == OneWorker => (Spec => []ReverseOrder)
<1> SUFFICES ASSUME OneWorker PROVE Spec => []ReverseOrder
  OBVIOUS
<1>1. (Undisturbed => OrderOf(tx, acked, effects)) => ReverseOrder
  BY DEF OrderOf, ReverseOrder
<1> QED BY <1>1, UndoHolds, PTL

(* One undisturbed worker never stores Aborted while an accepted action is *)
(* not compensated, nor Succeeded once a compensation took effect.         *)
THEOREM CompensationCompleteHolds ==
  OneWorker => (Spec => []CompensationComplete)
<1> SUFFICES ASSUME OneWorker PROVE Spec => []CompensationComplete
  OBVIOUS
<1>1. (Undisturbed => OrderOf(tx, acked, effects)) => CompensationComplete
  BY DEF OrderOf, CompensationComplete
<1> QED BY <1>1, UndoHolds, PTL

-----------------------------------------------------------------------------
(* The concurrent Saga.  Its drivers may be in a layer, so that its steps  *)
(* have shapes of their own: driver d alone moves, to state s and layer l. *)

Places(d, s, l) ==
  /\ s \in LayerDriver /\ l \in Layer
  /\ drv' = [drv EXCEPT ![d] = s]
  /\ layer' = [layer EXCEPT ![d] = l]
  /\ deps' = deps

LEMMA PlacesFacts ==
  ASSUME LayersTypeOK, NEW d \in Driver, NEW s, NEW l, Places(d, s, l)
  PROVE  /\ drv' \in [Driver -> LayerDriver] /\ layer' \in [Driver -> Layer]
         /\ drv'[d] = s /\ layer'[d] = l
         /\ \A e \in Driver : e # d => drv'[e] = drv[e] /\ layer'[e] = layer[e]
BY DEF Places, LayersTypeOK

LEMMA LayerDriverIs ==
  ASSUME NEW pc \in Pc \cup {"claim", "unclaim", "calls"}, NEW op \in Handler,
         NEW pos \in Nat, NEW t \in Transaction
  PROVE  /\ At(pc, op, pos, t) \in LayerDriver
         /\ At(pc, op, pos, t).pc = pc /\ At(pc, op, pos, t).op = op
         /\ At(pc, op, pos, t).pos = pos /\ At(pc, op, pos, t).tx = t
BY DEF At, LayerDriver

(* The state that a driver is in, and with another pc and copy.            *)
LEMMA DriverIs ==
  ASSUME LayersTypeOK, NEW d \in Driver
  PROVE  /\ drv[d] \in LayerDriver /\ drv[d].tx \in Transaction
         /\ drv[d].op \in Handler /\ drv[d].pos \in Nat
         /\ drv[d].pc \in Pc \cup {"claim", "unclaim", "calls"}
         /\ drv[d] = At(drv[d].pc, drv[d].op, drv[d].pos, drv[d].tx)
         /\ layer[d] \in Layer
BY DEF LayersTypeOK, LayerDriver, At

LEMMA NoLayerType ==
  NoLayer \in Layer /\ InLayer(NoLayer) = {}
BY DEF NoLayer, Layer, InLayer

LEMMA IdleInLayer ==
  /\ Idle \in LayerDriver /\ Idle.pc = "idle" /\ Idle.op = "none"
  /\ Idle.tx = NewTransaction
  /\ \A op \in Handler :
       [Idle EXCEPT !.pc = "chosen", !.op = op]
         = At("chosen", op, 1, NewTransaction)
<1>1. /\ Idle \in LayerDriver /\ Idle.pc = "idle" /\ Idle.op = "none"
      /\ Idle.tx = NewTransaction
  BY NewTransactionType DEF Idle, LayerDriver, Pc, Handler
<1>2. ASSUME NEW op \in Handler
      PROVE  [Idle EXCEPT !.pc = "chosen", !.op = op]
               = At("chosen", op, 1, NewTransaction)
  <2> DEFINE s == [Idle EXCEPT !.pc = "chosen", !.op = op]
  <2>1. /\ s \in LayerDriver /\ s.pc = "chosen" /\ s.op = op /\ s.pos = 1
        /\ s.tx = NewTransaction
    BY NewTransactionType DEF Idle, LayerDriver, Pc
  <2>2. s = At("chosen", op, 1, NewTransaction)
    <3> HIDE DEF s
    <3> QED BY <2>1 DEF LayerDriver, At
  <2> QED BY <2>2
<1> QED BY <1>1, <1>2

(* The copy of the record a handler starts with.                           *)
Entered(op) ==
  IF op = "action" THEN [tx EXCEPT !.status = "Succeeding"]
  ELSE MarkedForAbort(tx)

Still == UNCHANGED <<budget, acked, effects>>

(* A tick or recover() chooses a handler.                                  *)
PicksHandler(d) ==
  \E op \in SagaHandler :
    /\ drv[d].pc = "idle"
    /\ Places(d, At("chosen", op, 1, NewTransaction), NoLayer)
    /\ \/ d \in Worker /\ budget' = budget
       \/ Spend("call")
    /\ UNCHANGED <<tx, acked, effects>>

(* A handler reads the record.                                             *)
EntersHandler(d) ==
  \E op \in SagaHandler :
    /\ tx.status \in AllowedFrom(op)
    /\ Places(d, At("mark", op, 1, Entered(op)), NoLayer)
    /\ \/ drv[d].pc = "chosen" /\ budget' = budget
       \/ Spend("call")
    /\ UNCHANGED <<tx, acked, effects>>

(* A request that only writes a status reads the record.                   *)
ReadsToWrite(d) ==
  \E op \in Handler \ SagaHandler, t \in Transaction :
    /\ t.ids = tx.ids /\ t.bst = tx.bst /\ t.status # "Succeeded"
    /\ Places(d, At("persist", op, 1, t), NoLayer)
    /\ Spend("request")
    /\ UNCHANGED <<tx, acked, effects>>

(* The handler ends without a write, or is abandoned.                      *)
GoesIdle(d) ==
  /\ drv[d].pc # "idle"
  /\ Places(d, Idle, NoLayer)
  /\ UNCHANGED <<tx, acked>>
  /\ \/ /\ budget' = budget /\ effects' = effects
        /\ drv[d].pc = "calls" => ~CanStore(drv[d].tx)
     \/ /\ Spend("crash")
        /\ \E done \in SUBSET layer[d].calling :
             effects' = effects \cup {LayerKey(d, b) : b \in done}

(* The handler writes its result and returns: the decision of a request,   *)
(* a layer with failures, or the end.                                      *)
StoresEnd(d) ==
  \E t \in Transaction :
    /\ CanStore(t) /\ tx' = Bumped(t)
    /\ t.ids = drv[d].tx.ids /\ t.bst = drv[d].tx.bst /\ t.rev = drv[d].tx.rev
    /\ \/ drv[d].pc \in {"persist", "calls"} /\ t.status = drv[d].tx.status
       \/ /\ drv[d].pc = "loop" /\ drv[d].op = "action"
          /\ t.status = "Succeeded"
          /\ InState(d, {"Succeeded"}) = InState(d, BranchStatus)
       \/ /\ drv[d].pc = "loop" /\ drv[d].op = "compensate"
          /\ t.status = "Aborted"
          /\ InState(d, {"Compensating"}) = {}
    /\ Places(d, Idle, NoLayer)
    /\ Still

(* The handler writes its copy and goes on to its next layer.              *)
StoresCopy(d) ==
  /\ drv[d].pc \in {"mark", "calls"}
  /\ CanStore(drv[d].tx) /\ tx' = Bumped(drv[d].tx)
  /\ Places(d, At("loop", drv[d].op, 1, Bumped(drv[d].tx)), NoLayer)
  /\ Still

Ready(d) ==
  IF drv[d].op = "action" THEN ReadyActions(d) ELSE ReadyCompensations(d)

Entry(ready) == [NoLayer EXCEPT !.todo = ready]

EntersLayer(d) ==
  /\ drv[d].pc = "loop" /\ drv[d].op \in SagaHandler
  /\ Places(d, At("claim", drv[d].op, drv[d].pos, drv[d].tx), Entry(Ready(d)))
  /\ tx' = tx /\ Still

(* A barrier is claimed, refused or released.                              *)
Shifts(d) ==
  \E pc \in {"claim", "unclaim", "calls"}, l \in Layer :
    LET s == At(pc, drv[d].op, drv[d].pos, drv[d].tx) IN
    /\ drv[d].pc \in {"claim", "unclaim", "calls"}
    /\ pc = "calls" <=> drv[d].pc = "calls"
    /\ Places(d, s, l)
    /\ InLayer(l) \subseteq InLayer(layer[d])
    /\ Outstanding(s, l) \subseteq Outstanding(drv[d], layer[d])
    /\ tx' = tx /\ Still

StoresAttempts(d) ==
  /\ drv[d].pc = "claim"
  /\ CanStore(Attempted(d)) /\ tx' = Bumped(Attempted(d))
  /\ Places(d, At("calls", drv[d].op, 1, Bumped(Attempted(d))),
            [layer[d] EXCEPT !.calling = layer[d].held])
  /\ Still

(* A call of the layer succeeds or fails.                                  *)
Ended(d, b, st, l) ==
  /\ drv[d].pc = "calls" /\ b \in layer[d].calling
  /\ Places(d, At("calls", drv[d].op, drv[d].pos,
                  [drv[d].tx EXCEPT !.bst[b] = st]), l)
  /\ l.calling = layer[d].calling \ {b}
  /\ InLayer(l) \subseteq InLayer(layer[d])
  /\ tx' = tx

Succeeds(d) ==
  \E b \in Branch, l \in Layer :
    /\ Ended(d, b, IF drv[d].op = "compensate" THEN "Skipped" ELSE "Succeeded", l)
    /\ budget' = budget
    /\ acked' = acked \cup {LayerKey(d, b)}
    /\ effects' = effects \cup {LayerKey(d, b)}

Fails(d) ==
  \E b \in Branch, l \in Layer :
    /\ Ended(d, b, IF drv[d].op = "compensate" THEN "Compensating" ELSE "Failed", l)
    /\ Spend("failure") /\ acked' = acked
    /\ effects' \in {effects, effects \cup {LayerKey(d, b)}}

(* The attempts are used up: the abort is stored and begins.               *)
TurnsBack(d) ==
  /\ drv[d].pc = "calls" /\ drv[d].op = "action"
  /\ CanStore(LayersGivenUp(d)) /\ tx' = Bumped(LayersGivenUp(d))
  /\ Places(d, At("mark", "compensate", 1, Bumped(LayersGivenUp(d))), NoLayer)
  /\ Still

LayerShape(d) ==
  \/ PicksHandler(d) \/ EntersHandler(d) \/ ReadsToWrite(d) \/ GoesIdle(d)
  \/ StoresEnd(d) \/ StoresCopy(d) \/ EntersLayer(d) \/ Shifts(d)
  \/ StoresAttempts(d) \/ Succeeds(d) \/ Fails(d) \/ TurnsBack(d)

-----------------------------------------------------------------------------
(* The actions of ConcurrentSaga have these shapes.                        *)

(* What the shapes need of the state: outside of a layer none is held.     *)
LayersFit ==
  /\ LayersTypeOK
  /\ \A d \in Driver :
       /\ drv[d].pc # "invoke"
       /\ drv[d].pc = "chosen" => drv[d].op \in SagaHandler
       /\ drv[d].pc \notin {"claim", "unclaim", "calls"} => layer[d] = NoLayer

LEMMA MarkedType ==
  ASSUME NEW t \in Transaction
  PROVE  LET u == MarkedForAbort(t)
         IN  /\ u \in Transaction
             /\ u.status = "Aborting" /\ u.ids = t.ids /\ u.rev = t.rev
             /\ \A b \in Branch :
                  u.bst[b] = CASE t.bst[b] = "Succeeded" -> "Compensating"
                               [] t.bst[b] \in {"Pending", "Running", "Failed"}
                                    -> "Skipped"
                               [] OTHER -> t.bst[b]
<1> DEFINE bst2 == [b \in Branch |->
                      CASE t.bst[b] = "Succeeded" -> "Compensating"
                        [] t.bst[b] \in {"Pending", "Running", "Failed"}
                             -> "Skipped"
                        [] OTHER -> t.bst[b]]
<1>1. MarkedForAbort(t) = [t EXCEPT !.status = "Aborting", !.bst = bst2]
  BY DEF MarkedForAbort
<1>2. bst2 \in [Branch -> BranchStatus]
  BY DEF Transaction, BranchStatus
<1>3. \A b \in Branch :
        bst2[b] = CASE t.bst[b] = "Succeeded" -> "Compensating"
                    [] t.bst[b] \in {"Pending", "Running", "Failed"}
                         -> "Skipped"
                    [] OTHER -> t.bst[b]
  OBVIOUS
<1> HIDE DEF bst2
<1> QED BY <1>1, <1>2, <1>3 DEF Transaction, TransactionStatus

LEMMA GivenUpType ==
  ASSUME NEW d \in Driver, drv[d].tx \in Transaction
  PROVE  LET u == LayersGivenUp(d)
         IN  /\ u \in Transaction
             /\ u.status = "Aborting" /\ u.ids = drv[d].tx.ids
             /\ u.rev = drv[d].tx.rev
             /\ \A b \in Branch :
                  u.bst[b] = IF drv[d].tx.bst[b] = "Succeeded"
                             THEN "Compensating" ELSE "Skipped"
<1> DEFINE t == drv[d].tx
           bst2 == [b \in Branch |->
                      IF t.bst[b] = "Succeeded" THEN "Compensating"
                      ELSE "Skipped"]
<1>1. LayersGivenUp(d) = [t EXCEPT !.status = "Aborting", !.bst = bst2]
  BY DEF LayersGivenUp
<1>2. bst2 \in [Branch -> BranchStatus]
  BY DEF BranchStatus
<1>3. \A b \in Branch : bst2[b] = IF t.bst[b] = "Succeeded"
                                  THEN "Compensating" ELSE "Skipped"
  OBVIOUS
<1> HIDE DEF bst2
<1> QED BY <1>1, <1>2, <1>3 DEF Transaction, TransactionStatus

LEMMA AttemptsType ==
  ASSUME NEW d \in Driver, drv[d].tx \in Transaction
  PROVE  LET u == Attempted(d)
         IN  /\ u \in Transaction
             /\ u.status = drv[d].tx.status /\ u.ids = drv[d].tx.ids
             /\ u.rev = drv[d].tx.rev
             /\ \A b \in Branch :
                  u.bst[b] = IF b \in layer[d].held /\ drv[d].op # "compensate"
                             THEN "Running" ELSE drv[d].tx.bst[b]
<1> DEFINE L == layer[d].held
           t == drv[d].tx
           att2 == [b \in Branch |-> IF b \in L THEN t.att[b] + 1 ELSE t.att[b]]
           bst2 == [b \in Branch |-> IF b \in L /\ drv[d].op # "compensate"
                                     THEN "Running" ELSE t.bst[b]]
<1>1. Attempted(d) = [t EXCEPT !.att = att2, !.bst = bst2]
  BY DEF Attempted, Transaction
<1>2. att2 \in [Branch -> Nat] /\ bst2 \in [Branch -> BranchStatus]
  BY DEF Transaction, BranchStatus
<1>3. \A b \in Branch : bst2[b] = IF b \in L /\ drv[d].op # "compensate"
                                  THEN "Running" ELSE t.bst[b]
  OBVIOUS
<1> HIDE DEF att2, bst2
<1> QED BY <1>1, <1>2, <1>3 DEF Transaction

LEMMA EnteredType ==
  ASSUME LayersTypeOK, NEW op \in SagaHandler
  PROVE  /\ Entered(op) \in Transaction
         /\ Entered(op).ids = tx.ids /\ Entered(op).rev = tx.rev
         /\ Entered(op).status = IF op = "action" THEN "Succeeding" ELSE "Aborting"
         /\ op = "action" => Entered(op).bst = tx.bst
<1>1. tx \in Transaction /\ "Succeeding" \in TransactionStatus
  BY DEF LayersTypeOK, TransactionStatus
<1>2. CASE op = "action"
  BY <1>1, <1>2, Restated DEF Entered
<1>3. CASE op # "action"
  BY <1>1, <1>3, MarkedType DEF Entered
<1> QED BY <1>2, <1>3

(* A step outside of a layer leaves none, like the end of one.             *)
Leaves(d) ==
  /\ LeaveLayer(d) \/ (layer' = layer /\ layer[d] = NoLayer)
  /\ deps' = deps

LEMMA LeavesTo ==
  ASSUME LayersTypeOK, NEW d \in Driver, Leaves(d), NEW s \in LayerDriver,
         drv' = [drv EXCEPT ![d] = s]
  PROVE  Places(d, s, NoLayer)
<1>1. layer' = [layer EXCEPT ![d] = NoLayer]
  BY DEF Leaves, LeaveLayer, LayersTypeOK
<1> QED BY <1>1, NoLayerType DEF Places, Leaves

LEMMA ReturnLeaves ==
  ASSUME LayersTypeOK, NEW d \in Driver, Leaves(d), Return(d)
  PROVE  Places(d, Idle, NoLayer)
BY LeavesTo, IdleInLayer DEF Return

(* A driver's state with other fields.                                     *)
LEMMA StateIs ==
  ASSUME LayersTypeOK, NEW d \in Driver, NEW pc, NEW t
  PROVE  /\ [drv[d] EXCEPT !.pc = pc]
              = At(pc, drv[d].op, drv[d].pos, drv[d].tx)
         /\ [drv[d] EXCEPT !.tx = t]
              = At(drv[d].pc, drv[d].op, drv[d].pos, t)
<1> DEFINE s == drv[d]
<1>1. s \in LayerDriver
  BY DriverIs
<1> HIDE DEF s
<1>2. [s EXCEPT !.pc = pc] = At(pc, s.op, s.pos, s.tx)
  BY <1>1 DEF LayerDriver, At
<1>3. [s EXCEPT !.tx = t] = At(s.pc, s.op, s.pos, t)
  BY <1>1 DEF LayerDriver, At
<1> QED BY <1>2, <1>3 DEF s

LEMMA EnterLayerPlaces ==
  ASSUME LayersTypeOK, NEW d \in Driver, NEW ready \in SUBSET Branch,
         layer[d] = NoLayer, EnterLayer(d, ready), deps' = deps
  PROVE  Places(d, At("claim", drv[d].op, drv[d].pos, drv[d].tx), Entry(ready))
<1>1. drv' = [drv EXCEPT ![d] = [drv[d] EXCEPT !.pc = "claim"]]
  BY DEF EnterLayer, LayersTypeOK
<1>2. layer' = [layer EXCEPT ![d] = Entry(ready)]
  BY DEF EnterLayer, LayersTypeOK, Entry
<1>4. [drv[d] EXCEPT !.pc = "claim"]
        = At("claim", drv[d].op, drv[d].pos, drv[d].tx)
  BY DriverIs, StateIs
<1>3. /\ At("claim", drv[d].op, drv[d].pos, drv[d].tx) \in LayerDriver
      /\ Entry(ready) \in Layer
  BY DriverIs, LayerDriverIs DEF Entry, NoLayer, Layer
<1> QED BY <1>1, <1>2, <1>3, <1>4 DEF Places

(* persist_transaction, at the end of a handler and in the middle.         *)
LEMMA PersistEnds ==
  ASSUME LayersTypeOK, NEW d \in Driver, Leaves(d), NEW t \in Transaction,
         t.ids = drv[d].tx.ids, t.bst = drv[d].tx.bst, t.rev = drv[d].tx.rev,
         \/ drv[d].pc \in {"persist", "calls"} /\ t.status = drv[d].tx.status
         \/ /\ drv[d].pc = "loop" /\ drv[d].op = "action"
            /\ t.status = "Succeeded"
            /\ InState(d, {"Succeeded"}) = InState(d, BranchStatus)
         \/ /\ drv[d].pc = "loop" /\ drv[d].op = "compensate"
            /\ t.status = "Aborted"
            /\ InState(d, {"Compensating"}) = {},
         Persist(d, t), Still
  PROVE  LayerShape(d)
<1>1. Places(d, Idle, NoLayer)
  BY ReturnLeaves DEF Persist
<1>2. CASE CanStore(t)
  <2>1. tx' = Bumped(t)
    BY <1>2 DEF Persist
  <2> QED BY <1>1, <1>2, <2>1 DEF LayerShape, StoresEnd
<1>3. CASE ~CanStore(t)
  <2>1. ~CanStore(drv[d].tx) /\ drv[d].pc # "idle"
    BY <1>3 DEF CanStore
  <2> QED BY <1>1, <1>3, <2>1 DEF Persist, LayerShape, GoesIdle, Still
<1> QED BY <1>2, <1>3

LEMMA PersistGoes ==
  ASSUME LayersTypeOK, NEW d \in Driver, NEW t \in Transaction,
         NEW pc \in {"loop", "calls"}, PersistAndGo(d, t, pc, 1)
  PROVE  \/ /\ CanStore(t) /\ tx' = Bumped(t)
            /\ At(pc, drv[d].op, 1, Bumped(t)) \in LayerDriver
            /\ drv' = [drv EXCEPT ![d] = At(pc, drv[d].op, 1, Bumped(t))]
         \/ ~CanStore(t) /\ tx' = tx /\ Return(d)
<1>1. CASE CanStore(t)
  <2> DEFINE u == Bumped(t)
             s == [drv[d] EXCEPT !.pc = pc, !.pos = 1, !.tx = u]
  <2>1. /\ tx' = u /\ u \in Transaction
        /\ drv' = [drv EXCEPT ![d] = s]
    BY <1>1, Stored DEF PersistAndGo, LayersTypeOK
  <2> HIDE DEF u
  <2>p. pc \in Pc \cup {"claim", "unclaim", "calls"} /\ 1 \in Nat
    BY DEF Pc
  <2>2. s = At(pc, drv[d].op, 1, u)
    <3>1. drv[d] \in LayerDriver
      BY DriverIs
    <3>2. /\ s \in LayerDriver /\ s.pc = pc /\ s.op = drv[d].op
          /\ s.pos = 1 /\ s.tx = u
      BY <2>1, <2>p, <3>1 DEF LayerDriver
    <3> HIDE DEF s
    <3> QED BY <3>2 DEF LayerDriver, At
  <2>3. At(pc, drv[d].op, 1, u) \in LayerDriver
    BY <2>1, DriverIs, LayerDriverIs DEF Pc
  <2> QED BY <1>1, <2>1, <2>2, <2>3 DEF u
<1>2. CASE ~CanStore(t)
  BY <1>2 DEF PersistAndGo
<1> QED BY <1>1, <1>2

LEMMA EnterPlaces ==
  ASSUME LayersTypeOK, NEW d \in Driver, NEW op \in SagaHandler, Leaves(d),
         EnterConcurrent(d, op)
  PROVE  Places(d, At("mark", op, 1, Entered(op)), NoLayer)
<1>0. op \in Handler /\ Entered(op) \in Transaction /\ "mark" \in Pc
  BY EnteredType DEF Pc, SagaHandler, Handler
<1>1. At("mark", op, 1, Entered(op)) \in LayerDriver
  BY <1>0, LayerDriverIs
<1>2. drv' = [drv EXCEPT ![d] = At("mark", op, 1, Entered(op))]
  BY DEF EnterConcurrent, Entered, At
<1> QED BY <1>1, <1>2, LeavesTo

LEMMA ChoosePlaces ==
  ASSUME LayersTypeOK, NEW d \in Driver, NEW op \in SagaHandler, Leaves(d),
         Choose(d, op)
  PROVE  Places(d, At("chosen", op, 1, NewTransaction), NoLayer)
<1>0. op \in Handler
  BY DEF SagaHandler, Handler
<1>1. At("chosen", op, 1, NewTransaction) \in LayerDriver
  BY <1>0, NewTransactionType, LayerDriverIs DEF Pc
<1>2. drv' = [drv EXCEPT ![d] = At("chosen", op, 1, NewTransaction)]
  BY <1>0, IdleInLayer DEF Choose
<1> QED BY <1>1, <1>2, LeavesTo

(* The steps of a handler outside of a layer.                              *)
LEMMA HandlerLayerShape ==
  ASSUME LayersFit, NEW d \in Driver,
         \/ StartConcurrent(d) \/ StoreDecision(d)
         \/ NextActions(d) \/ NextCompensations(d)
         \/ StoreJoined(d) \/ HandOverLayers(d)
         \/ Save(d) /\ UNCHANGED <<layer, deps>>
  PROVE  LayerShape(d)
<1>t. /\ LayersTypeOK /\ drv[d].tx \in Transaction
      /\ drv[d].pc = "chosen" => drv[d].op \in SagaHandler
      /\ drv[d].pc \notin {"claim", "unclaim", "calls"} => layer[d] = NoLayer
  BY DriverIs DEF LayersFit
<1>s. ASSUME NEW st \in TransactionStatus
      PROVE  LET t == [drv[d].tx EXCEPT !.status = st]
             IN  /\ t \in Transaction /\ t.ids = drv[d].tx.ids
                 /\ t.bst = drv[d].tx.bst /\ t.rev = drv[d].tx.rev
                 /\ t.status = st
  BY <1>t, Restated
<1>g. ASSUME drv[d].pc \in {"mark", "calls"}, Leaves(d), Still,
             PersistAndGo(d, drv[d].tx, "loop", 1)
      PROVE  LayerShape(d)
  <2>1. CASE CanStore(drv[d].tx)
    <3>1. /\ tx' = Bumped(drv[d].tx)
          /\ Places(d, At("loop", drv[d].op, 1, Bumped(drv[d].tx)), NoLayer)
      BY <1>g, <1>t, <2>1, PersistGoes, LeavesTo
    <3> QED BY <1>g, <2>1, <3>1 DEF LayerShape, StoresCopy
  <2>2. CASE ~CanStore(drv[d].tx)
    <3>1. tx' = tx /\ Return(d)
      BY <1>t, <1>g, <2>2, PersistGoes
    <3> QED BY <1>g, <1>t, <2>2, <3>1, ReturnLeaves
            DEF LayerShape, GoesIdle, Still
  <2> QED BY <2>1, <2>2
<1>1. CASE StartConcurrent(d)
  <2>1. Leaves(d) /\ drv[d].pc = "chosen"
    BY <1>1, <1>t DEF StartConcurrent, Leaves
  <2>2. CASE tx.status \in AllowedFrom(drv[d].op)
    <3>1. Places(d, At("mark", drv[d].op, 1, Entered(drv[d].op)), NoLayer)
      BY <1>1, <1>t, <2>1, <2>2, EnterPlaces DEF StartConcurrent
    <3>2. drv[d].op \in SagaHandler
      BY <1>t, <2>1
    <3> QED BY <1>1, <2>1, <2>2, <3>1, <3>2
            DEF LayerShape, EntersHandler, StartConcurrent
  <2>3. CASE tx.status \notin AllowedFrom(drv[d].op)
    BY <1>1, <1>t, <2>1, <2>3, ReturnLeaves
       DEF LayerShape, GoesIdle, StartConcurrent
  <2> QED BY <2>2, <2>3
<1>2. CASE StoreDecision(d)
  BY <1>2, <1>t, <1>g DEF StoreDecision, Leaves, Still
<1>3. CASE NextActions(d)
  <2>0. /\ drv[d].pc = "loop" /\ drv[d].op = "action" /\ layer[d] = NoLayer
        /\ Still /\ deps' = deps /\ "Succeeded" \in TransactionStatus
    BY <1>3, <1>t DEF NextActions, Still, TransactionStatus
  <2>1. CASE /\ InState(d, {"Succeeded"}) = InState(d, BranchStatus)
             /\ Persist(d, [drv[d].tx EXCEPT !.status = "Succeeded"])
             /\ NoLayerStep
    <3> DEFINE t == [drv[d].tx EXCEPT !.status = "Succeeded"]
    <3>1. Leaves(d)
      BY <2>0, <2>1 DEF Leaves, NoLayerStep
    <3>2. /\ t \in Transaction /\ t.ids = drv[d].tx.ids
          /\ t.bst = drv[d].tx.bst /\ t.rev = drv[d].tx.rev
          /\ t.status = "Succeeded" /\ Persist(d, t)
      BY <1>s, <2>0, <2>1
    <3> HIDE DEF t
    <3> QED BY <1>t, <2>0, <2>1, <3>1, <3>2, PersistEnds
  <2>2. CASE Return(d) /\ NoLayerStep /\ UNCHANGED tx
    BY <1>t, <2>0, <2>2, ReturnLeaves
       DEF LayerShape, GoesIdle, Leaves, NoLayerStep, Still
  <2>3. CASE EnterLayer(d, ReadyActions(d)) /\ UNCHANGED tx
    <3>1. ReadyActions(d) \in SUBSET Branch
      BY <1>t, DriverIs DEF ReadyActions, InState, Members, Transaction
    <3>2. Places(d, At("claim", drv[d].op, drv[d].pos, drv[d].tx),
                 Entry(ReadyActions(d)))
      BY <1>t, <2>0, <2>3, <3>1, EnterLayerPlaces
    <3>4. Ready(d) = ReadyActions(d) /\ drv[d].op \in SagaHandler
      BY <2>0 DEF Ready, SagaHandler
    <3> QED BY <2>0, <2>3, <3>2, <3>4 DEF LayerShape, EntersLayer
  <2> QED BY <1>3, <2>1, <2>2, <2>3 DEF NextActions
<1>4. CASE NextCompensations(d)
  <2>0. /\ drv[d].pc = "loop" /\ drv[d].op = "compensate" /\ layer[d] = NoLayer
        /\ Still /\ deps' = deps /\ "Aborted" \in TransactionStatus
    BY <1>4, <1>t DEF NextCompensations, Still, TransactionStatus
  <2>1. CASE /\ InState(d, {"Compensating"}) = {}
             /\ Persist(d, [drv[d].tx EXCEPT !.status = "Aborted"])
             /\ NoLayerStep
    <3> DEFINE t == [drv[d].tx EXCEPT !.status = "Aborted"]
    <3>1. Leaves(d)
      BY <2>0, <2>1 DEF Leaves, NoLayerStep
    <3>2. /\ t \in Transaction /\ t.ids = drv[d].tx.ids
          /\ t.bst = drv[d].tx.bst /\ t.rev = drv[d].tx.rev
          /\ t.status = "Aborted" /\ Persist(d, t)
      BY <1>s, <2>0, <2>1
    <3> HIDE DEF t
    <3> QED BY <1>t, <2>0, <2>1, <3>1, <3>2, PersistEnds
  <2>2. CASE EnterLayer(d, ReadyCompensations(d)) /\ UNCHANGED tx
    <3>1. ReadyCompensations(d) \in SUBSET Branch
      BY <1>t, DriverIs DEF ReadyCompensations, InState, Members, Transaction
    <3>2. Places(d, At("claim", drv[d].op, drv[d].pos, drv[d].tx),
                 Entry(ReadyCompensations(d)))
      BY <1>t, <2>0, <2>2, <3>1, EnterLayerPlaces
    <3>4. Ready(d) = ReadyCompensations(d) /\ drv[d].op \in SagaHandler
      BY <2>0 DEF Ready, SagaHandler
    <3> QED BY <2>0, <2>2, <3>2, <3>4 DEF LayerShape, EntersLayer
  <2> QED BY <1>4, <2>1, <2>2 DEF NextCompensations
<1>5. CASE StoreJoined(d)
  <2>1. Leaves(d) /\ Still /\ drv[d].pc = "calls"
    BY <1>5 DEF StoreJoined, Leaves, Still, Joined
  <2>2. CASE PersistAndGo(d, drv[d].tx, "loop", 1)
    BY <1>g, <2>1, <2>2
  <2>3. CASE Persist(d, drv[d].tx)
    BY <1>t, <2>1, <2>3, PersistEnds
  <2> QED BY <1>5, <2>2, <2>3 DEF StoreJoined
<1>6. CASE HandOverLayers(d)
  <2>1. Leaves(d) /\ Still /\ drv[d].pc = "calls" /\ drv[d].op = "action"
    BY <1>6 DEF HandOverLayers, Leaves, Still, Joined, Exhausted
  <2>2. CASE CanStore(LayersGivenUp(d))
    <3> DEFINE u == Bumped(LayersGivenUp(d))
    <3>1. u \in Transaction
      BY <1>t, GivenUpType, Stored
    <3>2. /\ tx' = u
          /\ drv' = [drv EXCEPT ![d] = At("mark", "compensate", 1, u)]
      BY <1>6, <2>2 DEF HandOverLayers, At
    <3> HIDE DEF u
    <3>3. At("mark", "compensate", 1, u) \in LayerDriver
      BY <3>1, LayerDriverIs DEF Pc, Handler
    <3>4. Places(d, At("mark", "compensate", 1, u), NoLayer)
      BY <1>t, <2>1, <3>2, <3>3, LeavesTo
    <3> QED BY <2>1, <2>2, <3>2, <3>4 DEF LayerShape, TurnsBack, u
  <2>3. CASE ~CanStore(LayersGivenUp(d))
    <3>1. ~CanStore(drv[d].tx)
      BY <1>t, <2>3, GivenUpType DEF CanStore
    <3> QED BY <1>6, <1>t, <2>1, <2>3, <3>1, ReturnLeaves
            DEF HandOverLayers, LayerShape, GoesIdle, Still
  <2> QED BY <2>2, <2>3
<1>7. CASE Save(d) /\ UNCHANGED <<layer, deps>>
  <2>1. Leaves(d) /\ Still /\ drv[d].pc = "persist" /\ Persist(d, drv[d].tx)
    BY <1>7, <1>t DEF Save, Leaves, Still
  <2> QED BY <1>t, <2>1, PersistEnds
<1> QED BY <1>1, <1>2, <1>3, <1>4, <1>5, <1>6, <1>7

(* The layers that a step in a layer leads to.                             *)
Claimed(l, b) == [l EXCEPT !.todo = l.todo \ {b}, !.held = l.held \cup {b}]
Unclaimed(l, b) == [l EXCEPT !.held = l.held \ {b}]
Released(l, b) == [l EXCEPT !.todo = l.todo \ {b}]
Called(l) == [l EXCEPT !.calling = l.held]
TaskGone(l, b) == [l EXCEPT !.calling = l.calling \ {b}]
TaskFailed(l, b) ==
  [l EXCEPT !.calling = l.calling \ {b}, !.todo = l.todo \cup {b}]

LEMMA ClaimedIs ==
  ASSUME NEW l \in Layer, NEW b \in Branch
  PROVE  /\ Claimed(l, b) \in Layer /\ Claimed(l, b).todo = l.todo \ {b}
         /\ Claimed(l, b).held = l.held \cup {b} /\ Claimed(l, b).calling = l.calling
<1>1. l.todo \subseteq Branch /\ l.held \subseteq Branch /\ l.calling \subseteq Branch
  BY DEF Layer
<1> QED BY <1>1 DEF Claimed, Layer

LEMMA UnclaimedIs ==
  ASSUME NEW l \in Layer, NEW b \in Branch
  PROVE  /\ Unclaimed(l, b) \in Layer /\ Unclaimed(l, b).todo = l.todo
         /\ Unclaimed(l, b).held = l.held \ {b} /\ Unclaimed(l, b).calling = l.calling
<1>1. l.todo \subseteq Branch /\ l.held \subseteq Branch /\ l.calling \subseteq Branch
  BY DEF Layer
<1> QED BY <1>1 DEF Unclaimed, Layer

LEMMA ReleasedIs ==
  ASSUME NEW l \in Layer, NEW b \in Branch
  PROVE  /\ Released(l, b) \in Layer /\ Released(l, b).todo = l.todo \ {b}
         /\ Released(l, b).held = l.held /\ Released(l, b).calling = l.calling
<1>1. l.todo \subseteq Branch /\ l.held \subseteq Branch /\ l.calling \subseteq Branch
  BY DEF Layer
<1> QED BY <1>1 DEF Released, Layer

LEMMA TaskGoneIs ==
  ASSUME NEW l \in Layer, NEW b \in Branch
  PROVE  /\ TaskGone(l, b) \in Layer /\ TaskGone(l, b).todo = l.todo
         /\ TaskGone(l, b).held = l.held /\ TaskGone(l, b).calling = l.calling \ {b}
<1>1. l.todo \subseteq Branch /\ l.held \subseteq Branch /\ l.calling \subseteq Branch
  BY DEF Layer
<1> QED BY <1>1 DEF TaskGone, Layer

LEMMA TaskFailedIs ==
  ASSUME NEW l \in Layer, NEW b \in Branch
  PROVE  /\ TaskFailed(l, b) \in Layer /\ TaskFailed(l, b).todo = l.todo \cup {b}
         /\ TaskFailed(l, b).held = l.held /\ TaskFailed(l, b).calling = l.calling \ {b}
<1>1. l.todo \subseteq Branch /\ l.held \subseteq Branch /\ l.calling \subseteq Branch
  BY DEF Layer
<1> QED BY <1>1 DEF TaskFailed, Layer

(* The steps in a layer.                                                   *)
LEMMA LayerStepShape ==
  ASSUME LayersFit, NEW d \in Driver, LayerStep(d), deps' = deps
  PROVE  LayerShape(d)
<1>t. /\ LayersTypeOK /\ layer[d] \in Layer /\ layer \in [Driver -> Layer]
      /\ drv \in [Driver -> LayerDriver] /\ drv[d] \in LayerDriver
      /\ drv[d].tx \in Transaction
      /\ drv[d] = At(drv[d].pc, drv[d].op, drv[d].pos, drv[d].tx)
  BY DriverIs DEF LayersFit, LayersTypeOK
<1> DEFINE same == At(drv[d].pc, drv[d].op, drv[d].pos, drv[d].tx)
           stop == At("unclaim", drv[d].op, drv[d].pos, drv[d].tx)
<1>a. /\ same \in LayerDriver /\ same.pc = drv[d].pc
      /\ stop \in LayerDriver /\ stop.pc = "unclaim"
  <2>1. /\ drv[d].op \in Handler /\ drv[d].pos \in Nat
        /\ drv[d].tx \in Transaction
        /\ "unclaim" \in Pc \cup {"claim", "unclaim", "calls"}
    BY <1>t, DriverIs
  <2>2. stop \in LayerDriver /\ stop.pc = "unclaim"
    BY <2>1 DEF At, LayerDriver
  <2> QED BY <1>t, <2>2
<1>u. drv' = drv => drv' = [drv EXCEPT ![d] = same]
  BY <1>t
<1> HIDE DEF same, stop
(* A step that only moves a barrier.                                       *)
<1>k. ASSUME NEW l \in Layer, drv' = drv, layer' = [layer EXCEPT ![d] = l],
             drv[d].pc \in {"claim", "unclaim", "calls"},
             InLayer(l) \subseteq InLayer(layer[d]),
             Outstanding(same, l) \subseteq Outstanding(drv[d], layer[d]),
             tx' = tx, Still
      PROVE  LayerShape(d)
  <2>1. Places(d, same, l)
    BY <1>k, <1>a, <1>u DEF Places
  <2> QED BY <1>k, <2>1 DEF LayerShape, Shifts, same
<1>1. CASE Unclaim(d)
  <2>0. drv[d].pc = "unclaim" /\ tx' = tx /\ Still
    BY <1>1 DEF Unclaim, Still
  <2>1. CASE Return(d) /\ LeaveLayer(d)
    <3>1. Places(d, Idle, NoLayer)
      BY <1>t, <2>1, ReturnLeaves DEF Leaves
    <3> QED BY <2>0, <3>1 DEF LayerShape, GoesIdle, Still
  <2>2. ASSUME NEW b \in layer[d].held, drv' = drv,
               layer' = [layer EXCEPT ![d].held = @ \ {b}]
        PROVE  LayerShape(d)
    <3>1. b \in Branch
      BY <1>t, <2>2 DEF Layer
    <3>2. layer' = [layer EXCEPT ![d] = Unclaimed(layer[d], b)]
      BY <1>t, <2>2 DEF Unclaimed
    <3>3. /\ Unclaimed(layer[d], b) \in Layer
          /\ InLayer(Unclaimed(layer[d], b)) \subseteq InLayer(layer[d])
          /\ Outstanding(same, Unclaimed(layer[d], b)) = {}
      <4> DEFINE l == Unclaimed(layer[d], b)
      <4>1. /\ l \in Layer /\ l.todo = layer[d].todo
            /\ l.held = layer[d].held \ {b} /\ l.calling = layer[d].calling
        BY <1>t, <3>1, UnclaimedIs
      <4> HIDE DEF l
      <4>2. InLayer(l) \subseteq InLayer(layer[d])
        BY <4>1 DEF InLayer
      <4>3. Outstanding(same, l) = {}
        BY <1>a, <2>0 DEF Outstanding
      <4> QED BY <4>1, <4>2, <4>3 DEF l
    <3> QED BY <1>k, <2>0, <2>2, <3>2, <3>3
  <2> QED BY <1>1, <2>1, <2>2 DEF Unclaim
<1>2. CASE StoreLayer(d)
  <2>0. /\ drv[d].pc = "claim" /\ Still
        /\ PersistAndGo(d, Attempted(d), "calls", 1)
    BY <1>2 DEF StoreLayer, Still
  <2>1. /\ Attempted(d) \in Transaction
        /\ CanStore(Attempted(d)) <=> CanStore(drv[d].tx)
    BY <1>t, AttemptsType DEF CanStore
  <2>2. CASE CanStore(Attempted(d))
    <3>1. layer' = [layer EXCEPT ![d] = Called(layer[d])]
      BY <1>2, <1>t, <2>1, <2>2 DEF StoreLayer, Called
    <3>2. Called(layer[d]) \in Layer
      BY <1>t DEF Called, Layer
    <3> DEFINE s == At("calls", drv[d].op, 1, Bumped(Attempted(d)))
    <3>3. /\ tx' = Bumped(Attempted(d)) /\ s \in LayerDriver
          /\ drv' = [drv EXCEPT ![d] = s]
      BY <1>t, <2>0, <2>1, <2>2, PersistGoes
    <3> HIDE DEF s
    <3>4. Places(d, s, Called(layer[d]))
      BY <3>1, <3>2, <3>3 DEF Places
    <3> QED BY <2>0, <2>2, <3>3, <3>4 DEF LayerShape, StoresAttempts, s, Called
  <2>3. CASE ~CanStore(Attempted(d))
    <3>1. LeaveLayer(d) /\ tx' = tx /\ Return(d)
      BY <1>2, <1>t, <2>0, <2>1, <2>3, PersistGoes DEF StoreLayer, LeaveLayer
    <3>2. Places(d, Idle, NoLayer)
      BY <1>t, <3>1, ReturnLeaves DEF Leaves
    <3> QED BY <2>0, <3>1, <3>2 DEF LayerShape, GoesIdle, Still
  <2> QED BY <2>2, <2>3
<1>3. ASSUME NEW b \in Branch, ClaimNext(d, b)
      PROVE  LayerShape(d)
  <2>0. /\ drv[d].pc = "claim" /\ tx' = tx /\ Still
        /\ b \in layer[d].todo
    BY <1>3 DEF ClaimNext, IsFirst, Still
  <2>1. CASE /\ layer' = [layer EXCEPT ![d].todo = @ \ {b}, ![d].held = @ \cup {b}]
             /\ drv' = drv
    <3>1. layer' = [layer EXCEPT ![d] = Claimed(layer[d], b)]
      BY <1>t, <2>1 DEF Claimed
    <3>2. /\ Claimed(layer[d], b) \in Layer
          /\ InLayer(Claimed(layer[d], b)) \subseteq InLayer(layer[d])
          /\ Outstanding(same, Claimed(layer[d], b))
               \subseteq Outstanding(drv[d], layer[d])
      <4> DEFINE l == Claimed(layer[d], b)
      <4>1. /\ l \in Layer /\ l.todo = layer[d].todo \ {b}
            /\ l.held = layer[d].held \cup {b} /\ l.calling = layer[d].calling
        BY <1>t, ClaimedIs
      <4> HIDE DEF l
      <4>2. InLayer(l) \subseteq InLayer(layer[d])
        BY <2>0, <4>1 DEF InLayer
      <4>3. /\ Outstanding(same, l) = l.todo \cup l.held
            /\ Outstanding(drv[d], layer[d]) = layer[d].todo \cup layer[d].held
        BY <1>a, <2>0 DEF Outstanding
      <4>4. Outstanding(same, l) \subseteq Outstanding(drv[d], layer[d])
        BY <2>0, <4>1, <4>3
      <4> QED BY <4>1, <4>2, <4>4 DEF l
    <3> QED BY <1>k, <2>0, <2>1, <3>1, <3>2
  <2>2. CASE /\ drv' = [drv EXCEPT ![d].pc = "unclaim"]
             /\ layer' = layer
    <3>1. drv' = [drv EXCEPT ![d] = stop]
      BY <1>t, <2>2, StateIs DEF stop
    <3>2. layer' = [layer EXCEPT ![d] = layer[d]]
      BY <1>t, <2>2
    <3>3. Outstanding(stop, layer[d]) = {}
      BY <1>a DEF Outstanding
    <3>4. Places(d, stop, layer[d])
      BY <1>t, <1>a, <3>1, <3>2 DEF Places
    <3> QED BY <1>t, <2>0, <3>3, <3>4 DEF LayerShape, Shifts, stop
  <2> QED BY <1>3, <2>1, <2>2 DEF ClaimNext
<1>4. ASSUME NEW b \in Branch, ReleaseFailed(d, b)
      PROVE  LayerShape(d)
  <2>0. /\ drv[d].pc = "calls" /\ tx' = tx /\ Still /\ drv' = drv
        /\ layer' = [layer EXCEPT ![d] = Released(layer[d], b)]
    BY <1>4, <1>t DEF ReleaseFailed, Still, Released
  <2>1. /\ Released(layer[d], b) \in Layer
        /\ InLayer(Released(layer[d], b)) \subseteq InLayer(layer[d])
        /\ Outstanding(same, Released(layer[d], b))
             \subseteq Outstanding(drv[d], layer[d])
    <3> DEFINE l == Released(layer[d], b)
    <3>1. /\ l \in Layer /\ l.todo = layer[d].todo \ {b}
          /\ l.held = layer[d].held /\ l.calling = layer[d].calling
      BY <1>t, ReleasedIs
    <3> HIDE DEF l
    <3>2. InLayer(l) \subseteq InLayer(layer[d])
      BY <3>1 DEF InLayer
    <3>3. /\ Outstanding(same, l) = l.calling
          /\ Outstanding(drv[d], layer[d]) = layer[d].calling
      BY <1>a, <2>0 DEF Outstanding
    <3> QED BY <3>1, <3>2, <3>3 DEF l
  <2> QED BY <1>k, <2>0, <2>1
(* A task ends.                                                            *)
<1>e. ASSUME NEW b \in Branch, NEW st \in BranchStatus, TaskDone(d, b, st),
             NEW l \in Layer, layer' = [layer EXCEPT ![d] = l],
             l.calling = layer[d].calling \ {b},
             InLayer(l) \subseteq InLayer(layer[d]), tx' = tx
      PROVE  Ended(d, b, st, l)
  <2> DEFINE t == [drv[d].tx EXCEPT !.bst[b] = st]
             s == At("calls", drv[d].op, drv[d].pos, t)
  <2>0. drv[d].pc = "calls" /\ b \in layer[d].calling
    BY <1>e DEF TaskDone
  <2>1. t \in Transaction
    BY <1>t, TransactionUpdate
  <2>2. drv' = [drv EXCEPT ![d] = [drv[d] EXCEPT !.tx = t]]
    BY <1>e, <1>t DEF TaskDone
  <2>3. s \in LayerDriver
    <3> HIDE DEF t
    <3> QED BY <1>t, <2>1, DriverIs, LayerDriverIs
  <2>4. [drv[d] EXCEPT !.tx = t] = s
    <3> HIDE DEF t
    <3> QED BY <1>t, <2>0, StateIs
  <2>5. Places(d, s, l)
    <3> HIDE DEF s, t
    <3> QED BY <1>e, <2>2, <2>3, <2>4 DEF Places
  <2> QED BY <1>e, <2>0, <2>5 DEF Ended
<1>5. ASSUME NEW b \in Branch, TaskOk(d, b)
      PROVE  LayerShape(d)
  <2> DEFINE st == IF drv[d].op = "compensate" THEN "Skipped" ELSE "Succeeded"
  <2>1. /\ st \in BranchStatus /\ TaskDone(d, b, st) /\ tx' = tx
        /\ layer' = [layer EXCEPT ![d] = TaskGone(layer[d], b)]
    BY <1>5, <1>t DEF TaskOk, TaskGone, BranchStatus
  <2>2. /\ TaskGone(layer[d], b) \in Layer
        /\ TaskGone(layer[d], b).calling = layer[d].calling \ {b}
        /\ InLayer(TaskGone(layer[d], b)) \subseteq InLayer(layer[d])
    <3> DEFINE l == TaskGone(layer[d], b)
    <3>1. /\ l \in Layer /\ l.todo = layer[d].todo
          /\ l.held = layer[d].held /\ l.calling = layer[d].calling \ {b}
      BY <1>t, TaskGoneIs
    <3> HIDE DEF l
    <3>2. InLayer(l) \subseteq InLayer(layer[d])
      BY <3>1 DEF InLayer
    <3> QED BY <3>1, <3>2 DEF l
  <2> HIDE DEF st
  <2>3. Ended(d, b, st, TaskGone(layer[d], b))
    BY <1>e, <2>1, <2>2
  <2> QED BY <1>5, <2>2, <2>3 DEF LayerShape, Succeeds, TaskOk, st
<1>6. ASSUME NEW b \in Branch, TaskErr(d, b)
      PROVE  LayerShape(d)
  <2> DEFINE st == IF drv[d].op = "compensate" THEN "Compensating" ELSE "Failed"
  <2>1. /\ st \in BranchStatus /\ TaskDone(d, b, st) /\ tx' = tx
        /\ b \in layer[d].calling
        /\ layer' = [layer EXCEPT ![d] = TaskFailed(layer[d], b)]
    BY <1>6, <1>t DEF TaskErr, TaskDone, TaskFailed, BranchStatus
  <2>2. /\ TaskFailed(layer[d], b) \in Layer
        /\ TaskFailed(layer[d], b).calling = layer[d].calling \ {b}
        /\ InLayer(TaskFailed(layer[d], b)) \subseteq InLayer(layer[d])
    <3> DEFINE l == TaskFailed(layer[d], b)
    <3>1. /\ l \in Layer /\ l.todo = layer[d].todo \cup {b}
          /\ l.held = layer[d].held /\ l.calling = layer[d].calling \ {b}
      BY <1>t, TaskFailedIs
    <3> HIDE DEF l
    <3>2. InLayer(l) \subseteq InLayer(layer[d])
      BY <2>1, <3>1 DEF InLayer
    <3> QED BY <3>1, <3>2 DEF l
  <2> HIDE DEF st
  <2>3. Ended(d, b, st, TaskFailed(layer[d], b))
    BY <1>e, <2>1, <2>2
  <2> QED BY <1>6, <2>2, <2>3 DEF LayerShape, Fails, TaskErr, st
<1> QED BY <1>1, <1>2, <1>3, <1>4, <1>5, <1>6 DEF LayerStep

(* Requests, ticks and crashes.                                            *)
LEMMA RequestLayerShape ==
  ASSUME LayersFit, NEW d \in Driver,
         ConcurrentClient(d) \/ ConcurrentTick(d) \/ ConcurrentCrash(d)
  PROVE  LayerShape(d)
<1>t. /\ LayersTypeOK /\ tx \in Transaction /\ drv[d].pc # "invoke"
      /\ drv[d].pc \notin {"claim", "unclaim", "calls"} => layer[d] = NoLayer
  BY DEF LayersFit, LayersTypeOK
<1>l. ASSUME UNCHANGED <<layer, deps>>,
             drv[d].pc \notin {"claim", "unclaim", "calls"}
      PROVE  Leaves(d)
  BY <1>l, <1>t DEF Leaves
<1>c. ASSUME Choose(d, RecoverHandler), RecoverHandler # "none",
             UNCHANGED <<layer, deps>>, drv[d].pc = "idle",
             \/ d \in Worker /\ budget' = budget
             \/ Spend("call"),
             UNCHANGED <<tx, acked, effects>>
      PROVE  LayerShape(d)
  <2>1. RecoverHandler \in SagaHandler
    BY <1>c DEF RecoverHandler, SagaHandler
  <2>2. Places(d, At("chosen", RecoverHandler, 1, NewTransaction), NoLayer)
    BY <1>c, <1>l, <1>t, <2>1, ChoosePlaces
  <2> QED BY <1>c, <2>1, <2>2 DEF LayerShape, PicksHandler
<1>r. ASSUME NEW op \in Handler \ SagaHandler, NEW st \in TransactionStatus,
             st # "Succeeded", StatusRequest(d, op, st),
             UNCHANGED <<layer, deps>>
      PROVE  LayerShape(d)
  <2> DEFINE t == [tx EXCEPT !.status = st]
  <2>1. /\ t \in Transaction /\ t.ids = tx.ids /\ t.bst = tx.bst
        /\ t.status # "Succeeded"
    BY <1>t, <1>r, Restated
  <2>2. /\ drv' = [drv EXCEPT ![d] = At("persist", op, 1, t)]
        /\ Spend("request") /\ drv[d].pc = "idle"
        /\ UNCHANGED <<tx, acked, effects>>
    BY <1>r DEF StatusRequest, Request, Begin, At
  <2> HIDE DEF t
  <2>3. At("persist", op, 1, t) \in LayerDriver
    BY <2>1, LayerDriverIs DEF Pc
  <2>4. Places(d, At("persist", op, 1, t), NoLayer)
    BY <1>t, <1>l, <1>r, <2>2, <2>3, LeavesTo
  <2> QED BY <2>1, <2>2, <2>4 DEF LayerShape, ReadsToWrite
<1>h. {"force_stop", "reset_retry", "schedule_abort"} \subseteq Handler \ SagaHandler
  BY DEF Handler, SagaHandler
<1>1. ASSUME NEW op \in SagaHandler, CallConcurrent(d, op)
      PROVE  LayerShape(d)
  <2>1. /\ Spend("call") /\ tx.status \in AllowedFrom(op)
        /\ drv[d].pc = "idle" /\ EnterConcurrent(d, op)
        /\ UNCHANGED <<tx, acked, effects, layer, deps>>
    BY <1>1 DEF CallConcurrent, Request
  <2>2. Places(d, At("mark", op, 1, Entered(op)), NoLayer)
    BY <1>t, <1>l, <2>1, EnterPlaces
  <2> QED BY <2>1, <2>2 DEF LayerShape, EntersHandler
<1>2. ASSUME ScheduleAbort(d), UNCHANGED <<layer, deps>>
      PROVE  LayerShape(d)
  BY <1>2, <1>r, <1>h DEF ScheduleAbort, TransactionStatus
<1>3. ASSUME ForceStop(d), UNCHANGED <<layer, deps>>
      PROVE  LayerShape(d)
  BY <1>3, <1>r, <1>h DEF ForceStop, TransactionStatus
<1>4. ASSUME ResetRetry(d), UNCHANGED <<layer, deps>>
      PROVE  LayerShape(d)
  <2>1. tx.status \in TransactionStatus /\ tx.status # "Succeeded"
    BY <1>t, <1>4 DEF ResetRetry, IsTerminal, Transaction
  <2> QED BY <1>4, <1>r, <1>h, <2>1 DEF ResetRetry
<1>5. ASSUME RecoverRequest(d, RecoverHandler), UNCHANGED <<layer, deps>>
      PROVE  LayerShape(d)
  <2> HIDE DEF RecoverHandler
  <2> QED BY <1>5, <1>c DEF RecoverRequest, Request
<1>6. CASE ConcurrentTick(d)
  <2> HIDE DEF RecoverHandler
  <2> QED BY <1>6, <1>c DEF ConcurrentTick, WorkerTick
<1>7. CASE AbandonLayer(d) /\ deps' = deps
  <2>1. Places(d, Idle, NoLayer)
    BY <1>7, <1>t, ReturnLeaves DEF AbandonLayer, Leaves
  <2> QED BY <1>7, <2>1 DEF LayerShape, GoesIdle, AbandonLayer
<1>8. CASE /\ drv[d].pc \notin {"claim", "unclaim", "calls"}
           /\ Abandon(d) /\ UNCHANGED <<layer, deps>>
  <2>1. Places(d, Idle, NoLayer)
    BY <1>8, <1>t, <1>l, ReturnLeaves DEF Abandon
  <2>2. {} \in SUBSET layer[d].calling
        /\ effects \cup {LayerKey(d, b) : b \in {}} = effects
    OBVIOUS
  <2>3. /\ effects' = effects /\ Spend("crash") /\ UNCHANGED <<tx, acked>>
        /\ drv[d].pc # "idle"
    BY <1>8, <1>t DEF Abandon
  <2> QED BY <2>1, <2>2, <2>3 DEF LayerShape, GoesIdle
<1> QED BY <1>1, <1>2, <1>3, <1>4, <1>5, <1>6, <1>7, <1>8
        DEF ConcurrentClient, ConcurrentCrash

(* Every step is one of a driver, the timeout, or none.                    *)
LEMMA ConcurrentShape ==
  ASSUME LayersFit, [ConcurrentNext]_concurrentVars
  PROVE  \/ \E d \in Driver : LayerShape(d)
         \/ UNCHANGED <<tx, drv, layer, deps, budget, acked, effects>>
<1>1. ASSUME NEW d \in Driver, ConcurrentStep(d)
      PROVE  LayerShape(d)
  BY <1>1, HandlerLayerShape, LayerStepShape DEF ConcurrentStep
<1>2. ASSUME NEW d \in Driver,
             ConcurrentClient(d) \/ ConcurrentTick(d) \/ ConcurrentCrash(d)
      PROVE  LayerShape(d)
  BY <1>2, RequestLayerShape
<1>3. CASE Expire /\ UNCHANGED <<layer, deps>>
  BY <1>3 DEF Expire
<1>4. CASE UNCHANGED concurrentVars
  BY <1>4 DEF concurrentVars, layerVars, vars
<1> QED BY <1>1, <1>2, <1>3, <1>4 DEF ConcurrentNext

-----------------------------------------------------------------------------
(* OrderInv is inductive.                                                  *)

(* InOrder with the set of accepted keys as a parameter, so that it can be *)
(* said of the state a driver goes to.                                     *)
Sound(s, l, A) ==
  /\ s.tx.ids = Initial
  /\ \A b \in Branch : s.tx.bst[b] = "Succeeded" => <<b, "action">> \in A
  /\ s.tx.status # "Succeeded"
  /\ s.pc # "invoke"
  /\ s.pc \notin {"idle", "persist"} => s.op \in SagaHandler
  /\ s.pc \notin {"claim", "unclaim", "calls"} => l = NoLayer
  /\ InLayer(l) \subseteq Members(Initial)
  /\ s.op = "action" =>
       \A b \in InLayer(l) : \A c \in deps[b] : <<c, "action">> \in A

LEMMA SoundDrivers ==
  /\ \A d \in Driver : InOrder(drv[d], layer[d]) <=> Sound(drv[d], layer[d], acked)
  /\ deps' = deps =>
       \A d \in Driver :
         InOrder(drv[d], layer[d])' <=> Sound(drv'[d], layer'[d], acked')
BY DEF InOrder, Truthful, Sound

(* An action that the step made a branch execute had its dependencies.     *)
LEMMA OrderMoves ==
  ASSUME OrderInv, NEW d \in Driver, NEW s, NEW l, Places(d, s, l),
         Sound(s, l, acked'),
         tx' \in Transaction, tx'.ids = Initial,
         \A b \in Branch : tx'.bst[b] = "Succeeded" => <<b, "action">> \in acked',
         acked \subseteq acked', acked' \subseteq effects',
         \A key \in acked' : key[1] \in Members(Initial),
         \A b \in Branch : <<b, "action">> \in effects' \ effects =>
           \A c \in deps[b] : <<c, "action">> \in acked',
         tx'.status = "Succeeded" =>
           \A b \in Members(Initial) : <<b, "action">> \in acked'
  PROVE  OrderInv'
<1>1. /\ drv' \in [Driver -> LayerDriver] /\ layer' \in [Driver -> Layer]
      /\ drv'[d] = s /\ layer'[d] = l /\ deps' = deps
      /\ \A e \in Driver : e # d => drv'[e] = drv[e] /\ layer'[e] = layer[e]
  BY PlacesFacts DEF OrderInv, Places
<1>2. LayersTypeOK'
  BY <1>1 DEF LayersTypeOK
<1>3. Truthful(tx)'
  BY DEF Truthful
<1>4. ASSUME NEW e \in Driver
      PROVE  Sound(drv'[e], layer'[e], acked')
  <2>1. CASE e = d
    BY <1>1, <2>1
  <2>2. CASE e # d
    <3>1. Sound(drv[e], layer[e], acked)
      BY SoundDrivers DEF OrderInv
    <3> QED BY <1>1, <2>2, <3>1 DEF Sound
  <2> QED BY <2>1, <2>2
<1>5. \A e \in Driver : InOrder(drv[e], layer[e])'
  BY <1>1, <1>4, SoundDrivers
<1>6. LayerOrder'
  <2>1. ASSUME NEW b \in Branch, NEW c \in Branch, c \in deps[b],
               <<b, "action">> \in effects'
        PROVE  <<c, "action">> \in acked'
    BY <2>1 DEF OrderInv, LayerOrder
  <2> QED BY <1>1, <2>1 DEF LayerOrder
<1> QED BY <1>2, <1>3, <1>5, <1>6 DEF OrderInv

(* A step that changes neither the record nor the history.                 *)
LEMMA OrderPlaces ==
  ASSUME OrderInv, NEW d \in Driver, NEW s, NEW l, Places(d, s, l),
         Sound(s, l, acked), UNCHANGED <<tx, acked, effects>>
  PROVE  OrderInv'
BY OrderMoves DEF OrderInv, Truthful, LayersTypeOK, LayerOrder

(* A step that stores a record no Succeeded of which is new.               *)
LEMMA OrderStores ==
  ASSUME OrderInv, NEW d \in Driver, NEW s, NEW l, Places(d, s, l),
         Sound(s, l, acked), NEW t \in Transaction, tx' = Bumped(t),
         t.ids = Initial,
         \A b \in Branch : t.bst[b] = "Succeeded" => <<b, "action">> \in acked,
         t.status = "Succeeded" =>
           \A b \in Members(Initial) : <<b, "action">> \in acked,
         UNCHANGED <<acked, effects>>
  PROVE  OrderInv'
<1>1. /\ tx' \in Transaction /\ tx'.ids = t.ids /\ tx'.bst = t.bst
      /\ tx'.status = t.status
  BY Stored
<1> QED BY <1>1, OrderMoves DEF OrderInv

(* The key of a call in a layer.                                           *)
LEMMA LayerKeyIs ==
  ASSUME NEW d \in Driver, NEW b, NEW c,
         LayerKey(d, b) = <<c, "action">>
  PROVE  b = c /\ drv[d].op = "action"
BY DEF LayerKey, BarrierOp

LEMMA SoundIdle == Sound(Idle, NoLayer, acked)
<1>1. /\ NewTransaction.ids = Initial /\ NewTransaction.status = "Submitted"
      /\ \A b \in Branch : NewTransaction.bst[b] = "Pending"
  BY DEF NewTransaction
<1>2. Idle.pc = "idle" /\ Idle.op = "none" /\ Idle.tx = NewTransaction
  BY IdleInLayer
<1>3. InLayer(NoLayer) = {}
  BY NoLayerType
<1> QED BY <1>1, <1>2, <1>3 DEF Sound

LEMMA OrderShape ==
  ASSUME OrderInv, NEW d \in Driver, LayerShape(d)
  PROVE  OrderInv'
<1>t. /\ LayersTypeOK /\ tx \in Transaction /\ drv[d].tx \in Transaction
      /\ layer[d] \in Layer /\ drv[d].op \in Handler /\ drv[d].pos \in Nat
      /\ drv[d].pc \in Pc \cup {"claim", "unclaim", "calls"}
      /\ acked \subseteq effects
  BY DriverIs DEF OrderInv, LayersTypeOK
<1>s. /\ Sound(drv[d], layer[d], acked)
      /\ tx.ids = Initial
      /\ \A b \in Branch : tx.bst[b] = "Succeeded" => <<b, "action">> \in acked
  BY SoundDrivers DEF OrderInv, Truthful
<1>c. /\ drv[d].tx.ids = Initial /\ drv[d].tx.status # "Succeeded"
      /\ \A b \in Branch :
           drv[d].tx.bst[b] = "Succeeded" => <<b, "action">> \in acked
  BY <1>s DEF Sound
<1>i. \A S : InState(d, S) = {b \in Members(Initial) : drv[d].tx.bst[b] \in S}
  BY <1>c DEF InState
<1>m. Members(Initial) \subseteq Branch
  BY CoordinatorAssumption DEF Members
<1>1. CASE PicksHandler(d)
  <2>1. PICK op \in SagaHandler :
          /\ Places(d, At("chosen", op, 1, NewTransaction), NoLayer)
          /\ UNCHANGED <<tx, acked, effects>>
    BY <1>1 DEF PicksHandler
  <2>2. Sound(At("chosen", op, 1, NewTransaction), NoLayer, acked)
    BY NoLayerType DEF Sound, At, NewTransaction
  <2> QED BY <2>1, <2>2, OrderPlaces
<1>2. CASE EntersHandler(d)
  <2>1. PICK op \in SagaHandler :
          /\ Places(d, At("mark", op, 1, Entered(op)), NoLayer)
          /\ UNCHANGED <<tx, acked, effects>>
    BY <1>2 DEF EntersHandler
  <2>2. /\ Entered(op).ids = Initial /\ Entered(op).status # "Succeeded"
        /\ \A b \in Branch :
             Entered(op).bst[b] = "Succeeded" => <<b, "action">> \in acked
    <3>1. CASE op = "action"
      BY <1>t, <1>s, <3>1, EnteredType
    <3>2. CASE op # "action"
      <4>1. ASSUME NEW b \in Branch
            PROVE  MarkedForAbort(tx).bst[b] # "Succeeded"
        <5>1. tx \in Transaction /\ tx.bst[b] \in BranchStatus
          BY <1>t DEF Transaction
        <5>2. MarkedForAbort(tx).bst[b] =
                CASE tx.bst[b] = "Succeeded" -> "Compensating"
                  [] tx.bst[b] \in {"Pending", "Running", "Failed"} -> "Skipped"
                  [] OTHER -> tx.bst[b]
          BY <5>1, MarkedType
        <5> QED BY <5>1, <5>2 DEF BranchStatus
      <4> QED BY <1>t, <1>s, <3>2, <4>1, EnteredType DEF Entered
    <3> QED BY <3>1, <3>2
  <2>3. Sound(At("mark", op, 1, Entered(op)), NoLayer, acked)
    BY <2>2, NoLayerType DEF Sound, At
  <2> QED BY <2>1, <2>3, OrderPlaces
<1>3. CASE ReadsToWrite(d)
  <2>1. PICK op \in Handler \ SagaHandler, t \in Transaction :
          /\ t.ids = tx.ids /\ t.bst = tx.bst /\ t.status # "Succeeded"
          /\ Places(d, At("persist", op, 1, t), NoLayer)
          /\ UNCHANGED <<tx, acked, effects>>
    BY <1>3 DEF ReadsToWrite
  <2>2. Sound(At("persist", op, 1, t), NoLayer, acked)
    BY <1>s, <2>1, NoLayerType DEF Sound, At, SagaHandler
  <2> QED BY <2>1, <2>2, OrderPlaces
<1>4. CASE GoesIdle(d)
  <2>1. CASE effects' = effects
    BY <1>4, <2>1, SoundIdle, OrderPlaces DEF GoesIdle
  <2>2. ASSUME NEW done \in SUBSET layer[d].calling,
               effects' = effects \cup {LayerKey(d, b) : b \in done}
        PROVE  OrderInv'
    <3>0. Places(d, Idle, NoLayer) /\ UNCHANGED <<tx, acked>>
      BY <1>4 DEF GoesIdle
    <3>1. ASSUME NEW b \in Branch, <<b, "action">> \in effects' \ effects
          PROVE  \A c \in deps[b] : <<c, "action">> \in acked
      <4>1. PICK a \in done : LayerKey(d, a) = <<b, "action">>
        BY <2>2, <3>1
      <4>2. a = b /\ drv[d].op = "action" /\ b \in InLayer(layer[d])
        BY <4>1, LayerKeyIs DEF InLayer
      <4> QED BY <1>s, <4>2 DEF Sound
    <3>2. effects \subseteq effects'
      BY <2>2
    <3>3. LayerOrder /\ \A key \in acked : key[1] \in Members(Initial)
      BY DEF OrderInv
    <3> QED BY <1>t, <1>s, <3>0, <3>1, <3>2, <3>3, SoundIdle, OrderMoves
            DEF LayerOrder
  <2> QED BY <1>4, <2>1, <2>2 DEF GoesIdle
<1>5. CASE StoresEnd(d)
  <2>1. PICK t \in Transaction :
          /\ tx' = Bumped(t)
          /\ t.ids = drv[d].tx.ids /\ t.bst = drv[d].tx.bst
          /\ \/ t.status = drv[d].tx.status
             \/ /\ t.status = "Succeeded"
                /\ InState(d, {"Succeeded"}) = InState(d, BranchStatus)
             \/ t.status = "Aborted"
          /\ Places(d, Idle, NoLayer)
          /\ UNCHANGED <<acked, effects>>
    BY <1>5 DEF StoresEnd, Still
  <2>2. ASSUME t.status = "Succeeded", NEW b \in Members(Initial)
        PROVE  <<b, "action">> \in acked
    <3>1. b \in InState(d, BranchStatus)
      BY <1>t, <1>m, <1>i DEF Transaction
    <3>2. b \in InState(d, {"Succeeded"})
      BY <1>c, <2>1, <2>2, <3>1
    <3> QED BY <1>c, <1>i, <1>m, <3>2
  <2> QED BY <1>c, <2>1, <2>2, SoundIdle, OrderStores
<1>6. CASE StoresCopy(d)
  <2>1. /\ tx' = Bumped(drv[d].tx) /\ UNCHANGED <<acked, effects>>
        /\ Places(d, At("loop", drv[d].op, 1, Bumped(drv[d].tx)), NoLayer)
        /\ drv[d].op \in SagaHandler
    BY <1>6, <1>s DEF StoresCopy, Still, Sound
  <2>2. Sound(At("loop", drv[d].op, 1, Bumped(drv[d].tx)), NoLayer, acked)
    BY <1>t, <1>c, <2>1, Stored, NoLayerType DEF Sound, At
  <2> QED BY <1>t, <1>c, <2>1, <2>2, OrderStores
<1>7. CASE EntersLayer(d)
  <2>1. /\ Places(d, At("claim", drv[d].op, drv[d].pos, drv[d].tx), Entry(Ready(d)))
        /\ UNCHANGED <<tx, acked, effects>> /\ drv[d].op \in SagaHandler
    BY <1>7 DEF EntersLayer, Still
  <2>2. InLayer(Entry(Ready(d))) = Ready(d)
    BY DEF InLayer, Entry, NoLayer
  <2>3. ASSUME drv[d].op = "action", NEW b \in Ready(d), NEW c \in deps[b]
        PROVE  <<c, "action">> \in acked
    <3>1. c \in InState(d, {"Succeeded"})
      BY <2>3 DEF Ready, ReadyActions
    <3> QED BY <1>c, <1>i, <1>m, <3>1
  <2>4. Sound(At("claim", drv[d].op, drv[d].pos, drv[d].tx), Entry(Ready(d)), acked)
    <3>1. Ready(d) \subseteq Members(Initial)
      BY <1>i DEF Ready, ReadyActions, ReadyCompensations
    <3> QED BY <1>c, <2>1, <2>2, <2>3, <3>1 DEF Sound, At
  <2> QED BY <2>1, <2>4, OrderPlaces
<1>8. CASE Shifts(d)
  <2>1. PICK pc \in {"claim", "unclaim", "calls"}, l \in Layer :
          /\ drv[d].pc \in {"claim", "unclaim", "calls"}
          /\ Places(d, At(pc, drv[d].op, drv[d].pos, drv[d].tx), l)
          /\ InLayer(l) \subseteq InLayer(layer[d])
          /\ UNCHANGED <<tx, acked, effects>>
    BY <1>8 DEF Shifts, Still
  <2>2. Sound(At(pc, drv[d].op, drv[d].pos, drv[d].tx), l, acked)
    BY <1>s, <2>1 DEF Sound, At
  <2> QED BY <2>1, <2>2, OrderPlaces
<1>9. CASE StoresAttempts(d)
  <2> DEFINE l == [layer[d] EXCEPT !.calling = layer[d].held]
             s == At("calls", drv[d].op, 1, Bumped(Attempted(d)))
  <2>1. /\ tx' = Bumped(Attempted(d)) /\ UNCHANGED <<acked, effects>>
        /\ Places(d, s, l) /\ drv[d].pc = "claim"
    BY <1>9 DEF StoresAttempts, Still
  <2>2. InLayer(l) \subseteq InLayer(layer[d])
    BY <1>t DEF InLayer, Layer
  <2>3. /\ Attempted(d) \in Transaction /\ Attempted(d).ids = Initial
        /\ Attempted(d).status # "Succeeded"
        /\ \A b \in Branch :
             Attempted(d).bst[b] = "Succeeded" => <<b, "action">> \in acked
    BY <1>t, <1>c, AttemptsType
  <2>4. /\ s.pc = "calls" /\ s.op = drv[d].op /\ s.tx = Bumped(Attempted(d))
    BY DEF At
  <2>5. /\ s.tx.ids = Initial /\ s.tx.status # "Succeeded"
        /\ s.tx.bst = Attempted(d).bst
    BY <2>3, <2>4, Stored
  <2> HIDE DEF l, s
  <2>6. Sound(s, l, acked)
    BY <1>s, <2>1, <2>2, <2>3, <2>4, <2>5 DEF Sound
  <2> QED BY <2>1, <2>3, <2>6, OrderStores
(* A call ends.                                                            *)
<1>e. ASSUME NEW b \in Branch, NEW l \in Layer, NEW st \in BranchStatus,
             Ended(d, b, st, l), acked \subseteq acked', acked' \subseteq effects',
             effects \subseteq effects',
             effects' \subseteq effects \cup {LayerKey(d, b)},
             acked' \subseteq acked \cup {LayerKey(d, b)},
             st = "Succeeded" => <<b, "action">> \in acked'
      PROVE  OrderInv'
  <2> DEFINE t == [drv[d].tx EXCEPT !.bst[b] = st]
             s == At("calls", drv[d].op, drv[d].pos, t)
  <2>1. /\ Places(d, s, l) /\ tx' = tx /\ b \in InLayer(layer[d])
        /\ InLayer(l) \subseteq InLayer(layer[d]) /\ drv[d].pc = "calls"
    BY <1>e DEF Ended, InLayer
  <2>2. /\ t.ids = Initial /\ t.status # "Succeeded"
        /\ \A a \in Branch : t.bst[a] = IF a = b THEN st ELSE drv[d].tx.bst[a]
    BY <1>t, <1>c DEF Transaction
  <2>3. s.pc = "calls" /\ s.op = drv[d].op /\ s.tx = t
    BY DEF At
  <2> HIDE DEF t, s
  <2>4. Sound(s, l, acked')
    BY <1>c, <1>e, <1>s, <2>1, <2>2, <2>3 DEF Sound
  <2>5. ASSUME NEW a \in Branch, <<a, "action">> \in effects' \ effects
        PROVE  \A c \in deps[a] : <<c, "action">> \in acked'
    <3>1. LayerKey(d, b) = <<a, "action">>
      BY <1>e, <2>5
    <3>2. a = b /\ drv[d].op = "action"
      BY <3>1, LayerKeyIs
    <3> QED BY <1>e, <1>s, <2>1, <3>2 DEF Sound
  <2>6. LayerOrder /\ \A key \in acked : key[1] \in Members(Initial)
    BY DEF OrderInv
  <2>7. \A key \in acked' : key[1] \in Members(Initial)
    BY <1>e, <1>s, <2>1, <2>6 DEF Sound, LayerKey
  <2> QED BY <1>e, <1>t, <1>s, <2>1, <2>4, <2>5, <2>6, <2>7, OrderMoves
          DEF LayerOrder
<1>10. CASE Succeeds(d)
  <2> DEFINE st == IF drv[d].op = "compensate" THEN "Skipped" ELSE "Succeeded"
  <2>1. PICK b \in Branch, l \in Layer :
          /\ Ended(d, b, st, l)
          /\ acked' = acked \cup {LayerKey(d, b)}
          /\ effects' = effects \cup {LayerKey(d, b)}
    BY <1>10 DEF Succeeds
  <2>2. st \in BranchStatus
    BY DEF BranchStatus
  <2>3. st = "Succeeded" => <<b, "action">> \in acked'
    <3>1. drv[d].op \in {"action", "compensate"}
      BY <1>s, <2>1 DEF Ended, Sound, SagaHandler
    <3> QED BY <2>1, <3>1 DEF LayerKey, BarrierOp
  <2> HIDE DEF st
  <2> QED BY <1>e, <1>t, <2>1, <2>2, <2>3
<1>11. CASE Fails(d)
  <2> DEFINE st == IF drv[d].op = "compensate" THEN "Compensating" ELSE "Failed"
  <2>1. PICK b \in Branch, l \in Layer :
          /\ Ended(d, b, st, l)
          /\ acked' = acked
          /\ effects' \in {effects, effects \cup {LayerKey(d, b)}}
    BY <1>11 DEF Fails
  <2>2. st \in BranchStatus /\ st # "Succeeded"
    BY DEF BranchStatus
  <2> HIDE DEF st
  <2> QED BY <1>e, <1>t, <2>1, <2>2
<1>12. CASE TurnsBack(d)
  <2> DEFINE u == LayersGivenUp(d)
             s == At("mark", "compensate", 1, Bumped(u))
  <2>1. /\ tx' = Bumped(u) /\ UNCHANGED <<acked, effects>>
        /\ Places(d, s, NoLayer)
    BY <1>12 DEF TurnsBack, Still
  <2>2. /\ u \in Transaction /\ u.ids = Initial /\ u.status = "Aborting"
        /\ \A b \in Branch : u.bst[b] # "Succeeded"
    BY <1>t, <1>c, GivenUpType
  <2> HIDE DEF u
  <2>3. Sound(s, NoLayer, acked)
    BY <2>2, Stored, NoLayerType DEF Sound, At, SagaHandler
  <2> QED BY <2>1, <2>2, <2>3, OrderStores
<1> QED BY <1>1, <1>2, <1>3, <1>4, <1>5, <1>6, <1>7, <1>8, <1>9, <1>10, <1>11,
           <1>12 DEF LayerShape

LEMMA OrderNext ==
  OrderInv /\ [ConcurrentNext]_concurrentVars => OrderInv'
<1> SUFFICES ASSUME OrderInv, [ConcurrentNext]_concurrentVars
             PROVE  OrderInv'
  OBVIOUS
<1>1. LayersFit
  BY DEF OrderInv, InOrder, LayersFit
<1>2. ASSUME NEW d \in Driver, LayerShape(d)
      PROVE  OrderInv'
  BY <1>2, OrderShape
<1>3. CASE UNCHANGED <<tx, drv, layer, deps, budget, acked, effects>>
  BY <1>3 DEF OrderInv, LayersTypeOK, Truthful, InOrder, LayerOrder
<1> QED BY <1>1, <1>2, <1>3, ConcurrentShape

LEMMA OrderInit == ConcurrentInit => OrderInv
<1> SUFFICES ASSUME ConcurrentInit PROVE OrderInv
  OBVIOUS
<1>1. /\ tx = NewTransaction /\ drv = [d \in Driver |-> Idle]
      /\ layer = [d \in Driver |-> NoLayer] /\ acked = {} /\ effects = {}
  BY DEF ConcurrentInit, LayerInit, Init
<1>2. LayersTypeOK
  BY <1>1, NewTransactionType, IdleInLayer, NoLayerType DEF LayersTypeOK
<1>3. Truthful(tx) /\ tx.status = "Submitted"
  BY <1>1 DEF Truthful, NewTransaction
<1>4. \A d \in Driver : InOrder(drv[d], layer[d])
  BY <1>1, SoundIdle, SoundDrivers
<1> QED BY <1>1, <1>2, <1>3, <1>4 DEF OrderInv, LayerOrder

(* start_concurrent_saga never runs an action before its dependencies      *)
(* accepted theirs, and never stores Succeeded early, whoever races,       *)
(* crashes or overwrites the record: over every graph, with every number   *)
(* of drivers, and with the stores that check revisions and those that do  *)
(* not.                                                                    *)
THEOREM LayerOrderHolds == ConcurrentSpec => []LayerOrder
<1>1. OrderInv => LayerOrder
  BY DEF OrderInv
<1> QED BY <1>1, OrderInit, OrderNext, PTL DEF ConcurrentSpec

-----------------------------------------------------------------------------
(* LayeredInv is inductive for one worker.                                 *)

(* The parts of LayeredInv with the record T, the accepted keys A and the  *)
(* executed keys E as parameters.                                          *)
Tracks(t, A) ==
  \A b \in Branch :
    /\ <<b, "action">> \in A =>
         \/ t.bst[b] \in {"Succeeded", "Compensating"}
         \/ t.bst[b] = "Skipped" /\ <<b, "compensate">> \in A
    /\ <<b, "compensate">> \in A => t.bst[b] = "Skipped"

NotNeeded(b, A) ==
  \A c \in Branch :
    b \in deps[c] /\ <<c, "action">> \in A => <<c, "compensate">> \in A

ActsAlone(s, T) ==
  /\ T.status \in {"Submitted", "Succeeding"}
  /\ s.tx.status = "Succeeding"
  /\ \A b \in Branch : s.tx.bst[b] # "Compensating"

UndoesAlone(s, l, T, A) ==
  /\ T.status \in {"Submitted", "Succeeding", "Aborting"}
  /\ s.pc # "mark" => T.status = "Aborting"
  /\ s.tx.status = "Aborting"
  /\ \A b \in Branch : s.tx.bst[b] # "Succeeded"
  /\ \A b \in InLayer(l) : NotNeeded(b, A)

WithCopy(s, l, T, A) ==
  /\ s.tx.rev = T.rev
  /\ Tracks(s.tx, A)
  /\ \A b \in Outstanding(s, l) : s.tx.bst[b] \in OpenStatus(s.op)
  /\ s.op = "action" => ActsAlone(s, T)
  /\ s.op = "compensate" => UndoesAlone(s, l, T, A)

Alone(d, s, l, T, A) ==
  /\ s.pc \in {"idle", "chosen", "mark", "loop", "claim", "unclaim", "calls"}
  /\ s.pc # "idle" => d \in Worker /\ s.op \in SagaHandler
  /\ s.pc \notin {"idle", "chosen"} => WithCopy(s, l, T, A)

UndoneIn(T, A, E) ==
  /\ (\A key \in E : key[2] # "compensate") \/ T.status \in {"Aborting", "Aborted"}
  /\ T.status \in {"Submitted", "Succeeding"} =>
       \A b \in Branch : T.bst[b] # "Compensating"
  /\ T.status = "Aborted" =>
       \A b \in Branch : <<b, "action">> \in A => <<b, "compensate">> \in A
  /\ \A b \in Branch : <<b, "compensate">> \in E => NotNeeded(b, A)

LEMMA LayeredParts ==
  /\ \A d \in Driver :
       RunsAlone(d, drv[d], layer[d]) <=> Alone(d, drv[d], layer[d], tx, acked)
  /\ UndoneRecord <=> /\ UndoneIn(tx, acked, effects)
                      /\ Tracks(tx, acked) \/ \E d \in Driver : drv[d].pc = "calls"
BY DEF RunsAlone, Alone, WithCopy, ActsAlone, UndoesAlone, Tracked, Recorded,
       Tracks, Unneeded, NotNeeded, UndoneRecord, UndoneIn, NotUndone

LEMMA LayeredPartsNext ==
  ASSUME deps' = deps
  PROVE  /\ \A d \in Driver :
              RunsAlone(d, drv[d], layer[d])'
                <=> Alone(d, drv'[d], layer'[d], tx', acked')
         /\ UndoneRecord' <=> /\ UndoneIn(tx', acked', effects')
                              /\ \/ Tracks(tx', acked')
                                 \/ \E d \in Driver : drv'[d].pc = "calls"
BY DEF RunsAlone, Alone, WithCopy, ActsAlone, UndoesAlone, Tracked, Recorded,
       Tracks, Unneeded, NotNeeded, UndoneRecord, UndoneIn, NotUndone

(* Only the worker d moves, all others are idle.                           *)
LEMMA LayeredMoves ==
  ASSUME OneWorker, LayersTypeOK, Undisturbed, LayeredInv,
         NEW d \in Worker, NEW s, NEW l, Places(d, s, l),
         Alone(d, s, l, tx', acked'),
         UndoneIn(tx', acked', effects'),
         Tracks(tx', acked') \/ s.pc = "calls"
  PROVE  LayeredInv'
<1>0. d \in Driver
  BY DEF Driver
<1>1. /\ drv'[d] = s /\ layer'[d] = l /\ deps' = deps
      /\ \A e \in Driver : e # d => drv'[e] = drv[e] /\ layer'[e] = layer[e]
  BY <1>0, PlacesFacts DEF Places
<1>2. ASSUME NEW e \in Driver
      PROVE  RunsAlone(e, drv[e], layer[e])'
  <2>1. CASE e = d
    BY <1>1, <2>1, LayeredPartsNext
  <2>2. CASE e # d
    <3>1. drv[e].pc # "idle" => e \in Worker
      BY DEF LayeredInv, RunsAlone
    <3>2. drv[e].pc = "idle"
      BY <2>2, <3>1 DEF OneWorker
    <3>3. Alone(e, drv'[e], layer'[e], tx', acked')
      BY <1>1, <2>2, <3>2 DEF Alone
    <3> QED BY <1>1, <3>3, LayeredPartsNext
  <2> QED BY <2>1, <2>2
<1>3. UndoneRecord'
  BY <1>0, <1>1, LayeredPartsNext
<1> QED BY <1>2, <1>3 DEF LayeredInv

(* A step that changes neither the record nor the history.                 *)
LEMMA LayeredPlaces ==
  ASSUME OneWorker, LayersTypeOK, Undisturbed, LayeredInv,
         NEW d \in Worker, NEW s, NEW l, Places(d, s, l),
         Alone(d, s, l, tx, acked), UNCHANGED <<tx, acked, effects>>,
         drv[d].pc = "calls" => s.pc = "calls" \/ Tracks(tx, acked)
  PROVE  LayeredInv'
<1>0. d \in Driver
  BY DEF Driver
<1>1. /\ UndoneIn(tx, acked, effects)
      /\ Tracks(tx, acked) \/ \E e \in Driver : drv[e].pc = "calls"
  BY LayeredParts DEF LayeredInv
<1>2. \A e \in Driver : drv[e].pc = "calls" => e = d
  BY DEF LayeredInv, RunsAlone, OneWorker
<1>3. Tracks(tx, acked) \/ s.pc = "calls"
  BY <1>1, <1>2
<1> QED BY <1>1, <1>3, LayeredMoves

(* The budget.                                                             *)
BudgetTyped ==
  budget \in [{"request", "call", "failure", "crash"} -> Nat] /\ BudgetInv

LEMMA ShapeBudget ==
  ASSUME BudgetTyped, NEW d \in Driver, LayerShape(d)
  PROVE  /\ BudgetTyped'
         /\ Undisturbed' => Undisturbed
         /\ Spend("call") \/ Spend("crash") \/ Spend("request") => ~Undisturbed'
<1>1. \/ budget' = budget \/ Spend("request") \/ Spend("call")
      \/ Spend("failure") \/ Spend("crash")
  BY DEF LayerShape, PicksHandler, EntersHandler, ReadsToWrite, GoesIdle,
         StoresEnd, StoresCopy, EntersLayer, Shifts, StoresAttempts, Succeeds,
         Fails, TurnsBack, Still
<1>2. CASE budget' = budget
  <2>1. ~Spend("call") /\ ~Spend("crash") /\ ~Spend("request")
    BY <1>2 DEF Spend, BudgetTyped
  <2> QED BY <1>2, <2>1 DEF BudgetTyped, BudgetInv, Undisturbed, WorkersOnly
<1>3. CASE \/ Spend("request") \/ Spend("call")
           \/ Spend("failure") \/ Spend("crash")
  <2>1. ~WorkersOnly' => ~Undisturbed'
    BY DEF Undisturbed
  <2> QED BY <1>3, <2>1, BudgetSpent DEF BudgetTyped
<1> QED BY <1>1, <1>2, <1>3

LEMMA LayeredShape ==
  ASSUME OneWorker, OrderInv, BudgetTyped, LayeredInv, NEW d \in Driver,
         LayerShape(d)
  PROVE  LayeredInv'
<1> SUFFICES ASSUME Undisturbed' PROVE LayeredInv'
  BY DEF LayeredInv
<1>b. /\ Undisturbed
      /\ ~Spend("call") /\ ~Spend("crash") /\ ~Spend("request")
  BY ShapeBudget
<1>t. /\ LayersTypeOK /\ tx \in Transaction /\ drv[d].tx \in Transaction
      /\ layer[d] \in Layer /\ drv[d].op \in Handler /\ drv[d].pos \in Nat
      /\ drv[d].pc \in Pc \cup {"claim", "unclaim", "calls"}
  BY DriverIs DEF OrderInv, LayersTypeOK
<1>a. /\ Alone(d, drv[d], layer[d], tx, acked)
      /\ UndoneIn(tx, acked, effects)
      /\ Tracks(tx, acked) \/ \E e \in Driver : drv[e].pc = "calls"
  BY <1>b, LayeredParts DEF LayeredInv
<1>w. drv[d].pc # "idle" => d \in Worker
  BY <1>a DEF Alone
<1>o. \A e \in Driver : drv[e].pc # "idle" /\ d \in Worker => e = d
  BY <1>b DEF LayeredInv, RunsAlone, OneWorker
<1>c. /\ drv[d].tx.ids = Initial
      /\ \A key \in acked : key[1] \in Members(Initial)
      /\ InLayer(layer[d]) \subseteq Members(Initial)
  BY DEF OrderInv, InOrder, Truthful
<1>m. Members(Initial) \subseteq Branch
  BY CoordinatorAssumption DEF Members
<1>i. \A S : InState(d, S) = {b \in Members(Initial) : drv[d].tx.bst[b] \in S}
  BY <1>c DEF InState
<1>n. InLayer(NoLayer) = {} /\ \A s : s.pc \notin {"claim", "calls"} =>
        \A l : Outstanding(s, l) = {}
  BY NoLayerType DEF Outstanding
<1>z. Alone(d, Idle, NoLayer, tx, acked) /\ Alone(d, Idle, NoLayer, tx', acked')
      /\ Idle.pc = "idle"
  BY IdleInLayer DEF Alone
(* What d knows while it has a copy.                                       *)
<1>k. drv[d].pc \notin {"idle", "chosen"} =>
        /\ WithCopy(drv[d], layer[d], tx, acked)
        /\ d \in Worker /\ drv[d].op \in {"action", "compensate"}
  BY <1>a DEF Alone, SagaHandler
<1>1. CASE PicksHandler(d)
  <2>1. PICK op \in SagaHandler :
          /\ drv[d].pc = "idle"
          /\ Places(d, At("chosen", op, 1, NewTransaction), NoLayer)
          /\ d \in Worker
          /\ UNCHANGED <<tx, acked, effects>>
    BY <1>1, <1>b DEF PicksHandler
  <2>2. Alone(d, At("chosen", op, 1, NewTransaction), NoLayer, tx, acked)
    BY <2>1 DEF Alone, At
  <2> QED BY <1>b, <1>t, <2>1, <2>2, LayeredPlaces
<1>2. CASE EntersHandler(d)
  <2>1. PICK op \in SagaHandler :
          /\ tx.status \in AllowedFrom(op)
          /\ Places(d, At("mark", op, 1, Entered(op)), NoLayer)
          /\ drv[d].pc = "chosen"
          /\ UNCHANGED <<tx, acked, effects>>
    BY <1>2, <1>b DEF EntersHandler
  <2>2. Tracks(tx, acked) /\ d \in Worker
    BY <1>a, <1>o, <1>w, <2>1
  <2> DEFINE s == At("mark", op, 1, Entered(op))
  <2>3. s.pc = "mark" /\ s.op = op /\ s.tx = Entered(op)
    BY DEF At
  <2> HIDE DEF s
  <2>4. CASE op = "action"
    <3>1. /\ s.tx.status = "Succeeding" /\ s.tx.bst = tx.bst
          /\ s.tx.rev = tx.rev /\ tx.status \in {"Submitted", "Succeeding"}
      BY <1>t, <2>1, <2>3, <2>4, EnteredType DEF AllowedFrom
    <3>2. ActsAlone(s, tx)
      BY <1>a, <3>1 DEF ActsAlone, UndoneIn
    <3>3. WithCopy(s, NoLayer, tx, acked)
      BY <1>n, <2>2, <2>3, <2>4, <3>1, <3>2 DEF WithCopy, Tracks
    <3>4. Alone(d, s, NoLayer, tx, acked)
      BY <2>2, <2>3, <3>3 DEF Alone
    <3> QED BY <1>b, <1>t, <2>1, <2>2, <3>4, LayeredPlaces DEF s
  <2>5. CASE op = "compensate"
    <3>1. /\ s.tx = MarkedForAbort(tx)
          /\ tx.status \in {"Submitted", "Succeeding", "Aborting"}
      BY <2>1, <2>3, <2>5 DEF Entered, AllowedFrom
    <3>2. /\ s.tx.status = "Aborting" /\ s.tx.rev = tx.rev
          /\ \A b \in Branch :
               s.tx.bst[b] = CASE tx.bst[b] = "Succeeded" -> "Compensating"
                               [] tx.bst[b] \in {"Pending", "Running", "Failed"}
                                    -> "Skipped"
                               [] OTHER -> tx.bst[b]
      BY <1>t, <3>1, MarkedType
    <3>3. Tracks(s.tx, acked)
      BY <2>2, <3>2 DEF Tracks
    <3>4. \A b \in Branch : s.tx.bst[b] # "Succeeded"
      BY <3>2
    <3>5. UndoesAlone(s, NoLayer, tx, acked)
      BY <1>n, <2>3, <3>1, <3>2, <3>4 DEF UndoesAlone
    <3>6. WithCopy(s, NoLayer, tx, acked)
      BY <1>n, <2>3, <2>5, <3>2, <3>3, <3>5 DEF WithCopy
    <3>7. Alone(d, s, NoLayer, tx, acked)
      BY <2>2, <2>3, <3>6 DEF Alone
    <3> QED BY <1>b, <1>t, <2>1, <2>2, <3>7, LayeredPlaces DEF s
  <2> QED BY <2>4, <2>5 DEF SagaHandler
<1>3. CASE ReadsToWrite(d)
  BY <1>3, <1>b DEF ReadsToWrite
<1>4. CASE GoesIdle(d)
  <2>1. /\ drv[d].pc # "idle" /\ Places(d, Idle, NoLayer)
        /\ UNCHANGED <<tx, acked, effects>>
        /\ drv[d].pc = "calls" => ~CanStore(drv[d].tx)
    BY <1>4, <1>b DEF GoesIdle
  <2>2. drv[d].pc # "calls"
    BY <1>k, <2>1 DEF WithCopy, CanStore
  <2> QED BY <1>b, <1>t, <1>w, <1>z, <2>1, <2>2, LayeredPlaces
(* Nothing was undone while start_concurrent_saga runs.                    *)
<1>u. ASSUME drv[d].pc \notin {"idle", "chosen"}, drv[d].op = "action"
      PROVE  \A key \in effects : key[2] # "compensate"
  BY <1>a, <1>k, <1>u DEF UndoneIn, WithCopy, ActsAlone
<1>v. \A b \in Branch : <<b, "compensate">> \in effects => NotNeeded(b, acked)
  BY <1>a DEF UndoneIn
<1>5. CASE StoresEnd(d)
  <2>1. PICK t \in Transaction :
          /\ tx' = Bumped(t)
          /\ t.ids = drv[d].tx.ids /\ t.bst = drv[d].tx.bst
          /\ \/ drv[d].pc \in {"persist", "calls"} /\ t.status = drv[d].tx.status
             \/ /\ drv[d].pc = "loop" /\ drv[d].op = "action"
                /\ t.status = "Succeeded"
             \/ /\ drv[d].pc = "loop" /\ drv[d].op = "compensate"
                /\ t.status = "Aborted"
                /\ InState(d, {"Compensating"}) = {}
          /\ Places(d, Idle, NoLayer)
          /\ UNCHANGED <<acked, effects>>
    BY <1>5 DEF StoresEnd, Still
  <2>2. /\ drv[d].pc \in {"loop", "calls"} /\ d \in Worker
        /\ drv[d].op \in {"action", "compensate"}
        /\ WithCopy(drv[d], layer[d], tx, acked)
    BY <1>a, <1>k, <2>1 DEF Alone
  <2>3. /\ tx'.bst = drv[d].tx.bst /\ tx'.status = t.status
    BY <2>1, Stored
  <2>4. Tracks(tx', acked)
    BY <2>2, <2>3 DEF WithCopy, Tracks
  <2>5. CASE drv[d].op = "action"
    <3>1. /\ tx'.status \in {"Succeeding", "Succeeded"}
          /\ \A b \in Branch : tx'.bst[b] # "Compensating"
      BY <2>1, <2>2, <2>3, <2>5 DEF WithCopy, ActsAlone
    <3>2. UndoneIn(tx', acked, effects)
      BY <1>u, <1>v, <2>2, <2>5, <3>1 DEF UndoneIn
    <3> QED BY <1>b, <1>t, <1>z, <2>1, <2>2, <2>4, <3>2, LayeredMoves
  <2>6. CASE drv[d].op = "compensate"
    <3>1. /\ tx'.status \in {"Aborting", "Aborted"}
          /\ \A b \in Branch : drv[d].tx.bst[b] # "Succeeded"
      BY <2>1, <2>2, <2>3, <2>6 DEF WithCopy, UndoesAlone
    <3>2. ASSUME tx'.status = "Aborted", NEW b \in Branch, <<b, "action">> \in acked
          PROVE  <<b, "compensate">> \in acked
      <4>1. InState(d, {"Compensating"}) = {}
        BY <2>1, <2>2, <2>3, <2>6, <3>2 DEF WithCopy, UndoesAlone
      <4>2. b \in Members(Initial)
        BY <1>c, <3>2
      <4>3. drv[d].tx.bst[b] # "Compensating"
        BY <1>i, <4>1, <4>2
      <4> QED BY <2>2, <3>1, <3>2, <4>3 DEF WithCopy, Tracks
    <3>3. UndoneIn(tx', acked, effects)
      BY <1>v, <3>1, <3>2 DEF UndoneIn
    <3> QED BY <1>b, <1>t, <1>z, <2>1, <2>2, <2>4, <3>3, LayeredMoves
  <2> QED BY <2>2, <2>5, <2>6
(* The copy is stored and the handler goes on, or turns back.              *)
<1>6. CASE StoresCopy(d)
  <2> DEFINE T == Bumped(drv[d].tx)
             s == At("loop", drv[d].op, 1, T)
  <2>1. /\ tx' = T /\ Places(d, s, NoLayer) /\ UNCHANGED <<acked, effects>>
        /\ drv[d].pc \in {"mark", "calls"}
    BY <1>6 DEF StoresCopy, Still
  <2>2. /\ d \in Worker /\ drv[d].op \in {"action", "compensate"}
        /\ WithCopy(drv[d], layer[d], tx, acked)
    BY <1>k, <2>1
  <2>3. T.bst = drv[d].tx.bst /\ T.status = drv[d].tx.status
    BY <1>t, Stored
  <2>4. s.pc = "loop" /\ s.op = drv[d].op /\ s.tx = T
    BY DEF At
  <2> HIDE DEF T, s
  <2>5. Tracks(T, acked)
    BY <2>2, <2>3 DEF WithCopy, Tracks
  <2>6. CASE drv[d].op = "action"
    <3>1. T.status = "Succeeding" /\ \A b \in Branch : T.bst[b] # "Compensating"
      BY <2>2, <2>3, <2>6 DEF WithCopy, ActsAlone
    <3>2. WithCopy(s, NoLayer, T, acked)
      BY <1>n, <2>4, <2>5, <2>6, <3>1 DEF WithCopy, ActsAlone
    <3>3. Alone(d, s, NoLayer, T, acked)
      BY <2>2, <2>4, <3>2 DEF Alone, SagaHandler
    <3>4. UndoneIn(T, acked, effects)
      BY <1>u, <1>v, <2>1, <2>6, <3>1 DEF UndoneIn
    <3> QED BY <1>b, <1>t, <2>1, <2>2, <2>5, <3>3, <3>4, LayeredMoves
  <2>7. CASE drv[d].op = "compensate"
    <3>1. T.status = "Aborting" /\ \A b \in Branch : T.bst[b] # "Succeeded"
      BY <2>2, <2>3, <2>7 DEF WithCopy, UndoesAlone
    <3>2. WithCopy(s, NoLayer, T, acked)
      BY <1>n, <2>4, <2>5, <2>7, <3>1 DEF WithCopy, UndoesAlone
    <3>3. Alone(d, s, NoLayer, T, acked)
      BY <2>2, <2>4, <3>2 DEF Alone, SagaHandler
    <3>4. UndoneIn(T, acked, effects)
      BY <1>v, <3>1 DEF UndoneIn
    <3> QED BY <1>b, <1>t, <2>1, <2>2, <2>5, <3>3, <3>4, LayeredMoves
  <2> QED BY <2>2, <2>6, <2>7
<1>7. CASE TurnsBack(d)
  <2> DEFINE u == LayersGivenUp(d)
             T == Bumped(u)
             s == At("mark", "compensate", 1, T)
  <2>1. /\ tx' = T /\ Places(d, s, NoLayer) /\ UNCHANGED <<acked, effects>>
        /\ drv[d].pc = "calls" /\ drv[d].op = "action"
    BY <1>7 DEF TurnsBack, Still
  <2>2. d \in Worker /\ WithCopy(drv[d], layer[d], tx, acked)
    BY <1>k, <2>1
  <2>3. /\ T.status = "Aborting"
        /\ \A b \in Branch : T.bst[b] = IF drv[d].tx.bst[b] = "Succeeded"
                                        THEN "Compensating" ELSE "Skipped"
    BY <1>t, GivenUpType, Stored
  <2>4. s.pc = "mark" /\ s.op = "compensate" /\ s.tx = T
    BY DEF At
  <2> HIDE DEF T, s, u
  <2>5. /\ Tracks(drv[d].tx, acked)
        /\ \A b \in Branch : drv[d].tx.bst[b] # "Compensating"
    BY <2>1, <2>2 DEF WithCopy, ActsAlone
  <2>6. Tracks(T, acked) /\ \A b \in Branch : T.bst[b] # "Succeeded"
    BY <2>3, <2>5 DEF Tracks
  <2>7. WithCopy(s, NoLayer, T, acked)
    BY <1>n, <2>3, <2>4, <2>6 DEF WithCopy, UndoesAlone
  <2>8. Alone(d, s, NoLayer, T, acked)
    BY <2>2, <2>4, <2>7 DEF Alone, SagaHandler
  <2>9. UndoneIn(T, acked, effects)
    BY <1>v, <2>3 DEF UndoneIn
  <2> QED BY <1>b, <1>t, <2>1, <2>2, <2>6, <2>8, <2>9, LayeredMoves
<1>8. CASE EntersLayer(d)
  <2> DEFINE s == At("claim", drv[d].op, drv[d].pos, drv[d].tx)
             l == Entry(Ready(d))
  <2>1. /\ Places(d, s, l) /\ UNCHANGED <<tx, acked, effects>>
        /\ drv[d].pc = "loop"
    BY <1>8 DEF EntersLayer, Still
  <2>2. /\ d \in Worker /\ drv[d].op \in {"action", "compensate"}
        /\ WithCopy(drv[d], layer[d], tx, acked)
    BY <1>k, <2>1
  <2>3. s.pc = "claim" /\ s.op = drv[d].op /\ s.tx = drv[d].tx
    BY DEF At
  <2>4. InLayer(l) = Ready(d) /\ Outstanding(s, l) = Ready(d)
    BY <2>3 DEF InLayer, Entry, NoLayer, Outstanding
  <2> HIDE DEF s, l
  <2>5. CASE drv[d].op = "action"
    <3>1. \A b \in Ready(d) : drv[d].tx.bst[b] \in OpenStatus("action")
      BY <1>i, <2>5 DEF Ready, ReadyActions, OpenStatus
    <3>2. WithCopy(s, l, tx, acked)
      BY <2>2, <2>3, <2>4, <2>5, <3>1 DEF WithCopy, ActsAlone
    <3>3. Alone(d, s, l, tx, acked)
      BY <2>2, <2>3, <3>2 DEF Alone, SagaHandler
    <3> QED BY <1>b, <1>t, <2>1, <2>2, <3>3, LayeredPlaces
  <2>6. CASE drv[d].op = "compensate"
    <3>1. /\ Ready(d) \subseteq InState(d, {"Compensating"})
          /\ \A b \in Ready(d), c \in InState(d, {"Compensating"}) : b \notin deps[c]
      BY <2>6 DEF Ready, ReadyCompensations
    <3>2. \A b \in Ready(d) : drv[d].tx.bst[b] \in OpenStatus("compensate")
      BY <1>i, <3>1 DEF OpenStatus
    <3>3. /\ UndoesAlone(drv[d], layer[d], tx, acked) /\ Tracks(drv[d].tx, acked)
          /\ drv[d].tx.rev = tx.rev
      BY <2>2, <2>6 DEF WithCopy
    <3>4. ASSUME NEW b \in Ready(d), NEW c \in Branch, b \in deps[c],
                 <<c, "action">> \in acked
          PROVE  <<c, "compensate">> \in acked
      <4>1. c \in Members(Initial)
        BY <1>c, <3>4
      <4>2. drv[d].tx.bst[c] # "Compensating"
        BY <1>i, <3>1, <3>4, <4>1
      <4> QED BY <3>3, <3>4, <4>2 DEF UndoesAlone, Tracks
    <3>5. \A b \in InLayer(l) : NotNeeded(b, acked)
      BY <2>4, <3>4 DEF NotNeeded
    <3>6. UndoesAlone(s, l, tx, acked)
      BY <2>1, <2>3, <3>3, <3>5 DEF UndoesAlone
    <3>7. WithCopy(s, l, tx, acked)
      BY <2>3, <2>4, <2>6, <3>2, <3>3, <3>6 DEF WithCopy
    <3>8. Alone(d, s, l, tx, acked)
      BY <2>2, <2>3, <3>7 DEF Alone, SagaHandler
    <3> QED BY <1>b, <1>t, <2>1, <2>2, <3>8, LayeredPlaces
  <2> QED BY <2>2, <2>5, <2>6
<1>9. CASE Shifts(d)
  <2>1. PICK pc \in {"claim", "unclaim", "calls"}, l \in Layer :
          /\ drv[d].pc \in {"claim", "unclaim", "calls"}
          /\ pc = "calls" <=> drv[d].pc = "calls"
          /\ Places(d, At(pc, drv[d].op, drv[d].pos, drv[d].tx), l)
          /\ InLayer(l) \subseteq InLayer(layer[d])
          /\ Outstanding(At(pc, drv[d].op, drv[d].pos, drv[d].tx), l)
               \subseteq Outstanding(drv[d], layer[d])
          /\ UNCHANGED <<tx, acked, effects>>
    BY <1>9 DEF Shifts, Still
  <2> DEFINE s == At(pc, drv[d].op, drv[d].pos, drv[d].tx)
  <2>2. /\ d \in Worker /\ drv[d].op \in {"action", "compensate"}
        /\ WithCopy(drv[d], layer[d], tx, acked)
    BY <1>k, <2>1
  <2>3. s.pc = pc /\ s.op = drv[d].op /\ s.tx = drv[d].tx
    BY DEF At
  <2>4. /\ Places(d, s, l)
        /\ Outstanding(s, l) \subseteq Outstanding(drv[d], layer[d])
    BY <2>1
  <2> HIDE DEF s
  <2>5. s.op = "action" => ActsAlone(s, tx)
    BY <2>2, <2>3 DEF WithCopy, ActsAlone
  <2>6. s.op = "compensate" => UndoesAlone(s, l, tx, acked)
    BY <2>1, <2>2, <2>3 DEF WithCopy, UndoesAlone
  <2>7. WithCopy(s, l, tx, acked)
    BY <2>2, <2>3, <2>4, <2>5, <2>6 DEF WithCopy
  <2>8. Alone(d, s, l, tx, acked)
    BY <2>1, <2>2, <2>3, <2>7 DEF Alone, SagaHandler
  <2> QED BY <1>b, <1>t, <2>1, <2>2, <2>3, <2>4, <2>8, LayeredPlaces
<1>10. CASE StoresAttempts(d)
  <2> DEFINE u == Attempted(d)
             T == Bumped(u)
             s == At("calls", drv[d].op, 1, T)
             l == [layer[d] EXCEPT !.calling = layer[d].held]
  <2>1. /\ tx' = T /\ Places(d, s, l) /\ UNCHANGED <<acked, effects>>
        /\ drv[d].pc = "claim"
    BY <1>10 DEF StoresAttempts, Still
  <2>2. /\ d \in Worker /\ drv[d].op \in {"action", "compensate"}
        /\ WithCopy(drv[d], layer[d], tx, acked)
    BY <1>k, <2>1
  <2>3. /\ T.status = drv[d].tx.status
        /\ \A b \in Branch :
             T.bst[b] = IF b \in layer[d].held /\ drv[d].op # "compensate"
                        THEN "Running" ELSE drv[d].tx.bst[b]
    BY <1>t, AttemptsType, Stored
  <2>4. s.pc = "calls" /\ s.op = drv[d].op /\ s.tx = T
    BY DEF At
  <2>5. /\ InLayer(l) \subseteq InLayer(layer[d])
        /\ l.calling = layer[d].held /\ layer[d].held \subseteq Branch
    BY <1>t DEF InLayer, Layer
  <2> HIDE DEF u, T, s, l
  <2>6. Outstanding(s, l) = layer[d].held
    BY <2>4, <2>5 DEF Outstanding
  <2>7. \A b \in layer[d].held : drv[d].tx.bst[b] \in OpenStatus(drv[d].op)
    BY <2>1, <2>2 DEF WithCopy, Outstanding
  <2>8. \A b \in Branch : drv[d].tx.bst[b] \in OpenStatus("action") =>
          <<b, "action">> \notin acked /\ <<b, "compensate">> \notin acked
    BY <2>2 DEF WithCopy, Tracks, OpenStatus
  <2>9. CASE drv[d].op = "action"
    <3>1. Tracks(T, acked)
      BY <2>2, <2>3, <2>7, <2>8, <2>9 DEF WithCopy, Tracks
    <3>2. T.status = "Succeeding" /\ \A b \in Branch : T.bst[b] # "Compensating"
      BY <2>2, <2>3, <2>9 DEF WithCopy, ActsAlone
    <3>3. \A b \in Outstanding(s, l) : s.tx.bst[b] \in OpenStatus(s.op)
      BY <2>3, <2>4, <2>5, <2>6, <2>9 DEF OpenStatus
    <3>4. WithCopy(s, l, T, acked)
      BY <2>4, <2>9, <3>1, <3>2, <3>3 DEF WithCopy, ActsAlone
    <3>5. Alone(d, s, l, T, acked)
      BY <2>2, <2>4, <3>4 DEF Alone, SagaHandler
    <3>6. UndoneIn(T, acked, effects)
      BY <1>u, <1>v, <2>1, <2>9, <3>2 DEF UndoneIn
    <3> QED BY <1>b, <1>t, <2>1, <2>2, <3>1, <3>5, <3>6, LayeredMoves
  <2>10. CASE drv[d].op = "compensate"
    <3>1. Tracks(T, acked)
      BY <2>2, <2>3, <2>10 DEF WithCopy, Tracks
    <3>2. /\ T.status = "Aborting" /\ \A b \in Branch : T.bst[b] # "Succeeded"
          /\ \A b \in InLayer(l) : NotNeeded(b, acked)
      BY <2>2, <2>3, <2>5, <2>10 DEF WithCopy, UndoesAlone
    <3>3. \A b \in Outstanding(s, l) : s.tx.bst[b] \in OpenStatus(s.op)
      BY <2>3, <2>4, <2>5, <2>6, <2>7, <2>10
    <3>4. WithCopy(s, l, T, acked)
      BY <2>4, <2>10, <3>1, <3>2, <3>3 DEF WithCopy, UndoesAlone
    <3>5. Alone(d, s, l, T, acked)
      BY <2>2, <2>4, <3>4 DEF Alone, SagaHandler
    <3>6. UndoneIn(T, acked, effects)
      BY <1>v, <3>2 DEF UndoneIn
    <3> QED BY <1>b, <1>t, <2>1, <2>2, <3>1, <3>5, <3>6, LayeredMoves
  <2> QED BY <2>2, <2>9, <2>10
(* A call ends: with what it accepted, the copy shows it.                  *)
<1>e. ASSUME NEW b \in Branch, NEW l \in Layer, NEW st \in BranchStatus,
             Ended(d, b, st, l),
             effects' \subseteq effects \cup {LayerKey(d, b)},
             \/ acked' = acked /\ st = IF drv[d].op = "action"
                                       THEN "Failed" ELSE "Compensating"
             \/ /\ acked' = acked \cup {LayerKey(d, b)}
                /\ st = IF drv[d].op = "action" THEN "Succeeded" ELSE "Skipped"
      PROVE  LayeredInv'
  <2> DEFINE t == [drv[d].tx EXCEPT !.bst[b] = st]
             s == At("calls", drv[d].op, drv[d].pos, t)
  <2>1. /\ Places(d, s, l) /\ tx' = tx /\ drv[d].pc = "calls"
        /\ b \in layer[d].calling /\ b \in InLayer(layer[d])
        /\ l.calling = layer[d].calling \ {b}
        /\ InLayer(l) \subseteq InLayer(layer[d])
    BY <1>e DEF Ended, InLayer
  <2>2. /\ d \in Worker /\ drv[d].op \in {"action", "compensate"}
        /\ WithCopy(drv[d], layer[d], tx, acked)
    BY <1>k, <2>1
  <2>3. /\ t.status = drv[d].tx.status /\ t.rev = drv[d].tx.rev
        /\ \A a \in Branch : t.bst[a] = IF a = b THEN st ELSE drv[d].tx.bst[a]
    BY <1>t DEF Transaction
  <2>4. s.pc = "calls" /\ s.op = drv[d].op /\ s.tx = t
    BY DEF At
  <2>5. layer[d].calling \subseteq Branch
    BY <1>t DEF Layer
  <2> HIDE DEF t, s
  <2>6. /\ \A a \in Outstanding(s, l) : s.tx.bst[a] \in OpenStatus(s.op)
        /\ drv[d].tx.bst[b] \in OpenStatus(drv[d].op)
    <3>1. Outstanding(s, l) = l.calling
      BY <2>4 DEF Outstanding
    <3>2. \A a \in layer[d].calling : drv[d].tx.bst[a] \in OpenStatus(drv[d].op)
      BY <2>1, <2>2 DEF WithCopy, Outstanding
    <3> QED BY <2>1, <2>3, <2>4, <2>5, <3>1, <3>2
  <2>7. CASE drv[d].op = "action"
    <3>1. LayerKey(d, b) = <<b, "action">>
      BY <2>7 DEF LayerKey, BarrierOp
    <3>2. <<b, "action">> \notin acked /\ <<b, "compensate">> \notin acked
      BY <2>2, <2>6, <2>7 DEF WithCopy, Tracks, OpenStatus
    <3>3. \A a \in Branch :
            /\ <<a, "compensate">> \in acked' <=> <<a, "compensate">> \in acked
            /\ a # b => (<<a, "action">> \in acked' <=> <<a, "action">> \in acked)
      BY <1>e, <3>1
    <3>4. <<b, "action">> \in acked' => st = "Succeeded"
      BY <1>e, <2>7, <3>2
    <3>5. Tracks(t, acked')
      <4>1. Tracks(drv[d].tx, acked)
        BY <2>2 DEF WithCopy
      <4> QED BY <2>3, <3>2, <3>3, <3>4, <4>1 DEF Tracks
    <3>6. ActsAlone(s, tx)
      BY <1>e, <2>2, <2>3, <2>4, <2>7 DEF WithCopy, ActsAlone
    <3>7. WithCopy(s, l, tx, acked')
      BY <2>2, <2>3, <2>4, <2>6, <2>7, <3>5, <3>6 DEF WithCopy
    <3>8. Alone(d, s, l, tx', acked')
      BY <2>1, <2>2, <2>4, <3>7 DEF Alone, SagaHandler
    <3>9. \A key \in effects' : key[2] # "compensate"
      BY <1>e, <1>u, <2>1, <2>7, <3>1
    <3>10. /\ tx.status \in {"Submitted", "Succeeding"}
           /\ \A a \in Branch : tx.bst[a] # "Compensating"
      BY <1>a, <3>6 DEF ActsAlone, UndoneIn
    <3>11. UndoneIn(tx', acked', effects')
      BY <2>1, <3>9, <3>10 DEF UndoneIn
    <3> QED BY <1>b, <1>t, <2>1, <2>2, <2>4, <3>8, <3>11, LayeredMoves
  <2>8. CASE drv[d].op = "compensate"
    <3>1. LayerKey(d, b) = <<b, "compensate">>
      BY <2>8 DEF LayerKey, BarrierOp
    <3>2. <<b, "compensate">> \notin acked
      BY <2>2, <2>6, <2>8 DEF WithCopy, Tracks, OpenStatus
    <3>3. /\ \A a \in Branch : <<a, "action">> \in acked' <=> <<a, "action">> \in acked
          /\ \A a \in Branch : a # b =>
               (<<a, "compensate">> \in acked' <=> <<a, "compensate">> \in acked)
          /\ acked \subseteq acked'
      BY <1>e, <3>1
    <3>4. /\ <<b, "compensate">> \in acked' => st = "Skipped"
          /\ <<b, "compensate">> \notin acked' => st = "Compensating"
      BY <1>e, <2>8, <3>1, <3>2
    <3>5. Tracks(t, acked')
      <4>1. Tracks(drv[d].tx, acked)
        BY <2>2 DEF WithCopy
      <4> QED BY <2>3, <3>2, <3>3, <3>4, <4>1 DEF Tracks
    <3>6. \A a : NotNeeded(a, acked) => NotNeeded(a, acked')
      BY <3>3 DEF NotNeeded
    <3>7. UndoesAlone(drv[d], layer[d], tx, acked)
      BY <2>2, <2>8 DEF WithCopy
    <3>8. UndoesAlone(s, l, tx, acked')
      BY <1>e, <2>1, <2>3, <2>4, <2>8, <3>6, <3>7 DEF UndoesAlone
    <3>9. WithCopy(s, l, tx, acked')
      BY <2>2, <2>3, <2>4, <2>6, <2>8, <3>5, <3>8 DEF WithCopy
    <3>10. Alone(d, s, l, tx', acked')
      BY <2>1, <2>2, <2>4, <3>9 DEF Alone, SagaHandler
    <3>11. tx.status = "Aborting" /\ NotNeeded(b, acked)
      BY <2>1, <3>7 DEF UndoesAlone
    <3>12. \A a \in Branch : <<a, "compensate">> \in effects' => NotNeeded(a, acked')
      BY <1>e, <1>v, <3>1, <3>6, <3>11
    <3>13. UndoneIn(tx', acked', effects')
      BY <2>1, <3>11, <3>12 DEF UndoneIn
    <3> QED BY <1>b, <1>t, <2>1, <2>2, <2>4, <3>10, <3>13, LayeredMoves
  <2> QED BY <2>2, <2>7, <2>8
<1>11. CASE Succeeds(d)
  <2> DEFINE st == IF drv[d].op = "compensate" THEN "Skipped" ELSE "Succeeded"
  <2>1. PICK b \in Branch, l \in Layer :
          /\ Ended(d, b, st, l)
          /\ acked' = acked \cup {LayerKey(d, b)}
          /\ effects' = effects \cup {LayerKey(d, b)}
    BY <1>11 DEF Succeeds
  <2>2. /\ st \in BranchStatus
        /\ st = IF drv[d].op = "action" THEN "Succeeded" ELSE "Skipped"
    BY <1>k, <2>1 DEF BranchStatus, Ended
  <2> HIDE DEF st
  <2> QED BY <1>e, <2>1, <2>2
<1>12. CASE Fails(d)
  <2> DEFINE st == IF drv[d].op = "compensate" THEN "Compensating" ELSE "Failed"
  <2>1. PICK b \in Branch, l \in Layer :
          /\ Ended(d, b, st, l)
          /\ acked' = acked
          /\ effects' \in {effects, effects \cup {LayerKey(d, b)}}
    BY <1>12 DEF Fails
  <2>2. /\ st \in BranchStatus
        /\ st = IF drv[d].op = "action" THEN "Failed" ELSE "Compensating"
    BY <1>k, <2>1 DEF BranchStatus, Ended
  <2> HIDE DEF st
  <2> QED BY <1>e, <2>1, <2>2
<1> QED BY <1>1, <1>2, <1>3, <1>4, <1>5, <1>6, <1>7, <1>8, <1>9, <1>10, <1>11,
           <1>12 DEF LayerShape

(* The invariant of the theorem.                                           *)
UndoLayersInv == OrderInv /\ BudgetTyped /\ LayeredInv

LEMMA UndoLayersNext ==
  ASSUME OneWorker
  PROVE  UndoLayersInv /\ [ConcurrentNext]_concurrentVars => UndoLayersInv'
<1> SUFFICES ASSUME UndoLayersInv, [ConcurrentNext]_concurrentVars
             PROVE  UndoLayersInv'
  OBVIOUS
<1>0. OrderInv /\ BudgetTyped /\ LayeredInv
  BY DEF UndoLayersInv
<1>1. OrderInv'
  BY <1>0, OrderNext
<1>2. LayersFit
  BY <1>0 DEF OrderInv, InOrder, LayersFit
<1>3. ASSUME NEW d \in Driver, LayerShape(d)
      PROVE  BudgetTyped' /\ LayeredInv'
  BY <1>0, <1>3, ShapeBudget, LayeredShape
<1>4. ASSUME UNCHANGED <<tx, drv, layer, deps, budget, acked, effects>>
      PROVE  BudgetTyped' /\ LayeredInv'
  <2>1. BudgetTyped' /\ (Undisturbed' <=> Undisturbed)
    BY <1>0, <1>4 DEF BudgetTyped, BudgetInv, Undisturbed, WorkersOnly
  <2>2. CASE Undisturbed'
    <3>1. /\ \A d \in Driver : Alone(d, drv[d], layer[d], tx, acked)
          /\ UndoneIn(tx, acked, effects)
          /\ Tracks(tx, acked) \/ \E d \in Driver : drv[d].pc = "calls"
      BY <1>0, <2>1, <2>2, LayeredParts DEF LayeredInv
    <3>2. /\ \A d \in Driver : Alone(d, drv'[d], layer'[d], tx', acked')
          /\ UndoneIn(tx', acked', effects')
          /\ Tracks(tx', acked') \/ \E d \in Driver : drv'[d].pc = "calls"
      BY <1>4, <3>1
    <3>3. deps' = deps
      BY <1>4
    <3> QED BY <2>1, <3>2, <3>3, LayeredPartsNext DEF LayeredInv
  <2> QED BY <2>1, <2>2 DEF LayeredInv
<1> QED BY <1>1, <1>2, <1>3, <1>4, ConcurrentShape DEF UndoLayersInv

LEMMA UndoLayersInit == ConcurrentInit => UndoLayersInv
<1> SUFFICES ASSUME ConcurrentInit PROVE UndoLayersInv
  OBVIOUS
<1>1. /\ tx = NewTransaction /\ drv = [d \in Driver |-> Idle]
      /\ acked = {} /\ effects = {}
      /\ budget = [request |-> MaxRequests, call |-> MaxCalls,
                   failure |-> MaxFailures, crash |-> MaxCrashes]
  BY DEF ConcurrentInit, LayerInit, Init
<1>2. BudgetTyped
  BY <1>1, CoordinatorAssumption DEF BudgetTyped, BudgetInv
<1>3. /\ tx.status = "Submitted"
      /\ \A b \in Branch : tx.bst[b] = "Pending"
  BY <1>1 DEF NewTransaction
<1>4. UndoneIn(tx, acked, effects) /\ Tracks(tx, acked)
  BY <1>1, <1>3 DEF UndoneIn, Tracks
<1>5. \A d \in Driver : Alone(d, drv[d], layer[d], tx, acked)
  BY <1>1, IdleInLayer DEF Alone
<1>6. LayeredInv
  BY <1>4, <1>5, LayeredParts DEF LayeredInv
<1> QED BY <1>2, <1>6, OrderInit DEF UndoLayersInv

(* For one undisturbed worker, abort_concurrent_saga undoes a Saga of any  *)
(* graph against its dependencies, through every retry of actions and of   *)
(* compensations, and Aborted is only stored once all that was accepted is *)
(* compensated.                                                            *)
THEOREM LayeredUndoHolds == OneWorker => (ConcurrentSpec => []LayeredUndo)
<1> SUFFICES ASSUME OneWorker PROVE ConcurrentSpec => []LayeredUndo
  OBVIOUS
<1>1. UndoLayersInv => LayeredUndo
  BY DEF UndoLayersInv, LayeredInv, LayeredUndo, UndoneRecord, Unneeded
<1>2. UndoLayersInv /\ [ConcurrentNext]_concurrentVars => UndoLayersInv'
  BY UndoLayersNext
<1> QED BY <1>1, <1>2, UndoLayersInit, PTL DEF ConcurrentSpec

=============================================================================
