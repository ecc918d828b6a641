--------------------------- MODULE WorkflowProofs ---------------------------
(***************************************************************************)
(* Proofs of the safety properties of Workflow for every list of branches, *)
(* every dependency graph, every number of clients and every bound.        *)
(***************************************************************************)
EXTENDS Workflow, CoordinatorProofs, WellFoundedInduction

(* The first ready position is one of the ready positions.                 *)
LEMMA MinReady ==
  ASSUME NEW S, S \subseteq Nat, S # {}
  PROVE  Min(S) \in S
<1> DEFINE R == OpToRel(<, Nat)
<1>1. IsWellFoundedOn(R, Nat)
  BY NatLessThanWellFounded
<1>2. \A m, n \in Nat : m < n => <<m, n>> \in R
  BY DEF OpToRel
<1> HIDE DEF R
<1>3. PICK x \in S : \A y \in S : ~(<<y, x>> \in R)
  BY <1>1, WFMin
<1>4. ASSUME NEW y \in S
      PROVE  x =< y
  <2>1. x \in Nat /\ y \in Nat /\ ~(<<y, x>> \in R)
    BY <1>3
  <2>2. ~(y < x)
    BY <1>2, <2>1
  <2> QED BY <2>1, <2>2
<1> QED BY <1>4 DEF Min

-----------------------------------------------------------------------------
(* The actions of Workflow in the shapes of CoordinatorProofs.             *)

Working(op) == IF op = "workflow" THEN "Succeeding" ELSE "Aborting"

(* A tick or recover() chooses a handler.                                  *)
ChooseShape(d) ==
  \E op \in WorkflowHandler :
    /\ Chooses(d, op)
    /\ \/ d \in Worker /\ drv[d].pc = "idle" /\ budget' = budget
          /\ op = RecoverHandler
       \/ Spend("call")

(* A handler starts, in a worker or in a request.                          *)
StartShape(d) ==
  \E op \in WorkflowHandler, t \in Transaction :
    /\ Takes(d, op, "loop", t)
    /\ tx.status \in AllowedFrom(op) /\ t.status = Working(op)
    /\ \/ drv[d].pc = "chosen" /\ drv[d].op = op /\ budget' = budget
       \/ Spend("call")

(* A request reads the record to write it with a new status.               *)
RequestShape(d) ==
  \E op \in Handler \ WorkflowHandler, t \in Transaction :
    /\ Takes(d, op, "persist", t)
    /\ t.status \notin {"Succeeded", "Aborted"}
    /\ Spend("request")

(* The handler is refused, finds its branch taken, or cannot go on.        *)
EndShape(d) ==
  /\ \/ drv[d].pc \in {"chosen", "mark"}
     \/ drv[d].pc = "loop" /\ drv[d].op = "workflow"
  /\ Ends(d)

(* start_workflow picks a branch and takes its key.                        *)
PickShape(d) ==
  /\ drv[d].pc = "loop" /\ drv[d].op = "workflow"
  /\ \E i \in Ready(drv[d].tx) : Moves(d, "mark", i, drv[d].tx)

RunShape(d) ==
  /\ drv[d].op = "workflow"
  /\ \E t : Runs(d, t) /\ Marks(d, t, "Running")

(* abort_workflow passes a branch, or takes the key of one to roll back.   *)
SkipShape(d) ==
  /\ drv[d].pc = "loop" /\ drv[d].op = "workflow_rollback" /\ MoreBranches(d)
  /\ \E t :
       /\ Moves(d, "loop", drv[d].pos + 1, t)
       /\ \/ /\ Marks(d, t, "Skipped")
             /\ \/ Status(d) = "Pending"
                \/ Status(d) = "Succeeded" /\ DriverKey(d) \in barriers
          \/ t = drv[d].tx /\ Status(d) # "Succeeded"

UndoShape(d) ==
  /\ drv[d].op = "workflow_rollback"
  /\ \E t : /\ Claims(d, t)
            /\ t.bst = drv[d].tx.bst /\ t.status = drv[d].tx.status

(* The call and what follows it.                                           *)
RunOkShape(d) ==
  /\ drv[d].op = "workflow"
  /\ \E t : Accepted(d, "save", drv[d].pos, t) /\ Marks(d, t, "Succeeded")

UndoOkShape(d) ==
  /\ drv[d].op = "workflow_rollback"
  /\ \E t : Accepted(d, "loop", drv[d].pos + 1, t) /\ Marks(d, t, "Skipped")

ErrShape(d) ==
  \E t, st :
    /\ Rejected(d, "release", t)
    /\ t.bst = [drv[d].tx.bst EXCEPT ![Current(d)] = st]
    /\ \/ drv[d].op = "workflow" /\ st = "Failed" /\ t.status = "Aborting"
       \/ /\ drv[d].op = "workflow_rollback" /\ st = "Compensating"
          /\ t.status = drv[d].tx.status

ReleaseShape(d) ==
  \/ drv[d].op = "workflow" /\ Yields(d, drv[d].tx)
  \/ drv[d].op = "workflow_rollback" /\ Releases(d, drv[d].tx)

(* The writes.                                                             *)
StoreShape(d) == drv[d].pc = "save" /\ StoresOn(d, drv[d].tx, 1)

HandShape(d) == HandsOver(d, drv[d].tx, "workflow_rollback")

SaveShape(d) == drv[d].pc = "persist" /\ Writes(d, drv[d].tx)

CompleteShape(d) ==
  /\ drv[d].pc = "loop"
  /\ \E t :
       /\ Writes(d, t) /\ t.bst = drv[d].tx.bst
       /\ \/ /\ drv[d].op = "workflow" /\ t.status = "Succeeded"
             /\ \A b \in Members(t.ids) : t.bst[b] = "Succeeded"
          \/ /\ drv[d].op = "workflow_rollback" /\ t.status = "Aborted"
             /\ ~MoreBranches(d)

DriverShape(d) ==
  \/ ChooseShape(d) \/ StartShape(d) \/ RequestShape(d) \/ EndShape(d)
  \/ PickShape(d) \/ RunShape(d) \/ SkipShape(d) \/ UndoShape(d)
  \/ RunOkShape(d) \/ UndoOkShape(d) \/ ErrShape(d) \/ ReleaseShape(d)
  \/ StoreShape(d) \/ HandShape(d) \/ SaveShape(d) \/ CompleteShape(d)
  \/ Abandons(d)

LEMMA EnterShape ==
  ASSUME CoreInv, NEW d \in Driver, NEW op \in WorkflowHandler, Enter(d, op),
         ~InFlight(d), UNCHANGED <<tx, barriers, expired, acked, effects>>
  PROVE  \E t \in Transaction : Takes(d, op, "loop", t) /\ t.status = Working(op)
<1>1. /\ Begin(d, op, "loop", Working(op))
      /\ op \in Handler /\ "loop" \in Pc /\ Working(op) \in TransactionStatus
  BY DEF Enter, Working, WorkflowHandler, Handler, Pc, TransactionStatus
<1> DEFINE t == [tx EXCEPT !.status = Working(op)]
<1>2. /\ Puts(d, At("loop", op, 1, t)) /\ t \in Transaction
      /\ t.status = Working(op) /\ t.ids = tx.ids /\ t.bst = tx.bst
      /\ t.rev = tx.rev
  BY <1>1, BeginPuts DEF CoreInv
<1> HIDE DEF t
<1> QED BY <1>2 DEF Takes

(* The driver takes its free key with copy m.                              *)
LEMMA ClaimedShape ==
  ASSUME CoreInv, NEW d \in Driver, MoreBranches(d), NEW m, OwnCopyOf(d, m),
         drv[d].op \in WorkflowHandler, Claim(d, m), DriverKey(d) \notin barriers,
         UNCHANGED <<tx, expired, budget, acked, effects>>
  PROVE  \E t : /\ t.bst = m.bst /\ t.status = m.status
                /\ drv[d].pc = "loop" => Claims(d, t)
                /\ drv[d].pc = "mark" => Runs(d, t)
<1> DEFINE t == [m EXCEPT !.att[Current(d)] = @ + 1]
<1>1. Current(d) \in Branch
  BY CopiesTyped
<1>2. Goto(d, "invoke", t) /\ barriers' = BarrierTable(DriverKey(d))
  BY DEF Claim
<1>3. OwnCopyOf(d, t) /\ t.bst = m.bst /\ t.status = m.status
  BY <1>1, Counted DEF OwnCopyOf
<1>4. BarrierOp(drv[d].op) \in BarrierOps /\ BarrierOp(drv[d].op) \in WorkflowHandler
  BY DEF BarrierOp, BarrierOps, WorkflowHandler
<1>5. barriers' = barriers \cup {DriverKey(d)}
  BY <1>2, <1>4 DEF BarrierTable, BarrierDecision, DriverKey, WorkflowHandler
<1> HIDE DEF t
<1>6. Puts(d, At("invoke", drv[d].op, drv[d].pos, t))
  BY <1>2, <1>3, GotoPuts DEF OwnCopyOf, Pc, CoreInv
<1> QED BY <1>3, <1>4, <1>5, <1>6 DEF Claims, Runs

LEMMA HandlerShape ==
  ASSUME CoreInv, ControlInv, NEW d \in Driver, HandlerStep(d)
  PROVE  DriverShape(d)
<1> USE CopiesTyped
<1>t. TypeOK /\ drv[d].pos >= 1 /\ drv[d].pos \in Nat
  BY DEF CoreInv, PositionInv, TypeOK, DriverState
<1>m. ASSUME NEW st \in BranchStatus, Current(d) \in Branch
      PROVE  OwnCopyOf(d, Mark(d, st)) /\ Marks(d, Mark(d, st), st)
  BY <1>m, Marked DEF OwnCopyOf, Marks
<1>k. ASSUME drv[d].op \in WorkflowHandler
      PROVE  BarrierDecision(DriverKey(d)) = "Execute"
               <=> DriverKey(d) \notin barriers
  BY <1>k DEF BarrierDecision, DriverKey, WorkflowHandler, BarrierOp
<1>1. CASE StartChosen(d)
  <2>1. drv[d].pc = "chosen" /\ drv[d].op \in WorkflowHandler /\ ~InFlight(d)
    BY <1>1 DEF StartChosen, ControlInv, InFlight
  <2>2. CASE tx.status \in AllowedFrom(drv[d].op)
    BY <1>1, <2>1, <2>2, EnterShape DEF StartChosen, StartShape, DriverShape
  <2>3. CASE tx.status \notin AllowedFrom(drv[d].op)
    BY <1>1, <2>1, <2>3, ReturnPuts DEF StartChosen, Ends, EndShape, DriverShape
  <2> QED BY <2>2, <2>3
<1>2. CASE PickBranch(d)
  <2> DEFINE i == Min(Ready(drv[d].tx))
  <2>1. /\ drv[d].pc = "loop" /\ drv[d].op = "workflow" /\ Ready(drv[d].tx) # {}
        /\ drv' = [drv EXCEPT ![d].pc = "mark", ![d].pos = i]
        /\ UNCHANGED <<tx, barriers, expired, budget, acked, effects>>
    BY <1>2 DEF PickBranch
  <2>2. Ready(drv[d].tx) \subseteq Nat
    BY DEF Ready
  <2>3. i \in Ready(drv[d].tx)
    BY <2>1, <2>2, MinReady
  <2>4. i \in Nat
    BY <2>2, <2>3
  <2> HIDE DEF i
  <2> DEFINE s == [drv[d] EXCEPT !.pc = "mark", !.pos = i]
  <2>5. drv' = [drv EXCEPT ![d] = s]
    BY <2>1
  <2>6. At("mark", drv[d].op, i, drv[d].tx) \in DriverState
    BY <2>4 DEF At, DriverState, Pc
  <2>7. s = At("mark", drv[d].op, i, drv[d].tx)
    <3>1. /\ s \in DriverState /\ s.pc = "mark" /\ s.op = drv[d].op
          /\ s.pos = i /\ s.tx = drv[d].tx
      BY <2>4 DEF DriverState, Pc
    <3> HIDE DEF s
    <3> QED BY <2>6, <3>1, SameState DEF At
  <2> HIDE DEF s
  <2>8. Moves(d, "mark", i, drv[d].tx)
    BY <2>1, <2>5, <2>6, <2>7 DEF Moves, Puts, InFlight
  <2> QED BY <2>1, <2>3, <2>8 DEF PickShape, DriverShape
<1>3. CASE RunBranch(d)
  <2>1. /\ drv[d].pc = "mark" /\ drv[d].op = "workflow" /\ ~InFlight(d)
        /\ drv[d].op \in WorkflowHandler
        /\ UNCHANGED <<tx, expired, budget, acked, effects>>
    BY <1>3 DEF RunBranch, ControlInv, InFlight, WorkflowHandler
  <2>2. MoreBranches(d)
    BY <2>1 DEF ControlInv, Ready, MoreBranches
  <2>3. CASE DriverKey(d) \notin barriers /\ Claim(d, Mark(d, "Running"))
    <3>1. OwnCopyOf(d, Mark(d, "Running")) /\ Marks(d, Mark(d, "Running"), "Running")
      BY <1>m, <2>2 DEF BranchStatus
    <3>2. \E t : Runs(d, t) /\ Marks(d, t, "Running")
      BY <2>1, <2>2, <2>3, <3>1, ClaimedShape DEF Marks
    <3> QED BY <2>1, <3>2 DEF RunShape, DriverShape
  <2>4. CASE Return(d) /\ UNCHANGED barriers
    BY <2>1, <2>4, ReturnPuts DEF Ends, EndShape, DriverShape
  <2> QED BY <1>3, <1>k, <2>1, <2>3, <2>4 DEF RunBranch
<1>4. CASE WorkflowEnds(d)
  <2>1. /\ drv[d].pc = "loop" /\ drv[d].op = "workflow" /\ ~InFlight(d)
        /\ UNCHANGED <<barriers, expired, budget, acked, effects>>
    BY <1>4 DEF WorkflowEnds, InFlight
  <2>2. CASE \A b \in Members(drv[d].tx.ids) : drv[d].tx.bst[b] = "Succeeded"
    <3> DEFINE t == [drv[d].tx EXCEPT !.status = "Succeeded"]
    <3>1. Persist(d, t)
      BY <1>4, <2>2 DEF WorkflowEnds
    <3>2. OwnCopyOf(d, t) /\ t.status = "Succeeded" /\ t.bst = drv[d].tx.bst
      BY Restated DEF OwnCopyOf, TransactionStatus
    <3> HIDE DEF t
    <3>3. Writes(d, t)
      BY <2>1, <3>1, <3>2, ReturnPuts DEF Persist, Writes
    <3>4. \A b \in Members(t.ids) : t.bst[b] = "Succeeded"
      BY <2>2, <3>2 DEF OwnCopyOf
    <3> QED BY <2>1, <3>2, <3>3, <3>4 DEF CompleteShape, DriverShape
  <2>3. CASE ~ \A b \in Members(drv[d].tx.ids) : drv[d].tx.bst[b] = "Succeeded"
    <3>1. tx' = tx /\ Return(d)
      BY <1>4, <2>3 DEF WorkflowEnds
    <3> QED BY <2>1, <3>1, ReturnPuts DEF Ends, EndShape, DriverShape
  <2> QED BY <2>2, <2>3
<1>5. CASE RollbackBranch(d)
  <2>1. /\ drv[d].pc = "loop" /\ drv[d].op = "workflow_rollback"
        /\ MoreBranches(d) /\ Current(d) \in Branch /\ ~InFlight(d)
        /\ drv[d].op \in WorkflowHandler
        /\ UNCHANGED <<tx, expired, budget, acked, effects>>
    BY <1>5 DEF RollbackBranch, InFlight, WorkflowHandler
  <2>a. ASSUME NEW t, OwnCopyOf(d, t), Advance(d, t), UNCHANGED barriers
        PROVE  Moves(d, "loop", drv[d].pos + 1, t)
    BY <1>t, <2>1, <2>a, AdvancePuts DEF Moves, OwnCopyOf
  <2>2. CASE /\ Status(d) = "Succeeded" /\ DriverKey(d) \notin barriers
             /\ Claim(d, drv[d].tx)
    <3>1. \E t : /\ t.bst = drv[d].tx.bst /\ t.status = drv[d].tx.status
                 /\ Claims(d, t)
      BY <2>1, <2>2, ClaimedShape
    <3> QED BY <2>1, <3>1 DEF UndoShape, DriverShape
  <2>3. CASE /\ \/ Status(d) = "Pending"
                \/ Status(d) = "Succeeded" /\ DriverKey(d) \in barriers
             /\ Advance(d, Mark(d, "Skipped")) /\ UNCHANGED barriers
    <3>1. OwnCopyOf(d, Mark(d, "Skipped")) /\ Marks(d, Mark(d, "Skipped"), "Skipped")
      BY <1>m, <2>1 DEF BranchStatus
    <3> QED BY <2>1, <2>3, <2>a, <3>1 DEF SkipShape, DriverShape
  <2>4. CASE /\ Status(d) \notin {"Pending", "Succeeded"}
             /\ Advance(d, drv[d].tx) /\ UNCHANGED barriers
    BY <2>1, <2>4, <2>a DEF SkipShape, DriverShape
  <2> QED BY <1>5, <1>k, <2>1, <2>2, <2>3, <2>4 DEF RollbackBranch, Status
<1>6. CASE RollbackEnds(d)
  <2> DEFINE t == [drv[d].tx EXCEPT !.status = "Aborted"]
  <2>1. /\ drv[d].pc = "loop" /\ drv[d].op = "workflow_rollback"
        /\ ~MoreBranches(d) /\ Persist(d, t)
        /\ UNCHANGED <<barriers, expired, budget, acked, effects>>
    BY <1>6 DEF RollbackEnds
  <2>2. OwnCopyOf(d, t) /\ t.status = "Aborted" /\ t.bst = drv[d].tx.bst
    BY Restated DEF OwnCopyOf, TransactionStatus
  <2> HIDE DEF t
  <2> QED
    BY <2>1, <2>2, ReturnPuts DEF Persist, Writes, CompleteShape, DriverShape
<1>7. CASE BranchOk(d)
  <2>1. drv[d].pc = "invoke" /\ Current(d) \in Branch
    BY <1>7 DEF BranchOk, CallSucceeds, InFlight
  <2>2. CASE drv[d].op = "workflow" /\ Goto(d, "save", Mark(d, "Succeeded"))
    <3> DEFINE t == Mark(d, "Succeeded")
    <3>1. OwnCopyOf(d, t) /\ Marks(d, t, "Succeeded")
      BY <1>m, <2>1 DEF BranchStatus
    <3> HIDE DEF t
    <3>2. Puts(d, At("save", drv[d].op, drv[d].pos, t))
      BY <1>t, <2>2, <3>1, GotoPuts DEF OwnCopyOf, Pc, t
    <3> QED
      BY <1>7, <2>2, <3>1, <3>2
         DEF BranchOk, CallSucceeds, Accepted, RunOkShape, DriverShape
  <2>3. CASE drv[d].op = "workflow_rollback" /\ Advance(d, Mark(d, "Skipped"))
    <3> DEFINE t == Mark(d, "Skipped")
    <3>1. OwnCopyOf(d, t) /\ Marks(d, t, "Skipped")
      BY <1>m, <2>1 DEF BranchStatus
    <3> HIDE DEF t
    <3>2. Puts(d, At("loop", drv[d].op, drv[d].pos + 1, t))
      BY <1>t, <2>3, <3>1, AdvancePuts DEF OwnCopyOf, t
    <3> QED
      BY <1>7, <2>3, <3>1, <3>2
         DEF BranchOk, CallSucceeds, Accepted, UndoOkShape, DriverShape
  <2> QED BY <1>7, <2>2, <2>3 DEF BranchOk
<1>8. CASE BranchErr(d)
  <2>1. drv[d].pc = "invoke" /\ Current(d) \in Branch
    BY <1>8 DEF BranchErr, CallFails, InFlight
  <2>2. CASE /\ drv[d].op = "workflow"
             /\ Goto(d, "release", [Mark(d, "Failed") EXCEPT !.status = "Aborting"])
    <3> DEFINE m == Mark(d, "Failed")
               t == [m EXCEPT !.status = "Aborting"]
    <3>1. OwnCopyOf(d, m) /\ Marks(d, m, "Failed")
      BY <1>m, <2>1 DEF BranchStatus
    <3> HIDE DEF m
    <3>2. OwnCopyOf(d, t) /\ t.status = "Aborting" /\ t.bst = m.bst
      BY <3>1, Restated DEF OwnCopyOf, TransactionStatus
    <3>3. Goto(d, "release", t)
      BY <2>2 DEF m
    <3> HIDE DEF t
    <3>4. Puts(d, At("release", drv[d].op, drv[d].pos, t))
      BY <1>t, <3>2, <3>3, GotoPuts DEF OwnCopyOf, Pc
    <3>5. Rejected(d, "release", t)
      BY <1>8, <3>2, <3>4 DEF BranchErr, CallFails, Rejected
    <3> QED BY <2>2, <3>1, <3>2, <3>5 DEF Marks, ErrShape, DriverShape
  <2>3. CASE /\ drv[d].op = "workflow_rollback"
             /\ Goto(d, "release", Mark(d, "Compensating"))
    <3> DEFINE t == Mark(d, "Compensating")
    <3>1. OwnCopyOf(d, t) /\ Marks(d, t, "Compensating")
      BY <1>m, <2>1 DEF BranchStatus
    <3> HIDE DEF t
    <3>2. Puts(d, At("release", drv[d].op, drv[d].pos, t))
      BY <1>t, <2>3, <3>1, GotoPuts DEF OwnCopyOf, Pc, t
    <3>3. Rejected(d, "release", t)
      BY <1>8, <3>1, <3>2 DEF BranchErr, CallFails, Rejected
    <3> QED BY <2>3, <3>1, <3>3 DEF Marks, ErrShape, DriverShape
  <2> QED BY <1>8, <2>2, <2>3 DEF BranchErr
<1>9. CASE Release(d)
  <2>1. CASE drv[d].op = "workflow"
    <3>1. Puts(d, At("handover", drv[d].op, drv[d].pos, drv[d].tx))
      BY <1>t, <1>9, <2>1, GotoPuts DEF Release, Pc
    <3> QED
      BY <1>9, <2>1, <3>1
         DEF Release, ReleaseBarrier, Yields, ReleaseShape, DriverShape
  <2>2. CASE drv[d].op = "workflow_rollback"
    <3>1. Puts(d, At("persist", drv[d].op, drv[d].pos, drv[d].tx))
      BY <1>t, <1>9, <2>2, GotoPuts DEF Release, Pc
    <3> QED
      BY <1>9, <2>2, <3>1
         DEF Release, ReleaseBarrier, Releases, ReleaseShape, DriverShape
  <2>3. drv[d].op \in WorkflowHandler
    BY <1>9 DEF Release, ReleaseBarrier, ControlInv
  <2> QED BY <2>1, <2>2, <2>3 DEF WorkflowHandler
<1>10. CASE HandOver(d)
  <2>1. CASE CanStore(drv[d].tx)
    <3>1. Puts(d, At("chosen", "workflow_rollback", 1, NewTransaction))
      BY <1>10, <2>1, ChoosePuts DEF HandOver, Handler
    <3> QED
      BY <1>10, <2>1, <3>1 DEF HandOver, HandsOver, HandShape, DriverShape
  <2>2. CASE ~CanStore(drv[d].tx)
    BY <1>10, <2>2, ReturnPuts DEF HandOver, HandsOver, HandShape, DriverShape
  <2> QED BY <2>1, <2>2
<1>11. CASE Save(d)
  BY <1>11, ReturnPuts DEF Save, Persist, Writes, SaveShape, DriverShape
<1>12. CASE StoreProgress(d)
  BY <1>12, StoresPuts DEF StoreProgress, StoreShape, DriverShape
<1> QED
  BY <1>1, <1>2, <1>3, <1>4, <1>5, <1>6, <1>7, <1>8, <1>9, <1>10, <1>11,
     <1>12 DEF HandlerStep

LEMMA ClientShape ==
  ASSUME CoreInv, ControlInv, NEW d \in Driver,
         ClientStep(d) \/ Tick(d) \/ Abandon(d)
  PROVE  DriverShape(d)
<1>t. TypeOK /\ tx.status \in TransactionStatus
  BY DEF CoreInv, TypeOK, Transaction
<1>r. ASSUME NEW op \in Handler \ WorkflowHandler, NEW st \in TransactionStatus,
             StatusRequest(d, op, st), st \notin {"Succeeded", "Aborted"}
      PROVE  DriverShape(d)
  <2> DEFINE t == [tx EXCEPT !.status = st]
  <2>1. Begin(d, op, "persist", st) /\ op \in Handler /\ "persist" \in Pc
    BY <1>r DEF StatusRequest, Pc
  <2>2. /\ Puts(d, At("persist", op, 1, t)) /\ t \in Transaction
        /\ t.status = st /\ t.ids = tx.ids /\ t.bst = tx.bst
        /\ t.rev = tx.rev
    BY <1>t, <2>1, BeginPuts
  <2> HIDE DEF t
  <2> QED
    BY <1>r, <2>2
       DEF StatusRequest, Request, RequestShape, Takes, InFlight, DriverShape
<1>h. RecoverHandler # "none" => RecoverHandler \in WorkflowHandler
  BY DEF RecoverHandler, WorkflowHandler
<1> USE DEF Handler, WorkflowHandler, TransactionStatus
<1>1. CASE \E op \in WorkflowHandler : Call(d, op)
  <2> PICK op \in WorkflowHandler : Call(d, op)
    BY <1>1
  <2>1. \E t \in Transaction : Takes(d, op, "loop", t) /\ t.status = Working(op)
    BY EnterShape DEF Call, Request, InFlight
  <2> QED BY <2>1 DEF Call, Request, StartShape, DriverShape
<1>2. CASE Prepare(d) \/ ScheduleSubmit(d) \/ ScheduleAbort(d)
  BY <1>2, <1>r DEF Prepare, ScheduleSubmit, ScheduleAbort
<1>3. CASE RecoverRequest(d, RecoverHandler)
  BY <1>3, <1>h, ChoosePuts
     DEF RecoverRequest, Request, Chooses, ChooseShape, DriverShape, InFlight
<1>4. CASE ForceStop(d)
  BY <1>4, <1>r DEF ForceStop
<1>5. CASE ResetRetry(d)
  BY <1>t, <1>5, <1>r DEF ResetRetry, IsTerminal
<1>6. CASE Tick(d)
  BY <1>6, <1>h, ChoosePuts
     DEF Tick, WorkerTick, Chooses, ChooseShape, DriverShape, InFlight
<1>7. CASE Abandon(d)
  BY <1>7, ReturnPuts DEF Abandon, Abandons, DriverShape
<1> QED
  BY <1>1, <1>2, <1>3, <1>4, <1>5, <1>6, <1>7 DEF ClientStep

(* The shapes of Workflow are among those of every kind.                   *)
LEMMA WorkflowShaped ==
  ASSUME CoreInv, NEW d \in Driver, DriverShape(d)
  PROVE  Shaped(d)
<1>1. drv[d].pos + 1 >= 1 /\ drv[d].pos >= 1
  BY DEF CoreInv, TypeOK, DriverState, PositionInv
<1> USE DEF Shaped, Quiet
<1>2. CASE StartShape(d) \/ RequestShape(d)
  BY <1>2 DEF StartShape, RequestShape
<1>3. CASE PickShape(d)
  <2>1. \A i \in Ready(drv[d].tx) : i >= 1
    BY DEF Ready
  <2> QED BY <1>3, <2>1 DEF PickShape
<1>4. CASE SkipShape(d) \/ UndoShape(d) \/ RunShape(d)
  BY <1>1, <1>4 DEF SkipShape, UndoShape, RunShape
<1>5. CASE RunOkShape(d) \/ UndoOkShape(d)
  BY <1>1, <1>5 DEF RunOkShape, UndoOkShape
<1>6. CASE ErrShape(d)
  <2>1. \E t : Rejected(d, "release", t)
    BY <1>6 DEF ErrShape
  <2> QED BY <2>1
<1>9. CASE ReleaseShape(d)
  <2>1. \E t : Releases(d, t) \/ Yields(d, t)
    BY <1>9 DEF ReleaseShape
  <2> QED BY <2>1
<1>7. CASE ChooseShape(d) \/ EndShape(d)
  BY <1>7 DEF ChooseShape, EndShape
<1>8. CASE StoreShape(d) \/ HandShape(d)
  BY <1>8 DEF StoreShape, HandShape
<1> QED
  BY <1>2, <1>3, <1>4, <1>5, <1>6, <1>7, <1>8, <1>9
     DEF DriverShape, SaveShape, CompleteShape

-----------------------------------------------------------------------------
(* Types, keys and control.                                                *)

LEMMA ControlStep ==
  ASSUME CoreInv, ControlInv, NEW d \in Driver, DriverShape(d)
  PROVE  CoreInv' /\ ControlInv'
<1>f. drv \in [Driver -> DriverState] /\ NewTransaction.ids = Initial
      /\ NewTransaction.status = "Submitted"
  BY DEF CoreInv, TypeOK, NewTransaction
<1> SUFFICES ControlInv'
  BY WorkflowShaped, CoreShaped
<1> DEFINE Good(s) ==
             /\ s.tx.ids = Initial
             /\ s.tx.status \notin {"Succeeded", "Aborted"}
             /\ s.pc \notin {"idle", "persist"} => s.op \in WorkflowHandler
             /\ s.pc \in {"mark", "save", "handover"} => s.op = "workflow"
             /\ s.pc = "mark" => s.pos \in Ready(s.tx)
<1>c. ASSUME NEW s, Puts(d, s), Good(s), tx'.ids = Initial
      PROVE  ControlInv'
  <2>1. \A t : Ready(t)' = Ready(t)
    BY DEF Ready
  <2> QED BY <1>c, <1>f, <2>1, PutsFacts DEF ControlInv
<1>o. tx.ids = Initial /\ Good(drv[d])
  BY DEF ControlInv
<1>i. Good(Idle)
  BY <1>f DEF Idle
<1>w. ASSUME NEW t, OwnCopyOf(d, t)
      PROVE  Bumped(t).ids = Initial /\ Bumped(t).status = t.status
  BY <1>o, <1>w, Stored DEF OwnCopyOf
<1>1. CASE ChooseShape(d)
  <2>1. PICK op \in WorkflowHandler : Chooses(d, op)
    BY <1>1 DEF ChooseShape
  <2> QED BY <1>c, <1>f, <1>o, <2>1 DEF Chooses, At
<1>2. CASE StartShape(d)
  <2>1. PICK op \in WorkflowHandler, t \in Transaction :
          Takes(d, op, "loop", t) /\ t.status = Working(op)
    BY <1>2 DEF StartShape
  <2>2. t.status \notin {"Succeeded", "Aborted"}
    BY <2>1 DEF Working
  <2> QED BY <1>c, <1>o, <2>1, <2>2 DEF Takes, At
<1>3. CASE RequestShape(d)
  BY <1>3, <1>c, <1>o DEF RequestShape, Takes, At
<1>4. CASE EndShape(d) \/ Abandons(d)
  BY <1>4, <1>c, <1>i, <1>o DEF EndShape, Ends, Abandons
<1>5. CASE PickShape(d)
  <2>1. PICK i \in Ready(drv[d].tx) : Moves(d, "mark", i, drv[d].tx)
    BY <1>5 DEF PickShape
  <2> QED BY <1>5, <1>c, <1>o, <2>1 DEF PickShape, Moves, At, WorkflowHandler
<1>6. CASE RunShape(d)
  BY <1>6, <1>c, <1>o
     DEF RunShape, Runs, Marks, OwnCopyOf, At, WorkflowHandler
<1>7. CASE SkipShape(d)
  <2>1. PICK t : /\ Moves(d, "loop", drv[d].pos + 1, t)
                 /\ Marks(d, t, "Skipped") \/ t = drv[d].tx
    BY <1>7 DEF SkipShape
  <2> QED BY <1>7, <2>1, <1>c, <1>o DEF SkipShape, Moves, Marks, OwnCopyOf, At
<1>8. CASE UndoShape(d)
  BY <1>8, <1>c, <1>o DEF UndoShape, Claims, OwnCopyOf, At
<1>9. CASE RunOkShape(d)
  BY <1>9, <1>c, <1>o
     DEF RunOkShape, Accepted, Marks, OwnCopyOf, At, WorkflowHandler
<1>10. CASE UndoOkShape(d)
  BY <1>10, <1>c, <1>o
     DEF UndoOkShape, Accepted, Marks, OwnCopyOf, At, WorkflowHandler
<1>11. CASE ErrShape(d)
  BY <1>11, <1>c, <1>o DEF ErrShape, Rejected, OwnCopyOf, At
<1>12. CASE ReleaseShape(d)
  BY <1>12, <1>c, <1>o
     DEF ReleaseShape, Releases, Yields, At, WorkflowHandler
<1>13. CASE StoreShape(d)
  <2>1. /\ Bumped(drv[d].tx).ids = Initial
        /\ Bumped(drv[d].tx).status = drv[d].tx.status
    BY <1>13, <1>w DEF StoreShape, StoresOn
  <2> QED BY <1>13, <1>c, <1>i, <1>o, <2>1 DEF StoreShape, StoresOn, At
<1>14. CASE HandShape(d)
  BY <1>14, <1>c, <1>f, <1>i, <1>o, <1>w
     DEF HandShape, HandsOver, At, WorkflowHandler
<1>15. CASE SaveShape(d) \/ CompleteShape(d)
  BY <1>15, <1>c, <1>i, <1>o, <1>w DEF SaveShape, CompleteShape, Writes
<1> QED
  BY <1>1, <1>2, <1>3, <1>4, <1>5, <1>6, <1>7, <1>8, <1>9, <1>10, <1>11,
     <1>12, <1>13, <1>14, <1>15 DEF DriverShape

(* A step is a driver's, or moves nothing but the clock.                   *)
LEMMA StepCases ==
  ASSUME CoreInv, ControlInv, [WorkflowNext]_vars
  PROVE  \/ \E d \in Driver : DriverShape(d)
         \/ Expire
         \/ UNCHANGED vars
BY HandlerShape, ClientShape DEF WorkflowNext

LEMMA CoreStep ==
  ASSUME CoreInv, ControlInv, [WorkflowNext]_vars
  PROVE  CoreInv' /\ ControlInv'
<1>1. CASE \E d \in Driver : DriverShape(d)
  BY <1>1, ControlStep
<1>2. CASE Expire \/ UNCHANGED vars
  <2>1. UNCHANGED <<tx, drv>> /\ \A t : Ready(t)' = Ready(t)
    BY <1>2 DEF Expire, vars, Ready
  <2>2. ControlInv'
    BY <2>1 DEF ControlInv
  <2> QED BY <1>2, <2>2, CoreIdle
<1> QED BY <1>1, <1>2, StepCases

(* Types, ownership of barrier keys and control, for any drivers: above    *)
(* all, the branch start_workflow is about to run is ready in its copy.    *)
THEOREM WorkflowTypeCorrect == Spec => [](CoreInv /\ ControlInv)
<1>1. Init => CoreInv /\ ControlInv
  BY CoreInit DEF Init, ControlInv, Idle, NewTransaction
<1>2. CoreInv /\ ControlInv /\ [WorkflowNext]_vars => CoreInv' /\ ControlInv'
  BY CoreStep
<1> QED BY <1>1, <1>2, PTL DEF Spec

(* No branch and no rollback of a Workflow is called by two drivers at a   *)
(* time, nor repeated after it was accepted.                               *)
THEOREM WorkflowBarrierExclusion == Spec => []BarrierExclusion
<1>1. CoreInv => BarrierExclusion
  BY DEF CoreInv, KeysInv, BarrierExclusion
<1> QED BY <1>1, WorkflowTypeCorrect, PTL

-----------------------------------------------------------------------------
(* Dependencies and completeness, whatever happens.                        *)

LEMMA KeyFacts ==
  ASSUME CoreInv, ControlInv, NEW d \in Driver, MoreBranches(d)
  PROVE  /\ Len(Initial) \in Nat
         /\ drv[d].pos \in 1..Len(Initial)
         /\ Len(Initial) + 1 - drv[d].pos \in 1..Len(Initial)
         /\ Current(d) \in Members(Initial)
         /\ drv[d].op \in WorkflowHandler => DriverKey(d) = <<Current(d), drv[d].op>>
         /\ drv[d].op = "workflow_rollback" =>
              Current(d) = Initial[Len(Initial) + 1 - drv[d].pos]
<1>1. Len(Initial) \in Nat
  BY CoordinatorAssumption
<1>2. drv[d].pos \in Nat /\ drv[d].pos >= 1 /\ drv[d].tx.ids = Initial
      /\ drv[d].pos <= Len(Initial)
  BY DEF CoreInv, TypeOK, PositionInv, DriverState, ControlInv, MoreBranches
<1>3. /\ drv[d].pos \in 1..Len(Initial)
      /\ Len(Initial) + 1 - drv[d].pos \in 1..Len(Initial)
  BY <1>1, <1>2
<1>4. Current(d) \in Members(Initial)
  BY <1>2, <1>3 DEF Current, Members
<1>5. drv[d].op \in WorkflowHandler => DriverKey(d) = <<Current(d), drv[d].op>>
  BY DEF DriverKey, BarrierOp, WorkflowHandler
<1>6. drv[d].op = "workflow_rollback" =>
        Current(d) = Initial[Len(Initial) + 1 - drv[d].pos]
  BY <1>2 DEF Current, Backwards
<1> QED BY <1>1, <1>3, <1>4, <1>5, <1>6

LEMMA ProgressStep ==
  ASSUME CoreInv, ControlInv, ProgressInv, [WorkflowNext]_vars
  PROVE  ProgressInv'
<1> DEFINE Honest(t) == \A b \in Branch : t.bst[b] = "Succeeded" =>
                                            <<b, "workflow">> \in acked'
           Led(s) == s.op = "workflow" /\ s.pc = "invoke" =>
             \A c \in Deps[KeyOf(s)[1]] : <<c, "workflow">> \in acked'
           Known == \A key \in acked' : key[1] \in Members(Initial)
<1>p. ASSUME Known, Honest(tx'), \A e \in Driver : Honest(drv'[e].tx) /\ Led(drv'[e])
      PROVE  ProgressInv'
  BY <1>p DEF ProgressInv, Members, KeyOf, Current
<1>t. drv \in [Driver -> DriverState] /\ Honest(NewTransaction)
      /\ drv' \in [Driver -> DriverState]
  BY CoreStep DEF CoreInv, TypeOK, NewTransaction
<1>o. ASSUME acked \subseteq acked'
      PROVE  /\ Honest(tx)
             /\ \A e \in Driver : Honest(drv[e].tx) /\ Led(drv[e])
  BY <1>o DEF ProgressInv, KeyOf, Current
<1>1. ASSUME NEW d \in Driver, DriverShape(d)
      PROVE  ProgressInv'
  <2>a. acked \subseteq acked' /\ \A e \in Driver : e # d => drv'[e] = drv[e]
    BY <1>1, WorkflowShaped, ShapedFacts
  <2>o. Honest(tx) /\ Honest(drv[d].tx) /\ Honest(Idle.tx) /\ Led(Idle)
    BY <1>o, <1>t, <2>a DEF Idle
  <2>q. \A pc, op, pos, t : pc # "invoke" => Led(At(pc, op, pos, t))
    BY DEF At
  <2>r. \A pos, t : Led(At("invoke", "workflow_rollback", pos, t))
    BY DEF At
  <2>c. ASSUME NEW s, Puts(d, s), Honest(s.tx), Led(s), Honest(tx'), Known
        PROVE  ProgressInv'
    <3>1. drv'[d] = s
      BY <1>t, <2>c, PutsFacts
    <3> HIDE DEF Honest, Led
    <3> QED BY <1>o, <1>p, <2>a, <2>c, <3>1
  <2>k. acked' = acked => Known
    BY DEF ProgressInv, Members
  <2>s. ASSUME NEW t, OwnCopyOf(d, t)
        PROVE  Honest(t) => Honest(Bumped(t))
    BY <2>s, Stored DEF OwnCopyOf
  <2>m. ASSUME NEW t, NEW st, t.bst = [drv[d].tx.bst EXCEPT ![Current(d)] = st],
               Current(d) \in Branch,
               st # "Succeeded" \/ <<Current(d), "workflow">> \in acked'
        PROVE  Honest(t)
    <3>1. drv[d].tx.bst \in [Branch -> BranchStatus]
      BY <1>t DEF DriverState, Transaction
    <3>2. \A b \in Branch : \/ b = Current(d) /\ t.bst[b] = st
                            \/ t.bst[b] = drv[d].tx.bst[b]
      BY <2>m, <3>1
    <3> QED BY <2>m, <2>o, <3>2
  <2>b. /\ MoreBranches(d) => Current(d) \in Branch /\ Current(d) \in Members(Initial)
        /\ InFlight(d) => MoreBranches(d) /\ drv[d].op \in WorkflowHandler
    BY CopiesTyped, KeyFacts DEF InFlight, ControlInv
  (* The call was accepted.                                                *)
  <2>n. ASSUME InFlight(d), acked' = acked \cup {DriverKey(d)}
        PROVE  Known
    BY <2>b, <2>n, KeyFacts DEF ProgressInv
  <2>1. CASE ChooseShape(d)
    <3>1. PICK op : Chooses(d, op)
      BY <2>1 DEF ChooseShape
    <3> HIDE DEF Honest, Led, Known
    <3> QED BY <1>t, <2>c, <2>k, <2>o, <2>q, <3>1 DEF Chooses, At
  <2>2. ASSUME NEW op, NEW pc, NEW t, Takes(d, op, pc, t), pc # "invoke"
        PROVE  ProgressInv'
    <3>1. Honest(t)
      BY <2>2, <2>o DEF Takes
    <3> HIDE DEF Honest, Led, Known
    <3> QED BY <2>2, <2>c, <2>k, <2>o, <2>q, <3>1 DEF Takes, At
  <2>3. CASE EndShape(d) \/ Abandons(d)
    <3> HIDE DEF Honest, Led, Known
    <3> QED BY <2>3, <2>c, <2>k, <2>o DEF EndShape, Ends, Abandons
  <2>4. CASE PickShape(d)
    <3>1. PICK i : Moves(d, "mark", i, drv[d].tx)
      BY <2>4 DEF PickShape
    <3> HIDE DEF Honest, Led, Known
    <3> QED BY <2>c, <2>k, <2>o, <2>q, <3>1 DEF Moves, At
  <2>5. CASE RunShape(d)
    <3>1. PICK t : Runs(d, t) /\ Marks(d, t, "Running")
      BY <2>5 DEF RunShape
    <3>2. /\ drv[d].pc = "mark" /\ drv[d].op = "workflow" /\ MoreBranches(d)
          /\ drv[d].pos \in Ready(drv[d].tx) /\ acked' = acked /\ tx' = tx
          /\ Puts(d, At("invoke", drv[d].op, drv[d].pos, t))
          /\ t.ids = drv[d].tx.ids
      BY <2>5, <3>1 DEF RunShape, Runs, ControlInv, OwnCopyOf
    <3>3. Honest(t)
      BY <2>m, <2>b, <3>1, <3>2 DEF Marks
    <3>4. /\ Current(d) = drv[d].tx.ids[drv[d].pos]
          /\ KeyOf(At("invoke", drv[d].op, drv[d].pos, t))[1] = Current(d)
      BY <3>2 DEF Current, KeyOf, At, Backwards
    <3>5. \A c \in Deps[Current(d)] : drv[d].tx.bst[c] = "Succeeded"
      BY <3>2, <3>4 DEF Ready
    <3>6. Deps[Current(d)] \subseteq Branch
      BY <2>b, <3>2, WorkflowAssumption
    <3>7. Led(At("invoke", drv[d].op, drv[d].pos, t))
      BY <2>o, <3>4, <3>5, <3>6
    <3> HIDE DEF Honest, Led, Known
    <3> QED BY <2>c, <2>k, <2>o, <3>2, <3>3, <3>7 DEF At
  <2>6. CASE SkipShape(d)
    <3>1. PICK t : /\ Moves(d, "loop", drv[d].pos + 1, t)
                   /\ Marks(d, t, "Skipped") \/ t = drv[d].tx
      BY <2>6 DEF SkipShape
    <3>2. Honest(t)
      <4>1. Current(d) \in Branch
        BY <2>6, <2>b DEF SkipShape
      <4> HIDE DEF Honest
      <4> QED BY <2>m, <2>o, <3>1, <4>1 DEF Marks
    <3> HIDE DEF Honest, Led, Known
    <3> QED BY <2>c, <2>k, <2>o, <2>q, <3>1, <3>2 DEF Moves, At
  <2>7. CASE UndoShape(d)
    <3>1. PICK t : Claims(d, t) /\ t.bst = drv[d].tx.bst
      BY <2>7 DEF UndoShape
    <3>2. Honest(t) /\ drv[d].op = "workflow_rollback"
      BY <2>7, <2>o, <3>1 DEF UndoShape
    <3> HIDE DEF Honest, Led, Known
    <3> QED BY <2>c, <2>k, <2>o, <2>r, <3>1, <3>2 DEF Claims, At
  <2>8. CASE RunOkShape(d)
    <3>1. PICK t : Accepted(d, "save", drv[d].pos, t) /\ Marks(d, t, "Succeeded")
      BY <2>8 DEF RunOkShape
    <3>2. /\ drv[d].op = "workflow" /\ MoreBranches(d) /\ InFlight(d)
          /\ acked' = acked \cup {DriverKey(d)}
      BY <2>8, <2>b, <3>1 DEF RunOkShape, Accepted, InFlight
    <3>3. DriverKey(d) = <<Current(d), "workflow">>
      BY <3>2, KeyFacts DEF WorkflowHandler
    <3>4. Honest(t)
      BY <2>m, <2>b, <3>1, <3>2, <3>3 DEF Marks
    <3> HIDE DEF Honest, Led, Known
    <3> QED BY <2>c, <2>n, <2>o, <2>q, <3>1, <3>2, <3>4 DEF Accepted, At
  <2>9. CASE UndoOkShape(d)
    <3>1. PICK t : Accepted(d, "loop", drv[d].pos + 1, t) /\ Marks(d, t, "Skipped")
      BY <2>9 DEF UndoOkShape
    <3>2. InFlight(d) /\ acked' = acked \cup {DriverKey(d)} /\ Current(d) \in Branch
      BY <2>b, <3>1 DEF Accepted, InFlight
    <3>3. Honest(t)
      BY <2>m, <3>1, <3>2 DEF Marks
    <3> HIDE DEF Honest, Led, Known
    <3> QED BY <2>c, <2>n, <2>o, <2>q, <3>1, <3>2, <3>3 DEF Accepted, At
  <2>10. CASE ErrShape(d)
    <3>1. PICK t, st : /\ Rejected(d, "release", t) /\ st # "Succeeded"
                       /\ t.bst = [drv[d].tx.bst EXCEPT ![Current(d)] = st]
      BY <2>10 DEF ErrShape
    <3>2. Honest(t)
      BY <2>m, <2>b, <3>1 DEF Rejected, InFlight
    <3> HIDE DEF Honest, Led, Known
    <3> QED BY <2>c, <2>k, <2>o, <2>q, <3>1, <3>2 DEF Rejected, At
  <2>11. CASE ReleaseShape(d)
    <3> HIDE DEF Honest, Led, Known
    <3> QED
      BY <2>11, <2>c, <2>k, <2>o, <2>q DEF ReleaseShape, Releases, Yields, At
  <2>12. CASE StoreShape(d)
    <3>1. OwnCopyOf(d, drv[d].tx) /\ acked' = acked
      BY <2>12 DEF StoreShape, StoresOn
    <3>2. Honest(Bumped(drv[d].tx))
      BY <2>s, <2>o, <3>1
    <3> HIDE DEF Honest, Led, Known
    <3> QED
      BY <2>12, <2>c, <2>k, <2>o, <2>q, <3>1, <3>2 DEF StoreShape, StoresOn, At
  <2>13. CASE HandShape(d)
    <3> HIDE DEF Honest, Led, Known
    <3> QED
      BY <1>t, <2>13, <2>c, <2>k, <2>o, <2>q, <2>s DEF HandShape, HandsOver, At
  <2>14. CASE SaveShape(d) \/ CompleteShape(d)
    <3>1. PICK t : Writes(d, t) /\ t.bst = drv[d].tx.bst
      BY <2>14 DEF SaveShape, CompleteShape
    <3>2. Honest(t)
      BY <2>o, <3>1
    <3> HIDE DEF Honest, Led, Known
    <3> QED BY <2>c, <2>k, <2>o, <2>s, <3>1, <3>2 DEF Writes
  <2> HIDE DEF Honest, Led, Known
  <2>15. CASE StartShape(d)
    BY <2>15, <2>2 DEF StartShape
  <2>16. CASE RequestShape(d)
    BY <2>16, <2>2 DEF RequestShape
  <2> QED
    BY <1>1, <2>1, <2>3, <2>4, <2>5, <2>6, <2>7, <2>8, <2>9, <2>10, <2>11,
       <2>12, <2>13, <2>14, <2>15, <2>16 DEF DriverShape
<1>2. CASE UNCHANGED <<tx, drv, acked>>
  BY <1>2 DEF ProgressInv, Current
<1> QED BY <1>1, <1>2, StepCases DEF Expire, vars

(* A branch takes effect after its dependencies, and the end is complete.  *)
LEMMA CompleteStep ==
  ASSUME CoreInv, ControlInv, ProgressInv, WorkflowComplete, [WorkflowNext]_vars
  PROVE  WorkflowComplete'
<1> SUFFICES ASSUME NEW c \in Members(Initial),
                    \/ tx'.status = "Succeeded"
                    \/ \E b \in Branch :
                         c \in Deps[b] /\ <<b, "workflow">> \in effects'
             PROVE  <<c, "workflow">> \in acked'
  BY DEF WorkflowComplete, Members
<1>1. ASSUME NEW d \in Driver, DriverShape(d)
      PROVE  <<c, "workflow">> \in acked'
  <2>a. acked \subseteq acked'
    BY <1>1, WorkflowShaped, ShapedFacts
  <2>1. ASSUME NEW b \in Branch, c \in Deps[b], <<b, "workflow">> \in effects'
        PROVE  <<c, "workflow">> \in acked'
    <3>1. CASE <<b, "workflow">> \in effects
      BY <2>1, <2>a, <3>1 DEF WorkflowComplete
    <3>2. CASE <<b, "workflow">> \notin effects
      <4>1. drv[d].pc = "invoke" /\ DriverKey(d) = <<b, "workflow">>
        BY <1>1, <2>1, <3>2, WorkflowShaped, ShapedFacts
      <4>2. MoreBranches(d) /\ drv[d].op \in WorkflowHandler
        BY <4>1, CopiesTyped DEF InFlight, ControlInv
      <4>3. drv[d].op = "workflow" /\ Current(d) = b
        BY <4>1, <4>2, KeyFacts DEF WorkflowHandler
      <4> QED BY <2>1, <2>a, <4>1, <4>3 DEF ProgressInv
    <3> QED BY <3>1, <3>2
  <2>2. CASE tx'.status = "Succeeded"
    <3>1. CASE tx'.status = tx.status
      BY <2>2, <2>a, <3>1 DEF WorkflowComplete
    <3>w. ASSUME NEW t, OwnCopyOf(d, t), tx' = Bumped(t)
          PROVE  tx'.status = t.status
      BY <3>w, Stored DEF OwnCopyOf
    <3>2. CASE StoreShape(d) \/ HandShape(d) \/ SaveShape(d)
      <4>1. /\ OwnCopyOf(d, drv[d].tx)
            /\ tx' = Bumped(drv[d].tx) \/ tx' = tx
        BY <3>2 DEF StoreShape, StoresOn, HandShape, HandsOver, SaveShape, Writes
      <4>2. drv[d].tx.status # "Succeeded"
        BY DEF ControlInv
      <4> QED BY <2>2, <3>1, <3>w, <4>1, <4>2
    <3>3. CASE CompleteShape(d)
      <4>1. PICK t : /\ Writes(d, t) /\ t.bst = drv[d].tx.bst
                     /\ \/ t.status = "Aborted"
                        \/ \A b \in Members(t.ids) : t.bst[b] = "Succeeded"
        BY <3>3 DEF CompleteShape
      <4>2. CASE tx' = Bumped(t)
        <5>1. t.status = "Succeeded" /\ t.ids = Initial
          BY <2>2, <3>w, <4>1, <4>2 DEF Writes, OwnCopyOf, ControlInv
        <5>2. drv[d].tx.bst[c] = "Succeeded"
          BY <4>1, <5>1
        <5>3. c \in Branch
          BY CoordinatorAssumption DEF Members
        <5> QED BY <2>a, <5>2, <5>3 DEF ProgressInv
      <4> QED BY <3>1, <4>1, <4>2 DEF Writes
    <3> QED
      BY <1>1, <3>1, <3>2, <3>3
         DEF DriverShape, ChooseShape, StartShape, RequestShape, EndShape,
             PickShape, RunShape, SkipShape, UndoShape, RunOkShape,
             UndoOkShape, ErrShape, ReleaseShape, Chooses, Takes, Ends,
             Moves, Claims, Runs, Accepted, Rejected, Releases, Yields, Abandons
  <2> QED BY <2>1, <2>2
<1>2. CASE UNCHANGED <<tx, acked, effects>>
  BY <1>2 DEF WorkflowComplete
<1> QED BY <1>1, <1>2, StepCases DEF Expire, vars

(* Whoever races, crashes or overwrites the record, on every store and for *)
(* every dependency graph: a branch of a Workflow takes effect only after  *)
(* its dependencies were accepted, and Succeeded is stored only when all   *)
(* branches were.                                                          *)
THEOREM WorkflowCompleteHolds == Spec => []WorkflowComplete
<1> DEFINE I == ProgressInv /\ WorkflowComplete
<1>1. Init => I
  BY DEF Init, ProgressInv, WorkflowComplete, Idle, NewTransaction
<1>2. CoreInv /\ ControlInv /\ I /\ [WorkflowNext]_vars => I'
  BY ProgressStep, CompleteStep
<1> QED BY <1>1, <1>2, WorkflowTypeCorrect, PTL DEF Spec

-----------------------------------------------------------------------------
(* One worker, undisturbed.  The other drivers rest, so that the invariant *)
(* is about the state s of one driver, the record t, the barrier table and *)
(* what was accepted.                                                      *)

Copying(s) == s.pc \notin {"idle", "chosen"}

Shows(t, b, ack) ==
  <<b, "workflow">> \in ack =>
    \/ t.bst[b] \in {"Succeeded", "Compensating"}
    \/ t.bst[b] = "Skipped" /\ <<b, "workflow_rollback">> \in ack

TurnOf(s, t) == s.pc # "idle" => s.op \in WorkflowHandler /\ t.status # "Aborted"

HeldOf(s, bar, ack) ==
  \A key \in bar :
    key \in ack \/ (s.pc \in {"invoke", "release"} /\ KeyOf(s) = key)

RecordedOf(s, t, ack) ==
  /\ Copying(s) => s.tx.rev = t.rev
  /\ \A b \in Branch : Shows(t, b, ack) \/ (s.pc = "save" /\ KeyOf(s)[1] = b)
  /\ \A b \in Branch : Copying(s) => Shows(s.tx, b, ack)

Place(s) == Len(Initial) + 1 - s.pos

PassedOf(s) ==
  s.op = "workflow_rollback" /\ Copying(s) =>
    \A j \in 1..Len(Initial) : j > Place(s) => s.tx.bst[Initial[j]] # "Succeeded"

AccountOf(t, ack) ==
  t.status = "Aborted" =>
    \A b \in Branch : <<b, "workflow">> \in ack =>
      <<b, "workflow_rollback">> \in ack \/ t.bst[b] = "Compensating"

Good(s, t, bar, ack) ==
  /\ TurnOf(s, t) /\ HeldOf(s, bar, ack) /\ RecordedOf(s, t, ack)
  /\ PassedOf(s) /\ AccountOf(t, ack)

(* The driver is in a good state, and the step leads to one.               *)
Well(d) == Good(drv[d], tx, barriers, acked)

Fine(d) == \E s : Puts(d, s) /\ Good(s, tx', barriers', acked')

(* The events that remain possible.                                        *)
LEMMA UndisturbedKept ==
  ASSUME CoreInv, ControlInv, [WorkflowNext]_vars, Undisturbed'
  PROVE  Undisturbed /\ ~Spend("call") /\ ~Spend("crash") /\ ~Spend("request")
<1>1. \/ budget' = budget \/ Spend("request") \/ Spend("call")
      \/ Spend("failure") \/ Spend("crash")
  BY StepCases, WorkflowShaped, ShapedFacts DEF Expire, vars
<1>2. CASE budget' = budget
  <2>1. ~Spend("call") /\ ~Spend("crash") /\ ~Spend("request")
    BY <1>2 DEF Spend, CoreInv, TypeOK
  <2> QED BY <1>2, <2>1 DEF Undisturbed, WorkersOnly
<1> QED BY <1>1, <1>2, Spent DEF CoreInv, Undisturbed

(* The worker that moves is alone.                                         *)
LEMMA Solo ==
  ASSUME OneWorker, CoreInv, ControlInv, UndoInv, [WorkflowNext]_vars,
         Undisturbed', NEW d \in Driver, DriverShape(d)
  PROVE  /\ d \in Worker
         /\ \A e \in Driver : e # d => drv[e].pc = "idle"
         /\ Well(d)
<1>1. Undisturbed /\ ~Spend("call") /\ ~Spend("crash") /\ ~Spend("request")
  BY UndisturbedKept
<1>2. TurnInv /\ HeldInv /\ RecordedInv /\ PassedInv /\ RollbackAccounted
  BY <1>1 DEF UndoInv
<1>3. d \in Worker
  <2>1. drv[d].pc # "idle" \/ d \in Worker
    BY <1>1
       DEF DriverShape, ChooseShape, StartShape, RequestShape, EndShape,
           PickShape, RunShape, SkipShape, UndoShape, RunOkShape,
           UndoOkShape, ErrShape, ReleaseShape, Claims, Runs, Accepted,
           Rejected, Releases, Yields, StoreShape, HandShape, HandsOver,
           SaveShape, CompleteShape, Abandons
  <2> QED BY <1>2, <2>1 DEF TurnInv
<1>4. \A e \in Driver : e # d => drv[e].pc = "idle"
  BY <1>2, <1>3 DEF TurnInv, OneWorker
<1>5. TurnOf(drv[d], tx)
  BY <1>2 DEF TurnInv, TurnOf
<1>6. HeldOf(drv[d], barriers, acked)
  BY <1>2, <1>4 DEF HeldInv, HeldOf, InFlight, DriverKey, KeyOf, Current
<1>7. RecordedOf(drv[d], tx, acked)
  BY <1>2, <1>4
     DEF RecordedInv, RecordedOf, Recorded, Shows, HasCopy, Copying, KeyOf,
         Current
<1>8. PassedOf(drv[d])
  BY <1>2 DEF PassedInv, PassedOf, HasCopy, Copying, Place
<1>9. AccountOf(tx, acked)
  BY <1>1, <1>2 DEF RollbackAccounted, AccountOf
<1> QED BY <1>3, <1>4, <1>5, <1>6, <1>7, <1>8, <1>9 DEF Well, Good

(* ... and what holds of it makes up the invariant.                        *)
LEMMA Together ==
  ASSUME CoreInv, NEW d \in Worker, Fine(d),
         \A e \in Driver : e # d => drv[e].pc = "idle"
  PROVE  TurnInv' /\ HeldInv' /\ RecordedInv' /\ PassedInv' /\ RollbackAccounted'
<1>1. PICK s : Puts(d, s) /\ Good(s, tx', barriers', acked')
  BY DEF Fine
<1>2. /\ d \in Driver /\ drv'[d] = s
      /\ \A e \in Driver : e # d => drv'[e].pc = "idle"
  BY <1>1, PutsFacts DEF CoreInv, TypeOK, Driver
<1>3. TurnInv'
  BY <1>1, <1>2 DEF TurnInv, Good, TurnOf
<1>4. HeldInv'
  BY <1>1, <1>2 DEF HeldInv, Good, HeldOf, InFlight, DriverKey, KeyOf, Current
<1>5. RecordedInv'
  BY <1>1, <1>2
     DEF RecordedInv, Good, RecordedOf, Recorded, Shows, HasCopy, Copying,
         KeyOf, Current
<1>6. PassedInv'
  BY <1>1, <1>2 DEF PassedInv, Good, PassedOf, HasCopy, Copying, Place
<1>7. RollbackAccounted'
  BY <1>1 DEF RollbackAccounted, Good, AccountOf
<1> QED BY <1>3, <1>4, <1>5, <1>6, <1>7

LEMMA PlaceFacts ==
  ASSUME CoreInv, ControlInv, NEW d \in Driver, drv[d].op = "workflow_rollback"
  PROVE  /\ Len(Initial) \in Nat /\ Place(drv[d]) \in Int
         /\ \A j \in 1..Len(Initial) : Initial[j] \in Branch
         /\ ~MoreBranches(d) => \A j \in 1..Len(Initial) : j > Place(drv[d])
         /\ MoreBranches(d) =>
              /\ Place(drv[d]) \in 1..Len(Initial)
              /\ Current(d) = Initial[Place(drv[d])] /\ Current(d) \in Branch
         /\ \A pc, op, t : Place(At(pc, op, drv[d].pos, t)) = Place(drv[d])
         /\ \A pc, op, t : Place(At(pc, op, drv[d].pos + 1, t))
                         = Place(drv[d]) - 1
<1>1. Len(Initial) \in Nat /\ \A j \in 1..Len(Initial) : Initial[j] \in Branch
  BY CoordinatorAssumption
<1>2. drv[d].pos \in Nat /\ drv[d].tx.ids = Initial
  BY DEF CoreInv, TypeOK, DriverState, ControlInv
<1>3. MoreBranches(d) =>
        /\ Place(drv[d]) \in 1..Len(Initial)
        /\ Current(d) = Initial[Place(drv[d])]
  BY KeyFacts DEF Place
<1>4. ~MoreBranches(d) => \A j \in 1..Len(Initial) : j > Place(drv[d])
  BY <1>1, <1>2 DEF MoreBranches, Place
<1> QED BY <1>1, <1>2, <1>3, <1>4 DEF Place, At

(* Choosing, starting and returning.                                       *)
LEMMA FineRests ==
  ASSUME CoreInv, NEW d \in Driver, Well(d), NEW s, Puts(d, s), ~InFlight(d),
         s.pc \in {"idle", "chosen"},
         s.pc = "chosen" => s.op \in WorkflowHandler /\ tx.status # "Aborted",
         drv[d].pc # "save", UNCHANGED <<tx, barriers, acked>>
  PROVE  Fine(d)
<1>1. TurnOf(s, tx) /\ PassedOf(s) /\ AccountOf(tx, acked)
  BY DEF Well, Good, TurnOf, PassedOf, Copying
<1>2. HeldOf(s, barriers, acked)
  BY DEF Well, Good, HeldOf, InFlight
<1>3. RecordedOf(s, tx, acked)
  BY DEF Well, Good, RecordedOf, Copying
<1> QED BY <1>1, <1>2, <1>3 DEF Fine, Good

LEMMA FineEnds ==
  ASSUME CoreInv, ControlInv, NEW d \in Driver, EndShape(d), Well(d)
  PROVE  Fine(d)
<1>1. /\ Puts(d, Idle) /\ UNCHANGED <<tx, barriers, acked>> /\ ~InFlight(d)
      /\ drv[d].pc # "save" /\ Idle.pc = "idle"
  BY DEF EndShape, Ends, Idle
<1> QED BY <1>1, FineRests

LEMMA FineChooses ==
  ASSUME CoreInv, ControlInv, NEW d \in Driver, ChooseShape(d), ~Spend("call"),
         Well(d)
  PROVE  Fine(d)
<1>1. PICK op \in WorkflowHandler :
        Chooses(d, op) /\ drv[d].pc = "idle" /\ op = RecoverHandler
  BY DEF ChooseShape
<1> DEFINE s == At("chosen", op, 1, NewTransaction)
<1>2. Puts(d, s) /\ UNCHANGED <<tx, barriers, acked>> /\ ~InFlight(d)
  BY <1>1 DEF Chooses
<1>3. s.pc = "chosen" /\ s.op = op
  BY DEF At
<1> HIDE DEF s
<1>4. tx.status # "Aborted"
  BY <1>1 DEF RecoverHandler, IsTerminal, WorkflowHandler
<1> QED BY <1>1, <1>2, <1>3, <1>4, FineRests

LEMMA FineStarts ==
  ASSUME CoreInv, ControlInv, NEW d \in Driver, StartShape(d), ~Spend("call"),
         Well(d)
  PROVE  Fine(d)
<1>1. PICK op \in WorkflowHandler, t \in Transaction :
        Takes(d, op, "loop", t) /\ tx.status \in AllowedFrom(op)
        /\ drv[d].pc = "chosen"
  BY DEF StartShape
<1> DEFINE s == At("loop", op, 1, t)
<1>2. /\ Puts(d, s) /\ UNCHANGED <<tx, barriers, acked>>
      /\ t.rev = tx.rev /\ t.bst = tx.bst
  BY <1>1 DEF Takes
<1>3. s.op = op /\ s.pos = 1 /\ s.tx = t /\ s.pc = "loop"
  BY DEF At
<1> HIDE DEF s
<1>4. tx.status # "Aborted"
  BY <1>1 DEF AllowedFrom, WorkflowHandler
<1>5. TurnOf(s, tx) /\ HeldOf(s, barriers, acked) /\ AccountOf(tx, acked)
  BY <1>1, <1>3, <1>4 DEF Well, Good, TurnOf, HeldOf
<1>6. RecordedOf(s, tx, acked)
  BY <1>1, <1>2, <1>3 DEF Well, Good, RecordedOf, Copying, Shows
<1>7. PassedOf(s)
  <2>1. Len(Initial) \in Nat
    BY CoordinatorAssumption
  <2>2. Place(s) = Len(Initial)
    BY <1>3, <2>1 DEF Place
  <2>3. \A j \in 1..Len(Initial) : ~(j > Place(s))
    BY <2>1, <2>2
  <2> QED BY <2>3 DEF PassedOf
<1> QED BY <1>2, <1>5, <1>6, <1>7 DEF Fine, Good

(* The handler goes on with a copy that shows what was accepted.           *)
LEMMA FineGoes ==
  ASSUME CoreInv, ControlInv, NEW d \in Driver, Well(d), Copying(drv[d]),
         drv[d].pc # "save", NEW s, Puts(d, s), Copying(s), s.op = drv[d].op,
         s.tx.rev = drv[d].tx.rev, tx' = tx,
         acked' = acked \/ acked' = acked \cup {DriverKey(d)},
         HeldOf(s, barriers', acked'), PassedOf(s),
         s.pc = "save" => KeyOf(s) = DriverKey(d),
         \A b \in Branch : Shows(s.tx, b, acked'),
         \/ acked' = acked
         \/ drv[d].op = "workflow_rollback"
         \/ s.pc = "save"
  PROVE  Fine(d)
<1>i. drv[d].pc # "idle"
  BY DEF Copying
<1>1. TurnOf(s, tx) /\ tx.status # "Aborted"
  BY <1>i DEF Well, Good, TurnOf
<1>2. ASSUME NEW b \in Branch
      PROVE  Shows(tx, b, acked') \/ (s.pc = "save" /\ KeyOf(s)[1] = b)
  <2>1. Shows(tx, b, acked)
    BY DEF Well, Good, RecordedOf
  <2>2. CASE acked' = acked
    BY <2>1, <2>2
  <2>3. CASE acked' = acked \cup {DriverKey(d)} /\ drv[d].op = "workflow_rollback"
    <3>1. DriverKey(d)[2] = "workflow_rollback"
      BY <2>3 DEF DriverKey, BarrierOp
    <3>2. <<b, "workflow">> \in acked' => <<b, "workflow">> \in acked
      BY <2>3, <3>1
    <3> QED BY <2>1, <2>3, <3>2 DEF Shows
  <2>4. CASE acked' = acked \cup {DriverKey(d)} /\ s.pc = "save"
    <3>1. CASE DriverKey(d)[1] = b
      BY <2>4, <3>1
    <3>2. CASE DriverKey(d)[1] # b
      <4>1. <<b, "workflow">> \in acked' => <<b, "workflow">> \in acked
        BY <2>4, <3>2
      <4> QED BY <2>1, <2>4, <4>1 DEF Shows
    <3> QED BY <3>1, <3>2
  <2> QED BY <2>2, <2>3, <2>4
<1>3. RecordedOf(s, tx, acked')
  BY <1>2 DEF Well, Good, RecordedOf
<1>4. AccountOf(tx, acked')
  BY <1>1 DEF AccountOf
<1> QED BY <1>1, <1>3, <1>4 DEF Fine, Good

(* start_workflow.                                                         *)
LEMMA FineForward ==
  ASSUME CoreInv, ControlInv, NEW d \in Driver, drv[d].op = "workflow",
         \/ PickShape(d) \/ RunShape(d) \/ RunOkShape(d) \/ ErrShape(d)
         \/ ReleaseShape(d),
         Well(d)
  PROVE  Fine(d)
<1>c. Copying(drv[d]) /\ drv[d].pc # "save"
  BY DEF PickShape, RunShape, RunOkShape, ErrShape, ReleaseShape, Runs,
         Accepted, Rejected, Yields, Copying
<1>h. \A b \in Branch : Shows(drv[d].tx, b, acked)
  BY <1>c DEF Well, Good, RecordedOf
<1>k. MoreBranches(d) => /\ Current(d) \in Branch
                         /\ DriverKey(d) = <<Current(d), "workflow">>
  BY CopiesTyped, KeyFacts DEF WorkflowHandler
<1>i. InFlight(d) => MoreBranches(d) /\ DriverKey(d) \notin acked
  BY CopiesTyped DEF CoreInv, KeysInv
<1>b. HeldOf(drv[d], barriers, acked)
  BY DEF Well, Good
<1>p. \A pc, pos, t : PassedOf(At(pc, drv[d].op, pos, t))
  BY DEF PassedOf, At
<1>e. \A pc, t : t.ids = drv[d].tx.ids =>
        KeyOf(At(pc, drv[d].op, drv[d].pos, t)) = DriverKey(d)
  BY KeyKept
(* The branch the driver is at has not been accepted.                      *)
<1>m. ASSUME NEW t, NEW st, t.bst = [drv[d].tx.bst EXCEPT ![Current(d)] = st],
             MoreBranches(d), DriverKey(d) \notin acked, NEW b \in Branch
      PROVE  Shows(t, b, acked)
  <2>1. CASE b = Current(d)
    BY <1>k, <1>m, <2>1 DEF Shows
  <2>2. CASE b # Current(d)
    <3>1. t.bst[b] = drv[d].tx.bst[b]
      BY <1>k, <1>m, <2>2, CopiesTyped DEF Transaction
    <3>2. Shows(drv[d].tx, b, acked)
      BY <1>h
    <3> QED BY <3>1, <3>2 DEF Shows
  <2> QED BY <2>1, <2>2
<1>1. CASE PickShape(d)
  <2>1. PICK i : Moves(d, "mark", i, drv[d].tx)
    BY <1>1 DEF PickShape
  <2> DEFINE s == At("mark", drv[d].op, i, drv[d].tx)
  <2>2. Puts(d, s) /\ UNCHANGED <<tx, barriers, acked>> /\ ~InFlight(d)
    BY <2>1 DEF Moves
  <2>3. s.op = drv[d].op /\ s.tx = drv[d].tx /\ s.pc = "mark" /\ Copying(s)
    BY DEF At, Copying
  <2>4. PassedOf(s)
    BY <1>p
  <2> HIDE DEF s
  <2>5. HeldOf(s, barriers, acked)
    BY <1>b, <2>2 DEF HeldOf, InFlight
  <2> QED BY <1>c, <1>h, <2>2, <2>3, <2>4, <2>5, FineGoes
<1>2. CASE RunShape(d)
  <2>1. PICK t : Runs(d, t) /\ Marks(d, t, "Running")
    BY <1>2 DEF RunShape
  <2> DEFINE s == At("invoke", drv[d].op, drv[d].pos, t)
  <2>2. /\ Puts(d, s) /\ UNCHANGED <<tx, acked>> /\ OwnCopyOf(d, t)
        /\ barriers' = barriers \cup {DriverKey(d)} /\ drv[d].pc = "mark"
        /\ MoreBranches(d) /\ DriverKey(d) \notin acked
    BY <2>1 DEF Runs, CoreInv, KeysInv
  <2>3. s.op = drv[d].op /\ s.tx = t /\ s.pc = "invoke" /\ Copying(s)
    BY DEF At, Copying
  <2>4. PassedOf(s) /\ KeyOf(s) = DriverKey(d)
    BY <1>p, <1>e, <2>2 DEF OwnCopyOf
  <2> HIDE DEF s
  <2>5. HeldOf(s, barriers', acked)
    BY <1>b, <2>2, <2>3, <2>4 DEF HeldOf
  <2>6. \A b \in Branch : Shows(t, b, acked)
    BY <1>m, <2>1, <2>2 DEF Marks
  <2> QED BY <1>c, <2>2, <2>3, <2>4, <2>5, <2>6, FineGoes DEF OwnCopyOf
<1>3. CASE RunOkShape(d)
  <2>1. PICK t : Accepted(d, "save", drv[d].pos, t) /\ Marks(d, t, "Succeeded")
    BY <1>3 DEF RunOkShape
  <2> DEFINE s == At("save", drv[d].op, drv[d].pos, t)
  <2>2. /\ Puts(d, s) /\ UNCHANGED <<tx, barriers>> /\ OwnCopyOf(d, t)
        /\ acked' = acked \cup {DriverKey(d)} /\ InFlight(d)
    BY <2>1 DEF Accepted, InFlight
  <2>3. s.op = drv[d].op /\ s.tx = t /\ s.pc = "save" /\ Copying(s)
    BY DEF At, Copying
  <2>4. PassedOf(s) /\ KeyOf(s) = DriverKey(d)
    BY <1>p, <1>e, <2>2 DEF OwnCopyOf
  <2> HIDE DEF s
  <2>5. HeldOf(s, barriers, acked')
    BY <1>b, <2>2 DEF HeldOf, KeyOf, DriverKey, Current
  <2>6. ASSUME NEW b \in Branch
        PROVE  Shows(t, b, acked')
    <3>1. CASE b = Current(d)
      BY <1>i, <1>k, <2>1, <2>2, <3>1, MarksFacts DEF Shows
    <3>2. CASE b # Current(d)
      <4>1. t.bst[b] = drv[d].tx.bst[b]
        BY <1>i, <1>k, <2>1, <2>2, <3>2, MarksFacts
      <4>2. <<b, "workflow">> \in acked' => <<b, "workflow">> \in acked
        BY <1>i, <1>k, <2>2, <3>2
      <4> QED BY <1>h, <2>2, <4>1, <4>2 DEF Shows
    <3> QED BY <3>1, <3>2
  <2> QED BY <1>c, <2>2, <2>3, <2>4, <2>5, <2>6, FineGoes DEF OwnCopyOf
<1>4. CASE ErrShape(d)
  <2>1. PICK t : /\ Rejected(d, "release", t)
                 /\ t.bst = [drv[d].tx.bst EXCEPT ![Current(d)] = "Failed"]
    BY <1>4 DEF ErrShape
  <2> DEFINE s == At("release", drv[d].op, drv[d].pos, t)
  <2>2. /\ Puts(d, s) /\ UNCHANGED <<tx, barriers, acked>> /\ OwnCopyOf(d, t)
        /\ InFlight(d)
    BY <2>1 DEF Rejected, InFlight
  <2>3. s.op = drv[d].op /\ s.tx = t /\ s.pc = "release" /\ Copying(s)
    BY DEF At, Copying
  <2>4. PassedOf(s) /\ KeyOf(s) = DriverKey(d)
    BY <1>p, <1>e, <2>2 DEF OwnCopyOf
  <2> HIDE DEF s
  <2>5. HeldOf(s, barriers, acked)
    BY <1>b, <2>3, <2>4 DEF HeldOf, KeyOf, DriverKey, Current
  <2>6. \A b \in Branch : Shows(t, b, acked)
    BY <1>i, <1>m, <2>1, <2>2
  <2> QED BY <1>c, <2>2, <2>3, <2>4, <2>5, <2>6, FineGoes DEF OwnCopyOf
<1>5. CASE ReleaseShape(d)
  <2> DEFINE s == At("handover", drv[d].op, drv[d].pos, drv[d].tx)
  <2>1. Puts(d, s) /\ UNCHANGED <<tx, acked>> /\ barriers' = barriers \ {DriverKey(d)}
    BY <1>5 DEF ReleaseShape, Yields
  <2>2. s.op = drv[d].op /\ s.tx = drv[d].tx /\ s.pc = "handover" /\ Copying(s)
    BY DEF At, Copying
  <2>3. PassedOf(s)
    BY <1>p
  <2> HIDE DEF s
  <2>4. HeldOf(s, barriers', acked)
    BY <1>b, <2>1 DEF HeldOf, KeyOf, DriverKey, Current
  <2> QED BY <1>c, <1>h, <2>1, <2>2, <2>3, <2>4, FineGoes
<1> QED BY <1>1, <1>2, <1>3, <1>4, <1>5

(* abort_workflow.                                                         *)
LEMMA FineUndoes ==
  ASSUME CoreInv, ControlInv, NEW d \in Driver, drv[d].op = "workflow_rollback",
         \/ SkipShape(d) \/ UndoShape(d) \/ UndoOkShape(d) \/ ErrShape(d)
         \/ ReleaseShape(d),
         Well(d)
  PROVE  Fine(d)
<1>c. Copying(drv[d]) /\ MoreBranches(d) /\ drv[d].pc # "save"
  BY CopiesTyped
     DEF SkipShape, UndoShape, UndoOkShape, ErrShape, ReleaseShape, Claims,
         Accepted, Rejected, Releases, Copying, InFlight
<1> DEFINE N == 1..Len(Initial)
           P == Place(drv[d])
<1>p. /\ P \in N /\ Len(Initial) \in Nat
      /\ Current(d) = Initial[P] /\ Current(d) \in Branch
      /\ \A j \in N : Initial[j] \in Branch
      /\ \A pc, op, t : /\ Place(At(pc, op, drv[d].pos, t)) = P
                        /\ Place(At(pc, op, drv[d].pos + 1, t)) = P - 1
  BY <1>c, PlaceFacts
<1>k. DriverKey(d) = <<Current(d), "workflow_rollback">>
  BY <1>c, KeyFacts DEF WorkflowHandler
<1>h. \A b \in Branch : Shows(drv[d].tx, b, acked)
  BY <1>c DEF Well, Good, RecordedOf
<1>b. HeldOf(drv[d], barriers, acked)
  BY DEF Well, Good
<1>u. \A j \in N : j > P => drv[d].tx.bst[Initial[j]] # "Succeeded"
  BY <1>c DEF Well, Good, PassedOf
<1>e. \A pc, t : t.ids = drv[d].tx.ids =>
        KeyOf(At(pc, drv[d].op, drv[d].pos, t)) = DriverKey(d)
  BY KeyKept
<1> HIDE DEF P
(* The handler stays at its branch.                                        *)
<1>m. ASSUME NEW pc \in {"persist", "invoke", "release"}, NEW t, OwnCopyOf(d, t),
             Puts(d, At(pc, drv[d].op, drv[d].pos, t)), tx' = tx, acked' = acked,
             \A b \in Branch : b # Current(d) => t.bst[b] = drv[d].tx.bst[b],
             \/ t.bst[Current(d)] = drv[d].tx.bst[Current(d)]
             \/ t.bst[Current(d)] = "Compensating",
             HeldOf(At(pc, drv[d].op, drv[d].pos, t), barriers', acked)
      PROVE  Fine(d)
  <2> DEFINE s == At(pc, drv[d].op, drv[d].pos, t)
  <2>1. /\ s.op = drv[d].op /\ s.tx = t /\ s.pc = pc /\ Copying(s)
        /\ s.pc # "save" /\ s.tx.rev = drv[d].tx.rev
    BY <1>m DEF At, Copying, OwnCopyOf
  <2>2. Place(s) = P
    BY <1>p
  <2>3. \A b \in Branch : Shows(t, b, acked)
    BY <1>h, <1>m DEF Shows
  <2>4. \A j \in N : j > P => t.bst[Initial[j]] # "Succeeded"
    BY <1>m, <1>p, <1>u
  <2>h. HeldOf(s, barriers', acked)
    BY <1>m
  <2> HIDE DEF s
  <2>5. PassedOf(s)
    BY <2>1, <2>2, <2>4 DEF PassedOf
  <2> QED BY <1>c, <1>m, <2>1, <2>3, <2>5, <2>h, FineGoes DEF s
(* The handler has done with its branch.                                   *)
<1>n. ASSUME NEW t, OwnCopyOf(d, t), UNCHANGED <<tx, barriers>>,
             Puts(d, At("loop", drv[d].op, drv[d].pos + 1, t)),
             \/ acked' = acked /\ ~InFlight(d)
             \/ acked' = acked \cup {DriverKey(d)},
             \A b \in Branch : b # Current(d) => t.bst[b] = drv[d].tx.bst[b],
             Shows(t, Current(d), acked'), t.bst[Current(d)] # "Succeeded"
      PROVE  Fine(d)
  <2> DEFINE s == At("loop", drv[d].op, drv[d].pos + 1, t)
  <2>1. /\ s.op = drv[d].op /\ s.tx = t /\ s.pc = "loop" /\ Copying(s)
        /\ s.tx.rev = drv[d].tx.rev
    BY <1>n DEF At, Copying, OwnCopyOf
  <2>2. Place(s) = P - 1
    BY <1>p
  <2>3. ASSUME NEW b \in Branch
        PROVE  Shows(t, b, acked')
    <3>1. CASE b = Current(d)
      BY <1>n, <3>1
    <3>2. CASE b # Current(d)
      <4>1. /\ <<b, "workflow">> \in acked' => <<b, "workflow">> \in acked
            /\ acked \subseteq acked'
        BY <1>k, <1>n
      <4> QED BY <1>h, <1>n, <3>2, <4>1 DEF Shows
    <3> QED BY <3>1, <3>2
  <2>4. ASSUME NEW j \in N, j > P - 1
        PROVE  t.bst[Initial[j]] # "Succeeded"
    <3>1. CASE Initial[j] = Current(d)
      BY <1>n, <3>1
    <3>2. CASE Initial[j] # Current(d)
      <4>1. j # P
        BY <1>p, <3>2
      <4>2. j > P
        BY <1>p, <2>4, <4>1
      <4> QED BY <1>n, <1>p, <1>u, <3>2, <4>2
    <3> QED BY <3>1, <3>2
  <2>p. Puts(d, s)
    BY <1>n
  <2> HIDE DEF s
  <2>5. PassedOf(s)
    BY <2>1, <2>2, <2>4 DEF PassedOf
  <2>6. HeldOf(s, barriers', acked')
    BY <1>b, <1>n DEF HeldOf, InFlight, KeyOf, DriverKey, Current
  <2> QED BY <1>c, <1>n, <2>1, <2>3, <2>5, <2>6, <2>p, FineGoes
<1>1. CASE SkipShape(d)
  <2>1. PICK t : /\ Moves(d, "loop", drv[d].pos + 1, t)
                 /\ \/ /\ Marks(d, t, "Skipped")
                       /\ \/ Status(d) = "Pending"
                          \/ Status(d) = "Succeeded" /\ DriverKey(d) \in barriers
                    \/ t = drv[d].tx /\ Status(d) # "Succeeded"
    BY <1>1 DEF SkipShape
  <2>2. /\ OwnCopyOf(d, t) /\ UNCHANGED <<tx, barriers, acked>> /\ ~InFlight(d)
        /\ Puts(d, At("loop", drv[d].op, drv[d].pos + 1, t))
    BY <2>1 DEF Moves
  <2>3. Shows(drv[d].tx, Current(d), acked)
    BY <1>h, <1>p
  <2>4. CASE Marks(d, t, "Skipped")
             /\ (Status(d) = "Pending" \/ DriverKey(d) \in barriers)
    <3>1. /\ \A b \in Branch : b # Current(d) => t.bst[b] = drv[d].tx.bst[b]
          /\ t.bst[Current(d)] = "Skipped"
      BY <1>p, <2>4, MarksFacts
    <3>2. DriverKey(d) \in barriers => DriverKey(d) \in acked
      BY <1>b, <2>2 DEF HeldOf, InFlight
    <3>3. Shows(t, Current(d), acked)
      BY <1>k, <2>3, <2>4, <3>1, <3>2 DEF Shows, Status
    <3> QED BY <1>n, <2>2, <3>1, <3>3
  <2>5. CASE t = drv[d].tx /\ Status(d) # "Succeeded"
    BY <1>n, <2>2, <2>3, <2>5 DEF Status
  <2> QED BY <2>1, <2>4, <2>5
<1>2. CASE UndoOkShape(d)
  <2>1. PICK t : Accepted(d, "loop", drv[d].pos + 1, t) /\ Marks(d, t, "Skipped")
    BY <1>2 DEF UndoOkShape
  <2>2. /\ OwnCopyOf(d, t) /\ UNCHANGED <<tx, barriers>>
        /\ acked' = acked \cup {DriverKey(d)}
        /\ Puts(d, At("loop", drv[d].op, drv[d].pos + 1, t))
    BY <2>1 DEF Accepted
  <2>3. /\ \A b \in Branch : b # Current(d) => t.bst[b] = drv[d].tx.bst[b]
        /\ t.bst[Current(d)] = "Skipped"
    BY <1>p, <2>1, MarksFacts
  <2>4. Shows(t, Current(d), acked')
    BY <1>k, <2>2, <2>3 DEF Shows
  <2> QED BY <1>n, <2>2, <2>3, <2>4
<1>3. CASE UndoShape(d)
  <2>1. PICK t : Claims(d, t) /\ t.bst = drv[d].tx.bst
    BY <1>3 DEF UndoShape
  <2> DEFINE s == At("invoke", drv[d].op, drv[d].pos, t)
  <2>2. /\ OwnCopyOf(d, t) /\ Puts(d, s) /\ UNCHANGED <<tx, acked>>
        /\ barriers' = barriers \cup {DriverKey(d)} /\ drv[d].pc = "loop"
    BY <2>1 DEF Claims
  <2>3. KeyOf(s) = DriverKey(d) /\ s.pc = "invoke"
    BY <1>e, <2>2 DEF OwnCopyOf, At
  <2>4. HeldOf(s, barriers', acked)
    BY <1>b, <2>2, <2>3 DEF HeldOf
  <2> QED BY <1>m, <2>1, <2>2, <2>4
<1>4. CASE ErrShape(d)
  <2>1. PICK t : /\ Rejected(d, "release", t)
                 /\ t.bst = [drv[d].tx.bst EXCEPT ![Current(d)] = "Compensating"]
    BY <1>4 DEF ErrShape
  <2> DEFINE s == At("release", drv[d].op, drv[d].pos, t)
  <2>2. /\ OwnCopyOf(d, t) /\ Puts(d, s) /\ UNCHANGED <<tx, barriers, acked>>
    BY <2>1 DEF Rejected
  <2>3. KeyOf(s) = DriverKey(d) /\ s.pc = "release"
    BY <1>e, <2>2 DEF OwnCopyOf, At
  <2>4. HeldOf(s, barriers', acked)
    BY <1>b, <2>2, <2>3 DEF HeldOf, KeyOf, DriverKey, Current
  <2>5. /\ \A b \in Branch : b # Current(d) => t.bst[b] = drv[d].tx.bst[b]
        /\ t.bst[Current(d)] = "Compensating"
    BY <1>p, <2>1, CopiesTyped DEF Transaction
  <2> QED BY <1>m, <2>2, <2>4, <2>5
<1>5. CASE ReleaseShape(d)
  <2> DEFINE s == At("persist", drv[d].op, drv[d].pos, drv[d].tx)
  <2>1. /\ OwnCopyOf(d, drv[d].tx) /\ Puts(d, s) /\ UNCHANGED <<tx, acked>>
        /\ barriers' = barriers \ {DriverKey(d)}
    BY <1>5 DEF ReleaseShape, Releases
  <2>2. HeldOf(s, barriers', acked)
    BY <1>b, <2>1 DEF HeldOf, KeyOf, DriverKey, Current
  <2> QED BY <1>m, <2>1, <2>2
<1> QED BY <1>1, <1>2, <1>3, <1>4, <1>5

(* The writes.                                                             *)
LEMMA FineStores ==
  ASSUME CoreInv, NEW d \in Driver, Well(d), Copying(drv[d]), ~InFlight(d),
         NEW t, OwnCopyOf(d, t), t.bst = drv[d].tx.bst,
         tx' = Bumped(t), UNCHANGED <<barriers, acked>>, AccountOf(t, acked),
         NEW s, Puts(d, s), s.pc # "save", s.pc \notin {"invoke", "release"},
         \/ s.pc = "idle"
         \/ t.status # "Aborted" /\ s.op \in WorkflowHandler /\ s.pc = "chosen"
         \/ t.status # "Aborted" /\ s.op = "workflow" /\ s.tx = Bumped(t)
  PROVE  Fine(d)
<1>1. Bumped(t).bst = drv[d].tx.bst /\ Bumped(t).status = t.status
  BY Stored DEF OwnCopyOf
<1>2. \A b \in Branch : Shows(Bumped(t), b, acked)
  BY <1>1 DEF Well, Good, RecordedOf, Shows
<1>3. TurnOf(s, Bumped(t))
  BY <1>1 DEF TurnOf, WorkflowHandler
<1>4. RecordedOf(s, Bumped(t), acked)
  BY <1>2 DEF RecordedOf, Copying
<1>5. HeldOf(s, barriers, acked)
  BY DEF Well, Good, HeldOf, InFlight
<1>6. PassedOf(s)
  BY DEF PassedOf, Copying
<1>7. AccountOf(Bumped(t), acked)
  BY <1>1 DEF AccountOf
<1> QED BY <1>3, <1>4, <1>5, <1>6, <1>7 DEF Fine, Good

LEMMA FineWrites ==
  ASSUME CoreInv, ControlInv, ProgressInv, NEW d \in Driver,
         \/ StoreShape(d) \/ HandShape(d) \/ SaveShape(d) \/ CompleteShape(d),
         Well(d)
  PROVE  Fine(d)
<1>c. Copying(drv[d]) /\ ~InFlight(d)
  BY DEF StoreShape, HandShape, HandsOver, SaveShape, CompleteShape, Copying,
         InFlight
<1>r. \A t : OwnCopyOf(d, t) => CanStore(t)
  BY <1>c DEF Well, Good, RecordedOf, CanStore, OwnCopyOf
<1>s. /\ drv[d].tx.status \notin {"Succeeded", "Aborted"}
      /\ drv[d].pc \in {"mark", "save", "handover"} => drv[d].op = "workflow"
  BY DEF ControlInv
<1>a. \A t : t.status # "Aborted" => AccountOf(t, acked)
  BY DEF AccountOf
<1>i. Idle.pc = "idle"
  BY DEF Idle
<1>1. CASE StoreShape(d)
  <2> DEFINE s == At("loop", drv[d].op, 1, Bumped(drv[d].tx))
  <2>1. /\ drv[d].op = "workflow" /\ OwnCopyOf(d, drv[d].tx)
        /\ tx' = Bumped(drv[d].tx) /\ Puts(d, s) /\ UNCHANGED <<barriers, acked>>
    BY <1>1, <1>r, <1>s DEF StoreShape, StoresOn
  <2>2. s.pc = "loop" /\ s.op = drv[d].op /\ s.tx = Bumped(drv[d].tx)
    BY DEF At
  <2> HIDE DEF s
  <2> QED BY <1>a, <1>c, <1>s, <2>1, <2>2, FineStores
<1>2. CASE HandShape(d)
  <2> DEFINE s == At("chosen", "workflow_rollback", 1, NewTransaction)
  <2>1. /\ OwnCopyOf(d, drv[d].tx)
        /\ tx' = Bumped(drv[d].tx) /\ Puts(d, s) /\ UNCHANGED <<barriers, acked>>
    BY <1>2, <1>r DEF HandShape, HandsOver
  <2>2. s.pc = "chosen" /\ s.op \in WorkflowHandler
    BY DEF At, WorkflowHandler
  <2> HIDE DEF s
  <2> QED BY <1>a, <1>c, <1>s, <2>1, <2>2, FineStores
<1>3. CASE SaveShape(d)
  <2>1. /\ OwnCopyOf(d, drv[d].tx) /\ tx' = Bumped(drv[d].tx)
        /\ Puts(d, Idle) /\ UNCHANGED <<barriers, acked>>
    BY <1>3, <1>r DEF SaveShape, Writes
  <2> QED BY <1>a, <1>c, <1>i, <1>s, <2>1, FineStores
<1>4. CASE CompleteShape(d)
  <2>1. PICK t : /\ OwnCopyOf(d, t) /\ tx' = Bumped(t) /\ Puts(d, Idle)
                 /\ UNCHANGED <<barriers, acked>> /\ t.bst = drv[d].tx.bst
                 /\ \/ t.status # "Aborted"
                    \/ drv[d].op = "workflow_rollback" /\ ~MoreBranches(d)
    BY <1>4, <1>r DEF CompleteShape, Writes
  <2>2. AccountOf(t, acked)
    <3>1. CASE t.status # "Aborted"
      BY <1>a, <3>1
    <3>2. CASE drv[d].op = "workflow_rollback" /\ ~MoreBranches(d)
      <4>1. \A j \in 1..Len(Initial) : drv[d].tx.bst[Initial[j]] # "Succeeded"
        BY <1>c, <3>2, PlaceFacts DEF Well, Good, PassedOf
      <4>2. ASSUME NEW b \in Branch, <<b, "workflow">> \in acked
            PROVE  \/ <<b, "workflow_rollback">> \in acked
                   \/ t.bst[b] = "Compensating"
        <5>1. b \in Members(Initial)
          BY <4>2 DEF ProgressInv
        <5>2. drv[d].tx.bst[b] # "Succeeded"
          BY <4>1, <5>1 DEF Members
        <5>3. Shows(drv[d].tx, b, acked)
          BY <1>c DEF Well, Good, RecordedOf
        <5> QED BY <2>1, <4>2, <5>2, <5>3 DEF Shows
      <4> QED BY <4>2 DEF AccountOf
    <3> QED BY <2>1, <3>1, <3>2
  <2> QED BY <1>c, <1>i, <2>1, <2>2, FineStores
<1> QED BY <1>1, <1>2, <1>3, <1>4

LEMMA UndoStep ==
  ASSUME OneWorker, CoreInv, ControlInv, ProgressInv, UndoInv,
         [WorkflowNext]_vars
  PROVE  UndoInv'
<1> SUFFICES ASSUME Undisturbed'
             PROVE  /\ TurnInv' /\ HeldInv' /\ RecordedInv' /\ PassedInv'
                    /\ RollbackAccounted'
  BY DEF UndoInv
<1>1. Undisturbed /\ ~Spend("call") /\ ~Spend("crash") /\ ~Spend("request")
  BY UndisturbedKept
<1>2. CASE \E d \in Driver : DriverShape(d)
  <2>1. PICK d \in Driver : DriverShape(d)
    BY <1>2
  <2>2. /\ d \in Worker /\ \A e \in Driver : e # d => drv[e].pc = "idle"
        /\ Well(d)
    BY <2>1, Solo
  <2>3. ~Abandons(d) /\ ~RequestShape(d)
    BY <1>1 DEF Abandons, RequestShape
  <2>4. Fine(d)
    <3>1. CASE ChooseShape(d)
      BY <1>1, <2>2, <3>1, FineChooses
    <3>2. CASE StartShape(d)
      BY <1>1, <2>2, <3>2, FineStarts
    <3>3. CASE EndShape(d)
      BY <2>2, <3>3, FineEnds
    <3>4. CASE StoreShape(d) \/ HandShape(d) \/ SaveShape(d) \/ CompleteShape(d)
      BY <2>2, <3>4, FineWrites
    <3>5. CASE PickShape(d) \/ RunShape(d) \/ RunOkShape(d)
      <4>1. drv[d].op = "workflow"
        BY <3>5 DEF PickShape, RunShape, RunOkShape
      <4> QED BY <2>2, <3>5, <4>1, FineForward
    <3>6. CASE SkipShape(d) \/ UndoShape(d) \/ UndoOkShape(d)
      <4>1. drv[d].op = "workflow_rollback"
        BY <3>6 DEF SkipShape, UndoShape, UndoOkShape
      <4> QED BY <2>2, <3>6, <4>1, FineUndoes
    <3>7. CASE ErrShape(d) \/ ReleaseShape(d)
      <4>1. drv[d].op \in WorkflowHandler
        BY <3>7 DEF ErrShape, ReleaseShape, WorkflowHandler
      <4> QED BY <2>2, <3>7, <4>1, FineForward, FineUndoes DEF WorkflowHandler
    <3> QED
      BY <2>1, <2>3, <3>1, <3>2, <3>3, <3>4, <3>5, <3>6, <3>7 DEF DriverShape
  <2> QED BY <2>2, <2>4, Together
<1>3. CASE Expire \/ UNCHANGED vars
  <2>1. UNCHANGED <<tx, barriers, drv, acked>>
    BY <1>3 DEF Expire, vars
  <2>2. TurnInv /\ HeldInv /\ RecordedInv /\ PassedInv /\ RollbackAccounted
    BY <1>1 DEF UndoInv
  <2>3. TurnInv' /\ HeldInv'
    BY <2>1, <2>2 DEF TurnInv, HeldInv, InFlight, DriverKey, Current
  <2>4. RecordedInv'
    BY <2>1, <2>2 DEF RecordedInv, Recorded, HasCopy, Current
  <2>5. PassedInv'
    BY <2>1, <2>2 DEF PassedInv, HasCopy
  <2>6. RollbackAccounted'
    BY <1>1, <2>1, <2>2 DEF RollbackAccounted
  <2> QED BY <2>3, <2>4, <2>5, <2>6
<1> QED BY <1>2, <1>3, StepCases

LEMMA UndoInit == Init => ProgressInv /\ UndoInv
<1> SUFFICES ASSUME Init PROVE ProgressInv /\ UndoInv
  OBVIOUS
<1>1. /\ \A d \in Driver : /\ drv[d].pc = "idle" /\ drv[d].op = "none"
                           /\ \A b \in Branch : drv[d].tx.bst[b] = "Pending"
      /\ acked = {} /\ barriers = {} /\ tx.status = "Submitted"
      /\ \A b \in Branch : tx.bst[b] = "Pending"
  BY DEF Init, Idle, NewTransaction
<1>2. ProgressInv /\ TurnInv /\ HeldInv
  BY <1>1 DEF ProgressInv, TurnInv, HeldInv
<1>3. RecordedInv
  BY <1>1 DEF RecordedInv, Recorded, HasCopy
<1>4. PassedInv
  BY <1>1 DEF PassedInv, HasCopy
<1>5. RollbackAccounted
  BY <1>1 DEF RollbackAccounted
<1> QED BY <1>2, <1>3, <1>4, <1>5 DEF UndoInv

(* A Workflow that one undisturbed worker stored as Aborted accounts for   *)
(* every accepted branch: it was rolled back, or the record says that its  *)
(* rollback failed, whatever calls failed and were retried, on every store *)
(* and for every dependency graph.                                         *)
THEOREM RollbackAccountedHolds == OneWorker => (Spec => []RollbackAccounted)
<1> SUFFICES ASSUME OneWorker PROVE Spec => []RollbackAccounted
  OBVIOUS
<1> DEFINE J == ProgressInv /\ UndoInv
<1>1. Init => J
  BY UndoInit
<1>2. CoreInv /\ ControlInv /\ J /\ [WorkflowNext]_vars => J'
  BY ProgressStep, UndoStep
<1>3. J => RollbackAccounted
  BY DEF UndoInv, RollbackAccounted
<1> QED BY <1>1, <1>2, <1>3, WorkflowTypeCorrect, PTL DEF Spec

=============================================================================
