----------------------------- MODULE TccProofs -----------------------------
(***************************************************************************)
(* Proofs of the safety properties of Tcc for every set of branches, every *)
(* number of clients and every bound.                                      *)
(***************************************************************************)
EXTENDS Tcc, CoordinatorProofs

-----------------------------------------------------------------------------
(* The actions of Tcc in the shapes of CoordinatorProofs.                  *)

SameStatus(d, t) == t.status = drv[d].tx.status

(* A tick or recover() chooses a handler.                                  *)
ChooseShape(d) ==
  \E op \in PhaseHandler :
    /\ Chooses(d, op)
    /\ \/ d \in Worker /\ budget' = budget /\ op = TickHandler
       \/ Spend("call")

(* A handler starts, in a worker or in a request.                          *)
StartShape(d) ==
  \E op \in PhaseHandler, t \in Transaction :
    /\ Takes(d, op, "loop", t)
    /\ tx.status \in AllowedFrom(op) /\ t.status = Working(op)
    /\ \/ drv[d].pc = "chosen" /\ drv[d].op = op /\ budget' = budget
       \/ Spend("call")

(* A request reads the record to write it with a new status.               *)
RequestShape(d) ==
  \E op \in Handler \ PhaseHandler, t \in Transaction :
    /\ Takes(d, op, "persist", t)
    /\ Phase(t.status) \in Lifecycle!Successors(Phase(tx.status))
    /\ t.status \notin {"Succeeded", "Aborted"}
    /\ Spend("request")

(* The loop: a branch is skipped, its key taken, or answered as null, or   *)
(* prepare_tcc finds it cancelled.                                         *)
SkipShape(d) ==
  /\ drv[d].pc = "loop" /\ MoreBranches(d)
  /\ drv[d].op # "prepare" => DriverKey(d) \in barriers
  /\ Moves(d, "loop", drv[d].pos + 1, drv[d].tx)

ClaimShape(d) ==
  /\ \E t : Claims(d, t) /\ SameStatus(d, t)
  /\ drv[d].op = "prepare" => <<Current(d), "cancel">> \notin barriers

NullShape(d) ==
  /\ \E t : Nullifies(d, t) /\ SameStatus(d, t)
  /\ drv[d].op = "cancel" /\ Current(d) \in Branch \ External
  /\ <<Current(d), "try">> \notin barriers

CancelledShape(d) ==
  /\ drv[d].pc = "loop" /\ drv[d].op = "prepare"
  /\ \E t : Moves(d, "persist", drv[d].pos, t) /\ t.status = "Aborting"

(* The call and what follows it.                                           *)
OkShape(d) == \E t : Accepted(d, "loop", drv[d].pos + 1, t) /\ SameStatus(d, t)
ErrShape(d) == \E t : Rejected(d, "release", t) /\ SameStatus(d, t)

ReleaseShape(d) ==
  \E t : /\ Releases(d, t)
         /\ \/ SameStatus(d, t)
            \/ drv[d].op = "prepare" /\ t.status = "Aborting"

SaveShape(d) == drv[d].pc = "persist" /\ Writes(d, drv[d].tx)

CompleteShape(d) ==
  \E t : /\ drv[d].pc = "loop" /\ ~MoreBranches(d)
         /\ t.status = Finished(drv[d].op)
         /\ Writes(d, t)

DriverShape(d) ==
  \/ NullShape(d) /\ nulled' = nulled \cup {Current(d)}
  \/ /\ nulled' = nulled
     /\ \/ ChooseShape(d) \/ StartShape(d) \/ RequestShape(d)
        \/ drv[d].pc = "chosen" /\ Ends(d)
        \/ SkipShape(d) \/ ClaimShape(d) \/ CancelledShape(d)
        \/ OkShape(d) \/ ErrShape(d) \/ ReleaseShape(d)
        \/ SaveShape(d) \/ CompleteShape(d) \/ Abandons(d)

(* The copy of a driver.                                                   *)
LEMMA CopyFacts ==
  ASSUME CoreInv, NEW d \in Driver
  PROVE  /\ drv \in [Driver -> DriverState]
         /\ drv[d] \in DriverState /\ drv[d].tx \in Transaction
         /\ OwnCopyOf(d, drv[d].tx)
         /\ MoreBranches(d) => Current(d) \in Branch
         /\ InFlight(d) => MoreBranches(d)
BY KeyType DEF CoreInv, TypeOK, DriverState, OwnCopyOf, PositionInv

(* The tables of the three handlers are well typed.                        *)
LEMMA HandlerTables ==
  ASSUME NEW op \in PhaseHandler
  PROVE  /\ op \in Handler
         /\ Working(op) \in TransactionStatus
         /\ Working(op) \notin {"Succeeded", "Aborted"}
         /\ Finished(op) \in TransactionStatus
         /\ BarrierOp(op) \in BarrierOps
         /\ op # "prepare" => BarrierOp(op) = op
         /\ op \notin Backwards
BY DEF PhaseHandler, Handler, Working, Finished, TransactionStatus, BarrierOp,
       BarrierOps, Backwards

(* A handler that starts.                                                  *)
LEMMA EnterShape ==
  ASSUME CoreInv, NEW d \in Driver, NEW op \in PhaseHandler,
         Begin(d, op, "loop", Working(op)), ~InFlight(d),
         UNCHANGED <<tx, barriers, expired, acked, effects>>
  PROVE  \E t \in Transaction :
           Takes(d, op, "loop", t) /\ t.status = Working(op)
<1> DEFINE t == [tx EXCEPT !.status = Working(op)]
<1>1. op \in Handler /\ Working(op) \in TransactionStatus /\ "loop" \in Pc
  BY HandlerTables DEF Pc
<1>2. /\ Puts(d, At("loop", op, 1, t)) /\ t \in Transaction
      /\ t.status = Working(op) /\ t.ids = tx.ids /\ t.bst = tx.bst
      /\ t.rev = tx.rev
  BY <1>1, BeginPuts DEF CoreInv
<1> HIDE DEF t
<1> QED BY <1>2 DEF Takes

(* The driver takes its free key, with its copy or with a branch marked.   *)
LEMMA ClaimedShape ==
  ASSUME CoreInv, ControlInv, NEW d \in Driver, NEW t,
         drv[d].pc = "loop", MoreBranches(d), OwnCopyOf(d, t), SameStatus(d, t),
         Claim(d, t), DriverKey(d) \notin barriers,
         BarrierTable(DriverKey(d)) = barriers \cup {DriverKey(d)},
         UNCHANGED <<tx, expired, budget, acked, effects>>
  PROVE  \E u : Claims(d, u) /\ SameStatus(d, u)
<1> DEFINE u == [t EXCEPT !.att[Current(d)] = @ + 1]
<1>1. /\ Current(d) \in Branch /\ t \in Transaction
      /\ BarrierOp(drv[d].op) \in BarrierOps
  BY CopyFacts, HandlerTables DEF OwnCopyOf, ControlInv
<1>2. Goto(d, "invoke", u) /\ barriers' = barriers \cup {DriverKey(d)}
  BY DEF Claim
<1>3. OwnCopyOf(d, u) /\ SameStatus(d, u)
  BY <1>1, Counted DEF OwnCopyOf, SameStatus
<1> HIDE DEF u
<1>4. Puts(d, At("invoke", drv[d].op, drv[d].pos, u))
  BY <1>2, <1>3, GotoPuts DEF OwnCopyOf, Pc, CoreInv
<1> QED BY <1>1, <1>2, <1>3, <1>4 DEF Claims

LEMMA SkippedShape ==
  ASSUME CoreInv, NEW d \in Driver, drv[d].pc = "loop", MoreBranches(d),
         Advance(d, drv[d].tx),
         drv[d].op # "prepare" => DriverKey(d) \in barriers,
         UNCHANGED <<tx, barriers, expired, budget, acked, effects>>
  PROVE  SkipShape(d)
<1>1. Puts(d, At("loop", drv[d].op, drv[d].pos + 1, drv[d].tx))
  BY CopyFacts, AdvancePuts DEF CoreInv
<1> QED BY <1>1, CopyFacts DEF SkipShape, Moves, InFlight

LEMMA HandlerShape ==
  ASSUME CoreInv, ControlInv, NEW d \in Driver, HandlerStep(d)
  PROVE  DriverShape(d)
<1> USE CopyFacts
<1>t. TypeOK /\ drv[d].pos >= 1
  BY DEF CoreInv, PositionInv
<1>m. ASSUME NEW st \in BranchStatus, Current(d) \in Branch
      PROVE  OwnCopyOf(d, Mark(d, st)) /\ SameStatus(d, Mark(d, st))
  BY <1>m, Marked DEF OwnCopyOf, SameStatus
<1>1. CASE PrepareBranch(d)
  <2> DEFINE key == <<Current(d), "try">>
             t == [Mark(d, "Skipped") EXCEPT !.status = "Aborting"]
  <2>1. /\ drv[d].pc = "loop" /\ MoreBranches(d) /\ drv[d].op = "prepare"
        /\ Current(d) \in Branch /\ DriverKey(d) = key /\ nulled' = nulled
        /\ UNCHANGED <<tx, expired, budget, acked, effects>>
    BY <1>1 DEF PrepareBranch, DriverKey, BarrierOp
  <2>2. CASE Advance(d, drv[d].tx) /\ UNCHANGED barriers
    BY <2>1, <2>2, SkippedShape DEF DriverShape
  <2>3. CASE BarrierDecision(key) = "Execute" /\ Claim(d, Mark(d, "Running"))
    <3>1. /\ key \notin barriers /\ <<Current(d), "cancel">> \notin barriers
          /\ BarrierTable(key) = barriers \cup {key}
      BY <2>3 DEF BarrierDecision, BarrierTable
    <3>2. OwnCopyOf(d, Mark(d, "Running")) /\ SameStatus(d, Mark(d, "Running"))
      BY <1>m, <2>1 DEF BranchStatus
    <3>3. \E u : Claims(d, u) /\ SameStatus(d, u)
      BY <2>1, <2>3, <3>1, <3>2, ClaimedShape
    <3> QED BY <2>1, <3>1, <3>3 DEF ClaimShape, DriverShape
  <2>4. CASE Goto(d, "persist", t) /\ UNCHANGED barriers
    <3>1. OwnCopyOf(d, t) /\ t.status = "Aborting"
      <4>1. OwnCopyOf(d, Mark(d, "Skipped"))
        BY <1>m, <2>1 DEF BranchStatus
      <4> QED BY <4>1, Restated DEF OwnCopyOf, TransactionStatus
    <3> HIDE DEF t
    <3>2. Puts(d, At("persist", drv[d].op, drv[d].pos, t))
      BY <1>t, <2>4, <3>1, GotoPuts DEF OwnCopyOf, Pc
    <3> QED
      BY <2>1, <2>4, <3>1, <3>2 DEF Moves, CancelledShape, DriverShape, InFlight
  <2> QED BY <1>1, <2>2, <2>3, <2>4 DEF PrepareBranch
<1>2. CASE ConfirmBranch(d)
  <2> DEFINE key == <<Current(d), "confirm">>
  <2>1. /\ drv[d].pc = "loop" /\ MoreBranches(d) /\ drv[d].op = "confirm"
        /\ DriverKey(d) = key /\ nulled' = nulled
        /\ UNCHANGED <<tx, expired, budget, acked, effects>>
    BY <1>2 DEF ConfirmBranch, DriverKey, BarrierOp
  <2>2. /\ BarrierDecision(key) = "Execute" <=> key \notin barriers
        /\ key \notin barriers => BarrierTable(key) = barriers \cup {key}
    BY DEF BarrierDecision, BarrierTable
  <2>3. CASE key \in barriers
    <3>1. Advance(d, drv[d].tx) /\ UNCHANGED barriers
      BY <1>2, <2>2, <2>3 DEF ConfirmBranch
    <3> QED BY <2>1, <2>3, <3>1, SkippedShape DEF DriverShape
  <2>4. CASE key \notin barriers
    <3>1. Claim(d, drv[d].tx)
      BY <1>2, <2>2, <2>4 DEF ConfirmBranch
    <3>2. \E u : Claims(d, u) /\ SameStatus(d, u)
      BY <2>1, <2>2, <2>4, <3>1, ClaimedShape DEF SameStatus
    <3> QED BY <2>1, <3>2 DEF ClaimShape, DriverShape
  <2> QED BY <2>3, <2>4
<1>3. CASE CancelBranch(d)
  <2> DEFINE key == <<Current(d), "cancel">>
             t == Mark(d, "Skipped")
  <2>1. /\ drv[d].pc = "loop" /\ MoreBranches(d) /\ drv[d].op = "cancel"
        /\ DriverKey(d) = key /\ Current(d) \in Branch
        /\ BarrierOp(drv[d].op) \in BarrierOps
        /\ UNCHANGED <<tx, expired, budget, acked, effects>>
    BY <1>3 DEF CancelBranch, DriverKey, BarrierOp, BarrierOps
  <2>2. /\ BarrierDecision(key) = "SkipDuplicate" <=> key \in barriers
        /\ key \notin barriers => BarrierTable(key) = barriers \cup {key}
        /\ BarrierDecision(key) = "SkipNullCompensation" =>
             <<Current(d), "try">> \notin barriers
    BY DEF BarrierDecision, BarrierTable
  <2>3. CASE BarrierDecision(key) = "SkipDuplicate"
    <3>1. Advance(d, drv[d].tx) /\ UNCHANGED <<barriers, nulled>>
      BY <1>3, <2>3 DEF CancelBranch
    <3> QED BY <2>1, <2>2, <2>3, <3>1, SkippedShape DEF DriverShape
  <2>4. CASE Claim(d, drv[d].tx) /\ BarrierDecision(key) # "SkipDuplicate"
             /\ UNCHANGED nulled
    <3>2. \E u : Claims(d, u) /\ SameStatus(d, u)
      BY <2>1, <2>2, <2>4, ClaimedShape DEF SameStatus
    <3> QED BY <2>1, <2>4, <3>2 DEF ClaimShape, DriverShape
  <2>5. CASE /\ BarrierDecision(key) = "SkipNullCompensation"
             /\ Current(d) \notin External /\ barriers' = BarrierTable(key)
             /\ Advance(d, t) /\ nulled' = nulled \cup {Current(d)}
    <3>1. OwnCopyOf(d, t) /\ SameStatus(d, t)
      BY <1>m, <2>1 DEF BranchStatus
    <3> HIDE DEF t
    <3>2. Puts(d, At("loop", drv[d].op, drv[d].pos + 1, t))
      BY <1>t, <2>5, <3>1, AdvancePuts DEF OwnCopyOf
    <3>3. Nullifies(d, t)
      BY <2>1, <2>2, <2>5, <3>1, <3>2 DEF Nullifies
    <3> QED BY <2>1, <2>2, <2>5, <3>1, <3>3 DEF NullShape, DriverShape
  <2> QED BY <1>3, <2>3, <2>4, <2>5 DEF CancelBranch
<1>4. CASE BranchOk(d)
  <2> DEFINE st == IF drv[d].op = "cancel" THEN "Skipped" ELSE "Succeeded"
             t == Mark(d, st)
  <2>1. /\ drv[d].pc = "invoke" /\ Current(d) \in Branch /\ st \in BranchStatus
        /\ Advance(d, t)
    BY <1>4 DEF BranchOk, CallSucceeds, InFlight, BranchStatus
  <2> HIDE DEF st
  <2>2. OwnCopyOf(d, t) /\ SameStatus(d, t)
    BY <2>1, <1>m
  <2> HIDE DEF t
  <2>3. Puts(d, At("loop", drv[d].op, drv[d].pos + 1, t))
    BY <1>t, <2>1, <2>2, AdvancePuts DEF OwnCopyOf
  <2> QED
    BY <1>4, <2>2, <2>3
       DEF BranchOk, CallSucceeds, Accepted, OkShape, DriverShape
<1>5. CASE BranchErr(d)
  <2> DEFINE t == Mark(d, "Failed")
  <2>1. drv[d].pc = "invoke" /\ Current(d) \in Branch /\ Goto(d, "release", t)
    BY <1>5 DEF BranchErr, CallFails, InFlight
  <2>2. OwnCopyOf(d, t) /\ SameStatus(d, t)
    BY <2>1, <1>m DEF BranchStatus
  <2> HIDE DEF t
  <2>3. Puts(d, At("release", drv[d].op, drv[d].pos, t))
    BY <1>t, <2>1, <2>2, GotoPuts DEF OwnCopyOf, Pc
  <2> QED
    BY <1>5, <2>2, <2>3
       DEF BranchErr, CallFails, Rejected, ErrShape, DriverShape
<1>6. CASE Release(d)
  <2> DEFINE st == AfterFailure(d)
             t == [drv[d].tx EXCEPT !.status = st]
  <2>1. /\ st \in TransactionStatus
        /\ \/ st = drv[d].tx.status
           \/ drv[d].op = "prepare" /\ st = "Aborting"
    BY DEF AfterFailure, TransactionStatus, Transaction
  <2>2. Goto(d, "persist", t)
    BY <1>6 DEF Release
  <2> HIDE DEF st
  <2>3. OwnCopyOf(d, t) /\ t.status = st
    BY <2>1, Restated DEF OwnCopyOf
  <2> HIDE DEF t
  <2>4. Puts(d, At("persist", drv[d].op, drv[d].pos, t))
    BY <1>t, <2>2, <2>3, GotoPuts DEF OwnCopyOf, Pc
  <2> QED
    BY <1>6, <2>1, <2>3, <2>4
       DEF Release, ReleaseBarrier, Releases, ReleaseShape, SameStatus, DriverShape
<1>7. CASE SaveCopy(d)
  BY <1>7, ReturnPuts
     DEF SaveCopy, Save, Persist, Writes, SaveShape, DriverShape
<1>8. CASE Complete(d)
  <2> DEFINE t == [drv[d].tx EXCEPT !.status = Finished(drv[d].op)]
  <2>1. /\ drv[d].pc = "loop" /\ ~MoreBranches(d) /\ Persist(d, t)
        /\ UNCHANGED <<barriers, expired, budget, acked, effects, nulled>>
    BY <1>8 DEF Complete
  <2>2. Finished(drv[d].op) \in TransactionStatus
    BY <2>1, HandlerTables DEF ControlInv
  <2>3. OwnCopyOf(d, t) /\ t.status = Finished(drv[d].op)
    BY <2>2, Restated DEF OwnCopyOf
  <2> HIDE DEF t
  <2> QED
    BY <2>1, <2>3, ReturnPuts DEF Persist, Writes, CompleteShape, DriverShape
<1>9. CASE StartChosen(d)
  <2>1. drv[d].pc = "chosen" /\ drv[d].op \in PhaseHandler /\ ~InFlight(d)
    BY <1>9 DEF StartChosen, ControlInv, InFlight
  <2>2. CASE tx.status \in AllowedFrom(drv[d].op)
    BY <1>9, <2>1, <2>2, EnterShape DEF StartChosen, StartShape, DriverShape
  <2>3. CASE tx.status \notin AllowedFrom(drv[d].op)
    BY <1>9, <2>1, <2>3, ReturnPuts DEF StartChosen, Ends, DriverShape
  <2> QED BY <2>2, <2>3
<1> QED
  BY <1>1, <1>2, <1>3, <1>4, <1>5, <1>6, <1>7, <1>8, <1>9 DEF HandlerStep

LEMMA ClientShape ==
  ASSUME CoreInv, ControlInv, NEW d \in Driver,
         ClientStep(d) \/ Tick(d) \/ Crash(d)
  PROVE  DriverShape(d)
<1>t. TypeOK /\ tx.status \in TransactionStatus
  BY DEF CoreInv, TypeOK, Transaction
<1>r. ASSUME NEW op \in Handler \ PhaseHandler, NEW st \in TransactionStatus,
             StatusRequest(d, op, st), nulled' = nulled,
             Phase(st) \in Lifecycle!Successors(Phase(tx.status)),
             st \notin {"Succeeded", "Aborted"}
      PROVE  DriverShape(d)
  <2> DEFINE t == [tx EXCEPT !.status = st]
  <2>1. Begin(d, op, "persist", st) /\ op \in Handler /\ "persist" \in Pc
    BY <1>r DEF StatusRequest, Pc
  <2>2. /\ Puts(d, At("persist", op, 1, t)) /\ t \in Transaction
        /\ t.status = st /\ t.ids = tx.ids /\ t.bst = tx.bst
        /\ t.rev = tx.rev
    BY <1>t, <2>1, BeginPuts
  <2> HIDE DEF t
  <2> QED
    BY <1>r, <2>2
       DEF StatusRequest, Request, RequestShape, Takes, InFlight, DriverShape
<1>1. CASE \E op \in PhaseHandler : Call(d, op)
  <2> PICK op \in PhaseHandler : Call(d, op)
    BY <1>1
  <2>1. \E t \in Transaction : Takes(d, op, "loop", t) /\ t.status = Working(op)
    BY EnterShape DEF Call, Request, InFlight
  <2> QED BY <2>1 DEF Call, Request, StartShape, DriverShape
<1>4. CASE Recover(d)
  <2>1. RecoverHandler \in PhaseHandler /\ RecoverHandler \in Handler
    BY <1>4 DEF Recover, RecoverRequest, RecoverHandler, TickHandler,
                PhaseHandler, Handler
  <2> QED
    BY <1>4, <2>1, ChoosePuts
       DEF Recover, RecoverRequest, Request, Chooses, ChooseShape, DriverShape,
           InFlight
<1>7. CASE Tick(d)
  <2>1. TickHandler \in PhaseHandler /\ TickHandler \in Handler
    BY <1>7 DEF Tick, WorkerTick, TickHandler, PhaseHandler, Handler
  <2> QED
    BY <1>7, <2>1, ChoosePuts
       DEF Tick, WorkerTick, Chooses, ChooseShape, DriverShape, InFlight
<1>8. CASE Crash(d)
  BY <1>8, ReturnPuts DEF Crash, Abandon, Abandons, DriverShape
<1> USE DEF Handler, PhaseHandler, TransactionStatus, Phase,
            Lifecycle!Successors, Lifecycle!Phases
<1>2. CASE ScheduleSubmit(d)
  BY <1>2, <1>r DEF ScheduleSubmit
<1>3. CASE ScheduleAbort(d)
  BY <1>3, <1>r DEF ScheduleAbort
<1>5. CASE ForceStop(d) /\ UNCHANGED nulled
  BY <1>t, <1>5, <1>r DEF ForceStop, IsTerminal
<1>6. CASE ResetRetry(d) /\ UNCHANGED nulled
  BY <1>t, <1>6, <1>r DEF ResetRetry, IsTerminal
<1> QED
  BY <1>1, <1>2, <1>3, <1>4, <1>5, <1>6, <1>7, <1>8 DEF ClientStep

(* The shapes of Tcc are among those of every kind.                        *)
LEMMA TccShaped ==
  ASSUME CoreInv, NEW d \in Driver, DriverShape(d)
  PROVE  Shaped(d)
<1>1. drv[d].pos >= 1 /\ drv[d].pos + 1 >= 1
  BY DEF CoreInv, TypeOK, DriverState, PositionInv
<1> USE DEF Shaped, Quiet
<1>2. CASE StartShape(d) \/ RequestShape(d)
  BY <1>2 DEF StartShape, RequestShape
<1>3. CASE SkipShape(d) \/ OkShape(d) \/ CancelledShape(d)
  BY <1>1, <1>3 DEF SkipShape, OkShape, CancelledShape
<1>4. CASE ChooseShape(d) \/ ClaimShape(d) \/ ErrShape(d)
           \/ NullShape(d) \/ ReleaseShape(d)
  BY <1>4 DEF ChooseShape, ClaimShape, ErrShape, NullShape, ReleaseShape
<1> QED
  BY <1>2, <1>3, <1>4 DEF DriverShape, SaveShape, CompleteShape

-----------------------------------------------------------------------------
(* Types, keys and control.                                                *)

LEMMA ControlStep ==
  ASSUME CoreInv, ControlInv, NEW d \in Driver, DriverShape(d)
  PROVE  CoreInv' /\ ControlInv'
<1>f. drv \in [Driver -> DriverState]
  BY DEF CoreInv, TypeOK
<1> SUFFICES ControlInv'
  BY TccShaped, CoreShaped
<1>c. ASSUME NEW s, Puts(d, s),
             /\ s.pc \in {"idle", "chosen", "loop", "invoke", "release", "persist"}
             /\ s.pc = "chosen" => s.op \in PhaseHandler
             /\ s.pc \in {"loop", "invoke", "release"} =>
                  s.op \in PhaseHandler /\ s.tx.status = Working(s.op)
             /\ s.pc = "persist" => s.tx.status \notin {"Succeeded", "Aborted"}
      PROVE  ControlInv'
  BY <1>c, <1>f, PutsFacts DEF ControlInv
<1>1. CASE ChooseShape(d)
  BY <1>1, <1>c DEF ChooseShape, Chooses, At
<1>2. CASE StartShape(d)
  BY <1>2, <1>c DEF StartShape, Takes, At
<1>3. CASE RequestShape(d)
  BY <1>3, <1>c DEF RequestShape, Takes, At
<1>4. CASE Puts(d, Idle)
  BY <1>4, <1>c DEF Idle
<1>5. CASE SkipShape(d)
  BY <1>5, <1>c DEF SkipShape, Moves, ControlInv, At
<1>6. CASE ClaimShape(d)
  BY <1>6, <1>c DEF ClaimShape, Claims, SameStatus, ControlInv, At
<1>7. CASE NullShape(d)
  BY <1>7, <1>c DEF NullShape, Nullifies, SameStatus, ControlInv, At
<1>8. CASE CancelledShape(d)
  BY <1>8, <1>c DEF CancelledShape, Moves, At
<1>9. CASE OkShape(d)
  BY <1>9, <1>c DEF OkShape, Accepted, SameStatus, ControlInv, At
<1>10. CASE ErrShape(d)
  BY <1>10, <1>c DEF ErrShape, Rejected, SameStatus, ControlInv, At
<1>11. CASE ReleaseShape(d)
  <2>1. PICK t : /\ Releases(d, t)
                 /\ SameStatus(d, t) \/ t.status = "Aborting"
    BY <1>11 DEF ReleaseShape
  <2>2. drv[d].tx.status \notin {"Succeeded", "Aborted"}
    BY <2>1, HandlerTables DEF Releases, ControlInv
  <2> QED BY <2>1, <2>2, <1>c DEF Releases, At, SameStatus
<1> QED
  BY <1>1, <1>2, <1>3, <1>4, <1>5, <1>6, <1>7, <1>8, <1>9, <1>10, <1>11
     DEF DriverShape, Ends, SaveShape, CompleteShape, Writes, Abandons

(* A step is a driver's, a registration, or moves nothing but the clock.   *)
LEMMA StepCases ==
  ASSUME CoreInv, ControlInv, [TccNext]_tccVars
  PROVE  \/ \E d \in Driver : DriverShape(d)
         \/ \E b \in External : RegisterBranch(b, "Succeeded") /\ nulled' = nulled
         \/ Expire /\ nulled' = nulled
         \/ UNCHANGED tccVars
BY HandlerShape, ClientShape DEF TccNext, Register

LEMMA CoreStep ==
  ASSUME CoreInv, ControlInv, [TccNext]_tccVars
  PROVE  CoreInv' /\ ControlInv'
<1>1. CASE \E d \in Driver : DriverShape(d)
  BY <1>1, ControlStep
<1>2. CASE \E b \in External : RegisterBranch(b, "Succeeded")
  <2>1. CoreInv'
    BY <1>2, TccAssumption, CoreRegister DEF BranchStatus
  <2> QED BY <1>2, <2>1 DEF RegisterBranch, ControlInv
<1>3. CASE Expire \/ UNCHANGED vars
  BY <1>3, CoreIdle DEF Expire, vars, ControlInv
<1> QED BY <1>1, <1>2, <1>3, StepCases DEF tccVars

LEMMA NullStep ==
  ASSUME CoreInv, ControlInv, NullInv, nulled \subseteq Branch,
         [TccNext]_tccVars
  PROVE  NullInv' /\ nulled' \subseteq Branch
<1>t. TypeOK /\ drv \in [Driver -> DriverState]
  BY DEF CoreInv, TypeOK
<1>1. ASSUME NEW d \in Driver, DriverShape(d)
      PROVE  NullInv' /\ nulled' \subseteq Branch
  <2>0. PICK s : Puts(d, s)
    BY <1>1, TccShaped, ShapedFacts
  <2>1. \A e \in Driver : e # d => /\ InFlight(e)' <=> InFlight(e)
                                   /\ DriverKey(e)' = DriverKey(e)
    BY <1>t, <2>0, OneMoved
  <2>2. CASE NullShape(d) /\ nulled' = nulled \cup {Current(d)}
    <3>1. PICK t : Nullifies(d, t)
      BY <2>2 DEF NullShape
    <3>2. /\ barriers' = barriers \cup {DriverKey(d)}
          /\ DriverKey(d) \notin barriers /\ ~InFlight(d)'
      BY <1>t, <3>1, OneMoved DEF Nullifies, At
    <3>3. DriverKey(d) = <<Current(d), "cancel">>
      BY <2>2 DEF NullShape, DriverKey, BarrierOp
    <3>4. \A e \in Driver : InFlight(e)' =>
            InFlight(e) /\ DriverKey(e)' = DriverKey(e) /\ DriverKey(e) \in barriers
      BY <2>1, <3>2 DEF CoreInv, KeysInv
    <3>5. \A b : DriverKey(d) # <<b, "try">>
      BY <3>3
    <3> QED
      BY <2>2, <3>2, <3>3, <3>4, <3>5 DEF NullInv, NullShape
  <2>3. CASE ClaimShape(d) /\ nulled' = nulled
    <3>1. PICK t : Claims(d, t)
      BY <2>3 DEF ClaimShape
    <3>2. InFlight(d)' /\ DriverKey(d)' = DriverKey(d)
      BY <3>1, CoreClaims
    <3>3. /\ barriers' = barriers \cup {DriverKey(d)}
          /\ DriverKey(d) \notin barriers /\ drv[d].pc = "loop"
      BY <3>1 DEF Claims
    <3>4. ASSUME NEW b \in nulled PROVE DriverKey(d) # <<b, "try">>
      <4>1. drv[d].op = "prepare" /\ Current(d) = b => <<b, "cancel">> \notin barriers
        BY <2>3 DEF ClaimShape
      <4>2. drv[d].op \in PhaseHandler
        BY <3>3 DEF ControlInv
      <4> QED
        BY <3>4, <4>1, <4>2 DEF NullInv, DriverKey, BarrierOp, PhaseHandler
    <3>5. \A b \in nulled : DriverKey(d) # <<b, "cancel">>
      BY <3>3 DEF NullInv
    <3> QED
      BY <2>1, <2>3, <3>2, <3>3, <3>4, <3>5 DEF NullInv
  <2>4. CASE ErrShape(d) /\ nulled' = nulled
    <3>1. PICK t : Rejected(d, "release", t)
      BY <2>4 DEF ErrShape
    <3>2. DriverKey(d)' = DriverKey(d) /\ InFlight(d)
      BY <3>1, KeysStay DEF Rejected, OwnCopyOf, InFlight, CoreInv
    <3> QED BY <2>1, <2>4, <3>1, <3>2 DEF NullInv, Rejected
  <2>5. ASSUME ~InFlight(d)', nulled' = nulled,
               \/ barriers' = barriers
               \/ InFlight(d) /\ barriers' = barriers \ {DriverKey(d)}
        PROVE  NullInv' /\ nulled' \subseteq Branch
    BY <2>1, <2>5 DEF NullInv
  <2>6. CASE OkShape(d) /\ nulled' = nulled
    BY <1>t, <2>5, <2>6, OneMoved DEF OkShape, Accepted, At
  <2>7. CASE ReleaseShape(d) /\ nulled' = nulled
    BY <1>t, <2>5, <2>7, OneMoved DEF ReleaseShape, Releases, At, InFlight
  <2>8. CASE SkipShape(d) /\ nulled' = nulled
    BY <1>t, <2>5, <2>8, OneMoved DEF SkipShape, Moves, At
  <2>12. CASE CancelledShape(d) /\ nulled' = nulled
    BY <1>t, <2>5, <2>12, OneMoved DEF CancelledShape, Moves, At
  <2>9. CASE ChooseShape(d) /\ nulled' = nulled
    BY <1>t, <2>5, <2>9, OneMoved DEF ChooseShape, Chooses, At
  <2>10. CASE StartShape(d) /\ nulled' = nulled
    BY <1>t, <2>5, <2>10, OneMoved DEF StartShape, Takes, At
  <2>13. CASE RequestShape(d) /\ nulled' = nulled
    BY <1>t, <2>5, <2>13, OneMoved DEF RequestShape, Takes, At
  <2>11. CASE Puts(d, Idle) /\ barriers' = barriers /\ nulled' = nulled
    BY <1>t, <2>5, <2>11, OneMoved DEF Idle
  <2> QED
    BY <1>1, <2>2, <2>3, <2>4, <2>6, <2>7, <2>8, <2>9, <2>10, <2>11, <2>12,
       <2>13 DEF DriverShape, Ends, SaveShape, CompleteShape, Writes, Abandons
<1>2. CASE UNCHANGED <<drv, barriers, nulled>>
  BY <1>2 DEF NullInv, InFlight, DriverKey, Current
<1> QED
  BY <1>1, <1>2, StepCases DEF RegisterBranch, Expire, vars, tccVars

(* The variables of the TCC specification stay in their types, and program *)
(* counters and copies fit their handlers, for any branches and drivers.   *)
THEOREM TypeCorrect == Spec => [](CoreInv /\ ControlInv)
<1>1. TccInit => CoreInv /\ ControlInv
  BY CoreInit DEF TccInit, Init, ControlInv, Idle
<1>2. CoreInv /\ ControlInv /\ [TccNext]_tccVars => CoreInv' /\ ControlInv'
  BY CoreStep
<1> QED BY <1>1, <1>2, PTL DEF Spec

(* A driver that is calling a branch owns its barrier key, and a key that  *)
(* was accepted or that answered a Cancel as null has no owner.            *)
THEOREM OwnershipHolds == Spec => [](TccTypeOK /\ KeysInv /\ NullInv)
<1> DEFINE I == NullInv /\ nulled \subseteq Branch
<1>1. TccInit => I
  BY DEF TccInit, NullInv
<1>2. CoreInv /\ ControlInv /\ I /\ [TccNext]_tccVars => I'
  BY NullStep
<1>3. CoreInv /\ I => TccTypeOK /\ KeysInv /\ NullInv
  BY DEF CoreInv, TccTypeOK
<1> QED BY <1>1, <1>2, <1>3, TypeCorrect, PTL DEF Spec

(* For any number of recovery workers and requests, with crashes, failing  *)
(* calls and any store: no branch operation is called by two drivers at a  *)
(* time, nor again after it was accepted.                                  *)
THEOREM BarrierExclusionHolds == Spec => []BarrierExclusion
<1>1. KeysInv => BarrierExclusion
  BY DEF KeysInv, BarrierExclusion
<1> QED BY <1>1, OwnershipHolds, PTL

(* Likewise no Try is acknowledged or in flight for a branch whose Cancel  *)
(* was answered as a null compensation.                                    *)
THEOREM NoHangingTryHolds == Spec => []NoHangingTry
<1>1. KeysInv /\ NullInv => NoHangingTry
  BY DEF KeysInv, NullInv, NoHangingTry
<1> QED BY <1>1, OwnershipHolds, PTL

-----------------------------------------------------------------------------
(* What holds while only workers call branches.                            *)

LEMMA WorkersOnlyKept ==
  ASSUME CoreInv, ControlInv, [TccNext]_tccVars, WorkersOnly'
  PROVE  WorkersOnly /\ ~Spend("call") /\ ~Spend("crash")
<1>1. \/ budget' = budget \/ Spend("request") \/ Spend("call")
      \/ Spend("failure") \/ Spend("crash")
  BY StepCases, TccShaped, ShapedFacts DEF RegisterBranch, Expire, vars, tccVars
<1> QED BY <1>1, WorkersOnlyBefore

LEMMA SettledStep ==
  ASSUME CoreInv, ControlInv, SettledInv, [TccNext]_tccVars
  PROVE  SettledInv'
<1> DEFINE Held(key) == \/ \E d \in Driver : InFlight(d)' /\ DriverKey(d)' = key
                        \/ key[2] = "cancel" /\ key[1] \in nulled'
           Busy(s) == s.pc \in {"chosen", "loop", "invoke", "release"}
<1> SUFFICES ASSUME WorkersOnly'
             PROVE  /\ \A d \in Driver : Busy(drv'[d]) => d \in Worker
                    /\ \A key \in barriers' \ acked' : Held(key)
  BY DEF SettledInv
<1>w. WorkersOnly /\ ~Spend("call") /\ ~Spend("crash")
  BY WorkersOnlyKept
<1>t. drv \in [Driver -> DriverState]
  BY DEF CoreInv, TypeOK
<1>1. ASSUME NEW d \in Driver, DriverShape(d)
      PROVE  /\ \A e \in Driver : Busy(drv'[e]) => e \in Worker
             /\ \A key \in barriers' \ acked' : Held(key)
  <2>0. PICK s : Puts(d, s)
    BY <1>1, TccShaped, ShapedFacts
  <2>1. \A e \in Driver : e # d => /\ InFlight(e)' <=> InFlight(e)
                                   /\ DriverKey(e)' = DriverKey(e)
                                   /\ drv'[e] = drv[e]
    BY <1>t, <2>0, OneMoved
  <2>2. Busy(drv[d]) \/ d \in Worker \/ ~Busy(drv'[d])
    <3>1. CASE Puts(d, Idle)
      BY <1>t, <3>1, PutsFacts DEF Idle
    <3>2. CASE RequestShape(d)
      BY <1>t, <3>2, PutsFacts DEF RequestShape, Takes, At
    <3> QED
      BY <1>1, <1>w, <3>1, <3>2
         DEF DriverShape, ChooseShape, StartShape, SkipShape, ClaimShape,
             NullShape, CancelledShape, OkShape, ErrShape, ReleaseShape,
             SaveShape, CompleteShape, Ends, Claims, Nullifies, Accepted,
             Rejected, Releases, Writes, Abandons
  <2>3. \A e \in Driver : Busy(drv'[e]) => e \in Worker
    BY <1>w, <2>1, <2>2 DEF SettledInv
  <2>n. nulled \subseteq nulled'
    BY <1>1 DEF DriverShape
  <2>4. ASSUME NEW key \in barriers' \ acked'
        PROVE  Held(key)
    <3>0. ASSUME key \in barriers \ acked, key # DriverKey(d) \/ ~InFlight(d)
          PROVE  Held(key)
      BY <1>w, <2>1, <2>n, <3>0 DEF SettledInv
    <3>1. CASE ClaimShape(d)
      <4>1. PICK t : Claims(d, t)
        BY <3>1 DEF ClaimShape
      <4>2. InFlight(d)' /\ DriverKey(d)' = DriverKey(d)
        BY <4>1, CoreClaims
      <4>3. barriers' = barriers \cup {DriverKey(d)} /\ acked' = acked /\ ~InFlight(d)
        BY <4>1 DEF Claims, InFlight
      <4> QED BY <2>4, <3>0, <4>2, <4>3
    <3>2. CASE ErrShape(d)
      <4>1. PICK t : Rejected(d, "release", t)
        BY <3>2 DEF ErrShape
      <4>2. InFlight(d)' /\ DriverKey(d)' = DriverKey(d)
        BY <4>1, KeysStay DEF Rejected, OwnCopyOf, InFlight, CoreInv
      <4>3. barriers' = barriers /\ acked' = acked
        BY <4>1 DEF Rejected
      <4> QED BY <2>4, <3>0, <4>2, <4>3
    <3>3. CASE OkShape(d) \/ ReleaseShape(d)
      <4>1. barriers' \ acked' = (barriers \ acked) \ {DriverKey(d)}
        BY <3>3 DEF OkShape, Accepted, ReleaseShape, Releases
      <4> QED BY <2>4, <3>0, <4>1
    <3>4. CASE NullShape(d) /\ nulled' = nulled \cup {Current(d)}
      <4>1. barriers' = barriers \cup {DriverKey(d)} /\ acked' = acked /\ ~InFlight(d)
        BY <3>4 DEF NullShape, Nullifies, InFlight
      <4>2. DriverKey(d) = <<Current(d), "cancel">>
        BY <3>4 DEF NullShape, DriverKey, BarrierOp
      <4> QED BY <2>4, <3>0, <3>4, <4>1, <4>2
    <3>5. CASE ~InFlight(d) /\ barriers' = barriers /\ acked' = acked
      BY <2>4, <3>0, <3>5
    <3> QED
      BY <1>1, <1>w, <3>1, <3>2, <3>3, <3>4, <3>5
         DEF DriverShape, ChooseShape, StartShape, RequestShape, SkipShape,
             CancelledShape, SaveShape, CompleteShape, Ends, Moves, Writes,
             Abandons, Chooses, Takes, InFlight
  <2> QED BY <2>3, <2>4
<1>2. CASE UNCHANGED <<drv, barriers, acked, nulled>>
  BY <1>2, <1>w DEF SettledInv, InFlight, DriverKey, Current
<1> QED
  BY <1>1, <1>2, StepCases DEF RegisterBranch, Expire, vars, tccVars

(* With one worker a loop leaves only resolved branches behind.            *)
LEMMA PassedStep ==
  ASSUME OneWorker, CoreInv, ControlInv, SettledInv, PassedInv,
         [TccNext]_tccVars
  PROVE  PassedInv'
<1> DEFINE Done(b, op) == <<b, op>> \in acked' \/ (op = "cancel" /\ b \in nulled')
           Passed(s) ==
             s.pc \in {"loop", "invoke", "release"} /\ s.op \in {"confirm", "cancel"}
             => \A i \in 1..Len(s.tx.ids) : i < s.pos => Done(s.tx.ids[i], s.op)
<1> SUFFICES ASSUME WorkersOnly', NEW e \in Driver PROVE Passed(drv'[e])
  BY DEF PassedInv, Resolved
<1>w. WorkersOnly
  BY WorkersOnlyKept
<1>t. drv \in [Driver -> DriverState]
  BY DEF CoreInv, TypeOK
<1>o. acked \subseteq acked' /\ nulled \subseteq nulled' =>
        \A d \in Driver : Passed(drv[d])
  BY <1>w DEF PassedInv, Resolved
<1>1. ASSUME NEW d \in Driver, DriverShape(d)
      PROVE  Passed(drv'[e])
  <2>a. acked \subseteq acked' /\ nulled \subseteq nulled'
    BY <1>1, TccShaped, ShapedFacts DEF DriverShape
  <2>1. CASE e # d
    <3>1. drv'[e] = drv[e]
      BY <1>1, <2>1, TccShaped, ShapedFacts
    <3> QED BY <1>o, <2>a, <3>1
  <2> SUFFICES Passed(drv'[d])
    BY <2>1
  <2> DEFINE ids == drv[d].tx.ids
             op == drv[d].op
             pos == drv[d].pos
  <2>f. /\ ids \in Seq(Branch) /\ Len(ids) \in Nat /\ pos \in Nat /\ pos >= 1
    BY DEF CoreInv, TypeOK, PositionInv, DriverState, Transaction
  <2>2. ASSUME NEW s, Puts(d, s),
               \/ s.pc \notin {"loop", "invoke", "release"}
               \/ s.pos = 1
        PROVE  Passed(drv'[d])
    <3>1. drv'[d] = s
      BY <1>t, <2>2, PutsFacts
    <3>2. CASE s.pos = 1
      BY <3>1, <3>2
    <3> QED BY <2>2, <3>1, <3>2
  <2>3. ASSUME NEW s, Puts(d, s), drv[d].pc \in {"loop", "invoke", "release"},
               s.op = op, s.tx.ids = ids,
               \/ s.pos = pos
               \/ /\ s.pos = pos + 1 /\ pos <= Len(ids)
                  /\ op \in {"confirm", "cancel"} => Done(ids[pos], op)
        PROVE  Passed(drv'[d])
    <3>0. drv'[d] = s
      BY <1>t, <2>3, PutsFacts
    <3>2. op \in {"confirm", "cancel"} =>
            \A i \in 1..Len(ids) : i < pos => Done(ids[i], op)
      BY <1>o, <2>3, <2>a
    <3> HIDE DEF ids, op, pos, Done
    <3>3. ASSUME NEW i \in 1..Len(ids), i < s.pos, op \in {"confirm", "cancel"}
          PROVE  Done(ids[i], op)
      BY <2>f, <2>3, <3>2, <3>3
    <3> QED BY <2>3, <3>0, <3>3
  <2>k. drv[d].pc \in {"loop", "invoke"} /\ op \in {"confirm", "cancel"} =>
          DriverKey(d) = <<ids[pos], op>> /\ Current(d) = ids[pos]
    BY DEF DriverKey, Current, Backwards, BarrierOp
  <2>4. CASE SkipShape(d)
    <3>1. /\ Puts(d, At("loop", op, pos + 1, drv[d].tx)) /\ acked' = acked
          /\ drv[d].pc = "loop" /\ pos <= Len(ids) /\ ~InFlight(d)
          /\ op # "prepare" => DriverKey(d) \in barriers
      BY <2>4 DEF SkipShape, Moves, MoreBranches
    <3>2. op \in {"confirm", "cancel"} => Done(ids[pos], op)
      <4>1. d \in Worker /\ \A v \in Driver : InFlight(v) => v \in Worker
        BY <1>w, <3>1 DEF SettledInv, InFlight
      <4>2. \A v \in Driver : ~InFlight(v)
        BY <3>1, <4>1 DEF OneWorker
      <4>3. op \in {"confirm", "cancel"} =>
              \/ DriverKey(d) \in acked
              \/ DriverKey(d)[2] = "cancel" /\ DriverKey(d)[1] \in nulled
        BY <1>w, <3>1, <4>2 DEF SettledInv
      <4> QED BY <2>a, <2>k, <3>1, <4>3
    <3> HIDE DEF Done
    <3> QED BY <2>3, <3>1, <3>2 DEF At
  <2>5. CASE OkShape(d)
    <3>1. PICK t : Accepted(d, "loop", pos + 1, t)
      BY <2>5 DEF OkShape
    <3>2. drv[d].pc = "invoke" /\ pos <= Len(ids) /\ DriverKey(d) \in acked'
      BY <3>1 DEF Accepted, CoreInv, PositionInv, MoreBranches, InFlight
    <3>3. op \in {"confirm", "cancel"} => Done(ids[pos], op)
      BY <2>k, <3>2
    <3> HIDE DEF Done
    <3> QED BY <2>3, <3>1, <3>2, <3>3 DEF At, Accepted, OwnCopyOf
  <2>6. CASE NullShape(d) /\ nulled' = nulled \cup {Current(d)}
    <3>1. PICK t : Nullifies(d, t)
      BY <2>6 DEF NullShape
    <3>2. drv[d].pc = "loop" /\ pos <= Len(ids) /\ op = "cancel"
      BY <2>6, <3>1 DEF Nullifies, MoreBranches, NullShape
    <3>3. Done(ids[pos], op)
      BY <2>6, <2>k, <3>2
    <3> HIDE DEF Done
    <3> QED BY <2>3, <3>1, <3>2, <3>3 DEF At, Nullifies, OwnCopyOf
  <2> HIDE DEF Done
  <2>7. CASE ClaimShape(d)
    BY <2>3, <2>7 DEF ClaimShape, At, Claims, OwnCopyOf
  <2>8. CASE ErrShape(d)
    BY <2>3, <2>8 DEF ErrShape, At, Rejected, OwnCopyOf
  <2>9. CASE StartShape(d) \/ RequestShape(d) \/ ChooseShape(d)
    <3>1. PICK o, pc, t : Puts(d, At(pc, o, 1, t))
      BY <2>9 DEF StartShape, RequestShape, ChooseShape, Takes, Chooses
    <3>2. At(pc, o, 1, t).pos = 1
      BY DEF At
    <3> QED BY <2>2, <3>1, <3>2
  <2>10. CASE ReleaseShape(d)
    BY <2>2, <2>10 DEF ReleaseShape, Releases, At
  <2>11. CASE CancelledShape(d)
    BY <2>2, <2>11 DEF CancelledShape, Moves, At
  <2>12. CASE Puts(d, Idle)
    BY <2>2, <2>12 DEF Idle
  <2> QED
    BY <1>1, <2>4, <2>5, <2>6, <2>7, <2>8, <2>9, <2>10, <2>11, <2>12
       DEF DriverShape, Ends, SaveShape, CompleteShape, Writes, Abandons
<1>2. CASE UNCHANGED <<drv, acked, nulled>>
  BY <1>o, <1>2
<1> QED
  BY <1>1, <1>2, StepCases DEF RegisterBranch, Expire, vars, tccVars

(* ... and the stored ends are complete.                                   *)
LEMMA EndsStep ==
  ASSUME CoreInv, ControlInv, PassedInv, EndInv, [TccNext]_tccVars
  PROVE  EndInv'
<1> DEFINE Done(b, op) == <<b, op>> \in acked' \/ (op = "cancel" /\ b \in nulled')
           Ended(status, ids) ==
             \A b \in Members(ids) :
               /\ status = "Succeeded" => Done(b, "confirm")
               /\ status = "Aborted" => Done(b, "cancel")
<1> SUFFICES ASSUME WorkersOnly' PROVE Ended(tx'.status, tx'.ids)
  BY DEF EndInv, Members, Resolved
<1>w. WorkersOnly
  BY WorkersOnlyKept
<1>1. CASE tx' = tx /\ acked \subseteq acked' /\ nulled \subseteq nulled'
  BY <1>1, <1>w DEF EndInv, Resolved
<1>2. ASSUME NEW d \in Driver, SaveShape(d), tx' # tx
      PROVE  Ended(tx'.status, tx'.ids)
  <2>1. tx' = Bumped(drv[d].tx) /\ drv[d].tx \in Transaction /\ drv[d].pc = "persist"
    BY <1>2 DEF SaveShape, Writes, OwnCopyOf
  <2> QED BY <2>1, Stored DEF ControlInv
<1>3. ASSUME NEW d \in Driver, CompleteShape(d), tx' # tx, nulled' = nulled
      PROVE  Ended(tx'.status, tx'.ids)
  <2>1. PICK t : /\ drv[d].pc = "loop" /\ ~MoreBranches(d)
                 /\ t.status = Finished(drv[d].op) /\ Writes(d, t)
    BY <1>3 DEF CompleteShape
  <2>2. tx' = Bumped(t) /\ t \in Transaction /\ t.ids = drv[d].tx.ids
    BY <1>3, <2>1 DEF Writes, OwnCopyOf
  <2>3. tx'.status = Finished(drv[d].op) /\ tx'.ids = drv[d].tx.ids
    BY <2>1, <2>2, Stored
  <2>4. drv[d].op \in PhaseHandler /\ acked' = acked
    BY <2>1 DEF ControlInv, Writes
  <2>5. drv[d].op \in {"confirm", "cancel"} =>
          \A i \in 1..Len(drv[d].tx.ids) : Done(drv[d].tx.ids[i], drv[d].op)
    <3>1. Len(drv[d].tx.ids) \in Nat /\ drv[d].pos \in Nat
      BY DEF CoreInv, TypeOK, DriverState, Transaction
    <3>2. \A i \in 1..Len(drv[d].tx.ids) : i < drv[d].pos
      BY <2>1, <3>1 DEF MoreBranches
    <3> QED BY <1>w, <1>3, <2>1, <2>4, <3>2 DEF PassedInv, Resolved
  <2> HIDE DEF Done
  <2>6. CASE drv[d].op = "confirm"
    BY <2>3, <2>5, <2>6 DEF Members, Finished
  <2>7. CASE drv[d].op = "cancel"
    BY <2>3, <2>5, <2>7 DEF Members, Finished
  <2>8. CASE drv[d].op = "prepare"
    BY <2>3, <2>8 DEF Finished
  <2> QED BY <2>4, <2>6, <2>7, <2>8 DEF PhaseHandler
<1>4. CASE \E b \in External : RegisterBranch(b, "Succeeded")
  <2>1. tx'.status \notin {"Succeeded", "Aborted"}
    BY <1>4, TccAssumption, RegisterType
       DEF RegisterBranch, CoreInv, TypeOK, BranchStatus
  <2> QED BY <2>1
<1>5. ASSUME NEW d \in Driver, DriverShape(d), tx' # tx
      PROVE  Ended(tx'.status, tx'.ids)
  BY <1>2, <1>3, <1>5
     DEF DriverShape, ChooseShape, StartShape, RequestShape, SkipShape,
         ClaimShape, NullShape, CancelledShape, OkShape, ErrShape, ReleaseShape,
         Ends, Moves, Claims, Nullifies, Accepted, Rejected, Releases,
         Abandons, Chooses, Takes
<1>6. ASSUME NEW d \in Driver, DriverShape(d), tx' = tx
      PROVE  Ended(tx'.status, tx'.ids)
  BY <1>1, <1>6, TccShaped, ShapedFacts DEF DriverShape
<1> QED
  BY <1>1, <1>4, <1>5, <1>6, StepCases DEF Expire, vars, tccVars

(* With the one worker the recovery lease allows, on every store: as long  *)
(* as only it has called branches, confirm_tcc stores Succeeded only when  *)
(* every branch accepted Confirm, and cancel_tcc stores Aborted only when  *)
(* every branch that has something to cancel accepted Cancel.              *)
THEOREM EndsAreComplete == OneWorker => (Spec => []EndsComplete)
<1> SUFFICES ASSUME OneWorker PROVE Spec => []EndsComplete
  OBVIOUS
<1> DEFINE I == SettledInv /\ PassedInv /\ EndInv
<1>1. TccInit => I
  BY DEF TccInit, Init, SettledInv, PassedInv, EndInv, Idle, NewTransaction
<1>2. CoreInv /\ ControlInv /\ I /\ [TccNext]_tccVars => I'
  BY SettledStep, PassedStep, EndsStep
<1>3. KeysInv /\ NullInv /\ EndInv => EndsComplete
  BY DEF KeysInv, NullInv, EndInv, EndsComplete, Resolved
<1> QED BY <1>1, <1>2, <1>3, TypeCorrect, OwnershipHolds, PTL DEF Spec

-----------------------------------------------------------------------------
(* Stores that check the revision.                                         *)

HasCopy(s) == s.pc \in {"loop", "invoke", "release", "persist"}

(* Copies are fresh or stale.                                              *)
LEMMA CasStep ==
  ASSUME Cas, CoreInv, ControlInv, CasInv, [TccNext]_tccVars
  PROVE  CasInv'
<1> DEFINE Fresh(s) ==
             /\ s.tx.ids = tx'.ids
             /\ s.op \in PhaseHandler =>
                  /\ tx'.status \in AllowedFrom(s.op)
                  /\ \/ s.tx.status = Working(s.op)
                     \/ s.op = "prepare" /\ s.tx.status = "Aborting"
             /\ s.op \notin PhaseHandler =>
                  Phase(s.tx.status) \in Lifecycle!Successors(Phase(tx'.status))
           Good(s) == HasCopy(s) =>
                        /\ s.tx.rev <= tx'.rev
                        /\ s.tx.rev = tx'.rev => Fresh(s)
<1> SUFFICES ASSUME NEW e \in Driver PROVE Good(drv'[e])
  BY DEF CasInv, FreshCopy, HasCopy
<1>t. /\ drv \in [Driver -> DriverState] /\ tx.rev \in Nat
      /\ \A d \in Driver : drv[d].tx.rev \in Nat
  BY DEF CoreInv, TypeOK, DriverState, Transaction
<1>o. ASSUME drv'[e] = drv[e], tx' = tx \/ tx'.rev = tx.rev + 1
      PROVE  Good(drv'[e])
  <2>1. CASE tx' = tx
    BY <1>o, <2>1 DEF CasInv, FreshCopy, HasCopy
  <2>2. CASE tx'.rev = tx.rev + 1
    <3>1. HasCopy(drv[e]) => drv[e].tx.rev <= tx.rev
      BY DEF CasInv, HasCopy
    <3>2. HasCopy(drv[e]) => drv[e].tx.rev <= tx'.rev /\ drv[e].tx.rev # tx'.rev
      BY <1>t, <2>2, <3>1
    <3> QED BY <1>o, <3>2
  <2> QED BY <1>o, <2>1, <2>2
<1>1. ASSUME NEW d \in Driver, DriverShape(d)
      PROVE  Good(drv'[e])
  <2>1. CASE e # d
    <3>1. drv'[e] = drv[e]
      BY <1>1, <2>1, TccShaped, ShapedFacts
    <3>2. ASSUME NEW t, Writes(d, t), drv[d].pc \in {"loop", "persist"}
          PROVE  tx' = tx \/ tx'.rev = tx.rev + 1
      BY <3>2, Stored DEF Writes, OwnCopyOf, CanStore
    <3>3. tx' = tx \/ tx'.rev = tx.rev + 1
      BY <1>1, <3>2
         DEF DriverShape, ChooseShape, StartShape, RequestShape, SkipShape,
           ClaimShape, NullShape, CancelledShape, OkShape, ErrShape,
           ReleaseShape, SaveShape, CompleteShape, Ends, Moves, Claims,
           Nullifies, Accepted, Rejected, Releases, Abandons, Chooses, Takes
    <3> QED BY <3>1, <3>3, <1>o
  <2>2. ASSUME NEW s, Puts(d, s), ~HasCopy(s)
        PROVE  Good(drv'[d])
    BY <1>t, <2>2, PutsFacts
  <2>3. ASSUME NEW s, Puts(d, s), tx' = tx, HasCopy(drv[d]),
               s.op = drv[d].op, s.tx.rev = drv[d].tx.rev,
               s.tx.ids = drv[d].tx.ids,
               \/ s.tx.status = drv[d].tx.status
               \/ s.op = "prepare" /\ s.tx.status = "Aborting"
        PROVE  Good(drv'[d])
    <3>1. drv'[d] = s
      BY <1>t, <2>3, PutsFacts
    <3>2. "prepare" \in PhaseHandler
      BY DEF PhaseHandler
    <3> QED BY <2>3, <3>1, <3>2 DEF CasInv, FreshCopy, HasCopy
  <2>4. CASE StartShape(d)
    <3>1. PICK op \in PhaseHandler, t \in Transaction :
            /\ Takes(d, op, "loop", t)
            /\ tx.status \in AllowedFrom(op) /\ t.status = Working(op)
      BY <2>4 DEF StartShape
    <3>2. /\ drv'[d].op = op /\ drv'[d].tx = t /\ tx' = tx
          /\ t.rev = tx.rev /\ t.ids = tx.ids
      BY <1>t, <3>1, PutsFacts DEF Takes, At
    <3>3. Good(drv'[d])
      BY <1>t, <3>1, <3>2
    <3> QED BY <2>1, <3>3
  <2>5. CASE RequestShape(d)
    <3>1. PICK op \in Handler \ PhaseHandler, t \in Transaction :
            /\ Takes(d, op, "persist", t)
            /\ Phase(t.status) \in Lifecycle!Successors(Phase(tx.status))
      BY <2>5 DEF RequestShape
    <3>2. /\ drv'[d].op = op /\ drv'[d].tx = t /\ tx' = tx
          /\ t.rev = tx.rev /\ t.ids = tx.ids
      BY <1>t, <3>1, PutsFacts DEF Takes, At
    <3>3. Good(drv'[d])
      BY <1>t, <3>1, <3>2
    <3> QED BY <2>1, <3>3
  <2>6. CASE ChooseShape(d)
    BY <2>1, <2>2, <2>6 DEF ChooseShape, Chooses, At, HasCopy
  <2>7. CASE Puts(d, Idle)
    BY <2>1, <2>2, <2>7 DEF Idle, HasCopy
  <2>8. CASE SkipShape(d)
    BY <2>1, <2>3, <2>8 DEF SkipShape, Moves, At, HasCopy
  <2>9. CASE ClaimShape(d)
    BY <2>1, <2>3, <2>9
       DEF ClaimShape, Claims, At, HasCopy, OwnCopyOf, SameStatus
  <2>10. CASE NullShape(d)
    BY <2>1, <2>3, <2>10
       DEF NullShape, Nullifies, At, HasCopy, OwnCopyOf, SameStatus
  <2>11. CASE CancelledShape(d)
    BY <2>1, <2>3, <2>11 DEF CancelledShape, Moves, At, HasCopy, OwnCopyOf
  <2>12. CASE OkShape(d)
    BY <2>1, <2>3, <2>12
       DEF OkShape, Accepted, At, HasCopy, OwnCopyOf, SameStatus
  <2>13. CASE ErrShape(d)
    BY <2>1, <2>3, <2>13
       DEF ErrShape, Rejected, At, HasCopy, OwnCopyOf, SameStatus
  <2>14. CASE ReleaseShape(d)
    BY <2>1, <2>3, <2>14
       DEF ReleaseShape, Releases, At, HasCopy, OwnCopyOf, SameStatus
  <2> QED
    BY <1>1, <2>4, <2>5, <2>6, <2>7, <2>8, <2>9, <2>10, <2>11, <2>12, <2>13,
       <2>14
       DEF DriverShape, Ends, SaveShape, CompleteShape, Writes, Abandons
<1>2. CASE \E b \in External : RegisterBranch(b, "Succeeded")
  <2>1. tx'.rev = tx.rev + 1 /\ drv' = drv
    BY <1>2, TccAssumption, RegisterType
       DEF CoreInv, TypeOK, BranchStatus, RegisterBranch
  <2> QED BY <1>o, <2>1
<1>3. CASE Expire \/ UNCHANGED tccVars
  BY <1>o, <1>3 DEF Expire, tccVars, vars
<1> QED BY <1>1, <1>2, <1>3, StepCases

(* Only a saving or a completing driver changes the record.                *)
LEMMA WhoWrites ==
  ASSUME NEW d \in Driver, DriverShape(d), tx' # tx
  PROVE  SaveShape(d) \/ CompleteShape(d)
<1>1. ChooseShape(d) \/ StartShape(d) \/ RequestShape(d) => tx' = tx
  BY DEF ChooseShape, StartShape, RequestShape, Chooses, Takes, Moves
<1>2. Ends(d) \/ SkipShape(d) \/ ClaimShape(d) \/ CancelledShape(d) \/ NullShape(d)
        => tx' = tx
  BY DEF Ends, SkipShape, ClaimShape, CancelledShape, NullShape, Moves, Claims,
         Nullifies
<1>3. OkShape(d) \/ ErrShape(d) \/ ReleaseShape(d) \/ Abandons(d) => tx' = tx
  BY DEF OkShape, ErrShape, ReleaseShape, Accepted, Rejected, Releases, Abandons,
         Ends, Moves
<1> QED BY <1>1, <1>2, <1>3 DEF DriverShape

(* What a step that changes the record does to it.                         *)
LEMMA RecordStep ==
  ASSUME Cas, CoreInv, ControlInv, CasInv, [TccNext]_tccVars, tx' # tx
  PROVE  /\ Members(tx.ids) \subseteq Members(tx'.ids)
         /\ Phase(tx'.status) \in Lifecycle!Successors(Phase(tx.status))
<1>0. tx.status \in TransactionStatus
  BY DEF CoreInv, TypeOK, Transaction
<1> USE DEF Phase, Lifecycle!Successors, Lifecycle!Phases
<1>1. ASSUME NEW d \in Driver, NEW t, Writes(d, t)
      PROVE  FreshCopy(d) /\ tx'.ids = tx.ids /\ tx'.status = t.status
  <2>1. tx' = Bumped(t) /\ CanStore(t) /\ OwnCopyOf(d, t)
    BY <1>1 DEF Writes
  <2>2. drv[d].tx.rev = tx.rev /\ drv[d].pc \in {"loop", "persist"}
    BY <1>1, <2>1 DEF CanStore, OwnCopyOf, Writes
  <2>3. FreshCopy(d)
    BY <2>2 DEF CasInv
  <2> QED BY <2>1, <2>3, Stored DEF FreshCopy, OwnCopyOf
<1>2. ASSUME NEW d \in Driver, SaveShape(d)
      PROVE  /\ tx'.ids = tx.ids
             /\ Phase(tx'.status) \in Lifecycle!Successors(Phase(tx.status))
  <2>1. FreshCopy(d) /\ tx'.ids = tx.ids /\ tx'.status = drv[d].tx.status
    BY <1>1, <1>2 DEF SaveShape
  <2> QED BY <1>0, <2>1 DEF FreshCopy, AllowedFrom, Working, PhaseHandler
<1>3. ASSUME NEW d \in Driver, CompleteShape(d)
      PROVE  /\ tx'.ids = tx.ids
             /\ Phase(tx'.status) \in Lifecycle!Successors(Phase(tx.status))
  <2>1. PICK t : drv[d].pc = "loop" /\ t.status = Finished(drv[d].op) /\ Writes(d, t)
    BY <1>3 DEF CompleteShape
  <2>2. FreshCopy(d) /\ tx'.ids = tx.ids /\ tx'.status = Finished(drv[d].op)
    BY <1>1, <2>1
  <2>3. drv[d].op \in PhaseHandler
    BY <2>1 DEF ControlInv
  <2> QED
    BY <1>0, <2>2, <2>3 DEF FreshCopy, AllowedFrom, Finished, PhaseHandler
<1>4. CASE \E b \in External : RegisterBranch(b, "Succeeded")
  <2> PICK b \in External : RegisterBranch(b, "Succeeded")
    BY <1>4
  <2>1. tx'.ids = Append(tx.ids, b) /\ tx'.status = tx.status
    BY TccAssumption, RegisterType DEF CoreInv, TypeOK, BranchStatus
  <2>2. tx.ids \in Seq(Branch)
    BY DEF CoreInv, TypeOK, Transaction
  <2>3. Members(tx.ids) \subseteq Members(Append(tx.ids, b))
    BY <2>2, TccAssumption, MembersAppend
  <2> QED BY <1>0, <2>1, <2>3
<1>5. \/ \E d \in Driver : SaveShape(d) \/ CompleteShape(d)
      \/ \E b \in External : RegisterBranch(b, "Succeeded")
  BY WhoWrites, StepCases DEF Expire, vars, tccVars
<1> QED BY <1>2, <1>3, <1>4, <1>5

(* On a store that checks revisions a copy that can still be written was   *)
(* taken from the record as it is.                                         *)
THEOREM CasInvHolds == Cas => (Spec => []CasInv)
<1> SUFFICES ASSUME Cas PROVE Spec => []CasInv
  OBVIOUS
<1>1. TccInit => CasInv
  BY DEF TccInit, Init, CasInv, Idle
<1>2. CoreInv /\ ControlInv /\ CasInv /\ [TccNext]_tccVars => CasInv'
  BY CasStep
<1> QED BY <1>1, <1>2, TypeCorrect, PTL DEF Spec

(* The stored TCC transaction implements the abstract lifecycle on a store *)
(* that checks revisions: commit and abort are never both decided, and an  *)
(* ended transaction stays as it is.                                       *)
THEOREM LifecycleRefined == Cas => (Spec => LifecycleSpec)
<1> SUFFICES ASSUME Cas PROVE Spec => LifecycleSpec
  OBVIOUS
<1>1. TccInit => Lifecycle!Init
  BY DEF TccInit, Init, NewTransaction, Phase, Lifecycle!Init
<1>2. CoreInv /\ ControlInv /\ CasInv /\ [TccNext]_tccVars
      => [Lifecycle!Move]_(Phase(tx.status))
  BY RecordStep DEF Lifecycle!Move
<1> QED
  BY <1>1, <1>2, TypeCorrect, CasInvHolds, PTL
     DEF Spec, LifecycleSpec, Lifecycle!Spec

(* ... and no handler drops a branch that register_branch accepted.        *)
THEOREM RegisteredKeptHolds == Cas => (Spec => RegisteredKept)
<1> SUFFICES ASSUME Cas PROVE Spec => RegisteredKept
  OBVIOUS
<1>1. CoreInv /\ ControlInv /\ CasInv /\ [TccNext]_tccVars
      => [Members(tx.ids) \subseteq Members(tx'.ids)]_tx
  BY RecordStep
<1> QED
  BY <1>1, TypeCorrect, CasInvHolds, PTL DEF Spec, RegisteredKept

(* A handler that is at work after a step was so before or has just been   *)
(* let in by ensure_status; one that is at work or chosen was so before or *)
(* was chosen by a worker for what the record and the clock say.           *)
LEMMA ActingStep ==
  ASSUME CoreInv, ControlInv, [TccNext]_tccVars, WorkersOnly',
         NEW op \in {"confirm", "cancel"}
  PROVE  /\ Acting(op)' =>
              \/ Acting(op)
              \/ tx' = tx /\ tx.status \in AllowedFrom(op)
         /\ Acting(op)' \/ Chosen(op)' =>
              \/ Acting(op) \/ Chosen(op)
              \/ tx' = tx /\ op = TickHandler
<1>w. ~Spend("call") /\ ~Spend("crash")
  BY WorkersOnlyKept
<1>t. drv \in [Driver -> DriverState]
  BY DEF CoreInv, TypeOK
<1> DEFINE Active(s) == s.op = op /\ s.pc \in {"loop", "invoke", "release"}
           Picked(s) == s.op = op /\ s.pc = "chosen"
<1>1. ASSUME NEW d \in Driver, DriverShape(d)
      PROVE  /\ Acting(op)' =>
                  \/ Acting(op)
                  \/ tx' = tx /\ tx.status \in AllowedFrom(op)
             /\ Acting(op)' \/ Chosen(op)' =>
                  \/ Acting(op) \/ Chosen(op)
                  \/ tx' = tx /\ op = TickHandler
  <2>1. \A e \in Driver : e # d => drv'[e] = drv[e]
    BY <1>1, TccShaped, ShapedFacts
  <2>2. (\E key \in effects' : key[2] = op) => Acting(op)
    <3>1. drv[d].pc = "invoke" /\ DriverKey(d)[2] = op => Active(drv[d])
      BY HandlerTables DEF ControlInv, DriverKey, BarrierOp, PhaseHandler
    <3>2. effects' \subseteq effects
          \/ (drv[d].pc = "invoke" /\ effects' \subseteq effects \cup {DriverKey(d)})
      BY <1>1, TccShaped, ShapedFacts
    <3> QED BY <3>1, <3>2 DEF Acting
  <2>3. Acting(op)' => Acting(op) \/ Active(drv'[d])
    BY <2>1, <2>2 DEF Acting
  <2>4. Chosen(op)' => Chosen(op) \/ Picked(drv'[d])
    BY <2>1 DEF Chosen
  <2>5. /\ Active(drv[d]) => Acting(op)
        /\ Picked(drv[d]) => Chosen(op)
    BY DEF Acting, Chosen
  <2>6. ASSUME NEW s, Puts(d, s) PROVE drv'[d] = s
    BY <1>t, <2>6, PutsFacts
  <2>7. /\ Active(drv'[d]) =>
             \/ Active(drv[d])
             \/ Picked(drv[d]) /\ tx' = tx /\ tx.status \in AllowedFrom(op)
        /\ Picked(drv'[d]) => tx' = tx /\ op = TickHandler
    <3>1. CASE ChooseShape(d)
      <4>1. PICK o \in PhaseHandler : Chooses(d, o) /\ o = TickHandler
        BY <1>w, <3>1 DEF ChooseShape
      <4> QED BY <4>1, <2>6 DEF Chooses, At
    <3>2. CASE StartShape(d)
      <4>1. PICK o \in PhaseHandler, t \in Transaction :
              /\ Takes(d, o, "loop", t) /\ tx.status \in AllowedFrom(o)
              /\ drv[d].pc = "chosen" /\ drv[d].op = o
        BY <1>w, <3>2 DEF StartShape
      <4> QED BY <4>1, <2>6 DEF Takes, At
    <3>3. CASE RequestShape(d)
      BY <2>6, <3>3 DEF RequestShape, Takes, At
    <3>4. CASE SkipShape(d)
      BY <2>6, <3>4 DEF SkipShape, Moves, At
    <3>5. CASE ClaimShape(d)
      BY <2>6, <3>5 DEF ClaimShape, Claims, At
    <3>6. CASE NullShape(d)
      BY <2>6, <3>6 DEF NullShape, Nullifies, At
    <3>7. CASE CancelledShape(d)
      BY <2>6, <3>7 DEF CancelledShape, Moves, At
    <3>8. CASE OkShape(d)
      BY <2>6, <3>8 DEF OkShape, Accepted, At
    <3>9. CASE ErrShape(d)
      BY <2>6, <3>9 DEF ErrShape, Rejected, At
    <3>10. CASE ReleaseShape(d)
      BY <2>6, <3>10 DEF ReleaseShape, Releases, At
    <3>11. CASE Puts(d, Idle)
      BY <2>6, <3>11 DEF Idle
    <3> QED
      BY <1>1, <3>1, <3>2, <3>3, <3>4, <3>5, <3>6, <3>7, <3>8, <3>9, <3>10,
         <3>11
         DEF DriverShape, Ends, SaveShape, CompleteShape, Writes, Abandons
  <2> HIDE DEF Active, Picked
  <2> QED BY <2>3, <2>4, <2>5, <2>7
<1>2. CASE UNCHANGED <<drv, effects>>
  BY <1>2 DEF Acting, Chosen
<1> QED
  BY <1>1, <1>2, StepCases DEF RegisterBranch, Expire, vars, tccVars

LEMMA DecidedStep ==
  ASSUME Cas, CoreInv, ControlInv, CasInv, DecidedInv, [TccNext]_tccVars
  PROVE  DecidedInv'
<1> DEFINE Committed(s) == s \in {"Succeeding", "Succeeded", "Failed"}
           Dropped(s) == s \in {"Aborting", "Aborted", "Failed"}
<1> SUFFICES ASSUME WorkersOnly'
             PROVE  /\ Acting("confirm")' \/ Chosen("confirm")' =>
                         Committed(tx'.status)
                    /\ Acting("cancel")' \/ Chosen("cancel")' =>
                         expired' \/ Dropped(tx'.status)
                    /\ ~((Acting("confirm")' \/ Chosen("confirm")')
                         /\ Acting("cancel")')
  BY DEF DecidedInv
<1>1. /\ Acting("confirm") \/ Chosen("confirm") => Committed(tx.status)
      /\ Acting("cancel") \/ Chosen("cancel") => expired \/ Dropped(tx.status)
      /\ ~((Acting("confirm") \/ Chosen("confirm")) /\ Acting("cancel"))
  BY WorkersOnlyKept DEF DecidedInv
<1>2. expired \in BOOLEAN /\ (expired => expired')
  BY StepCases, TccShaped, ShapedFacts
     DEF RegisterBranch, Expire, vars, tccVars, CoreInv, TypeOK
<1>3. tx.status \in TransactionStatus /\ tx'.status \in TransactionStatus
  BY CoreStep DEF CoreInv, TypeOK, Transaction
<1>4. /\ Committed(tx.status) => Committed(tx'.status)
      /\ Dropped(tx.status) => Dropped(tx'.status)
  BY <1>3, RecordStep
     DEF TransactionStatus, Phase, Lifecycle!Successors, Lifecycle!Phases
<1>5. /\ "confirm" = TickHandler => tx.status = "Succeeding" /\ ~expired
      /\ "cancel" = TickHandler => expired \/ tx.status = "Aborting"
      /\ tx.status \in AllowedFrom("cancel") => ~Committed(tx.status)
  BY DEF TickHandler, AllowedFrom
<1>6. /\ Acting("confirm")' \/ Chosen("confirm")' =>
           \/ Acting("confirm") \/ Chosen("confirm")
           \/ tx' = tx /\ tx.status = "Succeeding" /\ ~expired
      /\ Acting("cancel")' \/ Chosen("cancel")' =>
           \/ Acting("cancel") \/ Chosen("cancel")
           \/ tx' = tx /\ (expired \/ tx.status = "Aborting")
      /\ Acting("cancel")' =>
           Acting("cancel") \/ (tx' = tx /\ ~Committed(tx.status))
  BY <1>5, ActingStep
<1> HIDE DEF Acting, Chosen
<1>7. /\ Acting("confirm")' \/ Chosen("confirm")' => Committed(tx'.status)
      /\ Acting("cancel")' \/ Chosen("cancel")' => expired' \/ Dropped(tx'.status)
  BY <1>1, <1>2, <1>4, <1>6
<1>8. ~((Acting("confirm")' \/ Chosen("confirm")') /\ Acting("cancel")')
  BY <1>1, <1>6, <1>7
<1> QED BY <1>7, <1>8

(* On a store that checks revisions, for any number of workers and         *)
(* requests: while only workers have called branches, confirm_tcc and      *)
(* cancel_tcc never both reach a branch, whatever the timeout does.        *)
THEOREM DecisionExclusiveHolds == Cas => (Spec => []DecisionExclusive)
<1> SUFFICES ASSUME Cas PROVE Spec => []DecisionExclusive
  OBVIOUS
<1>1. TccInit => DecidedInv
  BY DEF TccInit, Init, DecidedInv, Acting, Chosen, Idle
<1>2. CoreInv /\ ControlInv /\ CasInv /\ DecidedInv /\ [TccNext]_tccVars
      => DecidedInv'
  BY DecidedStep
<1>3. DecidedInv => DecisionExclusive
  BY DEF DecidedInv, DecisionExclusive, Acting
<1> QED BY <1>1, <1>2, <1>3, TypeCorrect, CasInvHolds, PTL DEF Spec

=============================================================================
