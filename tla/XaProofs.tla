----------------------------- MODULE XaProofs -----------------------------
(***************************************************************************)
(* Proofs of the safety properties of Xa for every set of branches, every  *)
(* number of clients and every bound.                                      *)
(***************************************************************************)
EXTENDS XaResource, CoordinatorProofs

-----------------------------------------------------------------------------
(* The actions of Xa in the shapes of CoordinatorProofs.                   *)

(* Where the driver's copy goes when handler op starts.                    *)
EntryPc(op) == IF op = "prepare" THEN "persist" ELSE "loop"

(* A tick or recover() chooses a handler.                                  *)
ChooseShape(d) ==
  \E op \in XaHandler :
    /\ Chooses(d, op)
    /\ \/ d \in Worker /\ budget' = budget /\ op = TickHandler
       \/ Spend("call")

(* A handler starts, in a worker or in a request.                          *)
StartShape(d) ==
  \E op \in XaHandler, t \in Transaction :
    /\ Takes(d, op, EntryPc(op), t)
    /\ tx.status \in AllowedFrom(op) /\ t.status = Working(op)
    /\ \/ drv[d].pc = "chosen" /\ drv[d].op = op /\ budget' = budget
       \/ op = "prepare" /\ Spend("request")
       \/ Spend("call")

(* A request reads the record to write it with a new status.               *)
RequestShape(d) ==
  \E op \in Handler \ XaHandler, t \in Transaction :
    /\ Takes(d, op, "persist", t)
    /\ Phase(t.status) \in Lifecycle!Successors(Phase(tx.status))
    /\ t.status \notin {"Succeeded", "Aborted"}
    /\ Spend("request")

(* The loop: a taken key is skipped, a free one is taken.                  *)
SkipShape(d) ==
  /\ drv[d].pc = "loop" /\ MoreBranches(d) /\ DriverKey(d) \in barriers
  /\ Moves(d, "loop", drv[d].pos + 1, drv[d].tx)

SameStatus(d, t) == t.status = drv[d].tx.status

ClaimShape(d) == \E t : Claims(d, t) /\ SameStatus(d, t)
OkShape(d) == \E t : Accepted(d, "loop", drv[d].pos + 1, t) /\ SameStatus(d, t)
ErrShape(d) == \E t : Rejected(d, "release", t) /\ SameStatus(d, t)

SaveShape(d) == drv[d].pc = "persist" /\ Writes(d, drv[d].tx)

(* The handler writes its final status.                                    *)
Finished(op) == IF op = "commit" THEN "Succeeded" ELSE "Aborted"

CompleteShape(d) ==
  \E t : /\ drv[d].pc = "loop" /\ ~MoreBranches(d)
         /\ t.status = Finished(drv[d].op)
         /\ Writes(d, t)

DriverShape(d) ==
  \/ ChooseShape(d) \/ StartShape(d) \/ RequestShape(d)
  \/ drv[d].pc = "chosen" /\ Ends(d)
  \/ SkipShape(d) \/ ClaimShape(d) \/ OkShape(d) \/ ErrShape(d)
  \/ Releases(d, drv[d].tx) \/ SaveShape(d) \/ CompleteShape(d)
  \/ Abandons(d)

(* The ones of a handler that was chosen or runs.                          *)
ResumeShape(d) ==
  \E op \in XaHandler, t \in Transaction :
    /\ Takes(d, op, EntryPc(op), t)
    /\ tx.status \in AllowedFrom(op) /\ t.status = Working(op)
    /\ drv[d].pc = "chosen" /\ drv[d].op = op /\ budget' = budget

LoopShape(d) ==
  \/ ResumeShape(d)
  \/ drv[d].pc = "chosen" /\ Ends(d)
  \/ SkipShape(d) \/ ClaimShape(d) \/ OkShape(d) \/ ErrShape(d)
  \/ Releases(d, drv[d].tx) \/ SaveShape(d) \/ CompleteShape(d)

(* The copy of a driver at a branch of its copy.                           *)
LEMMA CopyFacts ==
  ASSUME CoreInv, NEW d \in Driver
  PROVE  /\ drv \in [Driver -> DriverState]
         /\ drv[d] \in DriverState /\ drv[d].tx \in Transaction
         /\ OwnCopyOf(d, drv[d].tx)
         /\ MoreBranches(d) => Current(d) \in Branch
         /\ InFlight(d) => MoreBranches(d)
BY KeyType DEF CoreInv, TypeOK, DriverState, OwnCopyOf, PositionInv

LEMMA EnterShape ==
  ASSUME CoreInv, NEW d \in Driver, NEW op \in XaHandler, Enter(d, op),
         tx.status \in AllowedFrom(op), ~InFlight(d),
         UNCHANGED <<tx, barriers, expired, acked, effects>>
  PROVE  \E t \in Transaction :
           Takes(d, op, EntryPc(op), t) /\ t.status = Working(op)
<1>1. /\ Begin(d, op, EntryPc(op), Working(op))
      /\ op \in Handler /\ EntryPc(op) \in Pc /\ Working(op) \in TransactionStatus
  BY DEF Enter, EntryPc, Working, XaHandler, Handler, Pc, TransactionStatus
<1> DEFINE t == [tx EXCEPT !.status = Working(op)]
<1>2. /\ Puts(d, At(EntryPc(op), op, 1, t)) /\ t \in Transaction
      /\ t.status = Working(op) /\ t.ids = tx.ids /\ t.bst = tx.bst
      /\ t.rev = tx.rev
  BY <1>1, BeginPuts DEF CoreInv
<1> HIDE DEF t
<1> QED BY <1>2 DEF Takes

LEMMA LoopSteps ==
  ASSUME CoreInv, ControlInv, NEW d \in Driver, HandlerStep(d)
  PROVE  LoopShape(d)
<1> USE CopyFacts
<1>t. TypeOK /\ drv[d].pos >= 1
  BY DEF CoreInv, PositionInv
<1>1. CASE StartChosen(d)
  <2>1. drv[d].pc = "chosen" /\ drv[d].op \in XaHandler /\ ~InFlight(d)
    BY <1>1 DEF StartChosen, ControlInv, InFlight
  <2>2. CASE tx.status \in AllowedFrom(drv[d].op)
    BY <1>1, <2>1, <2>2, EnterShape DEF StartChosen, ResumeShape, LoopShape
  <2>3. CASE tx.status \notin AllowedFrom(drv[d].op)
    BY <1>1, <2>1, <2>3, ReturnPuts DEF StartChosen, Ends, LoopShape
  <2> QED BY <2>2, <2>3
<1>2. CASE ResolveBranch(d)
  <2> DEFINE t == [drv[d].tx EXCEPT !.att[Current(d)] = @ + 1]
  <2>1. /\ drv[d].pc = "loop" /\ MoreBranches(d)
        /\ drv[d].op \in {"commit", "rollback"}
        /\ UNCHANGED <<tx, expired, budget, acked, effects>>
    BY <1>2 DEF ResolveBranch, ControlInv
  <2>2. BarrierOp(drv[d].op) \in BarrierOps /\ BarrierOp(drv[d].op) = drv[d].op
    BY <2>1 DEF BarrierOp, BarrierOps
  <2>3. /\ BarrierDecision(DriverKey(d)) = "Execute" <=> DriverKey(d) \notin barriers
        /\ DriverKey(d) \notin barriers =>
             BarrierTable(DriverKey(d)) = barriers \cup {DriverKey(d)}
    BY <2>1, <2>2 DEF BarrierDecision, BarrierTable, DriverKey
  <2>4. CASE DriverKey(d) \notin barriers
    <3>1. Goto(d, "invoke", t) /\ barriers' = barriers \cup {DriverKey(d)}
      BY <1>2, <2>3, <2>4 DEF ResolveBranch, Claim
    <3>2. OwnCopyOf(d, t) /\ t.status = drv[d].tx.status
      BY <2>1, Counted DEF OwnCopyOf
    <3> HIDE DEF t
    <3>3. Puts(d, At("invoke", drv[d].op, drv[d].pos, t))
      BY <1>t, <3>1, <3>2, GotoPuts DEF OwnCopyOf, Pc
    <3> QED
      BY <2>1, <2>2, <2>4, <3>1, <3>2, <3>3
         DEF Claims, ClaimShape, SameStatus, LoopShape
  <2>5. CASE DriverKey(d) \in barriers
    <3>1. Advance(d, drv[d].tx) /\ barriers' = barriers
      BY <1>2, <2>3, <2>5 DEF ResolveBranch
    <3>2. Puts(d, At("loop", drv[d].op, drv[d].pos + 1, drv[d].tx))
      BY <1>t, <3>1, AdvancePuts
    <3> QED
      BY <2>1, <2>5, <3>1, <3>2 DEF Moves, SkipShape, LoopShape, InFlight
  <2> QED BY <2>4, <2>5
<1>3. CASE BranchOk(d)
  <2> DEFINE st == IF drv[d].op = "commit" THEN "Succeeded" ELSE "Skipped"
             t == Mark(d, st)
  <2>1. drv[d].pc = "invoke" /\ Current(d) \in Branch /\ st \in BranchStatus
    BY <1>3 DEF BranchOk, CallSucceeds, InFlight, BranchStatus
  <2> HIDE DEF st
  <2>2. OwnCopyOf(d, t) /\ t.status = drv[d].tx.status
    BY <2>1, Marked DEF OwnCopyOf
  <2>3. Advance(d, t)
    BY <1>3 DEF BranchOk, st
  <2> HIDE DEF t
  <2>4. Puts(d, At("loop", drv[d].op, drv[d].pos + 1, t))
    BY <1>t, <2>2, <2>3, AdvancePuts DEF OwnCopyOf
  <2> QED
    BY <1>3, <2>2, <2>4
       DEF BranchOk, CallSucceeds, Accepted, OkShape, SameStatus, LoopShape
<1>4. CASE BranchErr(d)
  <2> DEFINE t == Mark(d, "Failed")
  <2>1. /\ drv[d].pc = "invoke" /\ Current(d) \in Branch
        /\ Goto(d, "release", t)
    BY <1>4 DEF BranchErr, CallFails, InFlight
  <2>2. OwnCopyOf(d, t) /\ t.status = drv[d].tx.status
    BY <2>1, Marked DEF OwnCopyOf, BranchStatus
  <2> HIDE DEF t
  <2>4. Puts(d, At("release", drv[d].op, drv[d].pos, t))
    BY <1>t, <2>1, <2>2, GotoPuts DEF OwnCopyOf, Pc
  <2> QED
    BY <1>4, <2>2, <2>4
       DEF BranchErr, CallFails, Rejected, ErrShape, SameStatus, LoopShape
<1>5. CASE Release(d)
  <2>1. Puts(d, At("persist", drv[d].op, drv[d].pos, drv[d].tx))
    BY <1>t, <1>5, GotoPuts DEF Release, Pc
  <2> QED BY <1>5, <2>1 DEF Release, ReleaseBarrier, Releases, LoopShape
<1>6. CASE Save(d)
  BY <1>6, ReturnPuts DEF Save, Persist, Writes, SaveShape, LoopShape
<1>7. CASE Complete(d)
  <2> DEFINE t == [drv[d].tx EXCEPT !.status = Finished(drv[d].op)]
  <2>1. /\ drv[d].pc = "loop" /\ ~MoreBranches(d) /\ Persist(d, t)
        /\ UNCHANGED <<barriers, expired, budget, acked, effects>>
    BY <1>7 DEF Complete, Finished
  <2>2. OwnCopyOf(d, t) /\ t.status = Finished(drv[d].op)
    <3>1. Finished(drv[d].op) \in TransactionStatus
      BY DEF Finished, TransactionStatus
    <3> QED BY <3>1, Restated DEF OwnCopyOf
  <2> HIDE DEF t
  <2> QED
    BY <2>1, <2>2, ReturnPuts
       DEF Persist, Writes, CompleteShape, LoopShape
<1> QED
  BY <1>1, <1>2, <1>3, <1>4, <1>5, <1>6, <1>7 DEF HandlerStep

LEMMA HandlerShape ==
  ASSUME CoreInv, ControlInv, NEW d \in Driver, HandlerStep(d)
  PROVE  DriverShape(d)
BY LoopSteps DEF LoopShape, ResumeShape, StartShape, DriverShape

LEMMA ClientShape ==
  ASSUME CoreInv, ControlInv, NEW d \in Driver,
         ClientStep(d) \/ Tick(d) \/ Abandon(d)
  PROVE  DriverShape(d)
<1>t. TypeOK /\ tx.status \in TransactionStatus
  BY DEF CoreInv, TypeOK, Transaction
<1>r. ASSUME NEW op \in Handler \ XaHandler, NEW st \in TransactionStatus,
             StatusRequest(d, op, st),
             Phase(st) \in Lifecycle!Successors(Phase(tx.status)),
             st \notin {"Succeeded", "Aborted"}
      PROVE  RequestShape(d)
  <2> DEFINE t == [tx EXCEPT !.status = st]
  <2>1. Begin(d, op, "persist", st) /\ op \in Handler /\ "persist" \in Pc
    BY <1>r DEF StatusRequest, Pc
  <2>2. /\ Puts(d, At("persist", op, 1, t)) /\ t \in Transaction
        /\ t.status = st /\ t.ids = tx.ids /\ t.bst = tx.bst
        /\ t.rev = tx.rev
    BY <1>t, <2>1, BeginPuts
  <2> HIDE DEF t
  <2> QED
    BY <1>r, <2>2 DEF StatusRequest, Request, RequestShape, Takes, InFlight
<1> USE DEF Handler, XaHandler, TransactionStatus, Phase, Lifecycle!Successors,
            Lifecycle!Phases
<1>1. CASE \E op \in XaHandler : Call(d, op)
  <2> PICK op \in XaHandler : Call(d, op)
    BY <1>1
  <2>1. \E t \in Transaction :
          Takes(d, op, EntryPc(op), t) /\ t.status = Working(op)
    BY EnterShape DEF Call, Request, InFlight
  <2>2. Spend("call") \/ (op = "prepare" /\ Spend("request"))
    BY DEF Call, Request
  <2> QED BY <2>1, <2>2 DEF Call, StartShape, DriverShape
<1>2. CASE ScheduleSubmit(d)
  BY <1>2, <1>r DEF ScheduleSubmit, DriverShape
<1>3. CASE ScheduleAbort(d)
  BY <1>3, <1>r DEF ScheduleAbort, DriverShape
<1>4. CASE RecoverRequest(d, RecoverHandler)
  <2>1. RecoverHandler \in XaHandler
    BY <1>4 DEF RecoverRequest, RecoverHandler, TickHandler
  <2> QED
    BY <1>4, <2>1, ChoosePuts
       DEF RecoverRequest, Request, Chooses, ChooseShape, DriverShape, InFlight
<1>5. CASE ForceStop(d)
  BY <1>t, <1>5, <1>r DEF ForceStop, DriverShape, IsTerminal
<1>6. CASE ResetRetry(d)
  BY <1>t, <1>6, <1>r DEF ResetRetry, DriverShape, IsTerminal
<1>7. CASE Tick(d)
  <2>1. TickHandler \in XaHandler
    BY <1>7 DEF Tick, WorkerTick, TickHandler
  <2> QED
    BY <1>7, <2>1, ChoosePuts
       DEF Tick, WorkerTick, Chooses, ChooseShape, DriverShape, InFlight
<1>8. CASE Abandon(d)
  BY <1>8, ReturnPuts DEF Abandon, Abandons, DriverShape
<1> QED
  BY <1>1, <1>2, <1>3, <1>4, <1>5, <1>6, <1>7, <1>8 DEF ClientStep

(* The shapes of Xa are among those of every kind.                         *)
LEMMA XaShaped ==
  ASSUME CoreInv, NEW d \in Driver, DriverShape(d)
  PROVE  Shaped(d)
<1>1. drv[d].pos + 1 >= 1
  BY DEF CoreInv, TypeOK, DriverState
<1> USE DEF Shaped, Quiet
<1>2. CASE StartShape(d) \/ RequestShape(d)
  BY <1>2 DEF StartShape, RequestShape, EntryPc
<1>3. CASE SkipShape(d) \/ OkShape(d)
  BY <1>1, <1>3 DEF SkipShape, OkShape
<1>4. CASE ChooseShape(d) \/ ClaimShape(d) \/ ErrShape(d)
  BY <1>4 DEF ChooseShape, ClaimShape, ErrShape
<1> QED
  BY <1>2, <1>3, <1>4 DEF DriverShape, SaveShape, CompleteShape

-----------------------------------------------------------------------------
(* Types, keys and control.                                                *)

LEMMA ControlStep ==
  ASSUME CoreInv, ControlInv, NEW d \in Driver, DriverShape(d)
  PROVE  CoreInv' /\ ControlInv'
<1> USE DEF XaHandler
<1>f. drv \in [Driver -> DriverState]
  BY DEF CoreInv, TypeOK
<1>c. ASSUME NEW s, Puts(d, s),
             /\ s.pc \in {"idle", "chosen", "loop", "invoke", "release", "persist"}
             /\ s.pc = "chosen" => s.op \in XaHandler
             /\ s.pc \in {"loop", "invoke", "release"} =>
                  s.op \in {"commit", "rollback"} /\ s.tx.status = Working(s.op)
             /\ s.pc = "persist" => s.tx.status \notin {"Succeeded", "Aborted"}
      PROVE  ControlInv'
  BY <1>c, <1>f, PutsFacts DEF ControlInv
<1>w. \A op \in XaHandler : Working(op) \notin {"Succeeded", "Aborted"}
  BY DEF Working
<1> SUFFICES ControlInv'
  BY XaShaped, CoreShaped
<1>1. CASE ChooseShape(d)
  BY <1>1, <1>c DEF ChooseShape, Chooses, At
<1>2. CASE StartShape(d)
  <2> PICK op \in XaHandler, t \in Transaction :
        Takes(d, op, EntryPc(op), t) /\ t.status = Working(op)
    BY <1>2 DEF StartShape
  <2>1. EntryPc(op) \in {"loop", "persist"} /\ (EntryPc(op) = "loop" => op # "prepare")
    BY DEF EntryPc
  <2> QED BY <2>1, <1>c, <1>w DEF Takes, At
<1>3. CASE RequestShape(d)
  BY <1>3, <1>c DEF RequestShape, Takes, At
<1>4. CASE Ends(d)
  BY <1>4, <1>c DEF Ends, Idle
<1>5. CASE SkipShape(d)
  BY <1>5, <1>c DEF SkipShape, Moves, ControlInv, At
<1>6. CASE ClaimShape(d)
  BY <1>6, <1>c DEF ClaimShape, Claims, SameStatus, ControlInv, At
<1>7. CASE OkShape(d)
  BY <1>7, <1>c DEF OkShape, Accepted, SameStatus, ControlInv, At
<1>8. CASE ErrShape(d)
  BY <1>8, <1>c DEF ErrShape, Rejected, SameStatus, ControlInv, At
<1>9. CASE Releases(d, drv[d].tx)
  <2>1. drv[d].op \in XaHandler /\ drv[d].tx.status = Working(drv[d].op)
    BY <1>9 DEF Releases, ControlInv
  <2> QED BY <1>9, <2>1, <1>c, <1>w DEF Releases, At
<1>10. CASE SaveShape(d) \/ CompleteShape(d)
  BY <1>10, <1>c DEF SaveShape, CompleteShape, Writes, Idle
<1>11. CASE Abandons(d)
  BY <1>11, <1>c DEF Abandons, Idle
<1> QED
  BY <1>1, <1>2, <1>3, <1>4, <1>5, <1>6, <1>7, <1>8, <1>9, <1>10, <1>11
     DEF DriverShape

(* A step is a driver's, a registration, or moves nothing but the clock.   *)
LEMMA StepCases ==
  ASSUME CoreInv, ControlInv, [XaNext]_vars
  PROVE  \/ \E d \in Driver : DriverShape(d)
         \/ \E b \in Branch : RegisterBranch(b, "Pending")
         \/ Expire
         \/ UNCHANGED vars
BY HandlerShape, ClientShape DEF XaNext, Register

LEMMA CoreStep ==
  ASSUME CoreInv, ControlInv, [XaNext]_vars
  PROVE  CoreInv' /\ ControlInv'
<1>1. CASE \E d \in Driver : DriverShape(d)
  BY <1>1, ControlStep
<1>2. CASE \E b \in Branch : RegisterBranch(b, "Pending")
  <2>1. CoreInv'
    BY <1>2, CoreRegister DEF BranchStatus
  <2> QED BY <1>2, <2>1 DEF RegisterBranch, ControlInv
<1>3. CASE Expire \/ UNCHANGED vars
  BY <1>3, CoreIdle DEF Expire, vars, ControlInv
<1> QED BY <1>1, <1>2, <1>3, StepCases

(* Types, ownership of barrier keys and control, for any drivers.          *)
THEOREM XaTypeCorrect == Spec => [](CoreInv /\ ControlInv)
<1>1. Init => CoreInv /\ ControlInv
  BY CoreInit DEF Init, ControlInv, Idle
<1>2. CoreInv /\ ControlInv /\ [XaNext]_vars => CoreInv' /\ ControlInv'
  BY CoreStep
<1> QED BY <1>1, <1>2, PTL DEF Spec

(* No phase-2 call of a resource is made by two drivers at a time, nor     *)
(* repeated after it was accepted.                                         *)
THEOREM XaBarrierExclusion == Spec => []BarrierExclusion
<1>1. CoreInv => BarrierExclusion
  BY DEF CoreInv, KeysInv, BarrierExclusion
<1> QED BY <1>1, XaTypeCorrect, PTL

-----------------------------------------------------------------------------
(* What holds while only workers call resources.                           *)

(* It was so before if it is so after; a request of its own or a crash     *)
(* ends it.                                                                *)
LEMMA WorkersOnlyKept ==
  ASSUME CoreInv, [XaNext]_vars, ControlInv, WorkersOnly'
  PROVE  WorkersOnly /\ ~Spend("call") /\ ~Spend("crash")
<1>1. \/ budget' = budget \/ Spend("request") \/ Spend("call")
      \/ Spend("failure") \/ Spend("crash")
  BY StepCases, XaShaped, ShapedFacts DEF RegisterBranch, Expire, vars
<1> QED BY <1>1, WorkersOnlyBefore

(* A key that is neither accepted nor in flight is not left behind, unless *)
(* a handler is abandoned.                                                 *)
LEMMA HeldStep ==
  ASSUME CoreInv, ControlInv, Held, NEW d \in Driver, DriverShape(d),
         ~Spend("crash")
  PROVE  Held'
<1>t. drv \in [Driver -> DriverState]
  BY DEF CoreInv, TypeOK
<1>0. PICK s : Puts(d, s)
  BY XaShaped, ShapedFacts
<1>1. \A e \in Driver : e # d => /\ InFlight(e)' <=> InFlight(e)
                                 /\ DriverKey(e)' = DriverKey(e)
  BY <1>t, <1>0, OneMoved
<1> SUFFICES ASSUME NEW key \in barriers' \ acked'
             PROVE  \E e \in Driver : InFlight(e)' /\ DriverKey(e)' = key
  BY DEF Held
<1>2. CASE ClaimShape(d)
  <2>1. PICK t : Claims(d, t)
    BY <1>2 DEF ClaimShape
  <2>2. InFlight(d)' /\ DriverKey(d)' = DriverKey(d)
    BY <2>1, CoreClaims
  <2>3. barriers' = barriers \cup {DriverKey(d)} /\ acked' = acked /\ ~InFlight(d)
    BY <2>1 DEF Claims, InFlight
  <2> QED BY <1>1, <2>2, <2>3 DEF Held
<1>3. CASE ErrShape(d)
  <2>1. PICK t : Rejected(d, "release", t)
    BY <1>3 DEF ErrShape
  <2>2. InFlight(d)' /\ DriverKey(d)' = DriverKey(d)
    BY <2>1, KeysStay DEF Rejected, OwnCopyOf, InFlight, CoreInv
  <2>3. barriers' = barriers /\ acked' = acked
    BY <2>1 DEF Rejected
  <2> QED BY <1>1, <2>2, <2>3 DEF Held
<1>4. CASE OkShape(d) \/ Releases(d, drv[d].tx)
  <2>1. barriers' \ acked' = (barriers \ acked) \ {DriverKey(d)}
    BY <1>4 DEF OkShape, Accepted, Releases
  <2> QED BY <1>1, <2>1 DEF Held
<1>5. CASE ~InFlight(d) /\ barriers' = barriers /\ acked' = acked
  BY <1>1, <1>5 DEF Held
<1> QED
  BY <1>2, <1>3, <1>4, <1>5
     DEF DriverShape, ChooseShape, StartShape, RequestShape, SkipShape,
         SaveShape, CompleteShape, Ends, Moves, Writes, Abandons, Chooses,
         Takes, InFlight

LEMMA HeldIdle ==
  ASSUME Held, UNCHANGED <<drv, barriers, acked>>
  PROVE  Held'
BY DEF Held, InFlight, DriverKey, Current

LEMMA SettledStep ==
  ASSUME CoreInv, ControlInv, SettledInv, [XaNext]_vars
  PROVE  SettledInv'
<1> SUFFICES ASSUME WorkersOnly'
             PROVE  /\ \A d \in Driver :
                         drv'[d].pc \in {"chosen", "loop", "invoke", "release"} =>
                           d \in Worker
                    /\ Held'
  BY DEF SettledInv
<1>w. WorkersOnly /\ ~Spend("call") /\ ~Spend("crash") /\ Held
  BY WorkersOnlyKept DEF SettledInv
<1>t. drv \in [Driver -> DriverState]
  BY DEF CoreInv, TypeOK
<1>1. ASSUME NEW d \in Driver, DriverShape(d)
      PROVE  /\ \A e \in Driver :
                  drv'[e].pc \in {"chosen", "loop", "invoke", "release"} =>
                    e \in Worker
             /\ Held'
  <2>1. \A e \in Driver : e # d => drv'[e] = drv[e]
    BY <1>1, XaShaped, ShapedFacts
  <2>2. \/ drv[d].pc \in {"chosen", "loop", "invoke", "release"}
        \/ d \in Worker
        \/ drv'[d].pc \notin {"chosen", "loop", "invoke", "release"}
    <3>0. CASE Puts(d, Idle)
      BY <1>t, <3>0, PutsFacts DEF Idle
    <3>1. CASE RequestShape(d)
      BY <1>t, <3>1, PutsFacts DEF RequestShape, Takes, At
    <3>2. CASE StartShape(d)
      BY <1>t, <1>w, <3>2, PutsFacts DEF StartShape, Takes, At, EntryPc
    <3> QED
      BY <1>1, <1>w, <3>0, <3>1, <3>2
         DEF DriverShape, ChooseShape, SkipShape, ClaimShape, OkShape, Writes,
             SaveShape, CompleteShape, ErrShape, Claims, Accepted, Rejected, Releases, Abandons
  <2>3. \A e \in Driver :
          drv'[e].pc \in {"chosen", "loop", "invoke", "release"} => e \in Worker
    BY <1>w, <2>1, <2>2 DEF SettledInv
  <2> QED BY <1>1, <1>w, <2>3, HeldStep
<1>2. ASSUME UNCHANGED <<drv, barriers, acked>>
      PROVE  /\ \A d \in Driver :
                  drv'[d].pc \in {"chosen", "loop", "invoke", "release"} =>
                    d \in Worker
             /\ Held'
  BY <1>2, <1>w, HeldIdle DEF SettledInv
<1> QED
  BY <1>1, <1>2, StepCases DEF RegisterBranch, Expire, vars

(* A driver that passes over a key only when it was accepted.              *)
LEMMA PassedDriver ==
  ASSUME CoreInv, ControlInv, Passed, NEW d \in Driver, DriverShape(d),
         SkipShape(d) => DriverKey(d) \in acked
  PROVE  Passed'
<1> DEFINE Behind(s) ==
             s.pc \in {"loop", "invoke", "release"} =>
               \A i \in 1..Len(s.tx.ids) :
                 i < s.pos => <<s.tx.ids[i], s.op>> \in acked'
<1> SUFFICES ASSUME NEW e \in Driver PROVE Behind(drv'[e])
  BY DEF Passed
<1>t. drv \in [Driver -> DriverState]
  BY DEF CoreInv, TypeOK
<1>a. acked \subseteq acked'
  BY XaShaped, ShapedFacts
<1>o. Behind(drv[e])
  BY <1>a DEF Passed
<1>0. PICK s : Puts(d, s)
  BY XaShaped, ShapedFacts
<1>1. CASE e # d
  BY <1>t, <1>o, <1>0, <1>1, PutsFacts
<1> DEFINE ids == drv[d].tx.ids
           op == drv[d].op
           pos == drv[d].pos
<1>f. /\ ids \in Seq(Branch) /\ Len(ids) \in Nat /\ pos \in Nat /\ pos >= 1
  BY DEF CoreInv, TypeOK, PositionInv, DriverState, Transaction
<1>2. CASE drv'[d].pc \notin {"loop", "invoke", "release"} \/ drv'[d].pos = 1
  <2>1. CASE drv'[d].pos = 1
    BY <2>1, <1>1
  <2> QED BY <1>1, <1>2, <2>1
<1>3. ASSUME drv[d].pc \in {"loop", "invoke", "release"},
             drv'[d].op = op, drv'[d].tx.ids = ids,
             \/ drv'[d].pos = pos
             \/ /\ drv'[d].pos = pos + 1 /\ pos <= Len(ids)
                /\ DriverKey(d) \in acked'
      PROVE  Behind(drv'[d])
  <2>1. DriverKey(d) = <<ids[pos], op>>
    BY <1>3 DEF DriverKey, Current, Backwards, BarrierOp, ControlInv
  <2>2. \A i \in 1..Len(ids) : i < pos => <<ids[i], op>> \in acked'
    BY <1>3, <1>a DEF Passed
  <2> HIDE DEF ids, op, pos
  <2>3. ASSUME NEW i \in 1..Len(ids), i < drv'[d].pos
        PROVE  <<ids[i], op>> \in acked'
    BY <1>f, <1>3, <2>1, <2>2, <2>3
  <2> QED BY <1>3, <2>3
<1>4. CASE SkipShape(d)
  <2>1. /\ Puts(d, At("loop", op, pos + 1, drv[d].tx)) /\ acked' = acked
        /\ drv[d].pc = "loop" /\ pos <= Len(ids)
    BY <1>4 DEF SkipShape, Moves, MoreBranches
  <2>2. /\ drv'[d].op = op /\ drv'[d].tx.ids = ids /\ drv'[d].pos = pos + 1
    BY <1>t, <2>1, PutsFacts DEF At
  <2> QED BY <1>1, <1>3, <1>4, <2>1, <2>2
<1>5. CASE OkShape(d)
  <2>1. PICK t : Accepted(d, "loop", drv[d].pos + 1, t)
    BY <1>5 DEF OkShape
  <2>2. /\ drv'[d].op = op /\ drv'[d].tx.ids = ids /\ drv'[d].pos = pos + 1
    BY <1>t, <2>1, PutsFacts DEF At, Accepted, OwnCopyOf
  <2>3. drv[d].pc = "invoke" /\ pos <= Len(ids) /\ DriverKey(d) \in acked'
    BY <2>1 DEF Accepted, CoreInv, PositionInv, MoreBranches, InFlight
  <2> QED BY <1>1, <1>3, <2>2, <2>3
<1>6. CASE ClaimShape(d)
  <2>1. PICK t : Claims(d, t)
    BY <1>6 DEF ClaimShape
  <2>2. /\ drv'[d].op = op /\ drv'[d].tx.ids = ids /\ drv'[d].pos = pos
        /\ drv[d].pc = "loop"
    BY <1>t, <2>1, PutsFacts DEF At, Claims, OwnCopyOf
  <2> QED BY <1>1, <1>3, <2>2
<1>7. CASE ErrShape(d)
  <2>1. PICK t : Rejected(d, "release", t)
    BY <1>7 DEF ErrShape
  <2>2. /\ drv'[d].op = op /\ drv'[d].tx.ids = ids /\ drv'[d].pos = pos
        /\ drv[d].pc = "invoke"
    BY <1>t, <2>1, PutsFacts DEF At, Rejected, OwnCopyOf
  <2> QED BY <1>1, <1>3, <2>2
<1>8. CASE StartShape(d) \/ RequestShape(d) \/ ChooseShape(d)
  <2>1. PICK o, pc, t : Puts(d, At(pc, o, 1, t))
    BY <1>8 DEF StartShape, RequestShape, ChooseShape, Takes, Chooses
  <2>2. drv'[d].pos = 1
    BY <1>t, <2>1, PutsFacts DEF At
  <2> QED BY <1>2, <2>2
<1>9. CASE Releases(d, drv[d].tx)
  <2>1. drv'[d].pc = "persist"
    BY <1>t, <1>9, PutsFacts DEF Releases, At
  <2> QED BY <1>2, <2>1
<1>10. CASE Puts(d, Idle)
  <2>1. drv'[d].pc = "idle"
    BY <1>t, <1>10, PutsFacts DEF Idle
  <2> QED BY <1>2, <2>1
<1> QED
  BY <1>4, <1>5, <1>6, <1>7, <1>8, <1>9, <1>10
     DEF DriverShape, Ends, SaveShape, CompleteShape, Writes, Abandons

(* With one worker a loop leaves only accepted branches behind.            *)
LEMMA PassedStep ==
  ASSUME OneWorker, CoreInv, ControlInv, SettledInv, PassedInv, [XaNext]_vars
  PROVE  PassedInv'
<1> SUFFICES ASSUME WorkersOnly' PROVE Passed'
  BY DEF PassedInv
<1>w. WorkersOnly /\ Passed
  BY WorkersOnlyKept DEF PassedInv
<1>1. ASSUME NEW d \in Driver, DriverShape(d)
      PROVE  Passed'
  <2>1. ASSUME SkipShape(d)
        PROVE  DriverKey(d) \in acked
    <3>1. drv[d].pc = "loop" /\ DriverKey(d) \in barriers /\ ~InFlight(d)
      BY <2>1 DEF SkipShape, Moves
    <3>2. d \in Worker /\ \A v \in Driver : InFlight(v) => v \in Worker
      BY <1>w, <3>1 DEF SettledInv, InFlight
    <3>3. \A v \in Driver : ~InFlight(v)
      BY <3>1, <3>2 DEF OneWorker
    <3> QED BY <1>w, <3>1, <3>3 DEF SettledInv, Held
  <2> QED BY <1>1, <1>w, <2>1, PassedDriver
<1>2. CASE UNCHANGED <<drv, acked>>
  BY <1>w, <1>2 DEF Passed
<1> QED
  BY <1>1, <1>2, StepCases DEF RegisterBranch, Expire, vars

(* Only a saving or a completing driver changes the record.                *)
LEMMA WhoWrites ==
  ASSUME NEW d \in Driver, DriverShape(d)
  PROVE  \/ tx' = tx /\ acked \subseteq acked'
         \/ SaveShape(d) \/ CompleteShape(d)
<1>1. ChooseShape(d) \/ StartShape(d) \/ RequestShape(d) \/ Ends(d) \/ Abandons(d)
        => tx' = tx /\ acked' = acked
  BY DEF ChooseShape, StartShape, RequestShape, Ends, Chooses, Takes, Moves,
         Abandons
<1>2. SkipShape(d) \/ ClaimShape(d) => tx' = tx /\ acked' = acked
  BY DEF SkipShape, ClaimShape, Moves, Claims
<1>3. OkShape(d) \/ ErrShape(d) \/ Releases(d, drv[d].tx)
        => tx' = tx /\ acked \subseteq acked'
  BY DEF OkShape, ErrShape, Accepted, Rejected, Releases, Ends, Moves
<1> QED BY <1>1, <1>2, <1>3 DEF DriverShape

(* ... and the stored ends are complete.                                   *)
LEMMA EndedStep ==
  ASSUME CoreInv, ControlInv, Passed, Ended, [XaNext]_vars
  PROVE  Ended'
<1> DEFINE Over(status, ids) ==
             \A b \in Members(ids) :
               /\ status = "Succeeded" => <<b, "commit">> \in acked'
               /\ status = "Aborted" => <<b, "rollback">> \in acked'
<1> SUFFICES Over(tx'.status, tx'.ids)
  BY DEF Ended, Members
<1>1. CASE tx' = tx /\ acked \subseteq acked'
  BY <1>1 DEF Ended
<1>2. ASSUME NEW d \in Driver, SaveShape(d), tx' # tx
      PROVE  Over(tx'.status, tx'.ids)
  <2>1. tx' = Bumped(drv[d].tx) /\ drv[d].tx \in Transaction /\ drv[d].pc = "persist"
    BY <1>2 DEF SaveShape, Writes, OwnCopyOf
  <2> QED BY <2>1, Stored DEF ControlInv
<1>3. ASSUME NEW d \in Driver, CompleteShape(d), tx' # tx
      PROVE  Over(tx'.status, tx'.ids)
  <2>1. PICK t : /\ drv[d].pc = "loop" /\ ~MoreBranches(d)
                 /\ t.status = Finished(drv[d].op) /\ Writes(d, t)
    BY <1>3 DEF CompleteShape
  <2>2. tx' = Bumped(t) /\ t \in Transaction /\ t.ids = drv[d].tx.ids
    BY <1>3, <2>1 DEF Writes, OwnCopyOf
  <2>3. tx'.status = Finished(drv[d].op) /\ tx'.ids = drv[d].tx.ids
    BY <2>1, <2>2, Stored
  <2>4. drv[d].op \in {"commit", "rollback"} /\ acked' = acked
    BY <2>1 DEF ControlInv, Writes
  <2>5. \A i \in 1..Len(drv[d].tx.ids) :
          <<drv[d].tx.ids[i], drv[d].op>> \in acked
    <3>1. Len(drv[d].tx.ids) \in Nat /\ drv[d].pos \in Nat
      BY DEF CoreInv, TypeOK, DriverState, Transaction
    <3> QED BY <2>1, <3>1 DEF Passed, MoreBranches
  <2> QED BY <2>3, <2>4, <2>5 DEF Members, Finished
<1>4. CASE \E b \in Branch : RegisterBranch(b, "Pending")
  <2>1. tx'.status \notin {"Succeeded", "Aborted"}
    BY <1>4, RegisterType DEF RegisterBranch, CoreInv, TypeOK, BranchStatus
  <2> QED BY <2>1
<1>5. CASE \E d \in Driver : DriverShape(d)
  <2> PICK d \in Driver : DriverShape(d)
    BY <1>5
  <2>1. SaveShape(d) \/ CompleteShape(d) => acked' = acked
    BY DEF SaveShape, CompleteShape, Writes
  <2> QED BY <1>1, <1>2, <1>3, <2>1, WhoWrites
<1>6. CASE Expire \/ UNCHANGED vars
  BY <1>1, <1>6 DEF Expire, vars
<1> QED BY <1>4, <1>5, <1>6, StepCases

(* With the one worker the recovery lease allows, on every store: as long  *)
(* as only it has called resources, commit_xa stores Succeeded only when   *)
(* every registered resource accepted the commit, and rollback_xa stores   *)
(* Aborted only when every one accepted the rollback.                      *)
THEOREM XaEndsComplete == OneWorker => (Spec => []EndsComplete)
<1> SUFFICES ASSUME OneWorker PROVE Spec => []EndsComplete
  OBVIOUS
<1> DEFINE I == SettledInv /\ PassedInv /\ EndsComplete
<1>1. Init => I
  BY DEF Init, SettledInv, Held, PassedInv, Passed, EndsComplete, Ended, Idle,
         NewTransaction
<1>2. CoreInv /\ ControlInv /\ I /\ [XaNext]_vars => I'
  BY SettledStep, PassedStep, EndedStep, WorkersOnlyKept
     DEF PassedInv, EndsComplete
<1> QED BY <1>1, <1>2, XaTypeCorrect, PTL DEF Spec

-----------------------------------------------------------------------------
(* Stores that check the revision.                                         *)

HasCopy(s) == s.pc \in {"loop", "invoke", "release", "persist"}

(* Copies are fresh or stale.                                              *)
LEMMA CasStep ==
  ASSUME Cas, CoreInv, ControlInv, CasInv, [XaNext]_vars
  PROVE  CasInv'
<1> DEFINE Fresh(s) ==
             /\ s.tx.ids = tx'.ids
             /\ s.op \in XaHandler =>
                  tx'.status \in AllowedFrom(s.op) /\ s.tx.status = Working(s.op)
             /\ s.op \notin XaHandler =>
                  Phase(s.tx.status) \in Lifecycle!Successors(Phase(tx'.status))
           Good(s) == HasCopy(s) =>
                        /\ s.tx.rev <= tx'.rev
                        /\ s.tx.rev = tx'.rev => Fresh(s)
<1> SUFFICES ASSUME NEW e \in Driver PROVE Good(drv'[e])
  BY DEF CasInv, FreshCopy, HasCopy
<1>t. /\ drv \in [Driver -> DriverState] /\ tx.rev \in Nat
      /\ \A d \in Driver : drv[d].tx.rev \in Nat
  BY DEF CoreInv, TypeOK, DriverState, Transaction
<1>o. ASSUME drv'[e] = drv[e], tx' = tx \/ tx'.rev = tx.rev + 1
      PROVE  Good(drv'[e])
  <2>1. CASE tx' = tx
    BY <1>o, <2>1 DEF CasInv, FreshCopy, HasCopy
  <2>2. CASE tx'.rev = tx.rev + 1
    <3>1. HasCopy(drv[e]) => drv[e].tx.rev <= tx.rev
      BY DEF CasInv, HasCopy
    <3>2. HasCopy(drv[e]) => drv[e].tx.rev <= tx'.rev /\ drv[e].tx.rev # tx'.rev
      BY <1>t, <2>2, <3>1
    <3> QED BY <1>o, <3>2
  <2> QED BY <1>o, <2>1, <2>2
<1>1. ASSUME NEW d \in Driver, DriverShape(d)
      PROVE  Good(drv'[e])
  <2>1. CASE e # d
    <3>1. drv'[e] = drv[e]
      BY <1>1, <2>1, XaShaped, ShapedFacts
    <3>2. ASSUME NEW t, Writes(d, t), drv[d].pc \in {"loop", "persist"}
          PROVE  tx' = tx \/ tx'.rev = tx.rev + 1
      BY <3>2, Stored DEF Writes, OwnCopyOf, CanStore
    <3>3. tx' = tx \/ tx'.rev = tx.rev + 1
      BY <1>1, <3>2
         DEF DriverShape, ChooseShape, StartShape, RequestShape, SkipShape,
           ClaimShape, OkShape, ErrShape, SaveShape, CompleteShape, Ends, Moves,
           Claims, Accepted, Rejected, Releases, Abandons, Chooses, Takes
    <3> QED BY <3>1, <3>3, <1>o
  <2>2. ASSUME NEW s, Puts(d, s), ~HasCopy(s)
        PROVE  Good(drv'[d])
    BY <1>t, <2>2, PutsFacts
  <2>3. ASSUME NEW s, Puts(d, s), tx' = tx, HasCopy(drv[d]),
               s.op = drv[d].op, s.tx.rev = drv[d].tx.rev,
               s.tx.ids = drv[d].tx.ids, s.tx.status = drv[d].tx.status
        PROVE  Good(drv'[d])
    <3>1. drv'[d] = s
      BY <1>t, <2>3, PutsFacts
    <3> QED BY <2>3, <3>1 DEF CasInv, FreshCopy, HasCopy
  <2>4. CASE StartShape(d)
    <3>1. PICK op \in XaHandler, t \in Transaction :
            /\ Takes(d, op, EntryPc(op), t)
            /\ tx.status \in AllowedFrom(op) /\ t.status = Working(op)
      BY <2>4 DEF StartShape
    <3>2. /\ drv'[d].op = op /\ drv'[d].tx = t /\ tx' = tx
          /\ t.rev = tx.rev /\ t.ids = tx.ids
      BY <1>t, <3>1, PutsFacts DEF Takes, At
    <3>3. Good(drv'[d])
      BY <1>t, <3>1, <3>2
    <3> QED BY <2>1, <3>3
  <2>5. CASE RequestShape(d)
    <3>1. PICK op \in Handler \ XaHandler, t \in Transaction :
            /\ Takes(d, op, "persist", t)
            /\ Phase(t.status) \in Lifecycle!Successors(Phase(tx.status))
      BY <2>5 DEF RequestShape
    <3>2. /\ drv'[d].op = op /\ drv'[d].tx = t /\ tx' = tx
          /\ t.rev = tx.rev /\ t.ids = tx.ids
      BY <1>t, <3>1, PutsFacts DEF Takes, At
    <3>3. Good(drv'[d])
      BY <1>t, <3>1, <3>2
    <3> QED BY <2>1, <3>3
  <2>6. CASE ChooseShape(d)
    BY <2>1, <2>2, <2>6 DEF ChooseShape, Chooses, At, HasCopy
  <2>7. CASE Puts(d, Idle)
    BY <2>1, <2>2, <2>7 DEF Idle, HasCopy
  <2>8. CASE SkipShape(d)
    BY <2>1, <2>3, <2>8 DEF SkipShape, Moves, At, HasCopy
  <2>9. CASE ClaimShape(d)
    BY <2>1, <2>3, <2>9
       DEF ClaimShape, Claims, At, HasCopy, OwnCopyOf, SameStatus
  <2>10. CASE OkShape(d)
    BY <2>1, <2>3, <2>10
       DEF OkShape, Accepted, At, HasCopy, OwnCopyOf, SameStatus
  <2>11. CASE ErrShape(d)
    BY <2>1, <2>3, <2>11
       DEF ErrShape, Rejected, At, HasCopy, OwnCopyOf, SameStatus
  <2>12. CASE Releases(d, drv[d].tx)
    BY <2>1, <2>3, <2>12 DEF Releases, At, HasCopy
  <2> QED
    BY <1>1, <2>4, <2>5, <2>6, <2>7, <2>8, <2>9, <2>10, <2>11, <2>12
       DEF DriverShape, Ends, SaveShape, CompleteShape, Writes, Abandons
<1>2. CASE \E b \in Branch : RegisterBranch(b, "Pending")
  <2>1. tx'.rev = tx.rev + 1 /\ drv' = drv
    BY <1>2, RegisterType DEF CoreInv, TypeOK, BranchStatus, RegisterBranch
  <2> QED BY <1>o, <2>1
<1>3. CASE Expire \/ UNCHANGED vars
  BY <1>o, <1>3 DEF Expire, vars
<1> QED BY <1>1, <1>2, <1>3, StepCases

(* What a step that changes the record does to it.                         *)
LEMMA RecordStep ==
  ASSUME Cas, CoreInv, ControlInv, CasInv, [XaNext]_vars, tx' # tx
  PROVE  /\ Members(tx.ids) \subseteq Members(tx'.ids)
         /\ Phase(tx'.status) \in Lifecycle!Successors(Phase(tx.status))
<1>0. tx.status \in TransactionStatus
  BY DEF CoreInv, TypeOK, Transaction
<1> USE DEF Phase, Lifecycle!Successors, Lifecycle!Phases
<1>1. ASSUME NEW d \in Driver, NEW t, Writes(d, t)
      PROVE  FreshCopy(d) /\ tx'.ids = tx.ids /\ tx'.status = t.status
  <2>1. tx' = Bumped(t) /\ CanStore(t) /\ OwnCopyOf(d, t)
    BY <1>1 DEF Writes
  <2>2. drv[d].tx.rev = tx.rev /\ drv[d].pc \in {"loop", "persist"}
    BY <1>1, <2>1 DEF CanStore, OwnCopyOf, Writes
  <2>3. FreshCopy(d)
    BY <2>2 DEF CasInv
  <2> QED BY <2>1, <2>3, Stored DEF FreshCopy, OwnCopyOf
<1>2. ASSUME NEW d \in Driver, SaveShape(d)
      PROVE  /\ tx'.ids = tx.ids
             /\ Phase(tx'.status) \in Lifecycle!Successors(Phase(tx.status))
  <2>1. FreshCopy(d) /\ tx'.ids = tx.ids /\ tx'.status = drv[d].tx.status
    BY <1>1, <1>2 DEF SaveShape
  <2> QED BY <1>0, <2>1 DEF FreshCopy, AllowedFrom, Working, XaHandler
<1>3. ASSUME NEW d \in Driver, CompleteShape(d)
      PROVE  /\ tx'.ids = tx.ids
             /\ Phase(tx'.status) \in Lifecycle!Successors(Phase(tx.status))
  <2>1. PICK t : drv[d].pc = "loop" /\ t.status = Finished(drv[d].op) /\ Writes(d, t)
    BY <1>3 DEF CompleteShape
  <2>2. FreshCopy(d) /\ tx'.ids = tx.ids /\ tx'.status = Finished(drv[d].op)
    BY <1>1, <2>1
  <2>3. drv[d].op \in {"commit", "rollback"}
    BY <2>1 DEF ControlInv
  <2> QED
    BY <1>0, <2>2, <2>3 DEF FreshCopy, AllowedFrom, Finished, XaHandler
<1>4. CASE \E b \in Branch : RegisterBranch(b, "Pending")
  <2> PICK b \in Branch : RegisterBranch(b, "Pending")
    BY <1>4
  <2>1. tx'.ids = Append(tx.ids, b) /\ tx'.status = tx.status
    BY RegisterType DEF CoreInv, TypeOK, BranchStatus
  <2>2. tx.ids \in Seq(Branch)
    BY DEF CoreInv, TypeOK, Transaction
  <2>3. Members(tx.ids) \subseteq Members(Append(tx.ids, b))
    BY <2>2, MembersAppend
  <2> QED BY <1>0, <2>1, <2>3
<1>5. \/ \E d \in Driver : SaveShape(d) \/ CompleteShape(d)
      \/ \E b \in Branch : RegisterBranch(b, "Pending")
  BY WhoWrites, StepCases DEF Expire, vars
<1> QED BY <1>2, <1>3, <1>4, <1>5

(* The stored XA transaction implements the abstract lifecycle on a store  *)
(* that checks revisions: commit and rollback are never both decided, and  *)
(* an ended transaction stays as it is.                                    *)
THEOREM XaLifecycle == Cas => (Spec => Lifecycle!Spec)
<1> SUFFICES ASSUME Cas PROVE Spec => Lifecycle!Spec
  OBVIOUS
<1>1. Init => Lifecycle!Init /\ CasInv
  BY DEF Init, NewTransaction, Phase, Lifecycle!Init, CasInv, Idle
<1>2. CoreInv /\ ControlInv /\ CasInv /\ [XaNext]_vars => CasInv'
  BY CasStep
<1>3. CoreInv /\ ControlInv /\ CasInv /\ [XaNext]_vars
      => [Lifecycle!Move]_(Phase(tx.status))
  BY RecordStep DEF Lifecycle!Move
<1> QED BY <1>1, <1>2, <1>3, XaTypeCorrect, PTL DEF Spec, Lifecycle!Spec

(* A handler that is at work after a step was so before, or was chosen by  *)
(* a worker for what the record says.                                      *)
LEMMA ActingStep ==
  ASSUME CoreInv, ControlInv, [XaNext]_vars, WorkersOnly',
         NEW op \in {"commit", "rollback"}, Acting(op)'
  PROVE  Acting(op) \/ (tx' = tx /\ op = TickHandler)
<1>w. ~Spend("call") /\ ~Spend("crash")
  BY WorkersOnlyKept
<1>t. drv \in [Driver -> DriverState]
  BY DEF CoreInv, TypeOK
<1> DEFINE Active(s) == s.op = op /\ s.pc \in {"chosen", "loop", "invoke", "release"}
<1>1. ASSUME NEW d \in Driver, DriverShape(d), ~Acting(op)
      PROVE  tx' = tx /\ op = TickHandler
  <2>1. ~Active(drv[d]) /\ \A key \in effects : key[2] # op
    BY <1>1 DEF Acting
  <2>2. drv[d].pc = "invoke" => DriverKey(d)[2] # op
    <3>1. drv[d].pc = "invoke" => DriverKey(d)[2] = drv[d].op
      BY DEF ControlInv, DriverKey, BarrierOp
    <3> QED BY <2>1, <3>1
  <2>3. \A key \in effects' : key[2] # op
    BY <1>1, <2>1, <2>2, XaShaped, ShapedFacts
  <2>4. Active(drv'[d])
    <3>1. \A e \in Driver : e # d => drv'[e] = drv[e]
      BY <1>1, XaShaped, ShapedFacts
    <3>2. \A e \in Driver : e # d => ~Active(drv'[e])
      BY <1>1, <3>1 DEF Acting
    <3> QED BY <2>3, <3>2 DEF Acting
  <2>5. ASSUME NEW s, Puts(d, s) PROVE Active(s)
    BY <1>t, <2>4, <2>5, PutsFacts
  <2>6. CASE ChooseShape(d)
    BY <1>w, <2>5, <2>6 DEF ChooseShape, Chooses, At
  <2>7. CASE StartShape(d)
    <3>1. PICK o \in XaHandler, t \in Transaction :
            /\ Takes(d, o, EntryPc(o), t)
            /\ \/ drv[d].pc = "chosen" /\ drv[d].op = o
               \/ o = "prepare"
      BY <1>w, <2>7 DEF StartShape
    <3>2. o = op
      BY <2>5, <3>1 DEF Takes, At
    <3> QED BY <2>1, <3>1, <3>2
  <2>8. CASE RequestShape(d)
    BY <2>5, <2>8 DEF RequestShape, Takes, At
  <2>9. CASE SkipShape(d)
    BY <2>1, <2>5, <2>9 DEF SkipShape, Moves, At
  <2>10. CASE ClaimShape(d)
    BY <2>1, <2>5, <2>10 DEF ClaimShape, Claims, At
  <2>11. CASE OkShape(d)
    BY <2>1, <2>5, <2>11 DEF OkShape, Accepted, At
  <2>12. CASE ErrShape(d)
    BY <2>1, <2>5, <2>12 DEF ErrShape, Rejected, At
  <2>13. CASE Releases(d, drv[d].tx)
    BY <2>5, <2>13 DEF Releases, At
  <2>14. CASE Puts(d, Idle)
    BY <2>5, <2>14 DEF Idle
  <2> QED
    BY <1>1, <2>6, <2>7, <2>8, <2>9, <2>10, <2>11, <2>12, <2>13, <2>14
       DEF DriverShape, Ends, SaveShape, CompleteShape, Writes, Abandons
<1>2. CASE UNCHANGED <<drv, effects>>
  BY <1>2 DEF Acting
<1> QED
  BY <1>1, <1>2, StepCases DEF RegisterBranch, Expire, vars

LEMMA DecidedStep ==
  ASSUME Cas, CoreInv, ControlInv, CasInv, DecidedInv, [XaNext]_vars
  PROVE  DecidedInv'
<1> SUFFICES ASSUME WorkersOnly', ~expired'
             PROVE  /\ Acting("commit")' =>
                         tx'.status \in {"Succeeding", "Succeeded", "Failed"}
                    /\ Acting("rollback")' =>
                         tx'.status \in {"Aborting", "Aborted", "Failed"}
                    /\ ~(Acting("commit")' /\ Acting("rollback")')
  BY DEF DecidedInv
<1>1. WorkersOnly
  BY WorkersOnlyKept
<1>2. expired = FALSE
  <2>1. expired' = expired \/ expired' = TRUE
    BY StepCases, XaShaped, ShapedFacts DEF RegisterBranch, Expire, vars
  <2> QED BY <2>1 DEF CoreInv, TypeOK
<1>3. tx.status \in TransactionStatus /\ tx'.status \in TransactionStatus
  BY CoreStep DEF CoreInv, TypeOK, Transaction
<1>4. /\ tx.status \in {"Succeeding", "Succeeded", "Failed"} =>
           tx'.status \in {"Succeeding", "Succeeded", "Failed"}
      /\ tx.status \in {"Aborting", "Aborted", "Failed"} =>
           tx'.status \in {"Aborting", "Aborted", "Failed"}
  BY <1>3, RecordStep
     DEF TransactionStatus, Phase, Lifecycle!Successors, Lifecycle!Phases
<1>5. /\ "commit" = TickHandler => tx.status = "Succeeding"
      /\ "rollback" = TickHandler => tx.status = "Aborting"
  BY <1>2 DEF TickHandler
<1>6. /\ Acting("commit") => tx.status \in {"Succeeding", "Succeeded", "Failed"}
      /\ Acting("rollback") => tx.status \in {"Aborting", "Aborted", "Failed"}
      /\ ~(Acting("commit") /\ Acting("rollback"))
  BY <1>1, <1>2 DEF DecidedInv
<1>7. /\ Acting("commit")' =>
           Acting("commit") \/ (tx' = tx /\ tx.status = "Succeeding")
      /\ Acting("rollback")' =>
           Acting("rollback") \/ (tx' = tx /\ tx.status = "Aborting")
  BY <1>5, ActingStep
<1> HIDE DEF Acting
<1> QED BY <1>4, <1>6, <1>7

(* On a store that checks revisions, for any number of workers and         *)
(* requests: while only workers have called resources and the timeout has  *)
(* not elapsed, commit_xa and rollback_xa never both reach a resource.     *)
THEOREM XaExclusiveHolds == Cas => (Spec => []XaExclusive)
<1> SUFFICES ASSUME Cas PROVE Spec => []XaExclusive
  OBVIOUS
<1>1. Init => CasInv /\ DecidedInv
  BY DEF Init, CasInv, DecidedInv, Acting, Idle
<1>2. CoreInv /\ ControlInv /\ CasInv /\ DecidedInv /\ [XaNext]_vars
      => CasInv' /\ DecidedInv'
  BY CasStep, DecidedStep
<1>3. DecidedInv => XaExclusive
  BY DEF DecidedInv, XaExclusive, XaAtomic, Acting, Committed, RolledBack
<1> QED BY <1>1, <1>2, <1>3, XaTypeCorrect, PTL DEF Spec

-----------------------------------------------------------------------------
(* The resource managers and their operators.                              *)

(* Explained, in the next state.                                           *)
WillExplain(b) == b \in called' /\ (resource'[b] # "prepared" \/ b \in late')

(* A step that prepares nothing, or records that it came late, leaves      *)
(* every branch as explained as it was.                                    *)
LEMMA StaysExplained ==
  ASSUME called \subseteq called', late \subseteq late',
         \A b \in Branch : resource'[b] = "prepared" =>
           resource[b] = "prepared" \/ (b \in called => b \in late')
  PROVE  \A b \in Branch : Explained(b) => WillExplain(b)
BY DEF Explained, WillExplain

(* A step of the coordinator or of a process.                              *)
LEMMA RowsKept ==
  ASSUME DecisionInv, UNCHANGED <<decisions, operator, settled>>, RmTypeOK',
         \A b \in Branch : Explained(b) => WillExplain(b)
  PROVE  DecisionInv'
<1>1. RowsInv'
  <2> SUFFICES ASSUME NEW i \in Decision
               PROVE  /\ decisions[i] # NoDecision => decisions[i].branch \in Branch
                      /\ \A j \in Decision \ {i} : decisions[i] # NoDecision =>
                           decisions[i].branch # decisions[j].branch
                      /\ decisions[i].status = "applied" => i \in settled
                      /\ Completed(decisions[i]) => WillExplain(decisions[i].branch)
    BY DEF RowsInv, Completed, Explained, WillExplain
  <2>1. Completed(decisions[i]) => decisions[i].branch \in Branch
    BY DEF Completed, DecisionInv, RowsInv, NoDecision
  <2> QED BY <2>1 DEF DecisionInv, RowsInv
<1>2. OperatorsInv'
  BY DEF DecisionInv, OperatorsInv, Completed, Explained, WillExplain
<1> QED BY <1>1, <1>2 DEF DecisionInv

(* resolve.                                                                *)
LEMMA ResolveKeeps ==
  ASSUME DecisionInv, NEW b, NEW phase, Resolve(b, phase), late' = late
  PROVE  /\ resource' \in [Branch -> ResourceState]
         /\ \A c \in Branch : Explained(c) => WillExplain(c)
         /\ b \in Branch => WillExplain(b)
<1>1. resource \in [Branch -> ResourceState]
  BY DEF DecisionInv, RmTypeOK
<1>2. resource' \in [Branch -> ResourceState]
  BY <1>1 DEF Resolve, ResourceState
<1>3. \A c \in Branch : resource'[c] = "prepared" => resource[c] = "prepared"
  BY <1>1 DEF Resolve
<1>4. \A c \in Branch : Explained(c) => WillExplain(c)
  BY <1>3, StaysExplained DEF Resolve
<1>5. b \in Branch => resource'[b] # "prepared"
  BY <1>1 DEF Resolve
<1> QED BY <1>2, <1>4, <1>5 DEF Resolve, Explained, WillExplain

LEMMA ProcExplains ==
  ASSUME DecisionInv, NEW p \in Proc, ProcStep(p)
  PROVE  \A b \in Branch : Explained(b) => WillExplain(b)
<1>t. resource \in [Branch -> ResourceState]
  BY DEF DecisionInv, RmTypeOK
<1>u. called' = called
  BY DEF ProcStep, StartBranch, RegisterXaBranch, PrepareLocal, LocalFails
<1>1. CASE PrepareLocal(p)
  <2>1. \A b \in Branch : resource'[b] = "prepared" =>
          resource[b] = "prepared" \/ b = proc[p].branch
    BY <1>t, <1>1 DEF PrepareLocal
  <2>2. late \subseteq late' /\ (proc[p].branch \in called =>
                                   proc[p].branch \in late')
    BY <1>1 DEF PrepareLocal
  <2> QED BY <1>u, <2>1, <2>2, StaysExplained
<1>2. CASE ~PrepareLocal(p)
  <2>1. late' = late
    BY <1>2 DEF ProcStep, StartBranch, RegisterXaBranch, LocalFails
  <2>2. \A b \in Branch : resource'[b] = "prepared" => resource[b] = "prepared"
    BY <1>t, <1>2 DEF ProcStep, StartBranch, RegisterXaBranch, LocalFails, Cleanup
  <2> QED BY <1>u, <2>1, <2>2, StaysExplained
<1> QED BY <1>1, <1>2

LEMMA ProcKeeps ==
  ASSUME DecisionInv, NEW p \in Proc, ProcStep(p)
  PROVE  DecisionInv'
<1>t. /\ resource \in [Branch -> ResourceState]
      /\ proc \in [Proc -> [pc : {"idle", "register", "prepare", "done"},
                            branch : Branch \cup {"none"}]]
  BY DEF DecisionInv, RmTypeOK
<1>u. UNCHANGED <<decisions, operator, settled, called>>
  BY DEF ProcStep, StartBranch, RegisterXaBranch, PrepareLocal, LocalFails
<1>1. proc' \in [Proc -> [pc : {"idle", "register", "prepare", "done"},
                          branch : Branch \cup {"none"}]]
  BY <1>t DEF ProcStep, StartBranch, RegisterXaBranch, PrepareLocal, LocalFails,
              Cleanup
<1>2. resource' \in [Branch -> ResourceState]
  BY <1>t DEF ProcStep, StartBranch, RegisterXaBranch, PrepareLocal, LocalFails,
              Cleanup, ResourceState
<1>3. \A b \in Branch : Explained(b) => WillExplain(b)
  BY ProcExplains
<1>4. RmTypeOK'
  BY <1>1, <1>2, <1>u DEF DecisionInv, RmTypeOK
<1> QED BY <1>3, <1>4, <1>u, RowsKept

LEMMA CoordinatorKeeps ==
  ASSUME DecisionInv, NEW d \in Driver,
         CoordinatorStep(d) \/ PhaseTwoOk(d) \/ PhaseTwoErr(d)
  PROVE  DecisionInv'
<1>1. UNCHANGED <<proc, decisions, operator, settled, late>>
  BY DEF CoordinatorStep, rmVars, PhaseTwoOk, PhaseTwoErr
<1>2. \/ UNCHANGED <<resource, called>>
      \/ \E b, phase : Resolve(b, phase)
  BY DEF CoordinatorStep, rmVars, PhaseTwoOk, PhaseTwoErr
<1>3. /\ resource' \in [Branch -> ResourceState]
      /\ \A b \in Branch : Explained(b) => WillExplain(b)
  BY <1>1, <1>2, ResolveKeeps DEF DecisionInv, RmTypeOK, Explained, WillExplain
<1>4. RmTypeOK'
  BY <1>1, <1>3 DEF DecisionInv, RmTypeOK
<1> QED BY <1>1, <1>3, <1>4, RowsKept

OperatorState ==
  [pc : {"idle", "report", "intent", "compare", "resolve", "finish", "done"},
   prepared : SUBSET Branch, id : Decision \cup {"none"},
   request : DecisionRecord]

(* What OperatorsInv says of one operator in state q.                      *)
Sound(q) ==
  /\ q.pc \in {"intent", "compare", "resolve", "finish"} =>
       q.id \in Decision /\ q.request.branch \in Branch
  /\ q.pc = "intent" => q.request.status = "requested"
  /\ q.pc \in {"resolve", "finish"} => decisions[q.id].branch = q.request.branch
  /\ q.pc = "finish" /\ Completed(q.request) => Explained(q.request.branch)
  /\ q.pc = "finish" /\ q.request.status = "applied" => q.id \in settled

(* Sound, in the next state.                                               *)
WillSound(q) ==
  /\ q.pc \in {"intent", "compare", "resolve", "finish"} =>
       q.id \in Decision /\ q.request.branch \in Branch
  /\ q.pc = "intent" => q.request.status = "requested"
  /\ q.pc \in {"resolve", "finish"} =>
       decisions'[q.id].branch = q.request.branch
  /\ q.pc = "finish" /\ Completed(q.request) => WillExplain(q.request.branch)
  /\ q.pc = "finish" /\ q.request.status = "applied" => q.id \in settled'

(* One operator moves, and the rows stay with their branches.              *)
LEMMA OperatorMoves ==
  ASSUME DecisionInv, NEW o \in Operator, NEW q \in OperatorState,
         operator' = [operator EXCEPT ![o] = q], proc' = proc,
         resource' \in [Branch -> ResourceState],
         decisions' \in [Decision -> DecisionRecord],
         settled \subseteq settled', RowsInv',
         \A b \in Branch : Explained(b) => WillExplain(b),
         \A i \in Decision :
           decisions[i].branch \in Branch => decisions'[i].branch = decisions[i].branch,
         WillSound(q)
  PROVE  DecisionInv'
<1>t. operator \in [Operator -> OperatorState]
  BY DEF DecisionInv, RmTypeOK, OperatorState
<1>1. /\ operator' \in [Operator -> OperatorState] /\ operator'[o] = q
      /\ \A e \in Operator : e # o => operator'[e] = operator[e]
  BY <1>t
<1>2. RmTypeOK'
  BY <1>1 DEF DecisionInv, RmTypeOK, OperatorState
<1>3. OperatorsInv'
  <2> SUFFICES ASSUME NEW e \in Operator
               PROVE  WillSound(operator'[e])
    BY DEF OperatorsInv, WillSound, WillExplain, Completed, Explained
  <2>1. CASE e = o
    BY <1>1, <2>1 DEF Sound, WillSound, Completed
  <2>2. CASE e # o
    <3>1. operator'[e] = operator[e]
      BY <1>1, <2>2
    <3>2. Sound(operator[e])
      BY DEF DecisionInv, OperatorsInv, Sound, WillSound
    <3> QED BY <3>1, <3>2 DEF Sound, WillSound, Completed
  <2> QED BY <2>1, <2>2
<1> QED BY <1>2, <1>3 DEF DecisionInv

LEMMA OperatorKeeps ==
  ASSUME DecisionInv, NEW o \in Operator, OperatorStep(o)
  PROVE  DecisionInv'
<1>t. /\ operator \in [Operator -> OperatorState] /\ operator[o] \in OperatorState
      /\ resource \in [Branch -> ResourceState]
      /\ decisions \in [Decision -> DecisionRecord]
  BY DEF DecisionInv, RmTypeOK, OperatorState
<1>s. Sound(operator[o])
  BY DEF DecisionInv, OperatorsInv, Sound, WillSound
<1>n. NoDecision \in DecisionRecord /\ IdleOperator \in OperatorState
  BY DEF NoDecision, DecisionRecord, IdleOperator, OperatorState
<1>p. proc' = proc
  BY DEF OperatorStep, ReadPrepared, ActOnReport, RecordIntent, CompareIntent,
         ResolveHeuristically, FinishDecision
(* Nothing but the operator changes.                                       *)
<1>q. ASSUME NEW q \in OperatorState, operator' = [operator EXCEPT ![o] = q],
             UNCHANGED <<resource, decisions, called, late, settled>>,
             Sound(q)
      PROVE  DecisionInv'
  <2>1. RowsInv' /\ \A b \in Branch : Explained(b) => WillExplain(b)
    BY <1>q DEF DecisionInv, RowsInv, Completed, Explained, WillExplain
  <2>2. Completed(q.request) /\ q.pc = "finish" => WillExplain(q.request.branch)
    BY <1>q, <2>1 DEF Sound, WillSound
  <2> QED BY <1>p, <1>q, <1>t, <2>1, <2>2, OperatorMoves DEF Sound, WillSound
<1>d. ASSUME Done(o), UNCHANGED <<resource, decisions, called, late, settled>>
      PROVE  DecisionInv'
  <2> DEFINE q == [IdleOperator EXCEPT !.pc = "done"]
  <2>1. q \in OperatorState /\ q.pc = "done"
    BY DEF IdleOperator, OperatorState, NoDecision, DecisionRecord
  <2>2. operator' = [operator EXCEPT ![o] = q]
    BY <1>d DEF Done
  <2> HIDE DEF q
  <2> QED BY <1>d, <1>q, <2>1, <2>2 DEF Sound, WillSound
<1>1. CASE ReadPrepared(o)
  <2> DEFINE q == [IdleOperator EXCEPT !.pc = "report",
                     !.prepared = {b \in Branch : resource[b] = "prepared"}]
  <2>1. q \in OperatorState /\ q.pc = "report"
    BY DEF IdleOperator, OperatorState, NoDecision, DecisionRecord
  <2>2. operator' = [operator EXCEPT ![o] = q]
    BY <1>1 DEF ReadPrepared
  <2> HIDE DEF q
  <2> QED BY <1>1, <1>q, <2>1, <2>2 DEF Sound, WillSound, ReadPrepared
<1>2. ASSUME NEW i \in Decision, NEW b \in Branch, NEW phase \in Phase2,
             ActOnReport(o, i, b, phase)
      PROVE  DecisionInv'
  <2> DEFINE q == [IdleOperator EXCEPT !.pc = "intent", !.id = i,
                     !.request = [branch |-> b, phase |-> phase,
                                  status |-> "requested"]]
  <2>1. /\ q \in OperatorState /\ q.pc = "intent" /\ q.id = i
        /\ q.request.branch = b /\ q.request.status = "requested"
    BY <1>2 DEF IdleOperator, OperatorState, NoDecision, DecisionRecord
  <2>2. operator' = [operator EXCEPT ![o] = q]
    BY <1>2 DEF ActOnReport
  <2> HIDE DEF q
  <2> QED BY <1>2, <1>q, <2>1, <2>2 DEF Sound, WillSound, ActOnReport
<1>4. CASE CompareIntent(o)
  <2>1. CASE Done(o)
    BY <1>4, <1>d, <2>1 DEF CompareIntent
  <2>2. CASE ~Done(o)
    <3> DEFINE q == [operator[o] EXCEPT !.pc = "resolve"]
    <3>1. /\ ~Conflicting(operator[o].id, operator[o].request)
          /\ Pending(decisions[operator[o].id])
          /\ operator' = [operator EXCEPT ![o] = q]
          /\ UNCHANGED <<resource, decisions, called, late, settled>>
          /\ operator[o].pc = "compare"
      BY <1>4, <1>t, <2>2 DEF CompareIntent
    <3>2. /\ q \in OperatorState /\ q.pc = "resolve" /\ q.id = operator[o].id
          /\ q.request = operator[o].request
      BY <1>t DEF OperatorState
    <3>3. q.id \in Decision /\ q.request.branch \in Branch
      BY <1>s, <3>1, <3>2 DEF Sound, WillSound
    <3>4. decisions[q.id].branch = q.request.branch
      BY <3>1, <3>2, <3>3 DEF Conflicting, Pending, NoDecision
    <3> HIDE DEF q
    <3> QED BY <1>q, <3>1, <3>2, <3>3, <3>4 DEF Sound, WillSound
  <2> QED BY <2>1, <2>2
<1>3. CASE RecordIntent(o)
  <2> DEFINE q == [operator[o] EXCEPT !.pc = "compare"]
             i == operator[o].id
             rec == operator[o].request
  <2>1. /\ q \in OperatorState /\ q.pc = "compare" /\ q.id = i /\ q.request = rec
        /\ operator' = [operator EXCEPT ![o] = q]
        /\ UNCHANGED <<resource, called, late, settled>>
    BY <1>3, <1>t DEF OperatorState, RecordIntent
  <2>2. /\ i \in Decision /\ rec.branch \in Branch /\ rec.status = "requested"
        /\ rec \in DecisionRecord
    BY <1>3, <1>s, <1>t DEF RecordIntent, Sound, WillSound, OperatorState
  <2>3. \/ decisions' = decisions
        \/ /\ decisions[i] = NoDecision
           /\ \A j \in Decision : decisions[j].branch # rec.branch
           /\ decisions' = [decisions EXCEPT ![i] = rec]
    BY <1>3 DEF RecordIntent
  <2> HIDE DEF q, i, rec
  <2>4. CASE decisions' = decisions
    BY <1>q, <2>1, <2>2, <2>4 DEF Sound, WillSound
  <2>5. CASE /\ decisions[i] = NoDecision
             /\ \A j \in Decision : decisions[j].branch # rec.branch
             /\ decisions' = [decisions EXCEPT ![i] = rec]
    <3>1. /\ decisions' \in [Decision -> DecisionRecord] /\ decisions'[i] = rec
          /\ \A j \in Decision : j # i => decisions'[j] = decisions[j]
      BY <1>t, <2>2, <2>5
    <3>2. \A b \in Branch : Explained(b) => WillExplain(b)
      BY <2>1 DEF Explained, WillExplain
    <3>3. RowsInv'
      <4> SUFFICES ASSUME NEW j \in Decision
                   PROVE  /\ decisions'[j] # NoDecision =>
                               decisions'[j].branch \in Branch
                          /\ \A k \in Decision \ {j} : decisions'[j] # NoDecision =>
                               decisions'[j].branch # decisions'[k].branch
                          /\ decisions'[j].status = "applied" => j \in settled'
                          /\ Completed(decisions'[j]) =>
                               WillExplain(decisions'[j].branch)
        BY DEF RowsInv, Completed, Explained, WillExplain
      <4>1. CASE j = i
        BY <2>2, <2>5, <3>1, <4>1 DEF Completed
      <4>2. CASE j # i
        <5>1. decisions'[j] = decisions[j]
          BY <3>1, <4>2
        <5>2. decisions[j] # NoDecision => decisions[j].branch \in Branch
          BY DEF DecisionInv, RowsInv
        <5>3. Completed(decisions[j]) => decisions[j].branch \in Branch
          BY <5>2 DEF Completed, NoDecision
        <5>4. decisions[j].branch # rec.branch
          BY <2>5
        <5> QED
          BY <2>1, <3>1, <3>2, <5>1, <5>2, <5>3, <5>4 DEF DecisionInv, RowsInv
      <4> QED BY <4>1, <4>2
    <3>4. \A j \in Decision : decisions[j].branch \in Branch =>
            decisions'[j].branch = decisions[j].branch
      BY <2>5, <3>1, XaResourceAssumption DEF NoDecision
    <3> QED BY <1>p, <1>t, <2>1, <2>2, <3>1, <3>2, <3>3, <3>4, OperatorMoves DEF WillSound
  <2> QED BY <2>3, <2>4, <2>5
<1>5. CASE ResolveHeuristically(o)
  <2> DEFINE i == operator[o].id
             rec == operator[o].request
  <2>1. /\ i \in Decision /\ rec.branch \in Branch
        /\ decisions[i].branch = rec.branch /\ rec \in DecisionRecord
        /\ decisions' = decisions /\ late' = late
    BY <1>5, <1>s, <1>t DEF ResolveHeuristically, Sound, WillSound, OperatorState
  <2>2. ASSUME NEW status \in {"applied", "already_resolved", "failed"},
               operator' = [operator EXCEPT ![o].pc = "finish",
                                            ![o].request.status = status],
               settled \subseteq settled', status = "applied" => i \in settled',
               resource' \in [Branch -> ResourceState],
               \A b \in Branch : Explained(b) => WillExplain(b),
               status # "failed" => WillExplain(rec.branch)
        PROVE  DecisionInv'
    <3> DEFINE q == [operator[o] EXCEPT !.pc = "finish", !.request.status = status]
    <3>1. /\ q.pc = "finish" /\ q.id = i /\ q.request.branch = rec.branch
          /\ q.request.status = status /\ q \in OperatorState
      BY <1>t, <2>1, <2>2 DEF OperatorState, DecisionRecord
    <3>2. operator' = [operator EXCEPT ![o] = q]
      BY <1>t, <2>2 DEF OperatorState
    <3> HIDE DEF q, i, rec
    <3>3. RowsInv'
      <4> SUFFICES ASSUME NEW j \in Decision
                   PROVE  /\ decisions[j] # NoDecision =>
                               decisions[j].branch \in Branch
                          /\ \A k \in Decision \ {j} : decisions[j] # NoDecision =>
                               decisions[j].branch # decisions[k].branch
                          /\ decisions[j].status = "applied" => j \in settled'
                          /\ Completed(decisions[j]) =>
                               WillExplain(decisions[j].branch)
        BY <2>1 DEF RowsInv, Completed, Explained, WillExplain
      <4>1. Completed(decisions[j]) => decisions[j].branch \in Branch
        BY DEF Completed, NoDecision, DecisionInv, RowsInv
      <4> QED BY <2>2, <4>1 DEF DecisionInv, RowsInv
    <3>4. Completed(q.request) => WillExplain(q.request.branch)
      BY <2>2, <3>1 DEF Completed, Explained, WillExplain
    <3>5. WillSound(q)
      BY <2>1, <2>2, <3>1, <3>4 DEF WillSound
    <3> QED BY <1>p, <1>t, <2>1, <2>2, <3>1, <3>2, <3>3, <3>5, OperatorMoves
  <2>3. CASE Resolve(rec.branch, rec.phase)
             /\ settled' = (IF resource[rec.branch] = "prepared" THEN settled \cup {i}
                            ELSE settled)
             /\ \E status \in {Outcome(rec.branch), "failed"} :
                  operator' = [operator EXCEPT ![o].pc = "finish",
                                               ![o].request.status = status]
    <3>1. /\ resource' \in [Branch -> ResourceState]
          /\ \A b \in Branch : Explained(b) => WillExplain(b)
          /\ WillExplain(rec.branch)
      BY <2>1, <2>3, ResolveKeeps
    <3>2. PICK status \in {Outcome(rec.branch), "failed"} :
                  operator' = [operator EXCEPT ![o].pc = "finish",
                                               ![o].request.status = status]
      BY <2>3
    <3>3. /\ status \in {"applied", "already_resolved", "failed"}
          /\ status = "applied" => i \in settled'
          /\ settled \subseteq settled'
      BY <2>3, <3>2 DEF Outcome
    <3> QED BY <2>2, <3>1, <3>2, <3>3
  <2>4. CASE /\ operator' = [operator EXCEPT ![o].pc = "finish",
                                             ![o].request.status = "failed"]
             /\ UNCHANGED <<resource, called, settled>>
    <3>1. \A b \in Branch : Explained(b) => WillExplain(b)
      BY <2>1, <2>4 DEF Explained, WillExplain
    <3> QED BY <1>t, <2>2, <2>4, <3>1
  <2> QED BY <1>5, <2>3, <2>4 DEF ResolveHeuristically
<1>6. CASE FinishDecision(o)
  <2> DEFINE q == [IdleOperator EXCEPT !.pc = "done"]
             i == operator[o].id
             rec == operator[o].request
  <2>1. /\ i \in Decision /\ rec.branch \in Branch
        /\ decisions[i].branch = rec.branch /\ rec \in DecisionRecord
        /\ Completed(rec) => Explained(rec.branch)
        /\ rec.status = "applied" => i \in settled
    BY <1>6, <1>s, <1>t DEF FinishDecision, Sound, WillSound, OperatorState
  <2>2. /\ q \in OperatorState /\ q.pc = "done"
        /\ operator' = [operator EXCEPT ![o] = q]
        /\ decisions' = [decisions EXCEPT ![i].status = rec.status]
        /\ UNCHANGED <<resource, called, late, settled>>
    BY <1>6, <1>n DEF IdleOperator, OperatorState, FinishDecision, Done
  <2> HIDE DEF q, i, rec
  <2>3. /\ decisions' \in [Decision -> DecisionRecord]
        /\ decisions'[i].status = rec.status
        /\ \A j \in Decision : /\ decisions'[j].branch = decisions[j].branch
                               /\ j # i => decisions'[j] = decisions[j]
    BY <1>t, <2>1, <2>2 DEF DecisionRecord
  <2>4. decisions[i] # NoDecision
    BY <2>1, XaResourceAssumption DEF NoDecision
  <2>5. \A b \in Branch : Explained(b) => WillExplain(b)
    BY <2>2 DEF Explained, WillExplain
  <2>6. RowsInv'
    <3> SUFFICES ASSUME NEW j \in Decision
                 PROVE  /\ decisions'[j] # NoDecision =>
                             decisions'[j].branch \in Branch
                        /\ \A k \in Decision \ {j} : decisions'[j] # NoDecision =>
                             decisions'[j].branch # decisions'[k].branch
                        /\ decisions'[j].status = "applied" => j \in settled'
                        /\ Completed(decisions'[j]) =>
                             WillExplain(decisions'[j].branch)
      BY DEF RowsInv, Completed, Explained, WillExplain
    <3>1. CASE j = i
      BY <2>1, <2>2, <2>3, <2>4, <2>5, <3>1
         DEF Completed, DecisionInv, RowsInv
    <3>2. CASE j # i
      <4>1. decisions'[j] = decisions[j]
        BY <2>3, <3>2
      <4>2. Completed(decisions[j]) => decisions[j].branch \in Branch
        BY DEF Completed, NoDecision, DecisionInv, RowsInv
      <4>3. /\ decisions[j] # NoDecision => decisions[j].branch \in Branch
            /\ \A k \in Decision \ {j} : decisions[j] # NoDecision =>
                 decisions[j].branch # decisions[k].branch
            /\ decisions[j].status = "applied" => j \in settled
            /\ Completed(decisions[j]) => Explained(decisions[j].branch)
        BY DEF DecisionInv, RowsInv
      <4> QED BY <2>2, <2>3, <2>5, <4>1, <4>2, <4>3
    <3> QED BY <3>1, <3>2
  <2> QED BY <1>p, <1>t, <2>2, <2>3, <2>5, <2>6, OperatorMoves DEF WillSound
<1> QED
  BY <1>1, <1>2, <1>3, <1>4, <1>5, <1>6 DEF OperatorStep

LEMMA DecisionInitial == RmInit => DecisionInv
BY DEF RmInit, DecisionInv, RmTypeOK, RowsInv, OperatorsInv, ResourceState,
       IdleProc, NoDecision, IdleOperator, DecisionRecord, Completed

LEMMA DecisionStep ==
  ASSUME DecisionInv, [RmNext]_xaVars
  PROVE  DecisionInv'
<1>1. CASE UNCHANGED rmVars
  BY <1>1, RowsKept DEF rmVars, DecisionInv, RmTypeOK, Explained, WillExplain
<1>2. CASE RmNext
  BY <1>1, <1>2, CoordinatorKeeps, ProcKeeps, OperatorKeeps DEF RmNext
<1> QED BY <1>1, <1>2 DEF xaVars

(* Whatever operators race, stop or repeat a decision, and whatever the    *)
(* coordinator and the processes do meanwhile: a branch has at most one    *)
(* decision, one stored as applied resolved its branch, and after a        *)
(* completed one the branch is prepared only if it was prepared later.     *)
THEOREM DecisionsHonestHolds == RmSpec => []DecisionsHonest
<1>1. DecisionInv => DecisionsHonest
  BY DEF DecisionInv, RowsInv, DecisionsHonest, Completed, Explained, WillExplain
<1> QED BY <1>1, DecisionInitial, DecisionStep, PTL DEF RmSpec


-----------------------------------------------------------------------------
(* The completeness of the ends.                                           *)

(* A worker chooses the handler of the record.                             *)
TickShape(d) ==
  /\ d \in Worker /\ TickHandler \in XaHandler
  /\ Chooses(d, TickHandler) /\ budget' = budget

(* xa_global_transaction starts a handler.                                 *)
CallShape(d) ==
  \E op \in XaHandler, t \in Transaction :
    /\ Takes(d, op, EntryPc(op), t)
    /\ tx.status \in AllowedFrom(op) /\ t.status = Working(op)
    /\ \/ op = "prepare" /\ Spend("request")
       \/ op # "prepare" /\ Spend("call")
    /\ op = "commit" => ready = Branch

RmShape(d) == TickShape(d) \/ CallShape(d) \/ LoopShape(d)

LEMMA RmShapes ==
  ASSUME CoreInv, ControlInv, NEW d \in Driver,
         CoordinatorStep(d) \/ PhaseTwoOk(d) \/ PhaseTwoErr(d)
  PROVE  RmShape(d) /\ DriverShape(d) /\ [XaNext]_vars
<1>1. CASE PhaseTwoOk(d) \/ PhaseTwoErr(d)
  <2>1. HandlerStep(d)
    BY <1>1 DEF PhaseTwoOk, PhaseTwoErr, HandlerStep
  <2> QED BY <2>1, LoopSteps, HandlerShape DEF RmShape, XaNext
<1>2. CASE HandlerStep(d)
  BY <1>2, LoopSteps, HandlerShape DEF RmShape, XaNext
<1>3. CASE Tick(d)
  <2>1. TickHandler \in XaHandler
    BY <1>3 DEF Tick, WorkerTick, TickHandler, XaHandler
  <2>2. TickHandler \in Handler
    BY <2>1 DEF XaHandler, Handler
  <2>3. TickShape(d)
    BY <1>3, <2>1, <2>2, ChoosePuts
       DEF Tick, WorkerTick, Chooses, TickShape, InFlight
  <2> QED BY <1>3, <2>3, ClientShape DEF RmShape, XaNext
<1>4. ASSUME NEW op \in XaHandler, Call(d, op), op = "commit" => ready = Branch
      PROVE  RmShape(d) /\ DriverShape(d) /\ [XaNext]_vars
  <2>1. \E t \in Transaction :
          Takes(d, op, EntryPc(op), t) /\ t.status = Working(op)
    BY <1>4, EnterShape DEF Call, Request, InFlight
  <2>2. \/ op = "prepare" /\ Spend("request")
        \/ op # "prepare" /\ Spend("call")
    BY <1>4 DEF Call, Request
  <2>3. CallShape(d)
    BY <1>4, <2>1, <2>2 DEF Call, CallShape
  <2> QED BY <1>4, <2>3, ClientShape DEF ClientStep, RmShape, XaNext
<1>5. CASE GlobalTransaction(d)
  BY <1>4, <1>5 DEF GlobalTransaction, XaHandler
<1> QED
  BY <1>1, <1>2, <1>3, <1>5 DEF CoordinatorStep, HandlerStep

(* What handler op may store.                                              *)
Written(op) ==
  IF op = "prepare" THEN {"Prepared"}
  ELSE IF op = "commit" THEN {"Succeeding", "Succeeded"}
  ELSE {"Aborting", "Aborted"}

(* A driver goes on, returns, is chosen or is called.                      *)
GoesOn(d) ==
  /\ drv[d].pc # "idle" /\ drv'[d].op = drv[d].op
  /\ tx' = tx /\ budget'["call"] = budget["call"]

Returns(d) ==
  /\ drv'[d].pc = "idle" /\ drv'[d].op = "none" /\ budget' = budget
  /\ \/ tx' = tx
     \/ /\ drv[d].op \in XaHandler /\ tx'.status \in Written(drv[d].op)
        /\ tx.status \in AllowedFrom(drv[d].op)

IsChosen(d) ==
  /\ d \in Worker /\ drv'[d].op = TickHandler /\ TickHandler \in XaHandler
  /\ tx' = tx /\ budget' = budget

IsCalled(d) ==
  /\ drv'[d].op \in XaHandler /\ tx' = tx
  /\ tx.status \in AllowedFrom(drv'[d].op)
  /\ drv'[d].op = "commit" => ready = Branch
  /\ \/ drv'[d].op = "prepare" /\ budget'["call"] = budget["call"]
     \/ /\ drv'[d].op # "prepare" /\ budget["call"] > 0
        /\ budget'["call"] = budget["call"] - 1

LEMMA DriverTurns ==
  ASSUME Cas, CoreInv, ControlInv, CasInv, HandlersInv, NEW d \in Driver,
         RmShape(d)
  PROVE  GoesOn(d) \/ Returns(d) \/ IsChosen(d) \/ IsCalled(d)
<1>t. /\ drv \in [Driver -> DriverState] /\ TypeOK
      /\ budget \in [{"request", "call", "failure", "crash"} -> Nat]
  BY DEF CoreInv, TypeOK
<1>1. CASE TickShape(d)
  <2>1. drv'[d].op = TickHandler
    BY <1>1, <1>t, PutsFacts DEF TickShape, Chooses, At
  <2> QED BY <1>1, <2>1 DEF TickShape, Chooses, IsChosen
<1>2. CASE CallShape(d)
  <2>1. PICK op \in XaHandler, t \in Transaction :
          /\ Takes(d, op, EntryPc(op), t) /\ tx.status \in AllowedFrom(op)
          /\ \/ op = "prepare" /\ Spend("request")
             \/ op # "prepare" /\ Spend("call")
          /\ op = "commit" => ready = Branch
    BY <1>2 DEF CallShape
  <2>2. drv'[d].op = op /\ tx' = tx
    BY <1>t, <2>1, PutsFacts DEF Takes, At
  <2>3. \/ op = "prepare" /\ budget'["call"] = budget["call"]
        \/ /\ op # "prepare" /\ budget["call"] > 0
           /\ budget'["call"] = budget["call"] - 1
    BY <1>t, <2>1 DEF Spend
  <2> QED BY <2>1, <2>2, <2>3 DEF IsCalled
<1>3. ASSUME NEW t, Writes(d, t), t.status \in Written(drv[d].op),
             drv[d].op \in XaHandler
      PROVE  Returns(d)
  <2>1. drv'[d].pc = "idle" /\ drv'[d].op = "none" /\ budget' = budget
    BY <1>t, <1>3, PutsFacts DEF Writes, Idle
  <2>2. CASE tx' = tx
    BY <2>1, <2>2 DEF Returns
  <2>3. CASE tx' # tx
    <3>1. tx' = Bumped(t) /\ CanStore(t) /\ OwnCopyOf(d, t)
      BY <1>3, <2>3 DEF Writes
    <3>2. drv[d].tx.rev = tx.rev /\ drv[d].pc \in {"loop", "persist"}
      BY <1>3, <3>1 DEF CanStore, OwnCopyOf, Writes
    <3>3. FreshCopy(d) /\ tx'.status = t.status
      BY <3>1, <3>2, Stored DEF CasInv, OwnCopyOf
    <3> QED BY <1>3, <2>1, <3>3 DEF FreshCopy, Returns
  <2> QED BY <2>2, <2>3
<1>4. CASE SaveShape(d)
  <2>1. Writes(d, drv[d].tx) /\ drv[d].pc = "persist"
    BY <1>4 DEF SaveShape
  <2>2. drv'[d].pc = "idle" /\ drv'[d].op = "none" /\ budget' = budget
    BY <1>t, <2>1, PutsFacts DEF Writes, Idle
  <2>3. CASE tx' = tx
    BY <2>2, <2>3 DEF Returns
  <2>4. CASE tx' # tx
    <3>1. drv[d].tx.rev = tx.rev
      BY <2>1, <2>4 DEF Writes, CanStore
    <3>2. FreshCopy(d)
      BY <2>1, <3>1 DEF CasInv
    <3>3. drv[d].op \in XaHandler
      BY <2>1 DEF HandlersInv
    <3>4. drv[d].tx.status \in Written(drv[d].op)
      BY <3>2, <3>3 DEF FreshCopy, Working, Written, XaHandler
    <3> QED BY <1>3, <2>1, <3>3, <3>4
  <2> QED BY <2>3, <2>4
<1>5. CASE CompleteShape(d)
  <2>1. PICK t : /\ drv[d].pc = "loop" /\ t.status = Finished(drv[d].op)
                 /\ Writes(d, t)
    BY <1>5 DEF CompleteShape
  <2>2. drv[d].op \in {"commit", "rollback"}
    BY <2>1 DEF ControlInv
  <2> QED BY <1>3, <2>1, <2>2 DEF Finished, Written, XaHandler
<1>6. CASE Ends(d)
  BY <1>6, <1>t, PutsFacts DEF Ends, Idle, Returns
<1>7. ASSUME NEW pc, NEW pos, NEW t, Puts(d, At(pc, drv[d].op, pos, t)),
             tx' = tx, drv[d].pc # "idle",
             budget' = budget \/ Spend("failure")
      PROVE  GoesOn(d)
  <2>1. drv'[d].op = drv[d].op
    BY <1>7, <1>t, PutsFacts DEF At
  <2>2. budget'["call"] = budget["call"]
    BY <1>7, <1>t DEF Spend
  <2> QED BY <1>7, <2>1, <2>2 DEF GoesOn
<1>8. CASE ResumeShape(d)
  BY <1>7, <1>8 DEF ResumeShape, Takes
<1>9. CASE SkipShape(d) \/ ClaimShape(d) \/ OkShape(d) \/ ErrShape(d)
           \/ Releases(d, drv[d].tx)
  BY <1>7, <1>9 DEF SkipShape, Moves, ClaimShape, Claims, OkShape, Accepted,
                    ErrShape, Rejected, Releases
<1> QED
  BY <1>1, <1>2, <1>4, <1>5, <1>6, <1>8, <1>9 DEF RmShape, LoopShape

(* Nothing else of the coordinator changes in a driver's step.             *)
LEMMA OthersStay ==
  ASSUME CoreInv, NEW d \in Driver, DriverShape(d)
  PROVE  /\ \A e \in Driver : e # d => drv'[e] = drv[e]
         /\ expired' = expired /\ acked \subseteq acked'
BY XaShaped, ShapedFacts

LEMMA HandlersStep ==
  ASSUME HandlersInv, NEW d \in Driver,
         \A e \in Driver : e # d => drv'[e] = drv[e],
         GoesOn(d) \/ Returns(d) \/ IsChosen(d) \/ IsCalled(d)
  PROVE  HandlersInv'
<1>1. tx'.status # "Failed"
  BY DEF GoesOn, Returns, IsChosen, IsCalled, Written, HandlersInv
<1>2. drv'[d].pc = "idle" \/ drv'[d].op \in XaHandler
  BY DEF GoesOn, Returns, IsChosen, IsCalled, HandlersInv
<1> QED BY <1>1, <1>2 DEF HandlersInv

(* Phase 2 has one driver at a time as long as the timeout does not come   *)
(* between.                                                                *)
LEMMA AloneStep ==
  ASSUME OneWorker, OneRequest, CoreInv, AloneInv, NEW d \in Driver,
         \A e \in Driver : e # d => drv'[e] = drv[e],
         expired' = expired,
         GoesOn(d) \/ Returns(d) \/ IsChosen(d) \/ IsCalled(d)
  PROVE  AloneInv' /\ (Alone' => Alone)
<1>b. /\ budget["call"] \in 0..1 /\ MaxCalls = 1
      /\ budget'["call"] \in {budget["call"], budget["call"] - 1}
  BY DEF CoreInv, TypeOK, BudgetInv, OneRequest, GoesOn, Returns, IsChosen, IsCalled
<1>a. Alone' => Alone
  BY <1>b DEF Alone
<1> DEFINE P(e) == drv'[e].op \in {"commit", "rollback"}
<1> SUFFICES ASSUME Alone'
             PROVE  /\ \A e, f \in Driver : P(e) /\ P(f) => e = f
                    /\ \A e \in Driver \ Worker :
                         P(e) => Open' /\ budget'["call"] = 0
                    /\ ~expired /\ (~Open' \/ \E e \in Driver : P(e))
                         => budget'["call"] = 0
  BY <1>a DEF AloneInv, Phasing
<1>1. /\ \A e, f \in Driver : Phasing(e) /\ Phasing(f) => e = f
      /\ \A e \in Driver \ Worker : Phasing(e) => Open /\ budget["call"] = 0
      /\ ~expired /\ (~Open \/ \E e \in Driver : Phasing(e)) => budget["call"] = 0
  BY <1>a DEF AloneInv
<1>2. \A e \in Driver : e # d => (P(e) <=> Phasing(e))
  BY DEF Phasing
<1>3. CASE GoesOn(d) \/ (IsChosen(d) /\ ~P(d)) \/ (IsCalled(d) /\ ~P(d))
  <2>1. /\ tx' = tx /\ budget'["call"] = budget["call"]
        /\ \A e \in Driver : P(e) => Phasing(e)
    BY <1>2, <1>3 DEF GoesOn, IsChosen, IsCalled, Phasing, XaHandler
  <2> HIDE DEF P
  <2> QED BY <1>1, <2>1 DEF Open
<1>4. CASE Returns(d)
  <2>1. ~P(d) /\ budget' = budget
    BY <1>4 DEF Returns
  <2>2. CASE Open' \/ tx' = tx
    <3>1. \A e \in Driver : P(e) => Phasing(e)
      BY <1>2, <2>1
    <3> HIDE DEF P
    <3> QED BY <1>1, <2>1, <2>2, <3>1 DEF Open
  <2>3. CASE ~Open' /\ tx' # tx
    <3>1. Phasing(d)
      BY <1>4, <2>3 DEF Returns, Open, Phasing, Written, XaHandler
    <3>2. \A e \in Driver : ~P(e)
      BY <1>1, <1>2, <2>1, <3>1
    <3> HIDE DEF P
    <3> QED BY <1>1, <2>1, <3>1, <3>2
  <2> QED BY <2>2, <2>3
<1>5. CASE IsChosen(d) /\ P(d)
  <2>1. d \in Worker /\ tx' = tx /\ budget' = budget
    BY <1>5 DEF IsChosen
  <2>2. expired \/ ~Open
    BY <1>5 DEF IsChosen, TickHandler, Open
  <2>3. \A e \in Driver : Phasing(e) => e \in Worker
    <3>1. CASE expired
      BY <1>1, <1>a, <1>b, <3>1 DEF Alone
    <3> QED BY <1>1, <2>2, <3>1
  <2>4. \A e \in Driver : P(e) => e \in Worker
    BY <1>2, <2>1, <2>3
  <2> HIDE DEF P
  <2> QED BY <1>1, <2>1, <2>2, <2>4 DEF OneWorker, Open
<1>6. CASE IsCalled(d) /\ P(d)
  <2>1. tx' = tx /\ budget["call"] = 1 /\ budget'["call"] = 0
    BY <1>b, <1>6 DEF IsCalled
  <2>2. ~expired
    BY <1>b, <2>1 DEF Alone
  <2>3. Open /\ \A e \in Driver : ~Phasing(e)
    BY <1>1, <2>1, <2>2
  <2>4. \A e \in Driver : P(e) => e = d
    BY <1>2, <2>3
  <2> HIDE DEF P
  <2> QED BY <2>1, <2>3, <2>4 DEF Open
<1> HIDE DEF P
<1> QED BY <1>3, <1>4, <1>5, <1>6

(* Keys, loops and ends of the one driver.                                 *)
LEMMA PhaseTwoStep ==
  ASSUME CoreInv, ControlInv, AloneInv, PhaseTwoInv, NEW d \in Driver,
         DriverShape(d), RmShape(d), [XaNext]_vars, Alone' => Alone
  PROVE  PhaseTwoInv'
<1>1. Held'
  <2>1. budget' = budget \/ Spend("request") \/ Spend("call") \/ Spend("failure")
    BY DEF RmShape, LoopShape, TickShape, CallShape, ResumeShape, Ends, SkipShape,
           Moves, ClaimShape, Claims, OkShape, Accepted, ErrShape, Rejected,
           Releases, SaveShape, CompleteShape, Writes
  <2>2. ~Spend("crash")
    BY <2>1 DEF Spend, CoreInv, TypeOK
  <2> QED BY <2>2, HeldStep DEF PhaseTwoInv
<1>2. ASSUME Alone'
      PROVE  Passed' /\ Ended'
  <2>1. ASSUME SkipShape(d)
        PROVE  DriverKey(d) \in acked
    <3>1. drv[d].pc = "loop" /\ DriverKey(d) \in barriers /\ ~InFlight(d)
      BY <2>1 DEF SkipShape, Moves
    <3>2. Phasing(d) /\ \A e \in Driver : InFlight(e) => Phasing(e)
      BY <3>1 DEF ControlInv, Phasing, InFlight
    <3>3. \A e \in Driver : ~InFlight(e)
      BY <1>2, <3>1, <3>2 DEF AloneInv
    <3> QED BY <3>1, <3>3 DEF PhaseTwoInv, Held
  <2>2. Passed'
    BY <1>2, <2>1, PassedDriver DEF PhaseTwoInv
  <2>3. Ended'
    BY <1>2, EndedStep DEF PhaseTwoInv
  <2> QED BY <2>2, <2>3
<1> QED BY <1>1, <1>2 DEF PhaseTwoInv

(* What resolve does to local transactions, in the calls of the            *)
(* coordinator and of operators.                                           *)
Settles ==
  \A b \in Branch :
    \/ resource'[b] = resource[b]
    \/ resource[b] = "prepared" /\ resource'[b] \in {"committed", "free"}

LEMMA ResolveSettles ==
  ASSUME DecisionInv, NEW b, NEW phase, Resolve(b, phase)
  PROVE  /\ Settles
         /\ \A c \in Branch : c # b => resource'[c] = resource[c]
         /\ b \in Branch /\ phase = "commit" /\
              resource[b] \in {"prepared", "committed"}
              => resource'[b] = "committed"
<1>1. resource \in [Branch -> ResourceState]
  BY DEF DecisionInv, RmTypeOK
<1> QED BY <1>1 DEF Resolve, Settles

(* A phase-2 call of driver d is executed, and accepted or not.            *)
LEMMA PhaseTwoTurns ==
  ASSUME CoreInv, ControlInv, NEW d \in Driver, PhaseTwoOk(d) \/ PhaseTwoErr(d)
  PROVE  /\ drv[d].pc = "invoke" /\ GoesOn(d)
         /\ Current(d) \in Branch /\ drv[d].op \in {"commit", "rollback"}
         /\ DriverKey(d) = <<Current(d), drv[d].op>>
         /\ UNCHANGED <<proc, ready, decisions, operator, late, settled>>
         /\ \/ Resolve(Current(d), drv[d].op) /\ acked' = acked \cup {DriverKey(d)}
            \/ Resolve(Current(d), drv[d].op) /\ acked' = acked
            \/ UNCHANGED <<resource, called, acked>>
<1>t. /\ drv \in [Driver -> DriverState]
      /\ budget \in [{"request", "call", "failure", "crash"} -> Nat]
  BY DEF CoreInv, TypeOK
<1>1. drv[d].pc = "invoke" /\ tx' = tx
  BY DEF PhaseTwoOk, PhaseTwoErr, BranchOk, BranchErr, CallSucceeds, CallFails
<1>2. drv[d].op \in {"commit", "rollback"} /\ InFlight(d)
  BY <1>1 DEF ControlInv, InFlight
<1>3. Current(d) \in Branch
  BY <1>2, CopyFacts
<1>4. DriverKey(d) = <<Current(d), drv[d].op>>
  BY <1>2 DEF DriverKey, BarrierOp
<1>5. drv'[d].op = drv[d].op
  BY <1>t DEF PhaseTwoOk, PhaseTwoErr, BranchOk, BranchErr, Advance, Goto, DriverState
<1>6. budget'["call"] = budget["call"]
  BY <1>t DEF PhaseTwoOk, PhaseTwoErr, BranchOk, BranchErr, CallSucceeds, CallFails,
              Spend
<1>7. GoesOn(d)
  BY <1>1, <1>5, <1>6 DEF GoesOn
<1>8. \/ Resolve(Current(d), drv[d].op) /\ acked' = acked \cup {DriverKey(d)}
      \/ Resolve(Current(d), drv[d].op) /\ acked' = acked
      \/ UNCHANGED <<resource, called, acked>>
  BY DEF PhaseTwoOk, PhaseTwoErr, BranchOk, BranchErr, CallSucceeds, CallFails
<1>9. UNCHANGED <<proc, ready, decisions, operator, late, settled>>
  BY DEF PhaseTwoOk, PhaseTwoErr
<1> QED BY <1>1, <1>2, <1>3, <1>4, <1>7, <1>8, <1>9

(* The other steps of the coordinator accept nothing.                      *)
LEMMA CoordinatorAcks ==
  ASSUME NEW d \in Driver, CoordinatorStep(d)
  PROVE  acked' = acked /\ UNCHANGED rmVars
BY DEF CoordinatorStep, StartChosen, ResolveBranch, Release, ReleaseBarrier, Save,
       Complete, GlobalTransaction, Call, Tick, WorkerTick

(* resolve, whoever calls it, takes nothing from the processes.            *)
LEMMA RegisteredKept ==
  ASSUME RegisteredInv, proc' = proc, Settles,
         Members(tx.ids) \subseteq Members(tx.ids)'
  PROVE  RegisteredInv'
BY DEF RegisteredInv, Holds, Settles

LEMMA MembersKept ==
  ASSUME Cas, CoreInv, ControlInv, CasInv, [XaNext]_vars
  PROVE  Members(tx.ids) \subseteq Members(tx.ids)'
<1>1. CASE tx' = tx
  BY <1>1 DEF Members
<1>2. CASE tx' # tx
  BY <1>2, RecordStep DEF Members
<1> QED BY <1>1, <1>2

LEMMA CalledKept ==
  ASSUME CalledInv, called \subseteq called', acked' = acked,
         \A b \in Branch : Explained(b) => WillExplain(b),
         \A b \in (called' \ called) \cap Branch : WillExplain(b)
  PROVE  CalledInv'
BY DEF CalledInv, Explained, WillExplain

(* A phase-2 call, before the timeout.                                     *)
LEMMA CommitCall ==
  ASSUME OneRequest, CoreInv, ControlInv, DecisionInv, AloneInv, CommitInv,
         NEW d \in Driver, PhaseTwoOk(d) \/ PhaseTwoErr(d),
         \A e \in Driver : e # d => drv'[e] = drv[e], expired' = expired
  PROVE  CommitInv'
<1> SUFFICES ASSUME ~expired PROVE CommitInv'
  BY DEF CommitInv
<1> USE PhaseTwoTurns
<1>1. /\ Committing' <=> Committing
      /\ RollingBack' <=> RollingBack
      /\ \A b : Undecided(b)' <=> Undecided(b)
      /\ ready' = ready /\ budget'["call"] = budget["call"]
  BY DEF GoesOn, Committing, RollingBack, Undecided
<1>2. budget["call"] = 0 /\ MaxCalls = 1
  BY DEF AloneInv, Alone, Phasing, OneRequest
<1>3. CASE UNCHANGED <<resource, called, acked>>
  BY <1>1, <1>2, <1>3 DEF CommitInv, Undecided
<1>4. CASE drv[d].op = "commit" /\ Resolve(Current(d), drv[d].op)
  <2>1. Committing /\ ready = Branch /\ ~RollingBack
    BY <1>4 DEF Committing, CommitInv
  <2>2. \A b \in Branch : Undecided(b) => resource[b] \in {"prepared", "committed"}
    BY <2>1 DEF CommitInv
  <2>3. /\ Undecided(Current(d)) => resource'[Current(d)] = "committed"
        /\ \A c \in Branch : c # Current(d) => resource'[c] = resource[c]
    BY <1>4, <2>2, ResolveSettles
  <2>4. \A b \in Branch : <<b, "commit">> \in acked' =>
          <<b, "commit">> \in acked \/ b = Current(d)
    OBVIOUS
  <2> HIDE DEF Undecided, Committing, RollingBack
  <2>5. \A b \in Branch : Undecided(b) => resource'[b] \in {"prepared", "committed"}
    BY <2>2, <2>3
  <2>6. \A b \in Branch :
          <<b, "commit">> \in acked' /\ Undecided(b) => resource'[b] = "committed"
    BY <2>3, <2>4 DEF CommitInv
  <2> QED BY <1>1, <1>2, <2>1, <2>5, <2>6 DEF CommitInv
<1>5. CASE drv[d].op = "rollback" /\ Resolve(Current(d), drv[d].op)
  <2>1. RollingBack
    BY <1>5 DEF RollingBack
  <2>2. ~Committing
    BY <2>1 DEF CommitInv
  <2>3. \A b \in Branch : <<b, "commit">> \in acked' => <<b, "commit">> \in acked
    BY <1>5
  <2>4. Settles
    BY <1>5, ResolveSettles
  <2> HIDE DEF Undecided, Committing, RollingBack
  <2>5. \A b \in Branch :
          <<b, "commit">> \in acked' /\ Undecided(b) => resource'[b] = "committed"
    BY <2>3, <2>4 DEF CommitInv, Settles
  <2> QED BY <1>1, <1>2, <2>2, <2>5 DEF CommitInv
<1> QED BY <1>3, <1>4, <1>5

(* Another step of a driver.                                               *)
LEMMA CommitStep ==
  ASSUME OneRequest, CoreInv, HandlersInv, AloneInv, CommitInv, NEW d \in Driver,
         \A e \in Driver : e # d => drv'[e] = drv[e],
         UNCHANGED <<expired, acked, rmVars>>,
         GoesOn(d) \/ Returns(d) \/ IsChosen(d) \/ IsCalled(d)
  PROVE  CommitInv'
<1> SUFFICES ASSUME ~expired PROVE CommitInv'
  BY DEF CommitInv
<1>b. budget["call"] \in 0..1 /\ MaxCalls = 1
  BY DEF CoreInv, TypeOK, BudgetInv, OneRequest
<1>r. UNCHANGED <<ready, resource, decisions>> /\ \A b : Undecided(b)' <=> Undecided(b)
  BY DEF rmVars, Undecided
<1>c. /\ Committing => ready = Branch /\ ~RollingBack
      /\ Committing \/ budget["call"] = 1 =>
           \A b \in ready : Undecided(b) => resource[b] \in {"prepared", "committed"}
      /\ \A b \in Branch :
           <<b, "commit">> \in acked /\ Undecided(b) => resource[b] = "committed"
  BY <1>b DEF CommitInv
<1>q. ASSUME Committing' => ready = Branch /\ ~RollingBack',
             Committing' \/ budget'["call"] = 1 => Committing \/ budget["call"] = 1
      PROVE  CommitInv'
  BY <1>b, <1>c, <1>q, <1>r DEF CommitInv
<1>1. ASSUME Committing' => Committing, RollingBack' => RollingBack,
             budget'["call"] = budget["call"]
      PROVE  CommitInv'
  BY <1>1, <1>c, <1>q
<1>2. CASE GoesOn(d)
  BY <1>1, <1>2 DEF GoesOn, Committing, RollingBack
<1>3. CASE Returns(d)
  <2>1. Committing' => Committing
    BY <1>3 DEF Returns, Committing, Written
  <2>2. RollingBack' => RollingBack
    BY <1>3 DEF Returns, RollingBack, Written, XaHandler
  <2> QED BY <1>1, <1>3, <2>1, <2>2 DEF Returns
<1>4. CASE IsChosen(d)
  <2>1. Committing' => Committing
    BY <1>4 DEF IsChosen, Committing, TickHandler
  <2>2. RollingBack' => RollingBack
    BY <1>4 DEF IsChosen, RollingBack, TickHandler
  <2> QED BY <1>1, <1>4, <2>1, <2>2 DEF IsChosen
<1>5. CASE IsCalled(d) /\ drv'[d].op = "prepare"
  <2>1. Committing' => Committing
    BY <1>5 DEF IsCalled, Committing
  <2>2. RollingBack' => RollingBack
    BY <1>5 DEF IsCalled, RollingBack
  <2> QED BY <1>1, <1>5, <2>1, <2>2 DEF IsCalled
<1>6. CASE IsCalled(d) /\ drv'[d].op # "prepare"
  <2>1. /\ budget["call"] = 1 /\ budget'["call"] = 0 /\ tx' = tx
        /\ drv'[d].op \in {"commit", "rollback"}
        /\ drv'[d].op = "commit" => ready = Branch
    BY <1>6, <1>b DEF IsCalled, XaHandler
  <2>2. Open /\ \A e \in Driver : ~Phasing(e)
    BY <2>1 DEF AloneInv, Alone
  <2>3. ~(Committing' /\ RollingBack')
    BY <2>1, <2>2 DEF Committing, RollingBack, Open, Phasing
  <2>4. Committing' => drv'[d].op = "commit"
    BY <2>1, <2>2 DEF Committing, Open, Phasing
  <2> HIDE DEF Committing, RollingBack
  <2> QED BY <1>q, <2>1, <2>3, <2>4
<1> QED BY <1>2, <1>3, <1>4, <1>5, <1>6

(* The record, the drivers and the resource managers.                      *)
RmInv ==
  CoreInv /\ ControlInv /\ CasInv /\ DecisionInv /\ CompletenessInv

LEMMA DriverKeeps ==
  ASSUME Cas, OneWorker, OneRequest, RmInv, NEW d \in Driver,
         CoordinatorStep(d) \/ PhaseTwoOk(d) \/ PhaseTwoErr(d)
  PROVE  CompletenessInv'
<1> USE DEF RmInv, CompletenessInv
<1>1. RmShape(d) /\ DriverShape(d) /\ [XaNext]_vars
  BY RmShapes
<1>2. /\ \A e \in Driver : e # d => drv'[e] = drv[e]
      /\ expired' = expired /\ acked \subseteq acked'
  BY <1>1, OthersStay
<1>3. GoesOn(d) \/ Returns(d) \/ IsChosen(d) \/ IsCalled(d)
  BY <1>1, DriverTurns
<1>4. HandlersInv'
  BY <1>2, <1>3, HandlersStep
<1>5. AloneInv' /\ (Alone' => Alone)
  BY <1>2, <1>3, AloneStep
<1>6. PhaseTwoInv'
  BY <1>1, <1>5, PhaseTwoStep
<1>m. Members(tx.ids) \subseteq Members(tx.ids)'
  BY <1>1, MembersKept
<1>7. CASE CoordinatorStep(d)
  <2>1. acked' = acked /\ UNCHANGED rmVars
    BY <1>7, CoordinatorAcks
  <2>2. UNCHANGED <<resource, proc, called, late>>
    BY <2>1 DEF rmVars
  <2>3. RegisteredInv'
    BY <1>m, <2>2, RegisteredKept DEF Settles
  <2>4. CalledInv'
    BY <2>1, <2>2 DEF CalledInv, Explained
  <2>5. CommitInv'
    BY <1>2, <1>3, <2>1, CommitStep
  <2> QED BY <1>4, <1>5, <1>6, <2>3, <2>4, <2>5
<1>8. CASE PhaseTwoOk(d) \/ PhaseTwoErr(d)
  <2>1. /\ Current(d) \in Branch
        /\ DriverKey(d) = <<Current(d), drv[d].op>>
        /\ UNCHANGED <<proc, ready, decisions, operator, late, settled>>
        /\ \/ Resolve(Current(d), drv[d].op) /\ acked' = acked \cup {DriverKey(d)}
           \/ Resolve(Current(d), drv[d].op) /\ acked' = acked
           \/ UNCHANGED <<resource, called, acked>>
    BY <1>8, PhaseTwoTurns
  <2>2. RegisteredInv'
    BY <1>m, <2>1, RegisteredKept, ResolveSettles DEF Settles
  <2>3. CalledInv'
    <3>1. CASE UNCHANGED <<resource, called, acked>>
      BY <2>1, <3>1 DEF CalledInv, Explained
    <3>2. CASE Resolve(Current(d), drv[d].op)
      <4>1. /\ \A c \in Branch : Explained(c) => WillExplain(c)
            /\ WillExplain(Current(d))
        BY <2>1, <3>2, ResolveKeeps
      <4>2. called' = called \cup {Current(d)}
        BY <3>2 DEF Resolve
      <4>3. \A b \in called' \cap Branch : WillExplain(b)
        BY <4>1, <4>2 DEF CalledInv
      <4>4. \A key \in acked' : key[1] \in called'
        BY <2>1, <4>2 DEF CalledInv
      <4> QED BY <4>3, <4>4 DEF CalledInv, Explained, WillExplain
    <3> QED BY <2>1, <3>1, <3>2
  <2>4. CommitInv'
    BY <1>2, <1>8, CommitCall
  <2> QED BY <1>4, <1>5, <1>6, <2>2, <2>3, <2>4
<1> QED BY <1>7, <1>8

(* A step that leaves the drivers, the barriers and the status alone.      *)
LEMMA DriversRest ==
  ASSUME HandlersInv, AloneInv, PhaseTwoInv, Ended => Ended',
         UNCHANGED <<drv, barriers, acked, expired>>,
         tx'.status = tx.status, budget'["call"] = budget["call"]
  PROVE  HandlersInv' /\ AloneInv' /\ PhaseTwoInv'
<1>1. HandlersInv' /\ AloneInv'
  BY DEF HandlersInv, AloneInv, Alone, Open, Phasing
<1>2. Held' /\ (Passed => Passed')
  BY HeldIdle DEF PhaseTwoInv, Passed
<1> QED BY <1>1, <1>2 DEF PhaseTwoInv, Alone

(* What a step of a process does to the coordinator.                       *)
LEMMA ProcQuiet ==
  ASSUME CoreInv, ControlInv, RmTypeOK, RegisteredInv, NEW p \in Proc, ProcStep(p)
  PROVE  /\ UNCHANGED <<drv, barriers, acked, expired>>
         /\ tx'.status = tx.status /\ budget'["call"] = budget["call"]
         /\ Ended => Ended'
         /\ [XaNext]_vars
<1>1. CASE UNCHANGED vars
  BY <1>1 DEF vars, Ended, Members
<1>2. CASE \E b \in Branch : RegisterBranch(b, "Pending")
  <2>1. /\ UNCHANGED <<drv, barriers, acked, expired>> /\ tx'.status = tx.status
        /\ tx.status \in {"Submitted", "Prepared"} /\ Spend("request")
    BY <1>2, RegisterType DEF RegisterBranch, CoreInv, TypeOK, BranchStatus
  <2>2. budget'["call"] = budget["call"]
    BY <2>1 DEF Spend, CoreInv, TypeOK
  <2> QED BY <1>2, <2>1, <2>2 DEF Ended, XaNext, Register
<1>3. \/ UNCHANGED vars
      \/ RegisterBranch(proc[p].branch, "Pending") /\ proc[p].pc = "register"
  BY DEF ProcStep, StartBranch, RegisterXaBranch, Registered, PrepareLocal, LocalFails
<1> QED BY <1>1, <1>2, <1>3 DEF RegisteredInv, Holds

(* The branch of an accepted registration is in the record.                *)
LEMMA RegisterMember ==
  ASSUME CoreInv, NEW b \in Branch, RegisterBranch(b, "Pending") \/ Registered(b)
  PROVE  b \in Members(tx.ids)'
<1>1. CASE Registered(b)
  BY <1>1 DEF Registered, Members, vars
<1>2. CASE RegisterBranch(b, "Pending")
  <2>1. tx'.ids = Append(tx.ids, b) /\ tx.ids \in Seq(Branch)
    BY <1>2, RegisterType DEF CoreInv, TypeOK, Transaction, BranchStatus
  <2>2. Len(tx'.ids) \in 1..Len(tx'.ids) /\ tx'.ids[Len(tx'.ids)] = b
    BY <2>1
  <2> QED BY <2>2 DEF Members
<1> QED BY <1>1, <1>2

(* The steps of a process, by what they do to its local transaction.       *)
Begins(p) ==
  \E b \in Branch :
    /\ ~Holds(p) /\ resource[b] = "free"
    /\ resource' = [resource EXCEPT ![b] = "active"]
    /\ proc' = [proc EXCEPT ![p] = [pc |-> "register", branch |-> b]]
    /\ UNCHANGED <<ready, late>>

Repeats(p) ==
  \E b \in Branch :
    /\ ~Holds(p) /\ resource[b] = "committed" /\ ready' = ready \cup {b}
    /\ proc' = [proc EXCEPT ![p].pc = "done"]
    /\ UNCHANGED <<resource, late>>

Registers(p) ==
  /\ Holds(p) /\ proc[p].branch \in Members(tx.ids)'
  /\ proc' = [proc EXCEPT ![p].pc = "prepare"]
  /\ UNCHANGED <<resource, ready, late>>

Cleans(p) == Holds(p) /\ Cleanup(p) /\ UNCHANGED <<ready, late>>

Prepares(p) == Holds(p) /\ PrepareLocal(p)

LEMMA ProcCases ==
  ASSUME CoreInv, RegisteredInv, NEW p \in Proc, ProcStep(p)
  PROVE  /\ Begins(p) \/ Repeats(p) \/ Registers(p) \/ Cleans(p) \/ Prepares(p)
         /\ UNCHANGED <<decisions, operator, called, settled>>
<1>1. UNCHANGED <<decisions, operator, called, settled>>
  BY DEF ProcStep, StartBranch, RegisterXaBranch, PrepareLocal, LocalFails
<1>2. ASSUME NEW b \in Branch, StartBranch(p, b)
      PROVE  Begins(p) \/ Repeats(p)
  BY <1>2 DEF StartBranch, Begins, Repeats, Holds
<1>3. CASE RegisterXaBranch(p)
  <2>1. proc[p].branch \in Branch /\ Holds(p)
    BY <1>3 DEF RegisterXaBranch, RegisteredInv, Holds
  <2>2. CASE Cleanup(p)
    BY <1>3, <2>1, <2>2 DEF RegisterXaBranch, Cleans
  <2>3. CASE ~Cleanup(p)
    <3>1. /\ \/ RegisterBranch(proc[p].branch, "Pending")
             \/ Registered(proc[p].branch)
          /\ proc' = [proc EXCEPT ![p].pc = "prepare"]
          /\ UNCHANGED <<resource, ready, late>>
      BY <1>3, <2>3 DEF RegisterXaBranch
    <3>2. PICK b \in Branch : b = proc[p].branch
      BY <2>1
    <3>3. b \in Members(tx.ids)'
      BY <3>1, <3>2, RegisterMember
    <3> QED BY <1>1, <2>1, <3>1, <3>2, <3>3 DEF Registers
  <2> QED BY <2>2, <2>3
<1>4. CASE PrepareLocal(p)
  BY <1>4 DEF PrepareLocal, Prepares, Holds
<1>5. CASE LocalFails(p)
  BY <1>5 DEF LocalFails, Cleans, Holds
<1> QED BY <1>1, <1>2, <1>3, <1>4, <1>5 DEF ProcStep

LEMMA ProcRegistered ==
  ASSUME CoreInv, RmTypeOK, RegisteredInv, NEW p \in Proc,
         Begins(p) \/ Repeats(p) \/ Registers(p) \/ Cleans(p) \/ Prepares(p),
         Members(tx.ids) \subseteq Members(tx.ids)'
  PROVE  RegisteredInv'
<1>t. /\ resource \in [Branch -> ResourceState]
      /\ proc \in [Proc -> [pc : {"idle", "register", "prepare", "done"},
                            branch : Branch \cup {"none"}]]
  BY DEF RmTypeOK
<1> DEFINE H(q) == proc'[q].pc \in {"register", "prepare"}
<1>g. ASSUME /\ \A q \in Proc : H(q) => /\ proc'[q].branch \in Branch
                                        /\ resource'[proc'[q].branch] = "active",
             \A q, r \in Proc :
               H(q) /\ H(r) /\ proc'[q].branch = proc'[r].branch => q = r,
             \A q \in Proc : proc'[q].pc = "prepare" =>
               proc'[q].branch \in Members(tx.ids)',
             \A b \in Branch : resource'[b] \in {"prepared", "committed"} =>
               b \in Members(tx.ids)'
      PROVE  RegisteredInv'
  BY <1>g DEF RegisteredInv, Holds
<1>1. \A q \in Proc : q # p => proc'[q] = proc[q]
  BY <1>t DEF Begins, Repeats, Registers, Cleans, Cleanup, Prepares, PrepareLocal
<1>2. /\ \A q \in Proc : Holds(q) =>
           proc[q].branch \in Branch /\ resource[proc[q].branch] = "active"
      /\ \A q, r \in Proc :
           Holds(q) /\ Holds(r) /\ proc[q].branch = proc[r].branch => q = r
      /\ \A q \in Proc : proc[q].pc = "prepare" =>
           proc[q].branch \in Members(tx.ids)'
      /\ \A b \in Branch : resource[b] \in {"prepared", "committed"} =>
           b \in Members(tx.ids)'
  BY DEF RegisteredInv
<1>3. \A q \in Proc : q # p => (H(q) <=> Holds(q))
  BY <1>1 DEF Holds
<1>4. CASE Begins(p)
  <2>1. PICK b \in Branch :
          /\ ~Holds(p) /\ resource[b] = "free"
          /\ resource' = [resource EXCEPT ![b] = "active"]
          /\ proc' = [proc EXCEPT ![p] = [pc |-> "register", branch |-> b]]
    BY <1>4 DEF Begins
  <2>2. proc'[p] = [pc |-> "register", branch |-> b]
    BY <1>t, <2>1
  <2>3. resource'[b] = "active" /\ \A c \in Branch : c # b => resource'[c] = resource[c]
    BY <1>t, <2>1
  <2>4. \A q \in Proc : q # p /\ H(q) => proc[q].branch # b
    BY <1>2, <1>3, <2>1
  <2> QED BY <1>1, <1>2, <1>3, <1>g, <2>1, <2>2, <2>3, <2>4
<1>5. CASE Repeats(p)
  <2>1. proc'[p].pc = "done" /\ resource' = resource
    BY <1>t, <1>5 DEF Repeats
  <2> QED BY <1>1, <1>2, <1>3, <1>g, <2>1
<1>6. CASE Registers(p)
  <2>1. /\ proc'[p].pc = "prepare" /\ proc'[p].branch = proc[p].branch
        /\ resource' = resource /\ Holds(p)
        /\ proc[p].branch \in Members(tx.ids)'
    BY <1>t, <1>6 DEF Registers
  <2>2. \A q \in Proc : proc'[q].branch = proc[q].branch /\ (H(q) <=> Holds(q))
    BY <1>1, <1>3, <2>1
  <2>3. \A q \in Proc : proc'[q].pc = "prepare" => q = p \/ proc[q].pc = "prepare"
    BY <1>1
  <2> HIDE DEF H
  <2> QED BY <1>2, <1>g, <2>1, <2>2, <2>3 DEF H
<1>7. ASSUME NEW s \in {"free", "prepared"}, Holds(p), proc'[p].pc = "done",
             resource' = [resource EXCEPT ![proc[p].branch] = s],
             s = "prepared" => proc[p].pc = "prepare"
      PROVE  RegisteredInv'
  <2>1. \A c \in Branch :
          resource'[c] = IF c = proc[p].branch THEN s ELSE resource[c]
    BY <1>t, <1>7
  <2>2. \A q \in Proc : H(q) => q # p /\ proc[q].branch # proc[p].branch
    BY <1>2, <1>3, <1>7
  <2>3. s = "prepared" => proc[p].branch \in Members(tx.ids)'
    BY <1>2, <1>7
  <2> QED BY <1>1, <1>2, <1>3, <1>g, <2>1, <2>2, <2>3
<1>8. CASE Cleans(p)
  BY <1>t, <1>7, <1>8 DEF Cleans, Cleanup
<1>9. CASE Prepares(p)
  BY <1>t, <1>7, <1>9 DEF Prepares, PrepareLocal
<1> QED BY <1>4, <1>5, <1>6, <1>8, <1>9

(* What is ready stays prepared, and what is prepared may become ready.    *)
LEMMA ProcCommits ==
  ASSUME RmTypeOK, RegisteredInv, CommitInv, NEW p \in Proc,
         Begins(p) \/ Repeats(p) \/ Registers(p) \/ Cleans(p) \/ Prepares(p),
         RmTypeOK', UNCHANGED <<drv, acked, expired, decisions>>,
         ready' \subseteq Branch,
         tx'.status = tx.status, budget'["call"] = budget["call"]
  PROVE  CommitInv'
<1> SUFFICES ASSUME ~expired PROVE CommitInv'
  BY DEF CommitInv
<1>t. resource \in [Branch -> ResourceState]
  BY DEF RmTypeOK
<1>1. /\ Committing' <=> Committing
      /\ RollingBack' <=> RollingBack
      /\ \A b : Undecided(b)' <=> Undecided(b)
  BY DEF Committing, RollingBack, Undecided
<1>2. ready \subseteq ready'
  BY DEF Begins, Repeats, Registers, Cleans, Cleanup, Prepares, PrepareLocal
<1>3. \A b \in Branch : \/ resource'[b] = resource[b]
                        \/ resource[b] \in {"free", "active"}
  BY <1>t DEF Begins, Repeats, Registers, Cleans, Cleanup, Prepares, PrepareLocal,
              RegisteredInv
<1>4. \A b \in ready' \cap Branch :
        b \in ready \/ resource'[b] \in {"prepared", "committed"}
  BY <1>t DEF Begins, Repeats, Registers, Cleans, Cleanup, Prepares, PrepareLocal,
              RegisteredInv
<1> HIDE DEF Committing, RollingBack, Undecided
<1>5. \A b \in Branch : resource[b] \in {"prepared", "committed"} =>
        resource'[b] = resource[b]
  BY <1>3
<1>6. Committing' => ready' = Branch /\ ~RollingBack'
  BY <1>1, <1>2 DEF CommitInv
<1>7. ASSUME Committing' \/ budget'["call"] = MaxCalls,
             NEW b \in ready', Undecided(b)'
      PROVE  resource'[b] \in {"prepared", "committed"}
  <2>1. b \in Branch /\ Undecided(b) /\ (Committing \/ budget["call"] = MaxCalls)
    BY <1>1, <1>7
  <2> QED BY <1>4, <1>5, <2>1 DEF CommitInv
<1>8. \A b \in Branch : <<b, "commit">> \in acked' /\ Undecided(b)' =>
        resource'[b] = "committed"
  BY <1>1, <1>5 DEF CommitInv
<1> QED BY <1>6, <1>7, <1>8 DEF CommitInv

LEMMA ProcKeepsAll ==
  ASSUME Cas, OneRequest, RmInv, ready \subseteq Branch, NEW p \in Proc, ProcStep(p)
  PROVE  CompletenessInv'
<1> USE DEF RmInv, CompletenessInv
<1>0. RmTypeOK /\ RmTypeOK'
  BY ProcKeeps DEF DecisionInv
<1>1. /\ UNCHANGED <<drv, barriers, acked, expired>>
      /\ tx'.status = tx.status /\ budget'["call"] = budget["call"]
      /\ Ended => Ended'
      /\ [XaNext]_vars
  BY <1>0, ProcQuiet
<1>2. /\ Begins(p) \/ Repeats(p) \/ Registers(p) \/ Cleans(p) \/ Prepares(p)
      /\ UNCHANGED <<decisions, operator, called, settled>>
  BY ProcCases
<1>3. HandlersInv' /\ AloneInv' /\ PhaseTwoInv'
  BY <1>1, DriversRest
<1>4. Members(tx.ids) \subseteq Members(tx.ids)'
  BY <1>1, MembersKept
<1>5. RegisteredInv'
  BY <1>0, <1>2, <1>4, ProcRegistered
<1>6. CalledInv'
  <2>1. \A b \in Branch : Explained(b) => WillExplain(b)
    BY ProcExplains
  <2> QED BY <1>1, <1>2, <2>1, CalledKept
<1>7. ready' \subseteq Branch
  BY <1>2 DEF Begins, Repeats, Registers, Cleans, Prepares, PrepareLocal, RegisteredInv
<1>8. CommitInv'
  BY <1>0, <1>1, <1>2, <1>7, ProcCommits
<1> QED BY <1>3, <1>5, <1>6, <1>8

(* An operator resolves a branch that has a decision.                      *)
LEMMA OperatorCommits ==
  ASSUME XaResourceAssumption, DecisionInv, NEW o \in Operator, OperatorStep(o)
  PROVE  /\ UNCHANGED <<vars, proc, ready, late>>
         /\ \A b \in Branch : Undecided(b)' => Undecided(b) /\ resource'[b] = resource[b]
         /\ Settles
         /\ \/ UNCHANGED <<resource, called>>
            \/ \E b, phase : Resolve(b, phase) /\ b \in Branch
<1>t. /\ decisions \in [Decision -> DecisionRecord]
      /\ resource \in [Branch -> ResourceState]
      /\ Sound(operator[o])
  BY DEF DecisionInv, RmTypeOK, OperatorsInv, Sound
<1>1. UNCHANGED <<vars, proc, ready, late>>
  BY DEF OperatorStep, ReadPrepared, ActOnReport, RecordIntent, CompareIntent,
         ResolveHeuristically, FinishDecision
<1>2. CASE UNCHANGED <<decisions, resource, called>>
  BY <1>1, <1>2 DEF Undecided, Settles
<1>3. CASE RecordIntent(o)
  <2>1. UNCHANGED <<resource, called>>
    BY <1>3 DEF RecordIntent
  <2>2. \A j \in Decision :
          decisions[j].branch \in Branch => decisions'[j].branch = decisions[j].branch
    BY <1>3, <1>t, XaResourceAssumption DEF RecordIntent, NoDecision
  <2> QED BY <1>1, <2>1, <2>2 DEF Undecided, Settles
<1>4. CASE FinishDecision(o)
  <2>1. UNCHANGED <<resource, called>>
    BY <1>4 DEF FinishDecision
  <2>2. \A j \in Decision : decisions'[j].branch = decisions[j].branch
    BY <1>4, <1>t DEF FinishDecision, DecisionRecord
  <2> QED BY <1>1, <2>1, <2>2 DEF Undecided, Settles
<1>5. CASE ResolveHeuristically(o)
  <2> DEFINE c == operator[o].request.branch
  <2>1. c \in Branch /\ ~Undecided(c) /\ decisions' = decisions
    BY <1>5, <1>t DEF ResolveHeuristically, Sound, Undecided
  <2>2. CASE UNCHANGED <<resource, called>>
    BY <1>2, <2>1, <2>2
  <2>3. CASE Resolve(c, operator[o].request.phase)
    <3>1. Settles /\ \A b \in Branch : b # c => resource'[b] = resource[b]
      BY <2>3, ResolveSettles
    <3>2. \A b \in Branch : Undecided(b)' => Undecided(b)
      BY <2>1 DEF Undecided
    <3>3. \A b \in Branch : Undecided(b) => resource'[b] = resource[b]
      BY <2>1, <3>1
    <3> HIDE DEF c
    <3> QED BY <1>1, <2>1, <2>3, <3>1, <3>2, <3>3
  <2> QED BY <1>5, <2>2, <2>3 DEF ResolveHeuristically
<1> QED
  BY <1>2, <1>3, <1>4, <1>5 DEF OperatorStep, ReadPrepared, ActOnReport, CompareIntent

LEMMA OperatorKeepsAll ==
  ASSUME RmInv, ready \subseteq Branch, NEW o \in Operator, OperatorStep(o)
  PROVE  CompletenessInv'
<1> USE DEF RmInv, CompletenessInv
<1>1. /\ UNCHANGED <<vars, proc, ready, late>>
      /\ \A b \in Branch : Undecided(b)' => Undecided(b) /\ resource'[b] = resource[b]
      /\ Settles
      /\ \/ UNCHANGED <<resource, called>>
         \/ \E b, phase : Resolve(b, phase) /\ b \in Branch
  BY OperatorCommits, XaResourceAssumption
<1>2. UNCHANGED <<tx, barriers, drv, expired, budget, acked, effects>>
  BY <1>1 DEF vars
<1>3. Ended => Ended'
  BY <1>2 DEF Ended, Members
<1>4. HandlersInv' /\ AloneInv' /\ PhaseTwoInv'
  BY <1>2, <1>3, DriversRest
<1>5. RegisteredInv'
  BY <1>1, <1>2, RegisteredKept DEF Members
<1>6. CalledInv'
  <2>1. CASE UNCHANGED <<resource, called>>
    BY <1>1, <1>2, <2>1 DEF CalledInv, Explained
  <2>2. ASSUME NEW b, NEW phase, Resolve(b, phase), b \in Branch
        PROVE  CalledInv'
    <3>1. /\ \A c \in Branch : Explained(c) => WillExplain(c)
          /\ WillExplain(b)
      BY <1>1, <2>2, ResolveKeeps
    <3>2. called' = called \cup {b}
      BY <2>2 DEF Resolve
    <3> QED BY <1>2, <3>1, <3>2, CalledKept
  <2> QED BY <1>1, <2>1, <2>2
<1>7. CommitInv'
  <2>1. (Committing' <=> Committing) /\ (RollingBack' <=> RollingBack)
    BY <1>2 DEF Committing, RollingBack
  <2> HIDE DEF Committing, RollingBack, Undecided
  <2> QED BY <1>1, <1>2, <2>1 DEF CommitInv
<1> QED BY <1>4, <1>5, <1>6, <1>7

LEMMA ExpireKeepsAll ==
  ASSUME OneRequest, RmInv, Expire, UNCHANGED rmVars
  PROVE  CompletenessInv'
<1> USE DEF RmInv, CompletenessInv
<1>1. /\ UNCHANGED <<tx, barriers, drv, budget, acked, effects>>
      /\ ~expired /\ expired'
      /\ UNCHANGED <<resource, proc, called, late>>
  BY DEF Expire, rmVars
<1>2. HandlersInv' /\ AloneInv'
  BY <1>1 DEF HandlersInv, AloneInv, Alone, Open, Phasing
<1>3. PhaseTwoInv'
  <2>1. Held'
    BY <1>1, HeldIdle DEF PhaseTwoInv
  <2>2. Passed' /\ Ended'
    BY <1>1 DEF PhaseTwoInv, Alone, Passed, Ended, Members
  <2> QED BY <2>1, <2>2 DEF PhaseTwoInv
<1>4. RegisteredInv' /\ CalledInv'
  BY <1>1 DEF RegisteredInv, Holds, Members, CalledInv, Explained
<1>5. CommitInv'
  BY <1>1 DEF CommitInv
<1> QED BY <1>2, <1>3, <1>4, <1>5

LEMMA ReadyStep ==
  ASSUME RmInv, ready \subseteq Branch, [RmNext]_xaVars
  PROVE  ready' \subseteq Branch
<1>1. CASE ready' = ready
  BY <1>1
<1>2. ASSUME NEW p \in Proc, ProcStep(p)
      PROVE  ready' \subseteq Branch
  <2>1. Begins(p) \/ Repeats(p) \/ Registers(p) \/ Cleans(p) \/ Prepares(p)
    BY <1>2, ProcCases DEF RmInv, CompletenessInv
  <2> QED
    BY <2>1 DEF Begins, Repeats, Registers, Cleans, Prepares, PrepareLocal,
                RegisteredInv, RmInv, CompletenessInv
<1>3. ASSUME NEW o \in Operator, OperatorStep(o)
      PROVE  ready' = ready
  BY <1>3, OperatorCommits, XaResourceAssumption DEF RmInv
<1> QED
  BY <1>1, <1>2, <1>3
     DEF RmNext, CoordinatorStep, PhaseTwoOk, PhaseTwoErr, rmVars, xaVars

LEMMA RmStep ==
  ASSUME Cas, OneWorker, OneRequest, RmInv, ready \subseteq Branch,
         [RmNext]_xaVars
  PROVE  RmInv' /\ ready' \subseteq Branch
<1>1. [XaNext]_vars
  <2>1. ASSUME NEW d \in Driver,
               CoordinatorStep(d) \/ PhaseTwoOk(d) \/ PhaseTwoErr(d)
        PROVE  [XaNext]_vars
    BY <2>1, RmShapes DEF RmInv
  <2>2. ASSUME NEW p \in Proc, ProcStep(p)
        PROVE  [XaNext]_vars
    BY <2>2, ProcQuiet DEF RmInv, CompletenessInv, DecisionInv
  <2>3. ASSUME NEW o \in Operator, OperatorStep(o)
        PROVE  UNCHANGED vars
    BY <2>3, OperatorCommits, XaResourceAssumption DEF RmInv
  <2>4. CASE Expire
    BY <2>4 DEF XaNext
  <2>5. CASE UNCHANGED xaVars
    BY <2>5 DEF xaVars
  <2> QED BY <2>1, <2>2, <2>3, <2>4, <2>5 DEF RmNext
<1>2. CoreInv' /\ ControlInv' /\ CasInv'
  BY <1>1, CoreStep, CasStep DEF RmInv
<1>3. DecisionInv'
  BY DecisionStep DEF RmInv
<1>4. CompletenessInv'
  <2>1. CASE UNCHANGED xaVars
    BY <2>1 DEF xaVars, vars, rmVars, RmInv, CompletenessInv, HandlersInv, AloneInv,
                Alone, Open, Phasing, PhaseTwoInv, Held, InFlight, DriverKey,
                Current, Passed, Ended, RegisteredInv, Holds, CalledInv,
                Explained, CommitInv, Committing, RollingBack, Undecided, Members
  <2>2. CASE RmNext
    BY <2>2, DriverKeeps, ProcKeepsAll, OperatorKeepsAll, ExpireKeepsAll DEF RmNext
  <2> QED BY <2>1, <2>2
<1>5. ready' \subseteq Branch
  BY ReadyStep
<1> QED BY <1>2, <1>3, <1>4, <1>5 DEF RmInv

LEMMA RmInitial == RmInit => RmInv /\ ready \subseteq Branch
<1> SUFFICES ASSUME RmInit PROVE RmInv /\ ready \subseteq Branch
  OBVIOUS
<1>1. Init /\ ready = {}
  BY DEF RmInit
<1>2. CoreInv /\ ControlInv /\ CasInv
  BY <1>1, CoreInit DEF Init, ControlInv, Idle, CasInv
<1>3. DecisionInv
  BY DecisionInitial
<1>4. HandlersInv /\ AloneInv
  BY <1>1 DEF Init, HandlersInv, AloneInv, Open, Phasing, Idle, NewTransaction
<1>5. PhaseTwoInv
  BY <1>1 DEF Init, PhaseTwoInv, Held, Passed, Ended, Idle, NewTransaction
<1>6. RegisteredInv /\ CalledInv
  BY <1>1 DEF Init, RmInit, RegisteredInv, Holds, IdleProc, CalledInv
<1>7. CommitInv
  BY <1>1 DEF Init, CommitInv, Committing, Idle, NewTransaction
<1> QED
  BY <1>1, <1>2, <1>3, <1>4, <1>5, <1>6, <1>7 DEF RmInv, CompletenessInv

(* For any branches, processes and operators, on a store that checks       *)
(* revisions, with the one worker the lease allows and the one request     *)
(* xa_global_transaction makes: when commit_xa has stored Succeeded before *)
(* the timeout, the local transaction of every branch no operator decided  *)
(* is committed.                                                           *)
THEOREM CommitIsComplete ==
  Cas /\ OneWorker /\ OneRequest => (RmSpec => []CommitComplete)
<1> SUFFICES ASSUME Cas, OneWorker, OneRequest PROVE RmSpec => []CommitComplete
  OBVIOUS
<1> DEFINE I == RmInv /\ ready \subseteq Branch
<1>1. RmInv => CommitComplete
  <2> SUFFICES ASSUME RmInv, tx.status = "Succeeded", ~expired, NEW b \in Branch,
                      Undecided(b)
               PROVE  resource[b] = "committed"
    BY DEF CommitComplete
  <2>1. Committing /\ ready = Branch
    BY DEF Committing, RmInv, CompletenessInv, CommitInv
  <2>2. resource[b] \in {"prepared", "committed"}
    BY <2>1 DEF RmInv, CompletenessInv, CommitInv
  <2>3. b \in Members(tx.ids)
    BY <2>2 DEF RmInv, CompletenessInv, RegisteredInv
  <2>4. <<b, "commit">> \in acked
    BY <2>3 DEF RmInv, CompletenessInv, PhaseTwoInv, Alone, Ended
  <2> QED BY <2>4 DEF RmInv, CompletenessInv, CommitInv
<1>2. RmInit => I
  BY RmInitial
<1>3. I /\ [RmNext]_xaVars => I'
  BY RmStep
<1> QED BY <1>1, <1>2, <1>3, PTL DEF RmSpec

(* Under the same conditions: a branch that is prepared after the global   *)
(* transaction has ended was prepared after phase 2 had called it, unless  *)
(* the timeout let the worker run phase 2 beside the request.              *)
THEOREM OrphansAreExplained ==
  Cas /\ OneWorker /\ OneRequest => (RmSpec => []OrphansExplained)
<1> SUFFICES ASSUME Cas, OneWorker, OneRequest PROVE RmSpec => []OrphansExplained
  OBVIOUS
<1> DEFINE I == RmInv /\ ready \subseteq Branch
<1>1. RmInv => OrphansExplained
  <2> SUFFICES ASSUME RmInv, IsTerminal(tx.status), Alone, NEW b \in Branch,
                      resource[b] = "prepared"
               PROVE  b \in late
    BY DEF OrphansExplained, Alone
  <2>1. b \in Members(tx.ids)
    BY DEF RmInv, CompletenessInv, RegisteredInv
  <2>2. PICK op : <<b, op>> \in acked
    BY <2>1 DEF RmInv, CompletenessInv, PhaseTwoInv, Ended, IsTerminal, HandlersInv
  <2>3. b \in called
    BY <2>2 DEF RmInv, CompletenessInv, CalledInv
  <2> QED BY <2>3 DEF RmInv, CompletenessInv, CalledInv, Explained
<1>2. RmInit => I
  BY RmInitial
<1>3. I /\ [RmNext]_xaVars => I'
  BY RmStep
<1> QED BY <1>1, <1>2, <1>3, PTL DEF RmSpec

=============================================================================
