--------------------------- MODULE MessageProofs ---------------------------
(***************************************************************************)
(* Proofs about the two-phase Message: nothing is delivered before it is   *)
(* due, and on a store that checks revisions nothing is delivered that was *)
(* not decided, and the record follows the abstract lifecycle.  Drivers,   *)
(* branches, stores, layers and crashes are any.                           *)
(***************************************************************************)
EXTENDS Message, Topics, CoordinatorProofs

-----------------------------------------------------------------------------
(* The shapes of a driver's step, in a layer or not.                       *)

(* Driver d alone moves, to state s.                                       *)
Becomes(d, s) == s \in LayerDriver /\ drv' = [drv EXCEPT ![d] = s]

LEMMA BecomesFacts ==
  ASSUME drv \in [Driver -> LayerDriver], NEW d \in Driver, NEW s,
         Becomes(d, s)
  PROVE  /\ drv' \in [Driver -> LayerDriver]
         /\ drv'[d] = s
         /\ \A e \in Driver : e # d => drv'[e] = drv[e]
BY DEF Becomes

(* The handler is over, or about to read the record.                       *)
Rests(d) ==
  /\ \E s : /\ Becomes(d, s) /\ ~HasCopy(s)
            /\ s.pc = "chosen" => s.op \in MessageHandler
  /\ effects' = effects \/ Delivers(drv[d])
  /\ tx' = tx

(* The handler read the record, and may go on to what s is about to do.    *)
Reads(d) ==
  /\ \E s :
       /\ Becomes(d, s) /\ HasCopy(s)
       /\ s.tx.rev = tx.rev
       /\ Phase(s.tx.status) \in Lifecycle!Successors(Phase(tx.status))
       /\ Delivers(s) \/ s.pc = "mark" => s.tx.status = "Succeeding"
       /\ Delivers(s) => due /\ tx.status = "Succeeding"
  /\ UNCHANGED <<tx, effects>>

(* dispatch_message goes on with its copy.                                 *)
Works(d) ==
  /\ Delivers(drv[d])
  /\ \E s :
       /\ Becomes(d, s) /\ HasCopy(s)
       /\ s.tx.rev = drv[d].tx.rev /\ s.tx.status = drv[d].tx.status
       /\ s.pc # "mark"
  /\ tx' = tx

(* The delivery is over, or stays open.                                    *)
Finishes(d, t) ==
  Delivers(drv[d]) /\ t.status \in {"Succeeding", "Succeeded"}

(* The handler writes t and returns, or goes on from "mark" or in a layer. *)
WritesCopy(d) ==
  \E t \in Transaction :
    /\ HasCopy(drv[d]) /\ t.rev = drv[d].tx.rev
    /\ t.status = drv[d].tx.status \/ Finishes(d, t)
    /\ \/ ~CanStore(t) /\ tx' = tx /\ Becomes(d, Idle)
       \/ CanStore(t) /\ tx' = Bumped(t) /\ Becomes(d, Idle)
       \/ /\ CanStore(t) /\ tx' = Bumped(t) /\ t.status = drv[d].tx.status
          /\ Delivers(drv[d]) \/ (drv[d].pc = "mark" /\ due)
          /\ \E s : Becomes(d, s) /\ Delivers(s) /\ s.tx = Bumped(t)
    /\ effects' = effects

Shape(d) == Rests(d) \/ Reads(d) \/ Works(d) \/ WritesCopy(d)

-----------------------------------------------------------------------------
(* The actions have these shapes.                                          *)

LEMMA IdleType ==
  Idle \in LayerDriver /\ ~HasCopy(Idle) /\ Idle.pc = "idle"
BY NewTransactionType DEF LayerDriver, DriverState, HasCopy, Idle

LEMMA ReturnBecomes ==
  ASSUME NEW d \in Driver, Return(d)
  PROVE  Becomes(d, Idle)
BY IdleType DEF Return, Becomes

LEMMA ChooseBecomes ==
  ASSUME NEW d \in Driver, NEW op \in Handler, Choose(d, op)
  PROVE  \E s : /\ Becomes(d, s) /\ s.pc = "chosen" /\ s.op = op
                /\ s.pos = 1 /\ s.tx = NewTransaction
<1> DEFINE s == [Idle EXCEPT !.pc = "chosen", !.op = op]
<1>1. /\ s \in LayerDriver /\ s.pc = "chosen" /\ s.op = op
      /\ s.pos = 1 /\ s.tx = NewTransaction
  BY IdleType DEF LayerDriver, Pc, Idle
<1>2. drv' = [drv EXCEPT ![d] = s]
  BY DEF Choose
<1> HIDE DEF s
<1> QED BY <1>1, <1>2 DEF Becomes

LEMMA BeginBecomes ==
  ASSUME MessageTypeOK, NEW d \in Driver, NEW op \in Handler, NEW pc \in Pc,
         NEW st \in TransactionStatus, Begin(d, op, pc, st)
  PROVE  \E s : /\ Becomes(d, s) /\ s.pc = pc /\ s.op = op /\ s.pos = 1
                /\ s.tx.rev = tx.rev /\ s.tx.status = st
                /\ s.tx.ids = tx.ids /\ s.tx.bst = tx.bst
<1> DEFINE t == [tx EXCEPT !.status = st]
           s == [pc |-> pc, op |-> op, pos |-> 1, tx |-> t]
<1>1. /\ t \in Transaction /\ t.status = st /\ t.rev = tx.rev
      /\ t.ids = tx.ids /\ t.bst = tx.bst
  BY Restated DEF MessageTypeOK
<1>2. drv' = [drv EXCEPT ![d] = s]
  BY DEF Begin
<1> HIDE DEF t
<1>3. s \in LayerDriver /\ s.pc = pc /\ s.op = op /\ s.pos = 1 /\ s.tx = t
  BY <1>1 DEF LayerDriver
<1> HIDE DEF s
<1> QED BY <1>1, <1>2, <1>3 DEF Becomes

(* The driver goes to pc, at branch number pos, with copy t.               *)
Goes(d, pc, pos, t) ==
  drv' = [drv EXCEPT ![d].pc = pc, ![d].pos = pos, ![d].tx = t]

LEMMA GoesBecomes ==
  ASSUME MessageTypeOK, NEW d \in Driver, NEW t \in Transaction,
         NEW pc \in Pc \cup {"claim", "unclaim", "calls"}, NEW pos \in Nat,
         Goes(d, pc, pos, t)
  PROVE  \E s : /\ Becomes(d, s) /\ s.pc = pc /\ s.op = drv[d].op
                /\ s.pos = pos /\ s.tx = t
<1> DEFINE s == [drv[d] EXCEPT !.pc = pc, !.pos = pos, !.tx = t]
<1>1. drv[d] \in LayerDriver /\ drv \in [Driver -> LayerDriver]
  BY DEF MessageTypeOK
<1>2. /\ s \in LayerDriver /\ s.pc = pc /\ s.op = drv[d].op
      /\ s.pos = pos /\ s.tx = t
  BY <1>1 DEF LayerDriver
<1>3. drv' = [drv EXCEPT ![d] = s]
  BY <1>1 DEF Goes
<1> HIDE DEF s
<1> QED BY <1>2, <1>3 DEF Becomes

(* A write in the middle of a handler.                                     *)
LEMMA PersistAndGoShape ==
  ASSUME MessageTypeOK, NEW d \in Driver, NEW t \in Transaction,
         NEW pc \in {"loop", "calls"}, HasCopy(drv[d]),
         t.rev = drv[d].tx.rev, t.status = drv[d].tx.status,
         Delivers(drv[d]) \/ (drv[d].pc = "mark" /\ due),
         PersistAndGo(d, t, pc, 1), effects' = effects
  PROVE  Shape(d)
<1>1. CASE CanStore(t)
  <2>1. /\ tx' = Bumped(t) /\ Bumped(t) \in Transaction
        /\ Goes(d, pc, 1, Bumped(t))
    BY <1>1, Stored DEF PersistAndGo, Goes
  <2>2. \E s : Becomes(d, s) /\ s.pc = pc /\ s.tx = Bumped(t)
    BY <2>1, GoesBecomes DEF Pc
  <2> QED BY <1>1, <2>1, <2>2 DEF Shape, WritesCopy, Delivers
<1>2. CASE ~CanStore(t)
  BY <1>2, ReturnBecomes DEF PersistAndGo, Shape, WritesCopy
<1> QED BY <1>1, <1>2

LEMMA PersistShape ==
  ASSUME NEW d \in Driver, NEW t \in Transaction, HasCopy(drv[d]),
         t.rev = drv[d].tx.rev,
         \/ t.status = drv[d].tx.status
         \/ Finishes(d, t),
         Persist(d, t), effects' = effects
  PROVE  Shape(d)
BY ReturnBecomes DEF Persist, Shape, WritesCopy

LEMMA EnterShape ==
  ASSUME MessageTypeOK, NEW d \in Driver, NEW op \in MessageHandler,
         tx.status \in AllowedFrom(op), Enter(d, op), UNCHANGED <<tx, effects>>
  PROVE  Shape(d)
<1> USE DEF Phase, Lifecycle!Successors, Lifecycle!Phases
<1>h. op \in Handler
  BY DEF MessageHandler, Handler
<1>s. {"Submitted", "Prepared", "Succeeding"} \subseteq TransactionStatus
      /\ {"persist", "mark", "loop"} \subseteq Pc
  BY DEF TransactionStatus, Pc
<1>1. CASE op = "prepare"
  <2>1. Begin(d, op, "persist", "Prepared") /\ tx.status = "Submitted"
    BY <1>1 DEF Enter, AllowedFrom
  <2>2. PICK s : /\ Becomes(d, s) /\ s.pc = "persist"
                 /\ s.tx.rev = tx.rev /\ s.tx.status = "Prepared"
    BY <1>h, <1>s, <2>1, BeginBecomes
  <2> QED BY <2>1, <2>2 DEF Shape, Reads, Delivers, HasCopy
<1>2. CASE op = "abort_message"
  <2>1. drv' = [drv EXCEPT ![d] =
                  [Idle EXCEPT !.pc = "persist", !.op = op, !.tx = Dropped]]
        /\ tx.status \in {"Submitted", "Prepared"}
    BY <1>2 DEF Enter, AllowedFrom
  <2>2. Dropped \in Transaction /\ Dropped.rev = tx.rev
        /\ Dropped.status = "Aborted"
    BY DEF Dropped, MessageTypeOK, Transaction, TransactionStatus, BranchStatus
  <2> DEFINE s == [Idle EXCEPT !.pc = "persist", !.op = op, !.tx = Dropped]
  <2>3. s \in LayerDriver /\ s.pc = "persist" /\ s.tx = Dropped
    BY <1>h, <2>2, IdleType DEF LayerDriver, Pc, Idle
  <2> HIDE DEF s
  <2>4. Becomes(d, s)
    BY <2>1, <2>3 DEF Becomes, s
  <2> QED BY <2>1, <2>2, <2>3, <2>4 DEF Shape, Reads, Delivers, HasCopy
<1>3. CASE op = "message" /\ tx.status # "Succeeding"
  <2>1. /\ Begin(d, op, "mark", "Succeeding")
        /\ tx.status \in {"Submitted", "Prepared"}
    BY <1>3 DEF Enter, AllowedFrom
  <2>2. PICK s : /\ Becomes(d, s) /\ s.pc = "mark"
                 /\ s.tx.rev = tx.rev /\ s.tx.status = "Succeeding"
    BY <1>h, <1>s, <2>1, BeginBecomes
  <2> QED BY <2>1, <2>2 DEF Shape, Reads, Delivers, HasCopy
<1>4. CASE op = "message" /\ tx.status = "Succeeding" /\ due
  <2>1. Begin(d, op, "loop", "Succeeding")
    BY <1>4 DEF Enter
  <2>2. PICK s : /\ Becomes(d, s) /\ s.pc = "loop"
                 /\ s.tx.rev = tx.rev /\ s.tx.status = "Succeeding"
    BY <1>h, <1>s, <2>1, BeginBecomes
  <2> QED BY <1>4, <2>2 DEF Shape, Reads, Delivers, HasCopy
<1>5. CASE op = "message" /\ tx.status = "Succeeding" /\ ~due
  BY <1>5, ReturnBecomes, IdleType DEF Enter, Shape, Rests
<1> QED BY <1>1, <1>2, <1>3, <1>4, <1>5 DEF MessageHandler

(* The copy with an attempt counted, and with those of a layer.            *)
LEMMA AttemptType ==
  ASSUME NEW t \in Transaction, NEW c
  PROVE  LET u == [t EXCEPT !.att[c] = @ + 1]
         IN  u \in Transaction /\ u.rev = t.rev /\ u.status = t.status
<1>1. CASE c \in Branch
  BY <1>1, Counted
<1>2. CASE c \notin Branch
  <2>1. [t EXCEPT !.att[c] = @ + 1] = t
    BY <1>2 DEF Transaction
  <2> QED BY <2>1
<1> QED BY <1>1, <1>2

LEMMA AttemptedType ==
  ASSUME NEW d \in Driver, drv[d].tx \in Transaction
  PROVE  /\ Attempted(d) \in Transaction
         /\ Attempted(d).rev = drv[d].tx.rev
         /\ Attempted(d).status = drv[d].tx.status
         /\ Attempted(d).ids = drv[d].tx.ids
         /\ \A b \in Branch :
              Attempted(d).bst[b] =
                IF b \in layer[d].held /\ drv[d].op # "compensate"
                THEN "Running" ELSE drv[d].tx.bst[b]
<1> DEFINE L == layer[d].held
           t == drv[d].tx
           att2 == [b \in Branch |-> IF b \in L THEN t.att[b] + 1 ELSE t.att[b]]
           bst2 == [b \in Branch |-> IF b \in L /\ drv[d].op # "compensate"
                                      THEN "Running" ELSE t.bst[b]]
<1>1. Attempted(d) = [t EXCEPT !.att = att2, !.bst = bst2]
  BY DEF Attempted, Transaction
<1>2. att2 \in [Branch -> Nat] /\ bst2 \in [Branch -> BranchStatus]
  BY DEF Transaction, BranchStatus
<1>3. \A b \in Branch :
        bst2[b] = IF b \in L /\ drv[d].op # "compensate"
                  THEN "Running" ELSE t.bst[b]
  OBVIOUS
<1> HIDE DEF att2, bst2
<1> QED BY <1>1, <1>2, <1>3 DEF Transaction

(* The steps of dispatch_message and of the writes.                        *)
LEMMA HandlerShape ==
  ASSUME MessageTypeOK, NEW d \in Driver, HandlerStep(d),
         drv[d].pc = "chosen" => drv[d].op \in MessageHandler
  PROVE  Shape(d)
<1>t. /\ drv \in [Driver -> LayerDriver] /\ drv[d] \in LayerDriver
      /\ drv[d].tx \in Transaction
  BY DEF MessageTypeOK, LayerDriver
(* The driver goes on in the loop with another copy.                       *)
<1>w. ASSUME NEW pc \in Pc \cup {"claim", "unclaim", "calls"},
             pc \notin {"mark", "idle", "chosen"},
             NEW t \in Transaction, Delivers(drv[d]), NEW pos \in Nat,
             t.rev = drv[d].tx.rev, t.status = drv[d].tx.status, tx' = tx,
             Goes(d, pc, pos, t)
      PROVE  Shape(d)
  BY <1>w, GoesBecomes DEF Shape, Works, HasCopy
<1>g. ASSUME NEW pc \in Pc \cup {"claim", "unclaim", "calls"},
             pc \notin {"mark", "idle", "chosen"},
             NEW t \in Transaction, Delivers(drv[d]),
             t.rev = drv[d].tx.rev, t.status = drv[d].tx.status, tx' = tx,
             Goto(d, pc, t)
      PROVE  Shape(d)
  <2>1. /\ drv[d].pos \in Nat
        /\ Goes(d, pc, drv[d].pos, t)
    BY <1>t, <1>g DEF LayerDriver, Goto, Goes
  <2> QED BY <1>g, <1>w, <2>1
<1>a. ASSUME NEW t \in Transaction, Delivers(drv[d]), Advance(d, t),
             t.rev = drv[d].tx.rev, t.status = drv[d].tx.status, tx' = tx
      PROVE  Shape(d)
  <2> DEFINE n == drv[d].pos + 1
  <2>1. n \in Nat
    BY <1>t DEF LayerDriver
  <2>2. Goes(d, "loop", n, t)
    BY <1>a DEF Advance, Goes
  <2> HIDE DEF n
  <2> QED BY <1>a, <1>w, <2>1, <2>2 DEF Pc
<1>m. ASSUME NEW st \in BranchStatus
      PROVE  /\ Mark(d, st) \in Transaction
             /\ Mark(d, st).rev = drv[d].tx.rev
             /\ Mark(d, st).status = drv[d].tx.status
  BY <1>t, <1>m DEF Mark, Transaction
<1>d. Delivers(drv[d]) => HasCopy(drv[d])
  BY DEF Delivers, HasCopy
<1>1. CASE StartChosen(d)
  <2>1. CASE Return(d)
    BY <1>1, <2>1, ReturnBecomes, IdleType DEF StartChosen, Shape, Rests
  <2>2. CASE ~Return(d)
    BY <1>1, <2>2, EnterShape DEF StartChosen
  <2> QED BY <2>1, <2>2
<1>2. CASE StoreMark(d)
  <2>1. HasCopy(drv[d])
    BY <1>2 DEF StoreMark, HasCopy
  <2>2. CASE due
    BY <1>2, <1>t, <2>1, <2>2, PersistAndGoShape DEF StoreMark
  <2>3. CASE ~due
    BY <1>2, <1>t, <2>1, <2>3, PersistShape DEF StoreMark
  <2> QED BY <2>2, <2>3
<1>3. CASE DeliverBranch(d)
  <2>1. Delivers(drv[d]) /\ tx' = tx
    BY <1>3 DEF DeliverBranch, Delivers
  <2>2. CASE Advance(d, drv[d].tx)
    BY <1>a, <1>t, <2>1, <2>2
  <2>3. CASE Claim(d, Mark(d, "Running"))
    <3> DEFINE m == Mark(d, "Running")
               t == [m EXCEPT !.att[Current(d)] = @ + 1]
    <3>1. /\ m \in Transaction
          /\ m.rev = drv[d].tx.rev /\ m.status = drv[d].tx.status
      BY <1>m DEF BranchStatus
    <3>2. Goto(d, "invoke", t)
      BY <2>3 DEF Claim
    <3> HIDE DEF m
    <3>3. t \in Transaction /\ t.rev = m.rev /\ t.status = m.status
      BY <3>1, AttemptType
    <3> HIDE DEF t
    <3> QED BY <1>g, <2>1, <3>1, <3>2, <3>3 DEF Pc
  <2> QED BY <1>3, <2>2, <2>3 DEF DeliverBranch
<1>4. CASE BranchOk(d)
  <2>1. Delivers(drv[d]) /\ tx' = tx /\ Advance(d, Mark(d, "Succeeded"))
    BY <1>4 DEF BranchOk, CallSucceeds, Delivers
  <2> QED BY <1>a, <1>m, <2>1 DEF BranchStatus
<1>5. CASE BranchErr(d)
  <2> DEFINE t == Mark(d, "Failed")
  <2>1. /\ Delivers(drv[d]) /\ tx' = tx
        /\ Goto(d, "release", t)
    BY <1>5 DEF BranchErr, CallFails, Delivers
  <2>2. /\ t \in Transaction
        /\ t.rev = drv[d].tx.rev /\ t.status = drv[d].tx.status
    BY <1>m DEF BranchStatus
  <2> HIDE DEF t
  <2> QED BY <1>g, <2>1, <2>2 DEF Pc
<1>6. CASE Release(d)
  <2>1. /\ Delivers(drv[d]) /\ tx' = tx
        /\ Goto(d, "persist", drv[d].tx)
    BY <1>6 DEF Release, ReleaseBarrier, Delivers
  <2> QED BY <1>g, <1>t, <2>1 DEF Pc
<1>7. CASE SaveCopy(d)
  <2>1. HasCopy(drv[d])
    BY <1>7 DEF SaveCopy, Save, HasCopy
  <2> QED BY <1>7, <1>t, <2>1, PersistShape DEF SaveCopy, Save
<1>s. ASSUME Delivers(drv[d]), NEW st \in {"Succeeding", "Succeeded"},
             effects' = effects, Persist(d, [drv[d].tx EXCEPT !.status = st])
      PROVE  Shape(d)
  <2> DEFINE t == [drv[d].tx EXCEPT !.status = st]
  <2>0. st \in TransactionStatus
    BY DEF TransactionStatus
  <2>1. t \in Transaction /\ t.rev = drv[d].tx.rev /\ t.status = st
    BY <1>t, <2>0, Restated
  <2>2. Persist(d, t)
    BY <1>s
  <2> HIDE DEF t
  <2> QED BY <1>d, <1>s, <2>1, <2>2, PersistShape DEF Finishes
<1>8. CASE Complete(d)
  BY <1>8, <1>s DEF Complete, Delivers
<1>9. CASE DeliverAll(d)
  <2>1. CASE Persist(d, [drv[d].tx EXCEPT !.status = "Succeeded"])
    BY <1>9, <1>s, <2>1 DEF DeliverAll, Delivers
  <2>2. CASE EnterLayer(d, OpenBranches(d)) /\ UNCHANGED tx
    <3>1. Goto(d, "claim", drv[d].tx)
      BY <1>t, <2>2 DEF EnterLayer, LayerDriver, Goto
    <3> QED BY <1>9, <1>g, <1>t, <2>2, <3>1 DEF DeliverAll, Delivers
  <2> QED BY <1>9, <2>1, <2>2 DEF DeliverAll
<1>10. CASE StoreJoined(d)
  <2> DEFINE st == IF FailedTasks(d) = {} THEN "Succeeded" ELSE "Succeeding"
  <2>1. /\ Delivers(drv[d]) /\ effects' = effects
        /\ st \in {"Succeeding", "Succeeded"}
        /\ Persist(d, [drv[d].tx EXCEPT !.status = st])
    BY <1>10 DEF StoreJoined, Joined, Delivers
  <2> HIDE DEF st
  <2> QED BY <1>s, <2>1
<1>11. CASE LayerStep(d)
  <2>1. CASE \/ Unclaim(d)
             \/ \E b \in Branch : ClaimNext(d, b) \/ ReleaseFailed(d, b)
    <3>1. Delivers(drv[d]) /\ tx' = tx
      BY <2>1 DEF ClaimNext, Unclaim, ReleaseFailed, Delivers
    <3>2. \/ drv' = drv \/ Return(d)
          \/ drv' = [drv EXCEPT ![d].pc = "unclaim"]
      BY <2>1 DEF ClaimNext, Unclaim, ReleaseFailed
    <3>3. CASE drv' = drv
      <4>1. Goto(d, drv[d].pc, drv[d].tx)
            /\ drv[d].pc \in Pc \cup {"claim", "unclaim", "calls"}
            /\ drv[d].pc \notin {"mark", "idle", "chosen"}
        BY <1>t, <3>1, <3>3 DEF LayerDriver, Delivers, Goto
      <4> QED BY <1>g, <1>t, <3>1, <4>1
    <3>4. CASE Return(d)
      BY <3>1, <3>4, ReturnBecomes, IdleType DEF Shape, Rests
    <3>5. CASE drv' = [drv EXCEPT ![d].pc = "unclaim"]
      <4>1. Goto(d, "unclaim", drv[d].tx)
        BY <1>t, <3>5 DEF LayerDriver, Goto
      <4> QED BY <1>g, <1>t, <3>1, <4>1
    <3> QED BY <3>2, <3>3, <3>4, <3>5
  <2>2. CASE StoreLayer(d)
    <3>1. /\ Attempted(d) \in Transaction
          /\ Attempted(d).rev = drv[d].tx.rev
          /\ Attempted(d).status = drv[d].tx.status
      BY <1>t, AttemptedType
    <3> QED BY <1>d, <2>2, <3>1, PersistAndGoShape DEF StoreLayer, Delivers
  <2>3. ASSUME NEW b \in Branch, TaskOk(d, b) \/ TaskErr(d, b)
        PROVE  Shape(d)
    <3>1. PICK st \in BranchStatus : TaskDone(d, b, st)
      BY <2>3 DEF TaskOk, TaskErr, BranchStatus
    <3>2. Delivers(drv[d]) /\ tx' = tx /\ drv[d].pc = "calls"
      BY <2>3 DEF TaskOk, TaskErr, TaskDone, Delivers
    <3> DEFINE t == [drv[d].tx EXCEPT !.bst[b] = st]
    <3>3. /\ t \in Transaction
          /\ t.rev = drv[d].tx.rev /\ t.status = drv[d].tx.status
      BY <1>t DEF Transaction
    <3>4. Goto(d, "calls", t)
      BY <1>t, <3>1, <3>2 DEF TaskDone, LayerDriver, Goto
    <3> HIDE DEF t
    <3> QED BY <1>g, <3>2, <3>3, <3>4
  <2> QED BY <1>11, <2>1, <2>2, <2>3 DEF LayerStep
<1> QED
  BY <1>1, <1>2, <1>3, <1>4, <1>5, <1>6, <1>7, <1>8, <1>9, <1>10, <1>11
     DEF HandlerStep

(* Requests, the worker and crashes.                                       *)
LEMMA ClientShape ==
  ASSUME MessageTypeOK, NEW d \in Driver, ClientStep(d) \/ Tick(d) \/ Crash(d)
  PROVE  Shape(d)
<1> USE DEF Phase, Lifecycle!Successors, Lifecycle!Phases
<1>t. tx.status \in TransactionStatus
  BY DEF MessageTypeOK, Transaction
<1>c. ASSUME NEW op \in MessageHandler, Choose(d, op), UNCHANGED <<tx, effects>>
      PROVE  Shape(d)
  <2>1. op \in Handler
    BY DEF MessageHandler, Handler
  <2> QED BY <1>c, <2>1, ChooseBecomes DEF Shape, Rests, HasCopy
<1>r. ASSUME NEW op \in {"schedule_submit", "force_stop", "reset_retry"},
             NEW st \in TransactionStatus, StatusRequest(d, op, st),
             Phase(st) \in Lifecycle!Successors(Phase(tx.status))
      PROVE  Shape(d)
  <2>1. /\ op \in Handler /\ "persist" \in Pc
        /\ Begin(d, op, "persist", st) /\ UNCHANGED <<tx, effects>>
    BY <1>r DEF Handler, Pc, StatusRequest
  <2>2. PICK s : /\ Becomes(d, s) /\ s.pc = "persist"
                 /\ s.tx.rev = tx.rev /\ s.tx.status = st
    BY <2>1, BeginBecomes
  <2>3. HasCopy(s) /\ ~Delivers(s) /\ s.pc # "mark"
    BY <2>2 DEF HasCopy, Delivers
  <2> QED BY <1>r, <2>1, <2>2, <2>3 DEF Shape, Reads
<1>h. /\ TickHandler \in MessageHandler \cup {"none"}
      /\ RecoverHandler \in MessageHandler \cup {"none"}
  BY DEF TickHandler, RecoverHandler, MessageHandler
<1>1. ASSUME NEW op \in MessageHandler, Call(d, op)
      PROVE  Shape(d)
  BY <1>1, EnterShape DEF Call
<1>2. CASE ScheduleSubmit(d)
  <2>1. /\ StatusRequest(d, "schedule_submit", "Succeeding")
        /\ tx.status \in {"Submitted", "Prepared"}
        /\ "Succeeding" \in TransactionStatus
    BY <1>2 DEF ScheduleSubmit, TransactionStatus
  <2>2. Phase("Succeeding") \in Lifecycle!Successors(Phase(tx.status))
    BY <2>1
  <2> QED BY <1>r, <2>1, <2>2
<1>3. CASE ForceStop(d)
  <2>1. /\ StatusRequest(d, "force_stop", "Failed")
        /\ ~IsTerminal(tx.status) /\ "Failed" \in TransactionStatus
    BY <1>3 DEF ForceStop, TransactionStatus
  <2>2. Phase("Failed") \in Lifecycle!Successors(Phase(tx.status))
    BY <1>t, <2>1 DEF IsTerminal, TransactionStatus
  <2> QED BY <1>r, <2>1, <2>2
<1>4. CASE ResetRetry(d)
  <2>1. Phase(tx.status) \in Lifecycle!Successors(Phase(tx.status))
    BY <1>t DEF TransactionStatus
  <2> QED BY <1>4, <1>r, <1>t, <2>1 DEF ResetRetry
<1>5. CASE Recover(d)
  BY <1>5, <1>c, <1>h DEF Recover, RecoverRequest
<1>6. CASE Tick(d)
  BY <1>6, <1>c, <1>h DEF Tick, WorkerTick
<1>7. CASE Crash(d)
  <2>1. tx' = tx /\ Return(d) /\ (effects' = effects \/ Delivers(drv[d]))
    BY <1>7 DEF Crash, AbandonLayer, Abandon, Delivers
  <2> QED BY <2>1, ReturnBecomes, IdleType DEF Shape, Rests
<1> QED
  BY <1>1, <1>2, <1>3, <1>4, <1>5, <1>6, <1>7 DEF ClientStep

(* A step of the specification.                                            *)
LEMMA StepCases ==
  ASSUME MessageTypeOK, ControlInv, [MessageNext]_messageVars
  PROVE  \/ \E d \in Driver : Shape(d) /\ due' = due
         \/ UNCHANGED <<tx, drv, effects>> /\ (due => due')
<1>1. ASSUME NEW d \in Driver,
             HandlerStep(d) \/ ClientStep(d) \/ Tick(d) \/ Crash(d)
      PROVE  Shape(d) /\ due' = due
  <2>1. Shape(d)
    BY <1>1, HandlerShape, ClientShape DEF ControlInv
  <2>f. /\ (UNCHANGED fixed) => (due' = due)
        /\ (UNCHANGED <<due, concurrent>>) => (due' = due)
    BY DEF fixed
  <2>2. CASE HandlerStep(d)
    <3>1. \/ UNCHANGED fixed
          \/ UNCHANGED <<due, concurrent>>
          \/ DeliverAll(d) \/ StoreJoined(d)
      BY <2>2 DEF HandlerStep, StartChosen, StoreMark, DeliverBranch, BranchOk,
           BranchErr, Release, SaveCopy, Complete
    <3>2. DeliverAll(d) \/ StoreJoined(d) => due' = due
      BY DEF DeliverAll, StoreJoined
    <3> QED BY <2>1, <2>f, <3>1, <3>2
  <2>3. CASE ClientStep(d) \/ Tick(d) \/ Crash(d)
    <3>1. \/ UNCHANGED fixed
          \/ UNCHANGED <<due, concurrent>>
      BY <2>3 DEF ClientStep, Call, ScheduleSubmit, Recover, Tick, Crash
    <3> QED BY <2>1, <2>f, <3>1
  <2> QED BY <1>1, <2>1, <2>2, <2>3
<1>2. CASE Expire /\ UNCHANGED fixed
  BY <1>2 DEF Expire, fixed
<1>3. CASE DelayPasses
  BY <1>3 DEF DelayPasses, layerVars, vars
<1>4. CASE UNCHANGED messageVars
  BY <1>4 DEF messageVars, layerVars, vars
<1> QED BY <1>1, <1>2, <1>3, <1>4 DEF MessageNext

-----------------------------------------------------------------------------
(* What holds on every store.                                              *)

LEMMA TypeStep ==
  ASSUME MessageTypeOK, ControlInv, [MessageNext]_messageVars
  PROVE  MessageTypeOK' /\ ControlInv'
<1>t. drv \in [Driver -> LayerDriver]
  BY DEF MessageTypeOK
<1>1. ASSUME NEW d \in Driver, Shape(d)
      PROVE  MessageTypeOK' /\ ControlInv'
  <2>1. PICK s : /\ Becomes(d, s)
                 /\ s.pc = "chosen" => s.op \in MessageHandler
    BY <1>1, IdleType
       DEF Shape, Rests, Reads, Works, WritesCopy, HasCopy, Delivers
  <2>2. tx' \in Transaction
    BY <1>1, Stored DEF Shape, Rests, Reads, Works, WritesCopy, MessageTypeOK
  <2> QED BY <1>t, <2>1, <2>2, BecomesFacts DEF MessageTypeOK, ControlInv
<1>2. CASE UNCHANGED <<tx, drv, effects>>
  BY <1>2 DEF MessageTypeOK, ControlInv
<1> QED BY <1>1, <1>2, StepCases

(* A driver that delivers after a step did so before, or the Message is    *)
(* due; and only a driver that delivers has effects.                       *)
LEMMA DueStep ==
  ASSUME MessageTypeOK, ControlInv, DueInv, NotBeforeDue,
         [MessageNext]_messageVars
  PROVE  DueInv' /\ NotBeforeDue'
<1>t. drv \in [Driver -> LayerDriver]
  BY DEF MessageTypeOK
<1>1. ASSUME NEW d \in Driver, Shape(d), due' = due
      PROVE  DueInv' /\ NotBeforeDue'
  <2>1. PICK s : Becomes(d, s) /\ (Delivers(s) => due)
    BY <1>1, IdleType
       DEF Shape, Rests, Reads, Works, WritesCopy, HasCopy, Delivers, DueInv
  <2>2. effects' = effects \/ due
    BY <1>1 DEF Shape, Rests, Reads, Works, WritesCopy, DueInv
  <2>3. DueInv'
    BY <1>1, <1>t, <2>1, BecomesFacts DEF DueInv, Delivers
  <2> QED BY <1>1, <2>2, <2>3 DEF NotBeforeDue, Delivered
<1>2. CASE UNCHANGED <<tx, drv, effects>> /\ (due => due')
  BY <1>2 DEF DueInv, NotBeforeDue, Delivered, Delivers
<1> QED BY <1>1, <1>2, StepCases

LEMMA MessageInitial ==
  MessageInit => /\ MessageTypeOK /\ ControlInv /\ DueInv /\ NotBeforeDue
                 /\ CopyInv /\ DecidedInv /\ DecisionFirst
                 /\ Lifecycle!Init
<1> SUFFICES ASSUME MessageInit
             PROVE  /\ MessageTypeOK /\ ControlInv /\ DueInv /\ NotBeforeDue
                    /\ CopyInv /\ DecidedInv /\ DecisionFirst
                    /\ Lifecycle!Init
  OBVIOUS
<1>1. /\ tx = NewTransaction /\ drv = [d \in Driver |-> Idle] /\ effects = {}
      /\ \A d \in Driver : drv[d] = Idle
  BY DEF MessageInit, LayerInit, Init
<1>2. Idle.pc = "idle" /\ NewTransaction.status = "Submitted"
  BY DEF Idle, NewTransaction
<1>3. MessageTypeOK
  BY <1>1, IdleType, NewTransactionType DEF MessageTypeOK
<1>4. Delivered = {}
  BY <1>1 DEF Delivered
<1> QED
  BY <1>1, <1>2, <1>3, <1>4
     DEF ControlInv, DueInv, NotBeforeDue, CopyInv, DecidedInv, DecisionFirst,
         Lifecycle!Init, Phase, HasCopy, Delivers

(* Nothing is delivered before the delay has passed, on every store,       *)
(* whichever of dispatch_message, schedule_submit and the tick gets there  *)
(* first, in order or in a layer, and whoever dies.                        *)
THEOREM NotBeforeDueHolds == Spec => []NotBeforeDue
<1> DEFINE I == MessageTypeOK /\ ControlInv /\ DueInv /\ NotBeforeDue
<1>1. MessageInit => I
  BY MessageInitial
<1>2. I /\ [MessageNext]_messageVars => I'
  BY TypeStep, DueStep
<1> QED BY <1>1, <1>2, PTL DEF Spec

-----------------------------------------------------------------------------
(* Stores that check the revision.                                         *)

(* The record after a write follows the record before it.                  *)
LEMMA RecordStep ==
  ASSUME Cas, MessageTypeOK, CopyInv, NEW d \in Driver, Shape(d), tx' # tx
  PROVE  /\ tx'.rev = tx.rev + 1
         /\ Phase(tx'.status) \in Lifecycle!Successors(Phase(tx.status))
<1> USE DEF Phase, Lifecycle!Successors, Lifecycle!Phases
<1>t. tx.status \in TransactionStatus
  BY DEF MessageTypeOK, Transaction
<1>1. PICK t \in Transaction :
        /\ HasCopy(drv[d]) /\ t.rev = drv[d].tx.rev /\ CanStore(t)
        /\ t.status = drv[d].tx.status \/ Finishes(d, t)
        /\ tx' = Bumped(t)
  BY DEF Shape, Rests, Reads, Works, WritesCopy
<1>2. t.rev = tx.rev /\ tx'.rev = tx.rev + 1 /\ tx'.status = t.status
  BY <1>1, Stored DEF CanStore
<1>3. /\ Phase(drv[d].tx.status) \in Lifecycle!Successors(Phase(tx.status))
      /\ Delivers(drv[d]) => drv[d].tx.status = "Succeeding"
  BY <1>1, <1>2 DEF CopyInv
<1>4. CASE t.status = drv[d].tx.status
  BY <1>2, <1>3, <1>4
<1>5. CASE Finishes(d, t)
  BY <1>2, <1>3, <1>5, <1>t DEF Finishes, TransactionStatus
<1> QED BY <1>1, <1>2, <1>4, <1>5

(* Copies are of the record as it is or cannot be stored.                  *)
LEMMA CopyStep ==
  ASSUME Cas, MessageTypeOK, ControlInv, CopyInv, [MessageNext]_messageVars
  PROVE  CopyInv'
<1> DEFINE Good(s) == HasCopy(s) =>
             /\ s.tx.rev <= tx'.rev
             /\ s.tx.rev = tx'.rev =>
                  Phase(s.tx.status) \in Lifecycle!Successors(Phase(tx'.status))
             /\ Delivers(s) \/ s.pc = "mark" => s.tx.status = "Succeeding"
<1>t. /\ drv \in [Driver -> LayerDriver] /\ tx.rev \in Nat
      /\ \A d \in Driver : drv[d].tx.rev \in Nat
  BY DEF MessageTypeOK, LayerDriver, Transaction
<1>g. \A e \in Driver : HasCopy(drv[e]) =>
        /\ drv[e].tx.rev <= tx.rev
        /\ drv[e].tx.rev = tx.rev =>
             Phase(drv[e].tx.status) \in Lifecycle!Successors(Phase(tx.status))
        /\ Delivers(drv[e]) \/ drv[e].pc = "mark" =>
             drv[e].tx.status = "Succeeding"
  BY DEF CopyInv
<1>1. ASSUME NEW d \in Driver, Shape(d), NEW e \in Driver
      PROVE  Good(drv'[e])
  <2>1. CASE e # d
    <3>1. drv'[e] = drv[e]
      BY <1>1, <1>t, <2>1, BecomesFacts
         DEF Shape, Rests, Reads, Works, WritesCopy
    <3>2. tx' = tx \/ tx'.rev = tx.rev + 1
      BY <1>1, RecordStep
    <3>3. CASE tx' = tx
      BY <1>g, <3>1, <3>3
    <3>4. CASE tx'.rev = tx.rev + 1
      <4>1. HasCopy(drv[e]) =>
              drv[e].tx.rev <= tx'.rev /\ drv[e].tx.rev # tx'.rev
        BY <1>g, <1>t, <3>4
      <4> QED BY <1>g, <3>1, <4>1
    <3> QED BY <3>2, <3>3, <3>4
  <2>2. CASE e = d /\ Rests(d)
    BY <1>t, <2>2, BecomesFacts DEF Rests
  <2>3. CASE e = d /\ Reads(d)
    BY <1>t, <2>3, BecomesFacts DEF Reads
  <2>4. CASE e = d /\ Works(d)
    <3>1. HasCopy(drv[d]) /\ drv[d].tx.status = "Succeeding"
      BY <1>g, <2>4 DEF Works, Delivers, HasCopy
    <3>2. PICK s :
            /\ Becomes(d, s)
            /\ s.tx.rev = drv[d].tx.rev /\ s.tx.status = drv[d].tx.status
      BY <2>4 DEF Works
    <3>3. tx' = tx /\ drv'[d] = s
      BY <1>t, <2>4, <3>2, BecomesFacts DEF Works
    <3> QED BY <1>g, <2>4, <3>1, <3>2, <3>3
  <2>5. CASE e = d /\ WritesCopy(d)
    <3>1. CASE Becomes(d, Idle)
      BY <1>t, <2>5, <3>1, BecomesFacts, IdleType
    <3>2. CASE ~Becomes(d, Idle)
      <4>1. PICK t \in Transaction :
              /\ HasCopy(drv[d]) /\ tx' = Bumped(t)
              /\ t.status = drv[d].tx.status
              /\ Delivers(drv[d]) \/ drv[d].pc = "mark"
              /\ \E s : Becomes(d, s) /\ Delivers(s) /\ s.tx = Bumped(t)
        BY <2>5, <3>2 DEF WritesCopy
      <4>2. drv'[d].tx = tx' /\ drv'[d].tx.status = "Succeeding"
        BY <1>g, <1>t, <4>1, BecomesFacts, Stored
      <4>3. Phase("Succeeding") \in Lifecycle!Successors(Phase("Succeeding"))
        BY DEF Phase, Lifecycle!Successors
      <4>4. tx'.rev \in Nat
        BY <4>1, Stored DEF Transaction
      <4> QED BY <2>5, <4>2, <4>3, <4>4
    <3> QED BY <3>1, <3>2
  <2> QED BY <1>1, <2>1, <2>2, <2>3, <2>4, <2>5 DEF Shape
<1>2. CASE UNCHANGED <<tx, drv, effects>>
  BY <1>2 DEF CopyInv, HasCopy, Delivers
<1>3. ASSUME NEW d \in Driver, Shape(d)
      PROVE  CopyInv'
  BY <1>1, <1>3 DEF CopyInv, HasCopy, Delivers
<1> QED BY <1>2, <1>3, StepCases

(* The stored Message implements the abstract lifecycle on a store that    *)
(* checks revisions: the submit decision and the abort exclude each other, *)
(* and an ended Message stays as it is.                                    *)
THEOREM MessageLifecycle == Cas => (Spec => Lifecycle!Spec)
<1> SUFFICES ASSUME Cas PROVE Spec => Lifecycle!Spec
  OBVIOUS
<1> DEFINE I == MessageTypeOK /\ ControlInv /\ CopyInv
<1>1. MessageInit => I /\ Lifecycle!Init
  BY MessageInitial
<1>2. I /\ [MessageNext]_messageVars => I'
  BY TypeStep, CopyStep
<1>3. I /\ [MessageNext]_messageVars => [Lifecycle!Move]_(Phase(tx.status))
  BY StepCases, RecordStep DEF Lifecycle!Move
<1> QED BY <1>1, <1>2, <1>3, PTL DEF Spec, Lifecycle!Spec

(* A driver delivers only what the record says is decided.                 *)
LEMMA DecidedStep ==
  ASSUME Cas, MessageTypeOK, ControlInv, CopyInv, DecidedInv, DecisionFirst,
         [MessageNext]_messageVars
  PROVE  DecidedInv' /\ DecisionFirst'
<1> DEFINE Decided(st) == st \in {"Succeeding", "Succeeded", "Failed"}
<1>t. /\ drv \in [Driver -> LayerDriver] /\ tx.status \in TransactionStatus
  BY DEF MessageTypeOK, Transaction
<1>1. ASSUME NEW d \in Driver, Shape(d)
      PROVE  DecidedInv' /\ DecisionFirst'
  <2>1. Decided(tx.status) => Decided(tx'.status)
    <3>1. CASE tx' = tx
      BY <3>1
    <3>2. CASE tx' # tx
      <4>1. tx'.status \in TransactionStatus
        BY TypeStep DEF MessageTypeOK, Transaction
      <4> QED BY <1>1, <1>t, <3>2, <4>1, RecordStep
              DEF Phase, Lifecycle!Successors, Lifecycle!Phases,
                  TransactionStatus
    <3> QED BY <3>1, <3>2
  <2>2. PICK s : Becomes(d, s) /\ (Delivers(s) => Decided(tx'.status))
    <3>1. CASE Rests(d)
      BY <3>1 DEF Rests, Delivers, HasCopy
    <3>2. CASE Reads(d)
      BY <3>2 DEF Reads
    <3>3. CASE Works(d)
      BY <3>3 DEF Works, DecidedInv
    <3>4. CASE WritesCopy(d)
      <4>1. CASE Becomes(d, Idle)
        BY <4>1, IdleType DEF Delivers
      <4>2. CASE ~Becomes(d, Idle)
        <5>1. PICK t \in Transaction :
              /\ HasCopy(drv[d]) /\ tx' = Bumped(t)
              /\ t.status = drv[d].tx.status
              /\ Delivers(drv[d]) \/ drv[d].pc = "mark"
              /\ \E s : Becomes(d, s) /\ Delivers(s) /\ s.tx = Bumped(t)
          BY <3>4, <4>2 DEF WritesCopy
        <5>2. tx'.status = "Succeeding"
          BY <5>1, Stored DEF CopyInv
        <5> QED BY <5>1, <5>2
      <4> QED BY <4>1, <4>2
    <3> QED BY <1>1, <3>1, <3>2, <3>3, <3>4 DEF Shape
  <2>3. effects' = effects \/ Delivers(drv[d])
    BY <1>1 DEF Shape, Rests, Reads, Works, WritesCopy
  <2>4. DecidedInv'
    BY <1>t, <2>1, <2>2, BecomesFacts DEF DecidedInv, Delivers
  <2>5. DecisionFirst'
    BY <2>1, <2>3 DEF DecisionFirst, DecidedInv, Delivered
  <2> QED BY <2>4, <2>5
<1>2. CASE UNCHANGED <<tx, drv, effects>>
  BY <1>2 DEF DecidedInv, DecisionFirst, Delivered, Delivers
<1> QED BY <1>1, <1>2, StepCases

(* On a store that checks revisions nothing is delivered of a Message      *)
(* whose record says that it was not submitted or that it was aborted:     *)
(* whichever request, worker or copy is late, a delivery that reached a    *)
(* branch is never followed by an abort.                                   *)
THEOREM DecisionFirstHolds == Cas => (Spec => []DecisionFirst)
<1> SUFFICES ASSUME Cas PROVE Spec => []DecisionFirst
  OBVIOUS
<1> DEFINE I == /\ MessageTypeOK /\ ControlInv /\ CopyInv /\ DecidedInv
                /\ DecisionFirst
<1>1. MessageInit => I
  BY MessageInitial
<1>2. I /\ [MessageNext]_messageVars => I'
  BY TypeStep, CopyStep, DecidedStep
<1> QED BY <1>1, <1>2, PTL DEF Spec

-----------------------------------------------------------------------------
(* Complete delivery.  A step in terms of what DeliveryInv speaks of:      *)
(* driver d alone moves, to state s and layer l.                           *)

MovesTo(d, s, l) ==
  Becomes(d, s) /\ l \in Layer /\ layer' = [layer EXCEPT ![d] = l]

LEMMA MovesToFacts ==
  ASSUME LayersTypeOK, NEW d \in Driver, NEW s, NEW l, MovesTo(d, s, l)
  PROVE  /\ drv' \in [Driver -> LayerDriver] /\ layer' \in [Driver -> Layer]
         /\ drv'[d] = s /\ layer'[d] = l /\ s \in LayerDriver
         /\ \A e \in Driver : e # d => drv'[e] = drv[e] /\ layer'[e] = layer[e]
BY DEF MovesTo, Becomes, LayersTypeOK

LayerPc == {"claim", "unclaim", "calls"}

Accepts(b) == <<b, "message">>

(* The driver returns, or is abandoned.                                    *)
Stops(d) ==
  /\ MovesTo(d, Idle, NoLayer) /\ UNCHANGED <<tx, acked>>
  /\ \/ ~InFlight(d) /\ UNCHANGED <<barriers, effects>>
     \/ Spend("crash")

Calm == UNCHANGED <<acked, barriers, effects>>

(* A tick or recover() chose a handler.                                    *)
PicksUp(d) ==
  /\ \E s : /\ MovesTo(d, s, NoLayer)
            /\ s.pc = "chosen" /\ s.pos = 1 /\ s.tx = NewTransaction
  /\ ~InFlight(d) /\ (d \in Worker \/ Spend("call"))
  /\ tx' = tx /\ Calm

(* A handler read the record.                                              *)
LooksUp(d) ==
  /\ \E s : /\ MovesTo(d, s, NoLayer)
            /\ s.pc \in {"persist", "mark", "loop"} /\ s.pos = 1
            /\ s.tx.ids = tx.ids /\ s.tx.status # "Succeeded"
            /\ \A b \in Branch :
                 s.tx.bst[b] = "Succeeded" => tx.bst[b] = "Succeeded"
            /\ s.pc # "persist" =>
                 s.op = "message" /\ (drv[d].pc = "chosen" \/ Spend("call"))
  /\ ~InFlight(d)
  /\ tx' = tx /\ Calm

(* Every branch is delivered, as far as driver d knows.                    *)
AllDone(d) ==
  \/ drv[d].pc = "loop" /\ ~concurrent /\ ~MoreBranches(d)
  \/ drv[d].pc = "loop" /\ concurrent /\ OpenBranches(d) = {}
  \/ drv[d].pc = "calls" /\ layer[d].calling = {} /\ FailedTasks(d) = {}

(* The copy is written.                                                    *)
PutsBack(d) ==
  /\ HasCopy(drv[d]) /\ ~InFlight(d)
  /\ tx' \in Transaction
  /\ tx'.ids = drv[d].tx.ids /\ tx'.bst = drv[d].tx.bst
  /\ tx'.status = "Succeeded" => AllDone(d)
  /\ \/ MovesTo(d, Idle, NoLayer)
     \/ /\ drv[d].pc = "mark" /\ tx'.status # "Succeeded"
        /\ \E s : /\ MovesTo(d, s, NoLayer)
                  /\ s.pc = "loop" /\ s.op = "message" /\ s.pos = 1
                  /\ s.tx = tx'
  /\ Calm

(* Delivery in declared order.                                             *)
GoesOn(d, s) ==
  /\ MovesTo(d, s, NoLayer) /\ ~concurrent
  /\ s.op = drv[d].op
  /\ s.tx.ids = drv[d].tx.ids /\ s.tx.status = drv[d].tx.status
  /\ \A b \in Branch : s.tx.bst[b] = "Succeeded" =>
       drv[d].tx.bst[b] = "Succeeded" \/ Accepts(b) \in acked'
  /\ tx' = tx

TakesBranch(d) ==
  /\ drv[d].pc = "loop" /\ MoreBranches(d)
  /\ \E s : GoesOn(d, s) /\ s.pc = "invoke" /\ s.pos = drv[d].pos
  /\ barriers' = barriers \cup {DriverKey(d)}
  /\ UNCHANGED <<acked, effects>>

PassesBranch(d) ==
  /\ drv[d].pc = "loop" /\ MoreBranches(d)
  /\ drv[d].tx.bst[Current(d)] = "Succeeded" \/ DriverKey(d) \in barriers
  /\ \E s : GoesOn(d, s) /\ s.pc = "loop" /\ s.pos = drv[d].pos + 1
  /\ Calm

Confirms(d) ==
  /\ drv[d].pc = "invoke"
  /\ \E s : GoesOn(d, s) /\ s.pc = "loop" /\ s.pos = drv[d].pos + 1
  /\ acked' = acked \cup {DriverKey(d)}
  /\ effects' = effects \cup {DriverKey(d)}
  /\ UNCHANGED barriers

Misses(d) ==
  /\ drv[d].pc = "invoke"
  /\ \E s : GoesOn(d, s) /\ s.pc = "release" /\ s.pos = drv[d].pos
  /\ effects' \in {effects, effects \cup {DriverKey(d)}}
  /\ UNCHANGED <<acked, barriers>>

GivesBack(d) ==
  /\ drv[d].pc = "release"
  /\ \E s : GoesOn(d, s) /\ s.pc = "persist" /\ s.pos = drv[d].pos
  /\ barriers' = barriers \ {DriverKey(d)}
  /\ UNCHANGED <<acked, effects>>

(* Concurrent delivery: into a layer, and on in it.                        *)
TurnsLayer(d) ==
  /\ concurrent /\ drv[d].pc \in {"loop"} \cup LayerPc
  /\ acked \subseteq acked'
  /\ \E s, l :
       /\ MovesTo(d, s, l) /\ s.pc \in LayerPc
       /\ s.op = drv[d].op /\ s.pos >= 1
       /\ s.tx.ids = drv[d].tx.ids /\ s.tx.status = drv[d].tx.status
       /\ \A b \in Branch : s.tx.bst[b] = "Succeeded" =>
            drv[d].tx.bst[b] = "Succeeded" \/ Accepts(b) \in acked'
       /\ Covered(s, l)
       /\ tx' = tx \/ tx' = s.tx

Budgeted ==
  \/ budget' = budget
  \/ Spend("request") \/ Spend("call") \/ Spend("failure") \/ Spend("crash")

DeliveryShape(d) ==
  /\ \/ Stops(d) \/ PicksUp(d) \/ LooksUp(d) \/ PutsBack(d)
     \/ TakesBranch(d) \/ PassesBranch(d) \/ Confirms(d) \/ Misses(d)
     \/ GivesBack(d) \/ TurnsLayer(d)
  /\ concurrent' = concurrent /\ Budgeted

-----------------------------------------------------------------------------
(* What each shape preserves.  DispatchInv for the accepted keys A:        *)

ConfirmedBy(t, A) ==
  /\ t.ids = Initial
  /\ \A b \in Branch : t.bst[b] = "Succeeded" => Accepts(b) \in A

DispatchBy(s, l, A) ==
  /\ ConfirmedBy(s.tx, A) /\ s.tx.status # "Succeeded"
  /\ Delivers(s) \/ s.pc = "mark" => s.op = "message" /\ s.pos >= 1
  /\ s.pc \in LayerPc => concurrent
  /\ s.pc \in {"invoke", "release"} =>
       ~concurrent /\ s.pos <= Len(Initial)
  /\ s.pc \notin LayerPc => l = NoLayer
  /\ Covered(s, l)

AllDispatch == \A d \in Driver : DispatchInv(drv[d], layer[d])

LEMMA DispatchFacts ==
  ASSUME AllDispatch, NEW d \in Driver
  PROVE  DispatchBy(drv[d], layer[d], acked)
BY DEF AllDispatch, DispatchInv, DispatchBy, Confirmed, ConfirmedBy, Accepts,
       LayerPc

LEMMA ConfirmedIs ==
  ASSUME Confirmed(tx)
  PROVE  ConfirmedBy(tx, acked)
BY DEF Confirmed, ConfirmedBy, Accepts

(* Outside of a layer nothing is to be covered.                            *)
LEMMA OutsideCovered ==
  ASSUME NEW s, NEW l, s.pc \notin LayerPc
  PROVE  Covered(s, l)
BY DEF Covered, LayerPc

LEMMA IdleDispatch ==
  ASSUME NEW A
  PROVE  DispatchBy(Idle, NoLayer, A)
<1>1. /\ Idle.pc = "idle" /\ Idle.tx.ids = Initial
      /\ Idle.tx.status # "Succeeded"
      /\ \A b \in Branch : Idle.tx.bst[b] = "Pending"
  BY DEF Idle, NewTransaction
<1>2. Covered(Idle, NoLayer)
  BY <1>1, OutsideCovered DEF LayerPc
<1> QED BY <1>1, <1>2 DEF DispatchBy, ConfirmedBy, Delivers, LayerPc

LEMMA DispatchMoves ==
  ASSUME LayersTypeOK, AllDispatch, NEW d \in Driver, NEW s, NEW l,
         MovesTo(d, s, l), DispatchBy(s, l, acked'), tx' \in Transaction,
         acked \subseteq acked', concurrent' = concurrent,
         ConfirmedBy(tx', acked')
  PROVE  LayersTypeOK' /\ AllDispatch' /\ Confirmed(tx)'
<1>1. /\ drv' \in [Driver -> LayerDriver] /\ layer' \in [Driver -> Layer]
      /\ drv'[d] = s /\ layer'[d] = l
      /\ \A e \in Driver : e # d => drv'[e] = drv[e] /\ layer'[e] = layer[e]
  BY MovesToFacts
<1>2. ASSUME NEW e \in Driver
      PROVE  DispatchBy(drv'[e], layer'[e], acked')
  <2>1. CASE e = d
    BY <1>1, <2>1
  <2>2. CASE e # d
    <3>1. DispatchBy(drv[e], layer[e], acked)
      BY DispatchFacts
    <3>2. DispatchBy(drv[e], layer[e], acked')
      BY <3>1 DEF DispatchBy, ConfirmedBy
    <3> QED BY <1>1, <2>2, <3>2
  <2> QED BY <2>1, <2>2
<1>3. AllDispatch'
  <2> SUFFICES ASSUME NEW e \in Driver
               PROVE  DispatchInv(drv[e], layer[e])'
    BY DEF AllDispatch
  <2> QED
    BY <1>2 DEF DispatchInv, DispatchBy, Confirmed, ConfirmedBy, Accepts,
                LayerPc, Covered, Delivers
<1> QED BY <1>1, <1>3 DEF LayersTypeOK, Confirmed, ConfirmedBy, Accepts

(* A driver in dispatch_message is at a branch of the Message.             *)
LEMMA BranchIs ==
  ASSUME LayersTypeOK, AllDispatch, NEW d \in Driver, Delivers(drv[d])
  PROVE  /\ drv[d].op = "message" /\ drv[d].pos \in Nat /\ drv[d].pos >= 1
         /\ drv[d].tx.ids = Initial
         /\ Current(d) = Initial[drv[d].pos]
         /\ DriverKey(d) = Accepts(Initial[drv[d].pos])
         /\ \A b \in Branch : LayerKey(d, b) = Accepts(b)
         /\ MoreBranches(d) <=> drv[d].pos <= Len(Initial)
         /\ MoreBranches(d) =>
              /\ drv[d].pos \in 1..Len(Initial)
              /\ Initial[drv[d].pos] \in Branch
<1>1. /\ drv[d].op = "message" /\ drv[d].pos >= 1 /\ drv[d].tx.ids = Initial
  BY DispatchFacts DEF DispatchBy, ConfirmedBy
<1>2. drv[d].pos \in Nat
  BY DEF LayersTypeOK, LayerDriver
<1>3. /\ Current(d) = Initial[drv[d].pos]
      /\ DriverKey(d) = Accepts(Initial[drv[d].pos])
      /\ \A b \in Branch : LayerKey(d, b) = Accepts(b)
  BY <1>1 DEF Current, Backwards, DriverKey, BarrierOp, LayerKey, Accepts
<1>4. MoreBranches(d) <=> drv[d].pos <= Len(Initial)
  BY <1>1 DEF MoreBranches
<1>5. MoreBranches(d) =>
        drv[d].pos \in 1..Len(Initial) /\ Initial[drv[d].pos] \in Branch
  BY <1>1, <1>2, <1>4, CoordinatorAssumption
<1> QED BY <1>1, <1>2, <1>3, <1>4, <1>5

LEMMA DispatchStep ==
  ASSUME LayersTypeOK, AllDispatch, Confirmed(tx), NEW d \in Driver,
         DeliveryShape(d)
  PROVE  LayersTypeOK' /\ AllDispatch' /\ Confirmed(tx)' /\ acked \subseteq acked'
<1>t. /\ tx \in Transaction /\ concurrent' = concurrent
      /\ ConfirmedBy(tx, acked)
      /\ DispatchBy(drv[d], layer[d], acked)
  BY DispatchFacts, ConfirmedIs DEF LayersTypeOK, DeliveryShape
<1>k. ASSUME acked \subseteq acked'
      PROVE  ConfirmedBy(tx, acked') /\ ConfirmedBy(drv[d].tx, acked')
  BY <1>k, <1>t DEF ConfirmedBy, DispatchBy
<1>1. CASE Stops(d)
  <2>1. acked' = acked /\ tx' = tx /\ MovesTo(d, Idle, NoLayer)
    BY <1>1 DEF Stops
  <2>2. DispatchBy(Idle, NoLayer, acked')
    BY IdleDispatch
  <2> QED BY <1>t, <1>k, <2>1, <2>2, DispatchMoves
<1>2. CASE PicksUp(d)
  <2>1. PICK s : /\ MovesTo(d, s, NoLayer)
                 /\ s.pc = "chosen" /\ s.pos = 1 /\ s.tx = NewTransaction
    BY <1>2 DEF PicksUp
  <2>2. acked' = acked /\ tx' = tx
    BY <1>2 DEF PicksUp, Calm
  <2>3. ConfirmedBy(s.tx, acked') /\ s.tx.status # "Succeeded"
    BY <2>1 DEF ConfirmedBy, NewTransaction
  <2>4. DispatchBy(s, NoLayer, acked')
    BY <2>1, <2>3, OutsideCovered DEF DispatchBy, Delivers, LayerPc
  <2> QED BY <1>t, <1>k, <2>1, <2>2, <2>4, DispatchMoves
<1>3. CASE LooksUp(d)
  <2>1. PICK s : /\ MovesTo(d, s, NoLayer)
                 /\ s.pc \in {"persist", "mark", "loop"} /\ s.pos = 1
                 /\ s.tx.ids = tx.ids /\ s.tx.status # "Succeeded"
                 /\ \A b \in Branch :
                      s.tx.bst[b] = "Succeeded" => tx.bst[b] = "Succeeded"
                 /\ s.pc # "persist" => s.op = "message"
    BY <1>3 DEF LooksUp
  <2>2. acked' = acked /\ tx' = tx
    BY <1>3 DEF LooksUp, Calm
  <2>3. ConfirmedBy(s.tx, acked')
    BY <1>t, <2>1, <2>2 DEF ConfirmedBy
  <2>4. DispatchBy(s, NoLayer, acked')
    BY <2>1, <2>3, OutsideCovered DEF DispatchBy, Delivers, LayerPc
  <2> QED BY <1>t, <1>k, <2>1, <2>2, <2>4, DispatchMoves
<1>4. CASE PutsBack(d)
  <2>1. /\ acked' = acked /\ tx' \in Transaction /\ ConfirmedBy(tx', acked')
    BY <1>4, <1>t DEF PutsBack, Calm, DispatchBy, ConfirmedBy
  <2>2. CASE MovesTo(d, Idle, NoLayer)
    BY <1>t, <2>1, <2>2, IdleDispatch, DispatchMoves
  <2>3. CASE ~MovesTo(d, Idle, NoLayer)
    <3>1. PICK s : /\ MovesTo(d, s, NoLayer)
                   /\ s.pc = "loop" /\ s.op = "message" /\ s.pos = 1
                   /\ s.tx = tx' /\ tx'.status # "Succeeded"
      BY <1>4, <2>3 DEF PutsBack
    <3>2. DispatchBy(s, NoLayer, acked')
      BY <2>1, <3>1, OutsideCovered DEF DispatchBy, Delivers, LayerPc
    <3> QED BY <1>t, <2>1, <3>1, <3>2, DispatchMoves
  <2> QED BY <2>2, <2>3
(* In declared order.                                                      *)
<1>g. ASSUME NEW s, GoesOn(d, s), Delivers(drv[d]), acked \subseteq acked',
             s.pc \in {"loop", "invoke", "release", "persist"}, s.pos >= 1,
             s.pc \in {"invoke", "release"} => s.pos <= Len(Initial)
      PROVE  LayersTypeOK' /\ AllDispatch' /\ Confirmed(tx)'
  <2>1. /\ MovesTo(d, s, NoLayer) /\ ~concurrent /\ s.op = drv[d].op
        /\ s.tx.ids = drv[d].tx.ids /\ s.tx.status = drv[d].tx.status
        /\ tx' = tx
    BY <1>g DEF GoesOn
  <2>2. s.op = "message" /\ s.tx.status # "Succeeded"
    BY <1>g, <1>t, <2>1 DEF DispatchBy
  <2>3. ConfirmedBy(s.tx, acked')
    BY <1>g, <1>k, <2>1 DEF ConfirmedBy, GoesOn
  <2>4. DispatchBy(s, NoLayer, acked')
    BY <1>g, <2>1, <2>2, <2>3, OutsideCovered DEF DispatchBy, LayerPc
  <2> QED BY <1>g, <1>t, <1>k, <2>1, <2>4, DispatchMoves
<1>5. CASE \/ TakesBranch(d) \/ PassesBranch(d) \/ Confirms(d)
           \/ Misses(d) \/ GivesBack(d)
  <2>1. /\ Delivers(drv[d]) /\ acked \subseteq acked'
        /\ drv[d].pc \in {"invoke", "release"} \/ MoreBranches(d)
    BY <1>5 DEF TakesBranch, PassesBranch, Confirms, Misses, GivesBack, Calm,
                Delivers
  <2>2. drv[d].pos \in Nat /\ drv[d].pos >= 1 /\ drv[d].pos <= Len(Initial)
    BY <1>t, <2>1, BranchIs DEF DispatchBy
  <2>3. PICK s :
          /\ GoesOn(d, s)
          /\ \/ s.pc \in {"loop", "persist"}
                /\ s.pos \in {drv[d].pos, drv[d].pos + 1}
             \/ s.pc \in {"invoke", "release"} /\ s.pos = drv[d].pos
    BY <1>5 DEF TakesBranch, PassesBranch, Confirms, Misses, GivesBack
  <2>4. s.pos >= 1
    BY <2>2, <2>3
  <2> QED BY <1>g, <2>1, <2>2, <2>3, <2>4
<1>6. CASE TurnsLayer(d)
  <2>1. PICK s, l :
          /\ MovesTo(d, s, l) /\ s.pc \in LayerPc
          /\ s.op = drv[d].op /\ s.pos >= 1
          /\ s.tx.ids = drv[d].tx.ids /\ s.tx.status = drv[d].tx.status
          /\ \A b \in Branch : s.tx.bst[b] = "Succeeded" =>
               drv[d].tx.bst[b] = "Succeeded" \/ Accepts(b) \in acked'
          /\ Covered(s, l)
          /\ tx' = tx \/ tx' = s.tx
    BY <1>6 DEF TurnsLayer
  <2>2. /\ Delivers(drv[d]) /\ acked \subseteq acked' /\ concurrent
    BY <1>6 DEF TurnsLayer, Delivers, LayerPc
  <2>3. s.op = "message" /\ s.tx.status # "Succeeded"
    BY <1>t, <2>1, <2>2 DEF DispatchBy
  <2>4. ConfirmedBy(s.tx, acked')
    BY <1>k, <2>1, <2>2 DEF ConfirmedBy
  <2>5. DispatchBy(s, l, acked')
    BY <2>1, <2>2, <2>3, <2>4 DEF DispatchBy, LayerPc
  <2>6. tx' \in Transaction /\ ConfirmedBy(tx', acked')
    BY <1>k, <1>t, <2>1, <2>2, <2>4 DEF MovesTo, Becomes, LayerDriver
  <2> QED BY <1>t, <2>1, <2>2, <2>5, <2>6, DispatchMoves
<1>a. acked \subseteq acked'
  BY DEF DeliveryShape, Stops, PicksUp, LooksUp, PutsBack, TakesBranch,
         PassesBranch, Confirms, Misses, GivesBack, TurnsLayer, Calm
<1> QED BY <1>1, <1>2, <1>3, <1>4, <1>5, <1>6, <1>a DEF DeliveryShape

BudgetTyped ==
  budget \in [{"request", "call", "failure", "crash"} -> Nat] /\ BudgetInv

LEMMA BudgetStep ==
  ASSUME BudgetTyped, Budgeted
  PROVE  /\ BudgetTyped'
         /\ WorkersOnly' => WorkersOnly /\ ~Spend("call") /\ ~Spend("crash")
<1>1. CASE budget' = budget
  <2>1. ~Spend("call") /\ ~Spend("crash")
    BY <1>1 DEF Spend, BudgetTyped
  <2> QED BY <1>1, <2>1 DEF BudgetTyped, BudgetInv, WorkersOnly
<1>2. CASE budget' # budget
  BY <1>2, BudgetSpent DEF Budgeted, BudgetTyped
<1> QED BY <1>1, <1>2

(* A driver d in state s is where InSequence allows it with A accepted.    *)
InTurn(d, s, A) ==
  /\ s.pc \notin {"idle", "persist"} => d \in Worker
  /\ \A i \in 1..Len(Initial) :
       s.pc \in {"loop", "invoke", "release"} /\ i < s.pos =>
         Accepts(Initial[i]) \in A

LEMMA InTurnFacts ==
  ASSUME InSequence, NEW d \in Driver
  PROVE  InTurn(d, drv[d], acked)
BY DEF InSequence, InTurn, Accepts

LEMMA SequenceMoves ==
  ASSUME LayersTypeOK, InSequence, NEW d \in Driver, NEW s,
         MovesTo(d, s, NoLayer), InTurn(d, s, acked'), acked \subseteq acked',
         \A b \in Branch : Accepts(b) \in barriers' =>
           \/ Accepts(b) \in acked'
           \/ s.pc \in {"invoke", "release"} /\ Initial[s.pos] = b
           \/ \E e \in Driver : /\ e # d /\ InFlight(e)
                                /\ Initial[drv[e].pos] = b,
         \A i, j \in 1..Len(Initial) :
           i < j /\ Accepts(Initial[j]) \in effects' =>
             Accepts(Initial[i]) \in acked'
  PROVE  InSequence'
<1>1. /\ drv'[d] = s
      /\ \A e \in Driver : e # d => drv'[e] = drv[e]
  BY MovesToFacts
<1>2. ASSUME NEW e \in Driver
      PROVE  InTurn(e, drv'[e], acked')
  <2>1. CASE e = d
    BY <1>1, <2>1
  <2>2. CASE e # d
    BY <1>1, <2>2, InTurnFacts DEF InTurn
  <2> QED BY <2>1, <2>2
<1>3. ASSUME NEW b \in Branch, Accepts(b) \in barriers', Accepts(b) \notin acked'
      PROVE  \E e \in Driver : InFlight(e)' /\ Initial[drv'[e].pos] = b
  <2>1. CASE s.pc \in {"invoke", "release"} /\ Initial[s.pos] = b
    BY <1>1, <2>1 DEF InFlight
  <2>2. ASSUME NEW e \in Driver, e # d, InFlight(e), Initial[drv[e].pos] = b
        PROVE  InFlight(e)' /\ Initial[drv'[e].pos] = b
    BY <1>1, <2>2 DEF InFlight
  <2> QED BY <1>3, <2>1, <2>2
<1> QED BY <1>2, <1>3 DEF InSequence, InTurn, Accepts

(* Barriers and effects that are left alone, but for the ones of d.        *)
LEMMA SequenceKept ==
  ASSUME InSequence, NEW d \in Driver, ~InFlight(d), acked \subseteq acked',
         UNCHANGED <<barriers, effects>>
  PROVE  /\ \A b \in Branch : Accepts(b) \in barriers' =>
              \/ Accepts(b) \in acked'
              \/ \E e \in Driver : /\ e # d /\ InFlight(e)
                                   /\ Initial[drv[e].pos] = b
         /\ \A i, j \in 1..Len(Initial) :
              i < j /\ Accepts(Initial[j]) \in effects' =>
                Accepts(Initial[i]) \in acked'
BY DEF InSequence, Accepts

LEMMA SequenceStep ==
  ASSUME OneWorker, LayersTypeOK, AllDispatch, BudgetTyped, InSequence,
         ~concurrent, NEW d \in Driver, DeliveryShape(d), WorkersOnly'
  PROVE  InSequence'
<1>b. ~Spend("call") /\ ~Spend("crash")
  BY BudgetStep DEF DeliveryShape
<1>a. acked \subseteq acked'
  BY DEF DeliveryShape, Stops, PicksUp, LooksUp, PutsBack, TakesBranch,
         PassesBranch, Confirms, Misses, GivesBack, TurnsLayer, Calm
<1>t. InTurn(d, drv[d], acked) /\ DispatchBy(drv[d], layer[d], acked)
  BY InTurnFacts, DispatchFacts
<1>i. \A A : InTurn(d, Idle, A)
  BY DEF InTurn, Idle
<1>1. CASE Stops(d)
  BY <1>1, <1>a, <1>b, <1>i, SequenceKept, SequenceMoves DEF Stops
<1>2. CASE PicksUp(d)
  <2>1. PICK s : MovesTo(d, s, NoLayer) /\ s.pc = "chosen"
    BY <1>2 DEF PicksUp
  <2>2. InTurn(d, s, acked')
    BY <1>2, <1>b, <2>1 DEF InTurn, PicksUp
  <2> QED BY <1>2, <1>a, <2>1, <2>2, SequenceKept, SequenceMoves
          DEF PicksUp, Calm
<1>3. CASE LooksUp(d)
  <2>1. PICK s : /\ MovesTo(d, s, NoLayer)
                 /\ s.pc \in {"persist", "mark", "loop"} /\ s.pos = 1
                 /\ s.pc # "persist" => drv[d].pc = "chosen"
    BY <1>3, <1>b DEF LooksUp
  <2>2. InTurn(d, s, acked')
    BY <1>t, <2>1 DEF InTurn
  <2> QED BY <1>3, <1>a, <2>1, <2>2, SequenceKept, SequenceMoves
          DEF LooksUp, Calm
<1>4. CASE PutsBack(d)
  <2>1. PICK s : /\ MovesTo(d, s, NoLayer)
                 /\ \/ s = Idle
                    \/ s.pc = "loop" /\ s.pos = 1 /\ drv[d].pc = "mark"
    BY <1>4 DEF PutsBack
  <2>2. InTurn(d, s, acked')
    BY <1>t, <1>i, <2>1 DEF InTurn
  <2> QED BY <1>4, <1>a, <2>1, <2>2, SequenceKept, SequenceMoves
          DEF PutsBack, Calm
<1>5. CASE TakesBranch(d)
  <2>0. /\ drv[d].pc = "loop" /\ Delivers(drv[d]) /\ ~InFlight(d)
        /\ DriverKey(d) = Accepts(Initial[drv[d].pos])
    BY <1>5, BranchIs DEF TakesBranch, Delivers, InFlight
  <2>1. PICK s : /\ MovesTo(d, s, NoLayer)
                 /\ s.pc = "invoke" /\ s.pos = drv[d].pos
    BY <1>5 DEF TakesBranch, GoesOn
  <2>2. InTurn(d, s, acked')
    BY <1>a, <1>t, <2>0, <2>1 DEF InTurn
  <2>3. \A b \in Branch : Accepts(b) \in barriers' =>
          \/ Accepts(b) \in acked'
          \/ s.pc \in {"invoke", "release"} /\ Initial[s.pos] = b
          \/ \E e \in Driver : /\ e # d /\ InFlight(e)
                               /\ Initial[drv[e].pos] = b
    BY <1>5, <1>a, <2>0, <2>1 DEF TakesBranch, InSequence, Accepts
  <2>4. \A i, j \in 1..Len(Initial) :
          i < j /\ Accepts(Initial[j]) \in effects' =>
            Accepts(Initial[i]) \in acked'
    BY <1>5, <1>a DEF TakesBranch, InSequence, Accepts
  <2> QED BY <1>a, <2>1, <2>2, <2>3, <2>4, SequenceMoves
<1>6. CASE PassesBranch(d)
  <2>0. /\ drv[d].pc = "loop" /\ Delivers(drv[d]) /\ ~InFlight(d)
        /\ DriverKey(d) = Accepts(Initial[drv[d].pos])
        /\ Current(d) = Initial[drv[d].pos]
        /\ drv[d].pos \in 1..Len(Initial) /\ Initial[drv[d].pos] \in Branch
    BY <1>6, BranchIs DEF PassesBranch, Delivers, InFlight
  <2>1. PICK s : /\ MovesTo(d, s, NoLayer)
                 /\ s.pc = "loop" /\ s.pos = drv[d].pos + 1
    BY <1>6 DEF PassesBranch, GoesOn
  <2>2. Accepts(Initial[drv[d].pos]) \in acked
    <3>1. CASE drv[d].tx.bst[Current(d)] = "Succeeded"
      BY <1>t, <2>0, <3>1 DEF DispatchBy, ConfirmedBy
    <3>2. CASE DriverKey(d) \in barriers
      <4>1. \A e \in Driver : InFlight(e) => e \in Worker
        BY DEF InSequence, InFlight
      <4>2. d \in Worker
        BY <1>t, <2>0 DEF InTurn
      <4>3. \A e \in Driver : ~InFlight(e)
        BY <2>0, <4>1, <4>2 DEF OneWorker
      <4> QED BY <2>0, <3>2, <4>3 DEF InSequence, Accepts
    <3> QED BY <1>6, <3>1, <3>2 DEF PassesBranch
  <2>3. InTurn(d, s, acked')
    <3>1. \A i \in 1..Len(Initial) :
            i < s.pos => i < drv[d].pos \/ i = drv[d].pos
      BY <2>0, <2>1
    <3> QED BY <1>a, <1>t, <2>0, <2>1, <2>2, <3>1 DEF InTurn
  <2> QED BY <1>6, <1>a, <2>0, <2>1, <2>3, SequenceKept, SequenceMoves
          DEF PassesBranch, Calm
(* The driver is calling branch number pos.                                *)
<1>f. ASSUME drv[d].pc \in {"invoke", "release"}
      PROVE  /\ Delivers(drv[d]) /\ InFlight(d)
             /\ DriverKey(d) = Accepts(Initial[drv[d].pos])
             /\ drv[d].pos \in 1..Len(Initial)
             /\ \A i \in 1..Len(Initial) :
                  i < drv[d].pos => Accepts(Initial[i]) \in acked
             /\ \A i, j \in 1..Len(Initial) :
                  i < j /\ Accepts(Initial[j]) = DriverKey(d) =>
                    Accepts(Initial[i]) \in acked
  <2>1. Delivers(drv[d]) /\ InFlight(d)
    BY <1>f DEF Delivers, InFlight
  <2>2. drv[d].pos <= Len(Initial)
    BY <1>f, <1>t DEF DispatchBy
  <2>3. /\ DriverKey(d) = Accepts(Initial[drv[d].pos])
        /\ drv[d].pos \in 1..Len(Initial)
    BY <2>1, <2>2, BranchIs
  <2>4. \A i \in 1..Len(Initial) :
          i < drv[d].pos => Accepts(Initial[i]) \in acked
    BY <1>f, <1>t DEF InTurn
  <2>5. \A j \in 1..Len(Initial) :
          Accepts(Initial[j]) = DriverKey(d) => j = drv[d].pos
    BY <2>3, MessageAssumption DEF Accepts
  <2> QED BY <2>1, <2>3, <2>4, <2>5
<1>7. CASE Confirms(d)
  <2>0. drv[d].pc = "invoke"
    BY <1>7 DEF Confirms
  <2>1. PICK s : /\ MovesTo(d, s, NoLayer)
                 /\ s.pc = "loop" /\ s.pos = drv[d].pos + 1
    BY <1>7 DEF Confirms, GoesOn
  <2>2. InTurn(d, s, acked')
    <3>1. \A i \in 1..Len(Initial) :
            i < s.pos => i < drv[d].pos \/ i = drv[d].pos
      BY <1>f, <2>0, <2>1
    <3>2. d \in Worker /\ Accepts(Initial[drv[d].pos]) \in acked'
      BY <1>7, <1>f, <1>t, <2>0 DEF InTurn, Confirms
    <3> QED BY <1>a, <1>f, <2>0, <2>1, <3>1, <3>2 DEF InTurn
  <2>3. \A b \in Branch : Accepts(b) \in barriers' =>
          \/ Accepts(b) \in acked'
          \/ \E e \in Driver : /\ e # d /\ InFlight(e)
                               /\ Initial[drv[e].pos] = b
    BY <1>7, <1>a, <1>f, <2>0 DEF Confirms, InSequence, Accepts
  <2>4. \A i, j \in 1..Len(Initial) :
          i < j /\ Accepts(Initial[j]) \in effects' =>
            Accepts(Initial[i]) \in acked'
    BY <1>7, <1>a, <1>f, <2>0 DEF Confirms, InSequence, Accepts
  <2> QED BY <1>a, <2>1, <2>2, <2>3, <2>4, SequenceMoves
<1>8. CASE Misses(d)
  <2>0. drv[d].pc = "invoke"
    BY <1>8 DEF Misses
  <2>1. PICK s : /\ MovesTo(d, s, NoLayer)
                 /\ s.pc = "release" /\ s.pos = drv[d].pos
    BY <1>8 DEF Misses, GoesOn
  <2>2. InTurn(d, s, acked')
    BY <1>a, <1>f, <1>t, <2>0, <2>1 DEF InTurn
  <2>3. \A b \in Branch : Accepts(b) \in barriers' =>
          \/ Accepts(b) \in acked'
          \/ s.pc \in {"invoke", "release"} /\ Initial[s.pos] = b
          \/ \E e \in Driver : /\ e # d /\ InFlight(e)
                               /\ Initial[drv[e].pos] = b
    BY <1>8, <1>a, <2>0, <2>1 DEF Misses, InSequence, Accepts
  <2>4. \A i, j \in 1..Len(Initial) :
          i < j /\ Accepts(Initial[j]) \in effects' =>
            Accepts(Initial[i]) \in acked'
    BY <1>8, <1>a, <1>f, <2>0 DEF Misses, InSequence, Accepts
  <2> QED BY <1>a, <2>1, <2>2, <2>3, <2>4, SequenceMoves
<1>9. CASE GivesBack(d)
  <2>0. drv[d].pc = "release"
    BY <1>9 DEF GivesBack
  <2>1. PICK s : MovesTo(d, s, NoLayer) /\ s.pc = "persist"
    BY <1>9 DEF GivesBack, GoesOn
  <2>2. InTurn(d, s, acked')
    BY <2>1 DEF InTurn
  <2>3. \A b \in Branch : Accepts(b) \in barriers' =>
          \/ Accepts(b) \in acked'
          \/ \E e \in Driver : /\ e # d /\ InFlight(e)
                               /\ Initial[drv[e].pos] = b
    BY <1>9, <1>a, <1>f, <2>0 DEF GivesBack, InSequence, Accepts
  <2>4. \A i, j \in 1..Len(Initial) :
          i < j /\ Accepts(Initial[j]) \in effects' =>
            Accepts(Initial[i]) \in acked'
    BY <1>9, <1>a DEF GivesBack, InSequence, Accepts
  <2> QED BY <1>a, <2>1, <2>2, <2>3, <2>4, SequenceMoves
<1>10. CASE TurnsLayer(d)
  BY <1>10 DEF TurnsLayer
<1> QED BY <1>1, <1>2, <1>3, <1>4, <1>5, <1>6, <1>7, <1>8, <1>9, <1>10
        DEF DeliveryShape

(* The record says Succeeded once every branch has accepted.               *)
LEMMA SucceededStep ==
  ASSUME DeliveryInv, BudgetTyped, NEW d \in Driver, DeliveryShape(d),
         tx'.status = "Succeeded", concurrent \/ WorkersOnly',
         NEW b \in Members(Initial)
  PROVE  Accepts(b) \in acked'
<1>t. LayersTypeOK /\ AllDispatch /\ Confirmed(tx)
  BY DEF DeliveryInv, AllDispatch
<1>a. acked \subseteq acked' /\ (WorkersOnly' => WorkersOnly)
  BY <1>t, DispatchStep, BudgetStep DEF DeliveryShape
<1>d. DispatchBy(drv[d], layer[d], acked)
  BY <1>t, DispatchFacts
<1>1. CASE tx' = tx
  BY <1>1, <1>a DEF DeliveryInv, Accepts
<1>2. CASE tx' # tx /\ PutsBack(d)
  <2>1. AllDone(d) /\ drv[d].tx.ids = Initial
    BY <1>2, <1>d DEF PutsBack, DispatchBy, ConfirmedBy
  <2>b. b \in Branch /\ \E i \in 1..Len(Initial) : b = Initial[i]
    BY CoordinatorAssumption DEF Members
  <2>2. CASE drv[d].pc = "loop" /\ ~concurrent /\ ~MoreBranches(d)
    <3>1. InSequence
      BY <1>a, <2>2 DEF DeliveryInv
    <3>2. /\ drv[d].pos \in Nat /\ ~(drv[d].pos <= Len(Initial))
          /\ Len(Initial) \in Nat
      BY <1>t, <2>2, BranchIs, CoordinatorAssumption DEF Delivers
    <3>3. \A i \in 1..Len(Initial) : i < drv[d].pos
      BY <3>2
    <3>4. InTurn(d, drv[d], acked)
      BY <3>1, InTurnFacts
    <3> QED BY <1>a, <2>2, <2>b, <3>3, <3>4 DEF InTurn
  <2>3. CASE drv[d].pc = "loop" /\ OpenBranches(d) = {}
    <3>1. drv[d].tx.bst[b] = "Succeeded"
      BY <2>1, <2>3 DEF OpenBranches
    <3> QED BY <1>a, <1>d, <2>b, <3>1 DEF DispatchBy, ConfirmedBy
  <2>4. CASE /\ drv[d].pc = "calls" /\ layer[d].calling = {}
             /\ FailedTasks(d) = {}
    <3>1. Covered(drv[d], layer[d])
      BY <1>d DEF DispatchBy
    <3>2. drv[d].tx.bst[b] = "Succeeded"
      BY <2>4, <3>1 DEF Covered, FailedTasks
    <3> QED BY <1>a, <1>d, <2>b, <3>2 DEF DispatchBy, ConfirmedBy
  <2> QED BY <2>1, <2>2, <2>3, <2>4 DEF AllDone
<1>3. CASE tx' # tx /\ TurnsLayer(d)
  <2>1. tx'.status = drv[d].tx.status
    BY <1>3 DEF TurnsLayer
  <2> QED BY <1>d, <2>1 DEF DispatchBy
<1> QED
  BY <1>1, <1>2, <1>3
     DEF DeliveryShape, Stops, PicksUp, LooksUp, TakesBranch, PassesBranch,
         Confirms, Misses, GivesBack, GoesOn

LEMMA DeliveryStep ==
  ASSUME OneWorker, DeliveryInv, BudgetTyped, NEW d \in Driver,
         DeliveryShape(d)
  PROVE  DeliveryInv' /\ BudgetTyped'
<1>1. LayersTypeOK /\ AllDispatch /\ Confirmed(tx)
  BY DEF DeliveryInv, AllDispatch
<1>2. LayersTypeOK' /\ AllDispatch' /\ Confirmed(tx)'
  BY <1>1, DispatchStep
<1>3. /\ BudgetTyped' /\ (WorkersOnly' => WorkersOnly)
      /\ concurrent' = concurrent
  BY BudgetStep DEF DeliveryShape
<1>4. tx'.status = "Succeeded" /\ (concurrent' \/ WorkersOnly') =>
        \A b \in Members(Initial) : Accepts(b) \in acked'
  BY <1>3, SucceededStep
<1>5. ~concurrent' /\ WorkersOnly' => InSequence'
  BY <1>1, <1>3, SequenceStep DEF DeliveryInv
<1> QED BY <1>2, <1>3, <1>4, <1>5 DEF DeliveryInv, AllDispatch, Accepts

-----------------------------------------------------------------------------
(* The actions have these shapes.                                          *)

(* A step outside of a layer stays there, like the end of one.             *)
Leaving(d) ==
  /\ LeaveLayer(d) \/ (layer' = layer /\ drv[d].pc \notin LayerPc)
  /\ concurrent' = concurrent

LEMMA LeavingTo ==
  ASSUME LayersTypeOK, AllDispatch, NEW d \in Driver, NEW s, Becomes(d, s),
         Leaving(d)
  PROVE  MovesTo(d, s, NoLayer)
<1>1. drv[d].pc \notin LayerPc => layer[d] = NoLayer
  BY DispatchFacts DEF DispatchBy
<1>2. layer' = [layer EXCEPT ![d] = NoLayer]
  BY <1>1 DEF Leaving, LeaveLayer, LayersTypeOK
<1>3. NoLayer \in Layer
  BY DEF NoLayer, Layer
<1> QED BY <1>2, <1>3 DEF MovesTo

LEMMA StopsShape ==
  ASSUME LayersTypeOK, AllDispatch, NEW d \in Driver, Return(d), Leaving(d),
         UNCHANGED <<tx, acked>>, Budgeted,
         \/ ~InFlight(d) /\ UNCHANGED <<barriers, effects>>
         \/ Spend("crash")
  PROVE  DeliveryShape(d)
BY ReturnBecomes, LeavingTo DEF DeliveryShape, Stops, Leaving

LEMMA PutsBackShape ==
  ASSUME LayersTypeOK, AllDispatch, NEW d \in Driver, NEW t \in Transaction,
         HasCopy(drv[d]), ~InFlight(d), Leaving(d), Calm, budget' = budget,
         t.ids = drv[d].tx.ids, t.bst = drv[d].tx.bst,
         t.status = "Succeeded" => AllDone(d), Persist(d, t)
  PROVE  DeliveryShape(d)
<1>1. CASE CanStore(t)
  <2>1. /\ tx' = Bumped(t) /\ tx' \in Transaction /\ tx'.ids = t.ids
        /\ tx'.bst = t.bst /\ tx'.status = t.status
    BY <1>1, Stored DEF Persist
  <2>2. MovesTo(d, Idle, NoLayer)
    BY ReturnBecomes, LeavingTo DEF Persist
  <2> QED BY <2>1, <2>2 DEF DeliveryShape, PutsBack, Leaving, Budgeted
<1>2. CASE ~CanStore(t)
  BY <1>2, StopsShape DEF Persist, Calm, Budgeted
<1> QED BY <1>1, <1>2

LEMMA LooksUpShape ==
  ASSUME LayersTypeOK, AllDispatch, NEW d \in Driver, NEW op \in MessageHandler,
         tx.status \in AllowedFrom(op), Enter(d, op),
         drv[d].pc \in {"idle", "chosen"},
         UNCHANGED <<tx, barriers, acked, effects, fixed>>, Budgeted,
         drv[d].pc = "chosen" \/ (op = "message" => Spend("call"))
  PROVE  DeliveryShape(d)
<1>t. /\ MessageTypeOK /\ tx \in Transaction /\ tx.status \in TransactionStatus
      /\ op \in Handler /\ {"persist", "mark", "loop"} \subseteq Pc
      /\ {"Prepared", "Succeeding"} \subseteq TransactionStatus
  BY DEF LayersTypeOK, MessageTypeOK, Transaction, MessageHandler, Handler, Pc,
         TransactionStatus
<1>l. Leaving(d) /\ Calm /\ ~InFlight(d) /\ concurrent' = concurrent
  BY DEF Leaving, fixed, LayerPc, Calm, InFlight
<1>b. ASSUME NEW pc \in {"persist", "mark", "loop"},
             NEW st \in {"Prepared", "Succeeding"}, Begin(d, op, pc, st),
             pc # "persist" => op = "message"
      PROVE  DeliveryShape(d)
  <2>1. PICK s : /\ Becomes(d, s) /\ s.pc = pc /\ s.op = op /\ s.pos = 1
                 /\ s.tx.status = st /\ s.tx.ids = tx.ids /\ s.tx.bst = tx.bst
    BY <1>b, <1>t, BeginBecomes
  <2>2. MovesTo(d, s, NoLayer)
    BY <1>l, <2>1, LeavingTo
  <2> QED BY <1>b, <1>l, <2>1, <2>2 DEF DeliveryShape, LooksUp
<1>1. CASE op = "prepare"
  BY <1>1, <1>b DEF Enter
<1>2. CASE op = "abort_message"
  <2> DEFINE s == [Idle EXCEPT !.pc = "persist", !.op = op, !.tx = Dropped]
  <2>1. drv' = [drv EXCEPT ![d] = s]
    BY <1>2 DEF Enter
  <2>2. /\ Dropped \in Transaction /\ Dropped.ids = tx.ids
        /\ Dropped.status = "Aborted"
        /\ \A b \in Branch : \/ Dropped.bst[b] = "Skipped"
                             \/ Dropped.bst[b] = tx.bst[b]
    BY <1>t DEF Dropped, Transaction, TransactionStatus, BranchStatus
  <2>3. /\ s \in LayerDriver /\ s.pc = "persist" /\ s.pos = 1
        /\ s.tx = Dropped
    BY <1>t, <2>2, IdleType DEF LayerDriver, Pc, Idle
  <2> HIDE DEF s
  <2>4. MovesTo(d, s, NoLayer)
    BY <1>l, <2>1, <2>3, LeavingTo DEF Becomes
  <2> QED BY <1>l, <2>2, <2>3, <2>4 DEF DeliveryShape, LooksUp
<1>3. CASE op = "message" /\ tx.status # "Succeeding"
  BY <1>3, <1>b DEF Enter
<1>4. CASE op = "message" /\ tx.status = "Succeeding" /\ due
  BY <1>4, <1>b DEF Enter
<1>5. CASE op = "message" /\ tx.status = "Succeeding" /\ ~due
  BY <1>5, <1>l, StopsShape DEF Enter
<1> QED BY <1>1, <1>2, <1>3, <1>4, <1>5 DEF MessageHandler

(* The steps of a handler outside of a layer, and into one.                *)
LEMMA HandlerDelivers ==
  ASSUME LayersTypeOK, AllDispatch, ControlInv, NEW d \in Driver,
         \/ StartChosen(d) \/ StoreMark(d) \/ DeliverBranch(d) \/ BranchOk(d)
         \/ BranchErr(d) \/ Release(d) \/ SaveCopy(d) \/ Complete(d)
         \/ DeliverAll(d) \/ StoreJoined(d)
  PROVE  DeliveryShape(d)
<1>t. /\ MessageTypeOK /\ drv \in [Driver -> LayerDriver]
      /\ drv[d] \in LayerDriver /\ drv[d].tx \in Transaction
      /\ drv[d].pos \in Nat
      /\ DispatchBy(drv[d], layer[d], acked)
  BY DispatchFacts DEF LayersTypeOK, MessageTypeOK, LayerDriver
<1>s. ASSUME NEW st \in {"Succeeding", "Succeeded"}
      PROVE  LET t == [drv[d].tx EXCEPT !.status = st]
             IN  /\ t \in Transaction /\ t.ids = drv[d].tx.ids
                 /\ t.bst = drv[d].tx.bst /\ t.status = st
  <2>1. st \in TransactionStatus
    BY DEF TransactionStatus
  <2> QED BY <1>t, <2>1, Restated
<1>e. ASSUME NEW st \in {"Succeeding", "Succeeded"},
             Persist(d, [drv[d].tx EXCEPT !.status = st]),
             st = "Succeeded" => AllDone(d), HasCopy(drv[d]), ~InFlight(d),
             Leaving(d), Calm, budget' = budget
      PROVE  DeliveryShape(d)
  <2> DEFINE t == [drv[d].tx EXCEPT !.status = st]
  <2>1. /\ t \in Transaction /\ t.ids = drv[d].tx.ids
        /\ t.bst = drv[d].tx.bst /\ t.status = st /\ Persist(d, t)
    BY <1>s, <1>e
  <2> HIDE DEF t
  <2> QED BY <1>e, <2>1, PutsBackShape
(* On to another position in the loop.                                     *)
<1>g. ASSUME NEW pc \in Pc, NEW pos \in Nat, NEW t \in Transaction,
             Goes(d, pc, pos, t), Leaving(d), ~concurrent, tx' = tx,
             t.ids = drv[d].tx.ids, t.status = drv[d].tx.status,
             \A b \in Branch : t.bst[b] = "Succeeded" =>
               drv[d].tx.bst[b] = "Succeeded" \/ Accepts(b) \in acked'
      PROVE  \E s : GoesOn(d, s) /\ s.pc = pc /\ s.pos = pos
  <2>1. PICK s : /\ Becomes(d, s) /\ s.pc = pc /\ s.op = drv[d].op
                 /\ s.pos = pos /\ s.tx = t
    BY <1>g, <1>t, GoesBecomes
  <2>2. MovesTo(d, s, NoLayer)
    BY <1>g, <2>1, LeavingTo
  <2> QED BY <1>g, <2>1, <2>2 DEF GoesOn
<1>o. ASSUME NEW pc, NEW t, Goto(d, pc, t)
      PROVE  Goes(d, pc, drv[d].pos, t)
  BY <1>o, <1>t DEF Goto, Goes, LayerDriver
<1>v. ASSUME NEW t, Advance(d, t)
      PROVE  Goes(d, "loop", drv[d].pos + 1, t) /\ drv[d].pos + 1 \in Nat
  BY <1>v, <1>t DEF Advance, Goes
<1>m. ASSUME NEW st \in BranchStatus, Current(d) \in Branch
      PROVE  /\ Mark(d, st) \in Transaction
             /\ Mark(d, st).ids = drv[d].tx.ids
             /\ Mark(d, st).status = drv[d].tx.status
             /\ \A b \in Branch : Mark(d, st).bst[b] = "Succeeded" =>
                  \/ drv[d].tx.bst[b] = "Succeeded"
                  \/ b = Current(d) /\ st = "Succeeded"
  <2>1. /\ Mark(d, st) \in Transaction
        /\ Mark(d, st).ids = drv[d].tx.ids
        /\ Mark(d, st).status = drv[d].tx.status
        /\ Mark(d, st).bst = [drv[d].tx.bst EXCEPT ![Current(d)] = st]
    BY <1>m, <1>t, Marked
  <2>2. drv[d].tx.bst \in [Branch -> BranchStatus]
    BY <1>t DEF Transaction
  <2> QED BY <2>1, <2>2
<1>f. ASSUME drv[d].pc \in {"invoke", "release"}
      PROVE  /\ Delivers(drv[d]) /\ ~concurrent /\ drv[d].pc \notin LayerPc
             /\ Current(d) \in Branch /\ DriverKey(d) = Accepts(Current(d))
  <2>1. Delivers(drv[d]) /\ ~concurrent /\ drv[d].pos <= Len(Initial)
    BY <1>f, <1>t DEF Delivers, DispatchBy
  <2> QED BY <1>f, <2>1, BranchIs DEF LayerPc
<1>1. CASE StartChosen(d)
  <2>1. /\ drv[d].pc = "chosen" /\ drv[d].op \in MessageHandler
        /\ UNCHANGED <<tx, barriers, acked, effects, fixed>> /\ Budgeted
    BY <1>1 DEF StartChosen, ControlInv, Budgeted
  <2>2. CASE tx.status \in AllowedFrom(drv[d].op)
    BY <1>1, <2>1, <2>2, LooksUpShape DEF StartChosen
  <2>3. CASE tx.status \notin AllowedFrom(drv[d].op)
    BY <1>1, <2>1, <2>3, StopsShape
       DEF StartChosen, Leaving, fixed, LayerPc, InFlight
  <2> QED BY <2>2, <2>3
<1>2. CASE StoreMark(d)
  <2>1. /\ drv[d].pc = "mark" /\ HasCopy(drv[d]) /\ ~InFlight(d) /\ Leaving(d)
        /\ Calm /\ budget' = budget /\ drv[d].op = "message"
        /\ drv[d].tx.status # "Succeeded"
    BY <1>2, <1>t
       DEF StoreMark, HasCopy, InFlight, Leaving, fixed, LayerPc, Calm,
           DispatchBy
  <2>2. CASE Persist(d, drv[d].tx)
    BY <1>t, <2>1, <2>2, PutsBackShape
  <2>3. CASE PersistAndGo(d, drv[d].tx, "loop", 1) /\ CanStore(drv[d].tx)
    <3> DEFINE u == Bumped(drv[d].tx)
    <3>1. /\ u \in Transaction /\ u.ids = drv[d].tx.ids
          /\ u.bst = drv[d].tx.bst /\ u.status = drv[d].tx.status
      BY <1>t, Stored
    <3>2. tx' = u /\ Goes(d, "loop", 1, u)
      BY <2>3 DEF PersistAndGo, Goes
    <3> HIDE DEF u
    <3>3. PICK s : /\ Becomes(d, s) /\ s.pc = "loop" /\ s.op = drv[d].op
                   /\ s.pos = 1 /\ s.tx = u
      BY <1>t, <3>1, <3>2, GoesBecomes DEF Pc
    <3>4. MovesTo(d, s, NoLayer)
      BY <2>1, <3>3, LeavingTo
    <3> QED BY <2>1, <3>1, <3>2, <3>3, <3>4
            DEF DeliveryShape, PutsBack, Leaving, Budgeted
  <2>4. CASE PersistAndGo(d, drv[d].tx, "loop", 1) /\ ~CanStore(drv[d].tx)
    BY <2>1, <2>4, StopsShape DEF PersistAndGo, Calm, Budgeted
  <2> QED BY <1>2, <2>2, <2>3, <2>4 DEF StoreMark
<1>3. CASE DeliverBranch(d)
  <2>1. /\ drv[d].pc = "loop" /\ ~concurrent /\ MoreBranches(d) /\ tx' = tx
        /\ Leaving(d) /\ budget' = budget /\ UNCHANGED <<acked, effects>>
        /\ Delivers(drv[d])
    BY <1>3 DEF DeliverBranch, Leaving, fixed, LayerPc, Delivers
  <2>2. Current(d) \in Branch /\ DriverKey(d) = Accepts(Current(d))
    BY <2>1, BranchIs
  <2>d. BarrierDecision(DriverKey(d)) =
          IF DriverKey(d) \in barriers THEN "SkipDuplicate" ELSE "Execute"
    BY <2>2 DEF BarrierDecision, Accepts
  <2>3. CASE /\ ~(/\ drv[d].tx.bst[Current(d)] # "Succeeded"
                  /\ BarrierDecision(DriverKey(d)) = "Execute")
             /\ Advance(d, drv[d].tx) /\ UNCHANGED barriers
    <3>1. \E s : GoesOn(d, s) /\ s.pc = "loop" /\ s.pos = drv[d].pos + 1
      BY <1>g, <1>t, <1>v, <2>1, <2>3 DEF Pc
    <3> QED BY <2>1, <2>3, <2>d, <3>1
            DEF DeliveryShape, PassesBranch, Calm, Leaving, Budgeted
  <2>4. CASE /\ BarrierDecision(DriverKey(d)) = "Execute"
             /\ Claim(d, Mark(d, "Running"))
    <3> DEFINE m == Mark(d, "Running")
               t == [m EXCEPT !.att[Current(d)] = @ + 1]
    <3>1. /\ m \in Transaction /\ m.ids = drv[d].tx.ids
          /\ m.status = drv[d].tx.status
          /\ \A b \in Branch : m.bst[b] = "Succeeded" =>
               drv[d].tx.bst[b] = "Succeeded"
      BY <1>m, <2>2 DEF BranchStatus
    <3>2. Goto(d, "invoke", t) /\ barriers' = barriers \cup {DriverKey(d)}
      BY <2>4 DEF Claim, BarrierTable
    <3> HIDE DEF m
    <3>3. /\ t \in Transaction /\ t.ids = m.ids /\ t.status = m.status
          /\ t.bst = m.bst
      BY <2>2, <3>1, Counted
    <3> HIDE DEF t
    <3>4. \E s : GoesOn(d, s) /\ s.pc = "invoke" /\ s.pos = drv[d].pos
      BY <1>g, <1>o, <1>t, <2>1, <3>1, <3>2, <3>3 DEF Pc
    <3> QED BY <2>1, <3>2, <3>4
            DEF DeliveryShape, TakesBranch, Leaving, Budgeted
  <2> QED BY <1>3, <2>3, <2>4 DEF DeliverBranch
<1>4. CASE BranchOk(d)
  <2>1. /\ drv[d].pc = "invoke" /\ UNCHANGED <<tx, barriers, budget, fixed>>
        /\ acked' = acked \cup {DriverKey(d)}
        /\ effects' = effects \cup {DriverKey(d)}
        /\ Advance(d, Mark(d, "Succeeded"))
    BY <1>4 DEF BranchOk, CallSucceeds
  <2>2. Leaving(d)
    BY <1>f, <2>1 DEF Leaving, fixed
  <2>3. \E s : GoesOn(d, s) /\ s.pc = "loop" /\ s.pos = drv[d].pos + 1
    BY <1>f, <1>g, <1>m, <1>v, <2>1, <2>2 DEF Pc, BranchStatus
  <2> QED BY <2>1, <2>2, <2>3 DEF DeliveryShape, Confirms, Leaving, Budgeted
<1>5. CASE BranchErr(d)
  <2>1. /\ drv[d].pc = "invoke" /\ UNCHANGED <<tx, barriers, acked, fixed>>
        /\ effects' \in {effects, effects \cup {DriverKey(d)}}
        /\ Spend("failure") /\ Goto(d, "release", Mark(d, "Failed"))
    BY <1>5 DEF BranchErr, CallFails
  <2>2. Leaving(d)
    BY <1>f, <2>1 DEF Leaving, fixed
  <2>3. \E s : GoesOn(d, s) /\ s.pc = "release" /\ s.pos = drv[d].pos
    BY <1>f, <1>g, <1>m, <1>o, <1>t, <2>1, <2>2 DEF Pc, BranchStatus
  <2> QED BY <2>1, <2>2, <2>3 DEF DeliveryShape, Misses, Leaving, Budgeted
<1>6. CASE Release(d)
  <2>1. /\ drv[d].pc = "release"
        /\ UNCHANGED <<tx, acked, effects, budget, fixed>>
        /\ barriers' = barriers \ {DriverKey(d)}
        /\ Goto(d, "persist", drv[d].tx)
    BY <1>6 DEF Release, ReleaseBarrier
  <2>2. Leaving(d)
    BY <1>f, <2>1 DEF Leaving, fixed
  <2>3. \E s : GoesOn(d, s) /\ s.pc = "persist" /\ s.pos = drv[d].pos
    BY <1>f, <1>g, <1>o, <1>t, <2>1, <2>2 DEF Pc
  <2> QED BY <2>1, <2>2, <2>3 DEF DeliveryShape, GivesBack, Leaving, Budgeted
<1>7. CASE SaveCopy(d)
  BY <1>7, <1>t, PutsBackShape
     DEF SaveCopy, Save, Calm, Leaving, fixed, LayerPc, HasCopy, InFlight,
         DispatchBy
<1>8. CASE Complete(d)
  BY <1>8, <1>e
     DEF Complete, AllDone, Calm, Leaving, fixed, LayerPc, HasCopy, InFlight
<1>9. CASE DeliverAll(d)
  <2>1. CASE /\ OpenBranches(d) = {} /\ layer' = layer
             /\ Persist(d, [drv[d].tx EXCEPT !.status = "Succeeded"])
    BY <1>9, <1>e, <2>1
       DEF DeliverAll, AllDone, Calm, Leaving, LayerPc, HasCopy, InFlight
  <2>2. CASE EnterLayer(d, OpenBranches(d)) /\ UNCHANGED tx
    <3>0. /\ drv[d].pc = "loop" /\ concurrent /\ concurrent' = concurrent
          /\ UNCHANGED <<barriers, budget, acked, effects>>
          /\ drv[d].tx.ids = Initial /\ drv[d].pos >= 1
      BY <1>9, <1>t DEF DeliverAll, DispatchBy, ConfirmedBy, Delivers
    <3>1. Goto(d, "claim", drv[d].tx)
      BY <1>t, <2>2 DEF EnterLayer, LayerDriver, Goto
    <3>2. PICK s : /\ Becomes(d, s) /\ s.pc = "claim" /\ s.op = drv[d].op
                   /\ s.pos = drv[d].pos /\ s.tx = drv[d].tx
      BY <1>o, <1>t, <3>1, GoesBecomes
    <3> DEFINE l == [layer[d] EXCEPT !.todo = OpenBranches(d)]
    <3>o. OpenBranches(d) \subseteq Branch
      BY <3>0, CoordinatorAssumption DEF OpenBranches, Members
    <3>3. /\ l \in Layer /\ l.todo = OpenBranches(d)
          /\ layer' = [layer EXCEPT ![d] = l]
      BY <2>2, <3>o DEF LayersTypeOK, Layer, EnterLayer
    <3> HIDE DEF l
    <3>4. Covered(s, l)
      BY <3>0, <3>2, <3>3 DEF Covered, OpenBranches
    <3> QED BY <2>2, <3>0, <3>2, <3>3, <3>4
            DEF DeliveryShape, TurnsLayer, MovesTo, LayerPc, Budgeted
  <2> QED BY <1>9, <2>1, <2>2 DEF DeliverAll
<1>10. CASE StoreJoined(d)
  <2> DEFINE st == IF FailedTasks(d) = {} THEN "Succeeded" ELSE "Succeeding"
  <2>1. /\ drv[d].pc = "calls" /\ layer[d].calling = {}
        /\ st \in {"Succeeding", "Succeeded"}
        /\ st = "Succeeded" => FailedTasks(d) = {}
        /\ Persist(d, [drv[d].tx EXCEPT !.status = st])
        /\ LeaveLayer(d) /\ Calm /\ budget' = budget
        /\ concurrent' = concurrent
    BY <1>10 DEF StoreJoined, Joined, Calm
  <2> HIDE DEF st
  <2> QED BY <1>e, <2>1 DEF AllDone, Leaving, HasCopy, InFlight
<1> QED BY <1>1, <1>2, <1>3, <1>4, <1>5, <1>6, <1>7, <1>8, <1>9, <1>10

(* The steps in a layer.                                                   *)
LEMMA LayerDelivers ==
  ASSUME LayersTypeOK, AllDispatch, NEW d \in Driver, LayerStep(d),
         concurrent' = concurrent
  PROVE  DeliveryShape(d)
<1>t. /\ MessageTypeOK /\ drv \in [Driver -> LayerDriver]
      /\ drv[d] \in LayerDriver /\ drv[d].tx \in Transaction
      /\ drv[d].pos \in Nat
      /\ layer \in [Driver -> Layer] /\ layer[d] \in Layer
      /\ layer[d].todo \subseteq Branch /\ layer[d].held \subseteq Branch
      /\ layer[d].calling \subseteq Branch
  BY DEF LayersTypeOK, MessageTypeOK, LayerDriver, Layer
<1>p. drv[d].pc \in LayerPc /\ ~InFlight(d)
  BY DEF LayerStep, Unclaim, StoreLayer, ClaimNext, TaskOk, TaskErr, TaskDone,
         ReleaseFailed, LayerPc, InFlight
<1>d. /\ concurrent /\ drv[d].op = "message" /\ drv[d].pos >= 1
      /\ Covered(drv[d], layer[d])
      /\ \A b \in Branch : LayerKey(d, b) = Accepts(b)
  BY <1>p, DispatchFacts, BranchIs DEF DispatchBy, Delivers, LayerPc
(* The driver keeps its state, and its layer becomes l.                    *)
<1>k. ASSUME NEW l \in Layer, drv' = drv, layer' = [layer EXCEPT ![d] = l],
             Covered(drv[d], l), UNCHANGED <<tx, acked, budget>>
      PROVE  DeliveryShape(d)
  <2>1. MovesTo(d, drv[d], l)
    BY <1>k, <1>t DEF MovesTo, Becomes
  <2> QED BY <1>k, <1>p, <1>d, <2>1 DEF DeliveryShape, TurnsLayer, Budgeted
<1>1. CASE Unclaim(d)
  <2>0. drv[d].pc = "unclaim" /\ UNCHANGED <<tx, acked, budget, effects>>
    BY <1>1 DEF Unclaim
  <2>1. CASE Return(d) /\ LeaveLayer(d) /\ UNCHANGED barriers
    BY <1>p, <2>0, <2>1, StopsShape DEF Leaving, Budgeted
  <2>2. ASSUME NEW b \in layer[d].held, drv' = drv,
               layer' = [layer EXCEPT ![d].held = @ \ {b}]
        PROVE  DeliveryShape(d)
    <3> DEFINE l == [layer[d] EXCEPT !.held = layer[d].held \ {b}]
    <3>1. l \in Layer /\ layer' = [layer EXCEPT ![d] = l]
      BY <1>t, <2>2 DEF Layer
    <3>2. Covered(drv[d], l)
      BY <2>0 DEF Covered
    <3> HIDE DEF l
    <3> QED BY <1>k, <2>0, <2>2, <3>1, <3>2
  <2> QED BY <1>1, <2>1, <2>2 DEF Unclaim
<1>2. CASE StoreLayer(d)
  <2>0. /\ drv[d].pc = "claim" /\ layer[d].todo = {}
        /\ PersistAndGo(d, Attempted(d), "calls", 1)
        /\ UNCHANGED <<barriers, budget, acked, effects>>
    BY <1>2 DEF StoreLayer
  <2>1. /\ Attempted(d) \in Transaction
        /\ Attempted(d).status = drv[d].tx.status
        /\ Attempted(d).ids = drv[d].tx.ids
        /\ \A b \in Branch :
             Attempted(d).bst[b] = IF b \in layer[d].held THEN "Running"
                                   ELSE drv[d].tx.bst[b]
        /\ CanStore(Attempted(d)) <=> CanStore(drv[d].tx)
    BY <1>t, <1>d, AttemptedType DEF CanStore
  <2>2. CASE CanStore(Attempted(d))
    <3> DEFINE u == Bumped(Attempted(d))
               l == [layer[d] EXCEPT !.calling = layer[d].held]
    <3>1. /\ tx' = u /\ Goes(d, "calls", 1, u)
      BY <2>0, <2>2 DEF PersistAndGo, Goes
    <3>2. /\ u \in Transaction /\ u.status = drv[d].tx.status
          /\ u.ids = drv[d].tx.ids
          /\ \A b \in Branch : u.bst[b] = IF b \in layer[d].held THEN "Running"
                                          ELSE drv[d].tx.bst[b]
      BY <2>1, Stored
    <3>3. /\ l \in Layer /\ l.calling = layer[d].held /\ l.held = layer[d].held
          /\ layer' = [layer EXCEPT ![d] = l]
      BY <1>2, <1>t, <2>1, <2>2 DEF StoreLayer, Layer
    <3> HIDE DEF u, l
    <3>4. PICK s : /\ Becomes(d, s) /\ s.pc = "calls" /\ s.op = drv[d].op
                   /\ s.pos = 1 /\ s.tx = u
      BY <1>t, <3>1, <3>2, GoesBecomes DEF Pc
    <3>5. MovesTo(d, s, l)
      BY <3>3, <3>4 DEF MovesTo
    <3>6. Covered(s, l)
      <4> SUFFICES ASSUME NEW b \in Members(Initial), s.tx.bst[b] # "Succeeded"
                   PROVE  b \in l.held /\ b \in l.calling
        BY <3>3, <3>4 DEF Covered
      <4>1. b \in Branch
        BY CoordinatorAssumption DEF Members
      <4>2. b \in layer[d].held \/ drv[d].tx.bst[b] # "Succeeded"
        BY <3>2, <3>4, <4>1
      <4>3. b \in layer[d].held
        BY <1>d, <2>0, <4>2 DEF Covered
      <4> QED BY <3>3, <4>3
    <3>7. \A b \in Branch :
            s.tx.bst[b] = "Succeeded" => drv[d].tx.bst[b] = "Succeeded"
      BY <3>2, <3>4
    <3> QED BY <1>d, <1>p, <2>0, <3>1, <3>2, <3>4, <3>5, <3>6, <3>7
            DEF DeliveryShape, TurnsLayer, LayerPc, Budgeted
  <2>3. CASE ~CanStore(Attempted(d))
    <3>1. /\ tx' = tx /\ Return(d) /\ LeaveLayer(d)
      BY <1>2, <2>0, <2>1, <2>3 DEF PersistAndGo, StoreLayer, LeaveLayer
    <3> QED BY <1>p, <2>0, <3>1, StopsShape DEF Leaving, Budgeted
  <2> QED BY <2>2, <2>3
<1>3. ASSUME NEW b \in Branch, ClaimNext(d, b)
      PROVE  DeliveryShape(d)
  <2>0. /\ drv[d].pc = "claim" /\ UNCHANGED <<tx, budget, acked, effects>>
        /\ b \in layer[d].todo
    BY <1>3 DEF ClaimNext, IsFirst
  <2>1. CASE /\ layer' = [layer EXCEPT ![d].todo = @ \ {b},
                                       ![d].held = @ \cup {b}]
             /\ drv' = drv
    <3> DEFINE l == [layer[d] EXCEPT !.todo = layer[d].todo \ {b},
                                     !.held = layer[d].held \cup {b}]
    <3>1. /\ l \in Layer /\ layer' = [layer EXCEPT ![d] = l]
          /\ l.todo = layer[d].todo \ {b} /\ l.held = layer[d].held \cup {b}
      BY <1>t, <2>1 DEF Layer
    <3> HIDE DEF l
    <3>2. Covered(drv[d], l)
      BY <1>d, <2>0, <3>1 DEF Covered
    <3> QED BY <1>k, <2>0, <2>1, <3>1, <3>2
  <2>2. CASE drv' = [drv EXCEPT ![d].pc = "unclaim"] /\ layer' = layer
    <3>1. Goes(d, "unclaim", drv[d].pos, drv[d].tx)
      BY <1>t, <2>2 DEF Goes, LayerDriver
    <3>2. PICK s : /\ Becomes(d, s) /\ s.pc = "unclaim" /\ s.op = drv[d].op
                   /\ s.pos = drv[d].pos /\ s.tx = drv[d].tx
      BY <1>t, <3>1, GoesBecomes
    <3>3. MovesTo(d, s, layer[d]) /\ Covered(s, layer[d])
      BY <1>t, <2>2, <3>2 DEF MovesTo, Covered
    <3> QED BY <1>d, <1>p, <2>0, <3>2, <3>3
            DEF DeliveryShape, TurnsLayer, LayerPc, Budgeted
  <2> QED BY <1>3, <2>1, <2>2 DEF ClaimNext
<1>4. ASSUME NEW b \in Branch, ReleaseFailed(d, b)
      PROVE  DeliveryShape(d)
  <2> DEFINE l == [layer[d] EXCEPT !.todo = layer[d].todo \ {b}]
  <2>1. /\ l \in Layer /\ layer' = [layer EXCEPT ![d] = l]
        /\ l.held = layer[d].held /\ l.calling = layer[d].calling
    BY <1>4, <1>t DEF ReleaseFailed, Layer
  <2>2. drv[d].pc = "calls" /\ drv' = drv /\ UNCHANGED <<tx, acked, budget>>
    BY <1>4 DEF ReleaseFailed
  <2> HIDE DEF l
  <2>3. Covered(drv[d], l)
    BY <1>d, <2>1, <2>2 DEF Covered
  <2> QED BY <1>k, <2>1, <2>2, <2>3
(* A task ends: b has accepted, or is shown as Failed.                     *)
<1>e. ASSUME NEW b \in Branch, NEW st \in {"Succeeded", "Failed"},
             TaskDone(d, b, st), NEW l \in Layer,
             layer' = [layer EXCEPT ![d] = l], l.held = layer[d].held,
             l.calling = layer[d].calling \ {b}, tx' = tx,
             acked \subseteq acked', Budgeted,
             st = "Succeeded" => Accepts(b) \in acked'
      PROVE  DeliveryShape(d)
  <2> DEFINE t == [drv[d].tx EXCEPT !.bst[b] = st]
  <2>0. drv[d].pc = "calls" /\ st \in BranchStatus
    BY <1>e DEF TaskDone, BranchStatus
  <2>1. /\ t \in Transaction /\ t.ids = drv[d].tx.ids
        /\ t.status = drv[d].tx.status
        /\ \A c \in Branch :
             t.bst[c] = IF c = b THEN st ELSE drv[d].tx.bst[c]
    BY <1>t, <2>0 DEF Transaction
  <2>2. Goes(d, "calls", drv[d].pos, t)
    BY <1>e, <1>t, <2>0 DEF TaskDone, LayerDriver, Goes
  <2> HIDE DEF t
  <2>3. PICK s : /\ Becomes(d, s) /\ s.pc = "calls" /\ s.op = drv[d].op
                 /\ s.pos = drv[d].pos /\ s.tx = t
    BY <1>t, <2>1, <2>2, GoesBecomes
  <2>4. Covered(s, l)
    <3> SUFFICES ASSUME NEW c \in Members(Initial), s.tx.bst[c] # "Succeeded"
                 PROVE  c \in l.held /\ (c \in l.calling \/ s.tx.bst[c] = "Failed")
      BY <1>d, <1>e, <2>0, <2>3 DEF Covered
    <3>1. c \in Branch
      BY CoordinatorAssumption DEF Members
    <3>2. CASE c = b
      <4>1. c \in layer[d].held
        BY <1>d, <1>e, <2>0, <3>2 DEF TaskDone, Covered
      <4> QED BY <1>e, <2>1, <2>3, <3>1, <3>2, <4>1
    <3>3. CASE c # b
      BY <1>d, <1>e, <2>0, <2>1, <2>3, <3>1, <3>3 DEF Covered
    <3> QED BY <3>2, <3>3
  <2>5. \A c \in Branch : s.tx.bst[c] = "Succeeded" =>
          drv[d].tx.bst[c] = "Succeeded" \/ Accepts(c) \in acked'
    BY <1>e, <2>1, <2>3
  <2>6. MovesTo(d, s, l)
    BY <1>e, <2>3 DEF MovesTo
  <2> QED BY <1>d, <1>e, <1>p, <2>1, <2>3, <2>4, <2>5, <2>6
          DEF DeliveryShape, TurnsLayer, LayerPc
<1>5. ASSUME NEW b \in Branch, TaskOk(d, b)
      PROVE  DeliveryShape(d)
  <2> DEFINE l == [layer[d] EXCEPT !.calling = layer[d].calling \ {b}]
  <2>1. /\ l \in Layer /\ layer' = [layer EXCEPT ![d] = l]
        /\ l.held = layer[d].held /\ l.calling = layer[d].calling \ {b}
    BY <1>5, <1>t DEF TaskOk, Layer
  <2>2. /\ TaskDone(d, b, "Succeeded") /\ tx' = tx /\ budget' = budget
        /\ acked' = acked \cup {Accepts(b)}
    BY <1>5, <1>d DEF TaskOk
  <2> HIDE DEF l
  <2> QED BY <1>e, <2>1, <2>2 DEF Budgeted
<1>6. ASSUME NEW b \in Branch, TaskErr(d, b)
      PROVE  DeliveryShape(d)
  <2> DEFINE l == [layer[d] EXCEPT !.calling = layer[d].calling \ {b},
                                   !.todo = layer[d].todo \cup {b}]
  <2>1. /\ l \in Layer /\ layer' = [layer EXCEPT ![d] = l]
        /\ l.held = layer[d].held /\ l.calling = layer[d].calling \ {b}
    BY <1>6, <1>t DEF TaskErr, Layer
  <2>2. /\ TaskDone(d, b, "Failed") /\ tx' = tx /\ Spend("failure")
        /\ acked' = acked
    BY <1>6, <1>d DEF TaskErr
  <2> HIDE DEF l
  <2> QED BY <1>e, <2>1, <2>2 DEF Budgeted
<1> QED BY <1>1, <1>2, <1>3, <1>4, <1>5, <1>6 DEF LayerStep

(* Requests, ticks and crashes.                                            *)
LEMMA ClientDelivers ==
  ASSUME LayersTypeOK, AllDispatch, NEW d \in Driver,
         ClientStep(d) \/ Tick(d) \/ Crash(d)
  PROVE  DeliveryShape(d)
<1>t. /\ MessageTypeOK /\ tx \in Transaction /\ tx.status \in TransactionStatus
  BY DEF LayersTypeOK, MessageTypeOK, Transaction
<1>l. ASSUME drv[d].pc = "idle", UNCHANGED fixed
      PROVE  Leaving(d) /\ ~InFlight(d) /\ concurrent' = concurrent
  BY <1>l DEF Leaving, fixed, LayerPc, InFlight
<1>c. ASSUME NEW op \in MessageHandler, Choose(d, op), drv[d].pc = "idle",
             \/ d \in Worker /\ budget' = budget
             \/ Spend("call"),
             UNCHANGED <<tx, barriers, acked, effects, fixed>>
      PROVE  DeliveryShape(d)
  <2>1. op \in Handler
    BY DEF MessageHandler, Handler
  <2>2. PICK s : /\ Becomes(d, s) /\ s.pc = "chosen"
                 /\ s.pos = 1 /\ s.tx = NewTransaction
    BY <1>c, <2>1, ChooseBecomes
  <2>3. MovesTo(d, s, NoLayer)
    BY <1>c, <1>l, <2>2, LeavingTo
  <2> QED BY <1>c, <1>l, <2>2, <2>3 DEF DeliveryShape, PicksUp, Calm, Budgeted
<1>r. ASSUME NEW op \in {"schedule_submit", "force_stop", "reset_retry"},
             NEW st \in TransactionStatus, st # "Succeeded",
             StatusRequest(d, op, st), UNCHANGED fixed
      PROVE  DeliveryShape(d)
  <2>1. /\ op \in Handler /\ "persist" \in Pc
        /\ Begin(d, op, "persist", st) /\ UNCHANGED tx /\ Calm
        /\ Spend("request") /\ drv[d].pc = "idle"
    BY <1>r DEF Handler, Pc, StatusRequest, Request, Calm
  <2>2. PICK s : /\ Becomes(d, s) /\ s.pc = "persist" /\ s.pos = 1
                 /\ s.tx.status = st /\ s.tx.ids = tx.ids /\ s.tx.bst = tx.bst
    BY <1>t, <2>1, BeginBecomes
  <2>3. MovesTo(d, s, NoLayer)
    BY <1>l, <1>r, <2>1, <2>2, LeavingTo
  <2> QED BY <1>l, <1>r, <2>1, <2>2, <2>3 DEF DeliveryShape, LooksUp, Budgeted
<1>h. /\ TickHandler \in MessageHandler \cup {"none"}
      /\ RecoverHandler \in MessageHandler \cup {"none"}
  BY DEF TickHandler, RecoverHandler, MessageHandler
<1>1. ASSUME NEW op \in MessageHandler, Call(d, op)
      PROVE  DeliveryShape(d)
  <2>1. /\ drv[d].pc = "idle" /\ Budgeted /\ (op = "message" => Spend("call"))
        /\ tx.status \in AllowedFrom(op) /\ Enter(d, op)
        /\ UNCHANGED <<tx, barriers, acked, effects, fixed>>
    BY <1>1 DEF Call, Request, Budgeted
  <2> QED BY <2>1, LooksUpShape
<1>2. CASE ScheduleSubmit(d)
  BY <1>2, <1>r DEF ScheduleSubmit, TransactionStatus
<1>3. CASE ForceStop(d) /\ UNCHANGED fixed
  BY <1>3, <1>r DEF ForceStop, TransactionStatus
<1>4. CASE ResetRetry(d) /\ UNCHANGED fixed
  BY <1>4, <1>r, <1>t DEF ResetRetry, IsTerminal
<1>5. CASE Recover(d)
  BY <1>5, <1>c, <1>h DEF Recover, RecoverRequest, Request
<1>6. CASE Tick(d)
  BY <1>6, <1>c, <1>h DEF Tick, WorkerTick
<1>7. CASE Crash(d)
  <2>1. /\ Return(d) /\ Spend("crash") /\ UNCHANGED <<tx, acked>>
    BY <1>7 DEF Crash, AbandonLayer, Abandon
  <2>2. Leaving(d)
    BY <1>7 DEF Crash, AbandonLayer, Leaving, fixed, LayerPc
  <2> QED BY <2>1, <2>2, StopsShape DEF Budgeted
<1> QED
  BY <1>1, <1>2, <1>3, <1>4, <1>5, <1>6, <1>7 DEF ClientStep

LEMMA DeliveryNext ==
  ASSUME OneWorker, MessageTypeOK, ControlInv, DeliveryInv, BudgetTyped,
         [MessageNext]_messageVars
  PROVE  DeliveryInv' /\ BudgetTyped'
<1>t. LayersTypeOK /\ AllDispatch
  BY DEF DeliveryInv, AllDispatch
<1>1. ASSUME NEW d \in Driver,
             HandlerStep(d) \/ ClientStep(d) \/ Tick(d) \/ Crash(d)
      PROVE  DeliveryInv' /\ BudgetTyped'
  <2>1. DeliveryShape(d)
    BY <1>1, <1>t, HandlerDelivers, LayerDelivers, ClientDelivers
       DEF HandlerStep
  <2> QED BY <2>1, DeliveryStep
<1>2. CASE UNCHANGED <<tx, drv, layer, barriers, budget, acked, effects,
                       concurrent>>
  <2>1. InSequence => InSequence'
    BY <1>2 DEF InSequence, InFlight
  <2>2. WorkersOnly' = WorkersOnly /\ BudgetTyped'
    BY <1>2 DEF WorkersOnly, BudgetTyped, BudgetInv
  <2> QED BY <1>2, <2>1, <2>2
          DEF DeliveryInv, LayersTypeOK, Confirmed, DispatchInv, Covered,
              Delivers
<1>3. Expire /\ UNCHANGED fixed =>
        UNCHANGED <<tx, drv, layer, barriers, budget, acked, effects,
                    concurrent>>
  BY DEF Expire, fixed
<1>4. DelayPasses \/ UNCHANGED messageVars =>
        UNCHANGED <<tx, drv, layer, barriers, budget, acked, effects,
                    concurrent>>
  BY DEF DelayPasses, messageVars, layerVars, vars
<1> QED BY <1>1, <1>2, <1>3, <1>4 DEF MessageNext

LEMMA DeliveryInit == MessageInit => DeliveryInv /\ BudgetTyped
<1> SUFFICES ASSUME MessageInit
             PROVE  DeliveryInv /\ BudgetTyped
  OBVIOUS
<1>1. /\ tx = NewTransaction /\ barriers = {} /\ effects = {}
      /\ drv = [d \in Driver |-> Idle] /\ layer = [d \in Driver |-> NoLayer]
      /\ \A d \in Driver : drv[d] = Idle /\ layer[d] = NoLayer
  BY DEF MessageInit, LayerInit, Init
<1>2. NewTransaction \in Transaction /\ NoLayer \in Layer
  BY NewTransactionType DEF NoLayer, Layer
<1>3. LayersTypeOK
  BY <1>1, <1>2, IdleType DEF LayersTypeOK
<1>4. /\ Confirmed(tx) /\ tx.status # "Succeeded"
  BY <1>1 DEF Confirmed, NewTransaction
<1>5. \A d \in Driver : DispatchInv(drv[d], layer[d])
  BY <1>1, IdleDispatch
     DEF DispatchInv, DispatchBy, Confirmed, ConfirmedBy, Accepts, LayerPc
<1>6. Idle.pc = "idle"
  BY IdleType
<1>7. InSequence
  BY <1>1, <1>6 DEF InSequence
<1>8. BudgetTyped
  BY CoordinatorAssumption
     DEF MessageInit, LayerInit, Init, BudgetTyped, BudgetInv
<1> QED BY <1>3, <1>4, <1>5, <1>7, <1>8 DEF DeliveryInv

(* With one worker at a time and while only workers deliver, the record    *)
(* says Succeeded once every branch has accepted, in order or in layers,   *)
(* and delivery in order reaches a branch only after those before it have  *)
(* accepted, on every store and through every retry.                       *)
THEOREM DeliveryCompleteHolds == OneWorker => (Spec => []DeliveryComplete)
<1> SUFFICES ASSUME OneWorker PROVE Spec => []DeliveryComplete
  OBVIOUS
<1> DEFINE I == MessageTypeOK /\ ControlInv /\ DeliveryInv /\ BudgetTyped
<1>1. MessageInit => I
  BY MessageInitial, DeliveryInit
<1>2. I /\ [MessageNext]_messageVars => I'
  BY TypeStep, DeliveryNext
<1>3. I => DeliveryComplete
  <2> SUFFICES ASSUME DeliveryInv, WorkersOnly, NEW i \in 1..Len(Initial),
                      \/ tx.status = "Succeeded"
                      \/ /\ ~concurrent
                         /\ \E j \in (i + 1)..Len(Initial) :
                              Initial[j] \in Delivered
               PROVE  <<Initial[i], "message">> \in acked
    BY DEF DeliveryComplete
  <2>1. CASE tx.status = "Succeeded"
    BY <2>1 DEF DeliveryInv, Members
  <2>2. ASSUME ~concurrent, NEW j \in (i + 1)..Len(Initial),
               Initial[j] \in Delivered
        PROVE  <<Initial[i], "message">> \in acked
    <3>1. j \in 1..Len(Initial) /\ i < j
      OBVIOUS
    <3>2. <<Initial[j], "message">> \in effects /\ InSequence
      BY <2>2 DEF Delivered, DeliveryInv
    <3> QED BY <3>1, <3>2 DEF InSequence
  <2> QED BY <2>1, <2>2
<1> QED BY <1>1, <1>2, <1>3, PTL DEF Spec

-----------------------------------------------------------------------------
(* Topics.                                                                 *)

(* Caller p alone moves, to state s.                                       *)
Turns(p, s) == s \in Caller /\ proc' = [proc EXCEPT ![p] = s]

LEMMA TurnsFacts ==
  ASSUME NEW p \in Proc, NEW s, proc \in [Proc -> Caller], Turns(p, s)
  PROVE  /\ proc' \in [Proc -> Caller] /\ proc'[p] = s
         /\ \A q \in Proc \ {p} : proc'[q] = proc[q]
BY DEF Turns

LEMMA NoEntryType == NoEntry \in Entry /\ IdleCaller \in Caller
<1>1. NoEntry \in Entry
  BY DEF NoEntry, Entry
<1> QED BY <1>1 DEF IdleCaller, Caller

(* What Retry makes of the caller.                                         *)
Retried(p) ==
  IF proc[p].tries + 1 < MaxTries
  THEN [proc[p] EXCEPT !.pc = "read", !.tries = @ + 1]
  ELSE [proc[p] EXCEPT !.pc = "contended"]

LEMMA RetryTurns ==
  ASSUME NEW p \in Proc, proc \in [Proc -> Caller], Retry(p)
  PROVE  Turns(p, Retried(p))
BY TopicsAssumption DEF Retry, Turns, Retried, Caller

LEMMA DoneTurns ==
  ASSUME NEW p \in Proc, proc \in [Proc -> Caller], Done(p)
  PROVE  Turns(p, IdleCaller)
BY NoEntryType DEF Done, Turns

Started(op, url) ==
  [IdleCaller EXCEPT !.pc = "read", !.op = op, !.url = url, !.began = writes]

LEMMA StartTurns ==
  ASSUME NEW p \in Proc, NEW op \in {"subscribe", "unsubscribe"}, NEW u \in Url,
         TopicsTypeOK, Start(p, op, u)
  PROVE  Turns(p, Started(op, u))
BY NoEntryType DEF Start, Turns, Started, IdleCaller, Caller, TopicsTypeOK

(* What the checks of ReadEntry make of the caller.                        *)
Checked(p, pc) == [proc[p] EXCEPT !.pc = pc, !.copy = entry]

LEMMA ReadTurns ==
  ASSUME NEW p \in Proc, TopicsTypeOK, ReadEntry(p)
  PROVE  \/ Turns(p, IdleCaller)
         \/ entry = NoEntry /\ Turns(p, Checked(p, "create"))
         \/ /\ (proc[p].op = "subscribe") # (proc[p].url \in Range(entry.subs))
            /\ entry # NoEntry
            /\ Turns(p, Checked(p, "update"))
<1> DEFINE there == proc[p].url \in Range(entry.subs)
           subscribing == proc[p].op = "subscribe"
<1>1. /\ proc \in [Proc -> Caller] /\ entry \in Entry
  BY DEF TopicsTypeOK
<1>2. Checked(p, "create") \in Caller /\ Checked(p, "update") \in Caller
  BY <1>1 DEF Checked, Caller
<1>3. \/ Done(p)
      \/ /\ entry = NoEntry
         /\ proc' = [proc EXCEPT ![p].pc = "create", ![p].copy = NoEntry]
      \/ /\ subscribing # there /\ entry # NoEntry
         /\ proc' = [proc EXCEPT ![p].pc = "update", ![p].copy = entry]
  BY Zenon DEF ReadEntry
<1>4. ASSUME NEW pc, proc' = [proc EXCEPT ![p].pc = pc, ![p].copy = entry]
      PROVE  proc' = [proc EXCEPT ![p] = Checked(p, pc)]
  BY <1>1, <1>4 DEF Checked
<1> HIDE DEF there, subscribing
<1>5. CASE Done(p)
  BY <1>1, <1>5, DoneTurns
<1>6. CASE /\ entry = NoEntry
           /\ proc' = [proc EXCEPT ![p].pc = "create", ![p].copy = NoEntry]
  BY <1>2, <1>4, <1>6 DEF Turns
<1>7. CASE /\ subscribing # there /\ entry # NoEntry
           /\ proc' = [proc EXCEPT ![p].pc = "update", ![p].copy = entry]
  <2>1. Turns(p, Checked(p, "update"))
    BY <1>2, <1>4, <1>7 DEF Turns
  <2> QED BY <1>7, <2>1, Zenon DEF there, subscribing
<1> QED BY <1>3, <1>5, <1>6, <1>7

(* retain keeps the others, in their order.                                *)
LEMMA WithoutFacts ==
  ASSUME NEW subs \in Seq(Url), NEW i \in 1..Len(subs), Distinct(subs)
  PROVE  /\ Without(subs, i) \in Seq(Url)
         /\ Distinct(Without(subs, i))
         /\ Range(Without(subs, i)) = Range(subs) \ {subs[i]}
<1> DEFINE n == Len(subs)
           new == Without(subs, i)
<1>1. n \in Nat /\ n - 1 \in Nat /\ \A j \in 1..n : subs[j] \in Url
  OBVIOUS
<1>2. \A j \in 1..(n - 1) : new[j] = IF j < i THEN subs[j] ELSE subs[j + 1]
  BY DEF Without
<1>3. new \in [1..(n - 1) -> Url]
  BY <1>1 DEF Without
<1>4. new \in Seq(Url) /\ Len(new) = n - 1 /\ DOMAIN new = 1..(n - 1)
  BY <1>1, <1>3
<1>5. Distinct(new)
  <2> SUFFICES ASSUME NEW j \in 1..(n - 1), NEW k \in 1..(n - 1), j # k
               PROVE  new[j] # new[k]
    BY <1>4 DEF Distinct
  <2> DEFINE at(m) == IF m < i THEN m ELSE m + 1
  <2>1. at(j) \in 1..n /\ at(k) \in 1..n /\ at(j) # at(k)
    BY <1>1
  <2>2. new[j] = subs[at(j)] /\ new[k] = subs[at(k)]
    BY <1>2
  <2> QED BY <2>1, <2>2 DEF Distinct
<1>6. ASSUME NEW u \in Range(new)
      PROVE  u \in Range(subs) /\ u # subs[i]
  <2>1. PICK j \in 1..(n - 1) : u = new[j]
    BY <1>4 DEF Range
  <2> DEFINE at == IF j < i THEN j ELSE j + 1
  <2>2. at \in 1..n /\ at # i /\ u = subs[at]
    BY <1>1, <1>2, <2>1
  <2> HIDE DEF at
  <2> QED BY <2>2 DEF Distinct, Range
<1>7. ASSUME NEW u \in Range(subs), u # subs[i]
      PROVE  u \in Range(new)
  <2>1. PICK k \in 1..n : u = subs[k]
    BY DEF Range
  <2> DEFINE at == IF k < i THEN k ELSE k - 1
  <2>2. at \in 1..(n - 1) /\ new[at] = subs[k]
    BY <1>1, <1>2, <1>7, <2>1
  <2> HIDE DEF at
  <2> QED BY <1>4, <2>1, <2>2 DEF Range
<1> QED BY <1>4, <1>5, <1>6, <1>7

LEMMA AppendFacts ==
  ASSUME NEW subs \in Seq(Url), NEW u \in Url
  PROVE  /\ Append(subs, u) \in Seq(Url)
         /\ Range(Append(subs, u)) = Range(subs) \cup {u}
         /\ Distinct(subs) /\ u \notin Range(subs) => Distinct(Append(subs, u))
<1> DEFINE n == Len(subs)
           new == Append(subs, u)
<1>1. /\ n \in Nat /\ new \in Seq(Url) /\ Len(new) = n + 1
      /\ DOMAIN new = 1..(n + 1) /\ DOMAIN subs = 1..n
      /\ new[n + 1] = u /\ \A j \in 1..n : new[j] = subs[j]
  OBVIOUS
<1> HIDE DEF new
<1>2. \A x : x \in Range(new) <=> \E j \in 1..(n + 1) : x = new[j]
  BY <1>1 DEF Range
<1>3. \A x : x \in Range(subs) <=> \E j \in 1..n : x = subs[j]
  BY <1>1 DEF Range
<1>4. Range(new) = Range(subs) \cup {u}
  <2>1. \A j \in 1..(n + 1) : j \in 1..n \/ j = n + 1
    BY <1>1
  <2>2. \A j \in 1..n : j \in 1..(n + 1)
    BY <1>1
  <2>3. n + 1 \in 1..(n + 1)
    BY <1>1
  <2> QED BY <1>1, <1>2, <1>3, <2>1, <2>2, <2>3
<1>5. ASSUME Distinct(subs), u \notin Range(subs)
      PROVE  Distinct(new)
  BY <1>1, <1>3, <1>5 DEF Distinct
<1> QED BY <1>1, <1>4, <1>5 DEF new

TopicsInv == TopicsTypeOK /\ ContentionInv /\ SubscribersInv

(* The operation of a caller that is not idle.                             *)
Asked(s) ==
  s.pc # "idle" => s.op \in {"subscribe", "unsubscribe"} /\ s.url \in Url

(* The entry as the operation of p leaves it.                              *)
LEMMA ChangedFacts ==
  ASSUME NEW p \in Proc, TopicsInv, proc[p].pc \in {"update", "swap"}
  PROVE  /\ Changed(p) \in Seq(Url)
         /\ Distinct(Changed(p))
         /\ Range(Changed(p)) =
              IF proc[p].op = "subscribe"
              THEN Range(proc[p].copy.subs) \cup {proc[p].url}
              ELSE Range(proc[p].copy.subs) \ {proc[p].url}
<1> DEFINE subs == proc[p].copy.subs
           place == CHOOSE i \in 1..Len(subs) : subs[i] = proc[p].url
<1>1. /\ subs \in Seq(Url) /\ Distinct(subs) /\ proc[p].url \in Url
      /\ proc[p].op \in {"subscribe", "unsubscribe"}
      /\ proc[p].url \in Range(subs) <=> proc[p].op = "unsubscribe"
  BY DEF TopicsInv, TopicsTypeOK, SubscribersInv, CopyFits, Caller, Entry
<1>2. CASE proc[p].op = "subscribe"
  <2>1. Changed(p) = Append(subs, proc[p].url)
    BY <1>2 DEF Changed
  <2> QED BY <1>1, <1>2, <2>1, AppendFacts
<1>3. CASE proc[p].op = "unsubscribe"
  <2>1. \E i \in 1..Len(subs) : subs[i] = proc[p].url
    BY <1>1, <1>3 DEF Range
  <2>2. place \in 1..Len(subs) /\ subs[place] = proc[p].url
    BY <2>1
  <2>3. Changed(p) = Without(subs, place)
    BY <1>3 DEF Changed
  <2> HIDE DEF place
  <2> QED BY <1>1, <1>3, <2>2, <2>3, WithoutFacts
<1> QED BY <1>1, <1>2, <1>3

(* A caller moves and the entry stays as it is.                            *)
LEMMA QuietKeeps ==
  ASSUME TopicsInv, NEW p \in Proc, NEW s, Turns(p, s), Asked(s),
         UNCHANGED <<redis, entry, sent, wanted, writes, revived>>,
         left' \in Nat, MissedChanges(p)', CopyFits(p)'
  PROVE  TopicsInv'
<1>1. /\ proc' \in [Proc -> Caller] /\ proc'[p] = s
      /\ \A q \in Proc \ {p} : proc'[q] = proc[q]
  BY TurnsFacts DEF TopicsInv, TopicsTypeOK
<1>2. TopicsTypeOK'
  BY <1>1 DEF TopicsInv, TopicsTypeOK
<1>3. ASSUME NEW q \in Proc \ {p}
      PROVE  MissedChanges(q)' /\ CopyFits(q)'
  <2>1. MissedChanges(q) /\ CopyFits(q) /\ proc'[q] = proc[q]
    BY <1>1 DEF TopicsInv, ContentionInv, SubscribersInv
  <2>2. MissedChanges(q)'
    BY <2>1 DEF MissedChanges, Snapshot
  <2>3. CopyFits(q)'
    BY <2>1 DEF CopyFits, Versioned
  <2> QED BY <2>2, <2>3
<1>4. ContentionInv'
  BY <1>3 DEF ContentionInv
<1>5. \A q \in Proc : Asked(proc'[q]) /\ CopyFits(q)'
  BY <1>1, <1>3 DEF TopicsInv, SubscribersInv, Asked
<1>6. SubscribersInv'
  BY <1>5 DEF TopicsInv, SubscribersInv, Asked
<1> QED BY <1>2, <1>4, <1>6 DEF TopicsInv

(* The entry changes, and whoever changed it is done: everyone else missed *)
(* one more change and has an older copy.                                  *)
LEMMA ChangeKeeps ==
  ASSUME TopicsInv, redis' \in BOOLEAN, sent' = sent, left' \in Nat,
         proc' \in [Proc -> Caller],
         \A q \in Proc : proc'[q] = proc[q] \/ proc'[q] = IdleCaller,
         writes' = writes + 1,
         entry' \in Entry, Distinct(entry'.subs),
         \/ entry' = NoEntry
         \/ entry'.life = writes + 1
         \/ /\ entry'.life = entry.life /\ entry.life > 0
            /\ entry'.version = entry.version + 1,
         wanted' \subseteq Url, revived' \in BOOLEAN,
         ~revived' => Range(entry'.subs) = wanted'
  PROVE  TopicsInv'
<1>1. /\ writes \in Nat /\ entry \in Entry /\ entry.life <= writes
      /\ proc \in [Proc -> Caller]
  BY DEF TopicsInv, TopicsTypeOK, SubscribersInv
<1>2. entry'.life <= writes' /\ (entry' # NoEntry => entry'.life > 0)
  BY <1>1 DEF NoEntry, Entry
<1>3. TopicsTypeOK'
  BY <1>1 DEF TopicsInv, TopicsTypeOK
<1>4. ASSUME NEW q \in Proc
      PROVE  MissedChanges(q)' /\ CopyFits(q)' /\ Asked(proc'[q])
  <2>1. CASE proc'[q] = IdleCaller
    BY <2>1 DEF MissedChanges, CopyFits, Asked, IdleCaller
  <2>2. CASE proc'[q] = proc[q]
    <3>1. MissedChanges(q) /\ CopyFits(q) /\ Asked(proc[q]) /\ proc[q] \in Caller
      BY <1>1 DEF TopicsInv, ContentionInv, SubscribersInv, Asked
    <3>2. proc[q].began \in Nat /\ proc[q].tries \in Nat /\ proc[q].copy \in Entry
      BY <3>1 DEF Caller
    <3>3. MissedChanges(q)'
      BY <1>1, <2>2, <3>1, <3>2, TopicsAssumption DEF MissedChanges
    <3>4. ASSUME proc[q].pc \in {"update", "swap"}
          PROVE  Versioned(proc[q].copy)' /\ proc[q].copy.life \in 1..writes'
      <4>1. Versioned(proc[q].copy) /\ proc[q].copy.life \in 1..writes
        BY <3>1, <3>4 DEF CopyFits
      <4>2. /\ proc[q].copy.life \in Nat /\ proc[q].copy.version \in Nat
            /\ entry.life \in Nat /\ entry.version \in Nat
        BY <1>1, <3>2 DEF Entry
      <4>3. proc[q].copy.life \in 1..writes'
        BY <1>1, <4>1, <4>2
      <4>4. proc[q].copy.life = entry'.life => proc[q].copy.version < entry'.version
        <5>1. CASE entry' = NoEntry
          BY <4>1, <5>1 DEF NoEntry
        <5>2. CASE entry'.life = writes + 1
          BY <1>1, <4>1, <4>2, <5>2
        <5>3. CASE /\ entry'.life = entry.life
                   /\ entry'.version = entry.version + 1
          <6>1. proc[q].copy.life = entry.life =>
                  \/ proc[q].copy.version < entry.version
                  \/ proc[q].copy = entry
            BY <4>1 DEF Versioned
          <6> QED BY <4>2, <5>3, <6>1
        <5> QED BY <5>1, <5>2, <5>3
      <4> QED BY <4>3, <4>4, <2>2 DEF Versioned
    <3>5. CopyFits(q)'
      BY <2>2, <3>1, <3>4 DEF CopyFits
    <3> QED BY <2>2, <3>1, <3>3, <3>5
  <2> QED BY <2>1, <2>2
<1>5. ContentionInv'
  BY <1>4 DEF ContentionInv
<1>6. SubscribersInv'
  BY <1>2, <1>4 DEF TopicsInv, SubscribersInv, Asked
<1> QED BY <1>3, <1>5, <1>6 DEF TopicsInv

(* A lost attempt: the entry was not what the caller had read.             *)
LEMMA RetryKeeps ==
  ASSUME TopicsInv, NEW p \in Proc, Retry(p),
         proc[p].pc \in {"create", "update", "swap"},
         entry # Snapshot(p),
         UNCHANGED <<redis, entry, sent, wanted, writes, revived, left>>
  PROVE  TopicsInv'
<1>1. /\ Turns(p, Retried(p)) /\ proc'[p] = Retried(p)
      /\ proc[p] \in Caller /\ left \in Nat /\ writes \in Nat
  BY RetryTurns, TurnsFacts DEF TopicsInv, TopicsTypeOK
<1>2. /\ proc[p].tries \in Nat /\ proc[p].began \in Nat
      /\ writes - proc[p].began > proc[p].tries /\ Asked(proc[p])
  BY <1>1 DEF TopicsInv, ContentionInv, MissedChanges, SubscribersInv, Caller, Asked
<1>3. /\ Retried(p).pc \in {"read", "contended"}
      /\ Retried(p).began = proc[p].began /\ Retried(p).op = proc[p].op
      /\ Retried(p).url = proc[p].url
      /\ Retried(p).pc = "read" => Retried(p).tries = proc[p].tries + 1
      /\ Retried(p).pc = "contended" =>
           /\ Retried(p).tries = proc[p].tries
           /\ ~(proc[p].tries + 1 < MaxTries)
  BY <1>1 DEF Retried, Caller
<1>4. MissedChanges(p)'
  BY <1>1, <1>2, <1>3, TopicsAssumption DEF MissedChanges
<1>5. CopyFits(p)' /\ Asked(Retried(p))
  BY <1>1, <1>2, <1>3 DEF CopyFits, Asked
<1> QED BY <1>1, <1>4, <1>5, QuietKeeps

LEMMA StartKeeps ==
  ASSUME TopicsInv, NEW p \in Proc, NEW op \in {"subscribe", "unsubscribe"},
         NEW u \in Url, Start(p, op, u)
  PROVE  TopicsInv'
<1>1. Turns(p, Started(op, u)) /\ proc'[p] = Started(op, u)
  BY StartTurns, TurnsFacts DEF TopicsInv, TopicsTypeOK
<1>2. /\ left' \in Nat /\ writes \in Nat
      /\ UNCHANGED <<redis, entry, sent, wanted, writes, revived>>
  BY DEF Start, TopicsInv, TopicsTypeOK
<1>3. /\ Started(op, u).pc = "read" /\ Started(op, u).op = op
      /\ Started(op, u).url = u /\ Started(op, u).tries = 0
      /\ Started(op, u).began = writes
  BY DEF Started, IdleCaller
<1>4. MissedChanges(p)' /\ CopyFits(p)' /\ Asked(Started(op, u))
  BY <1>1, <1>2, <1>3 DEF MissedChanges, CopyFits, Asked
<1> QED BY <1>1, <1>2, <1>4, QuietKeeps

LEMMA ReadKeeps ==
  ASSUME TopicsInv, NEW p \in Proc, ReadEntry(p)
  PROVE  TopicsInv'
<1>1. /\ UNCHANGED <<redis, entry, sent, wanted, writes, revived, left>>
      /\ left \in Nat /\ proc[p] \in Caller /\ proc \in [Proc -> Caller]
      /\ proc[p].pc = "read" /\ writes \in Nat /\ entry \in Entry
  BY DEF ReadEntry, TopicsInv, TopicsTypeOK
<1>2. CASE Turns(p, IdleCaller)
  <2>1. proc'[p] = IdleCaller
    BY <1>1, <1>2, TurnsFacts
  <2>2. MissedChanges(p)' /\ CopyFits(p)' /\ Asked(IdleCaller)
    BY <2>1 DEF MissedChanges, CopyFits, Asked, IdleCaller
  <2> QED BY <1>1, <1>2, <2>2, QuietKeeps
<1>3. ASSUME NEW pc \in {"create", "update"}, Turns(p, Checked(p, pc)),
             pc = "create" => entry = NoEntry,
             pc = "update" =>
               /\ (proc[p].op = "subscribe") # (proc[p].url \in Range(entry.subs))
               /\ entry # NoEntry
      PROVE  TopicsInv'
  <2>1. /\ proc'[p] = Checked(p, pc)
        /\ Checked(p, pc).pc = pc /\ Checked(p, pc).copy = entry
        /\ Checked(p, pc).op = proc[p].op /\ Checked(p, pc).url = proc[p].url
        /\ Checked(p, pc).tries = proc[p].tries
        /\ Checked(p, pc).began = proc[p].began
    BY <1>1, <1>3, TurnsFacts DEF Checked, Caller
  <2>2. Asked(proc[p]) /\ MissedChanges(p)
    BY DEF TopicsInv, SubscribersInv, ContentionInv, Asked
  <2>3. MissedChanges(p)'
    BY <1>1, <1>3, <2>1, <2>2 DEF MissedChanges, Snapshot
  <2>4. Asked(Checked(p, pc))
    BY <1>1, <2>1, <2>2 DEF Asked
  <2>5. ASSUME pc = "update"
        PROVE  proc[p].url \in Range(entry.subs) <=> proc[p].op = "unsubscribe"
    <3>1. proc[p].op \in {"subscribe", "unsubscribe"}
      BY <1>1, <2>2 DEF Asked
    <3> QED BY <1>3, <2>5, <3>1
  <2>6. CopyFits(p)'
    BY <1>1, <1>3, <2>1, <2>5
      DEF CopyFits, Versioned, TopicsInv, SubscribersInv, Entry
  <2> QED BY <1>1, <1>3, <2>3, <2>4, <2>6, QuietKeeps
<1> QED BY <1>2, <1>3, ReadTurns DEF TopicsInv

(* The write of a caller whose copy has the version of the entry.          *)
LEMMA WriteKeeps ==
  ASSUME TopicsInv, NEW p \in Proc, proc[p].pc \in {"update", "swap"},
         SameVersion(p), WriteEntry(p), UNCHANGED <<redis, left, sent>>
  PROVE  TopicsInv'
<1> DEFINE c == proc[p].copy
<1>1. /\ proc \in [Proc -> Caller] /\ proc[p] \in Caller /\ entry \in Entry
      /\ writes \in Nat /\ left \in Nat /\ redis \in BOOLEAN /\ wanted \subseteq Url
      /\ c \in Entry /\ entry.life > 0 /\ proc[p].url \in Url
      /\ proc[p].op \in {"subscribe", "unsubscribe"}
      /\ c.version = entry.version /\ Versioned(c)
  BY DEF TopicsInv, TopicsTypeOK, SubscribersInv, CopyFits, SameVersion, Caller
<1>2. /\ Changed(p) \in Seq(Url) /\ Distinct(Changed(p))
      /\ Range(Changed(p)) =
           IF proc[p].op = "subscribe" THEN Range(c.subs) \cup {proc[p].url}
           ELSE Range(c.subs) \ {proc[p].url}
  BY ChangedFacts
<1>3. /\ entry' \in Entry /\ entry'.subs = Changed(p)
      /\ entry'.life = entry.life /\ entry'.version = entry.version + 1
  <2>1. entry' = [entry EXCEPT !.subs = Changed(p), !.version = c.version + 1]
    BY DEF WriteEntry
  <2>2. entry.version + 1 \in Nat /\ c.version + 1 = entry.version + 1
    BY <1>1 DEF Entry
  <2>3. entry' = [entry EXCEPT !.subs = Changed(p), !.version = entry.version + 1]
    BY <2>1, <2>2, Zenon
  <2> QED BY <1>1, <1>2, <2>2, <2>3 DEF Entry
<1>4. /\ wanted' = IF proc[p].op = "subscribe" THEN wanted \cup {proc[p].url}
                   ELSE wanted \ {proc[p].url}
      /\ writes' = writes + 1
      /\ revived' = (revived \/ entry.life # c.life)
      /\ Done(p)
  BY DEF WriteEntry
<1>5. /\ proc' \in [Proc -> Caller]
      /\ \A q \in Proc : proc'[q] = proc[q] \/ proc'[q] = IdleCaller
  BY <1>1, <1>4, DoneTurns, TurnsFacts
<1>6. ASSUME ~revived'
      PROVE  Range(entry'.subs) = wanted'
  <2>1. ~revived /\ entry.life = c.life
    BY <1>4, <1>6
  <2>2. c = entry /\ Range(entry.subs) = wanted
    BY <1>1, <2>1 DEF Versioned, TopicsInv, SubscribersInv, Entry
  <2> QED BY <1>2, <1>3, <1>4, <2>2
<1>7. wanted' \subseteq Url /\ revived' \in BOOLEAN
  BY <1>1, <1>4
<1>8. Distinct(entry'.subs)
  BY <1>2, <1>3
<1> QED BY <1>1, <1>3, <1>4, <1>5, <1>6, <1>7, <1>8, ChangeKeeps

LEMMA CreateKeeps ==
  ASSUME TopicsInv, NEW p \in Proc, CreateEntry(p)
  PROVE  TopicsInv'
<1>1. /\ proc \in [Proc -> Caller] /\ proc[p] \in Caller /\ entry \in Entry
      /\ writes \in Nat /\ left \in Nat /\ redis \in BOOLEAN /\ wanted \subseteq Url
      /\ proc[p].url \in Url /\ proc[p].copy = NoEntry /\ proc[p].pc = "create"
      /\ revived \in BOOLEAN /\ UNCHANGED <<redis, left, sent, revived>>
  BY DEF TopicsInv, TopicsTypeOK, SubscribersInv, ContentionInv, MissedChanges,
         CreateEntry
<1>2. CASE entry # NoEntry /\ Retry(p) /\ UNCHANGED <<entry, wanted, writes>>
  BY <1>1, <1>2, RetryKeeps DEF Snapshot
<1>3. CASE /\ CreateKv([subs |-> <<proc[p].url>>, version |-> 1,
                        life |-> writes + 1])
           /\ wanted' = wanted \cup {proc[p].url}
           /\ writes' = writes + 1
           /\ Done(p)
  <2>1. /\ entry = NoEntry
        /\ entry' = [subs |-> <<proc[p].url>>, version |-> 1, life |-> writes + 1]
    BY <1>3 DEF CreateKv
  <2>2. entry' \in Entry /\ entry'.life = writes + 1 /\ entry'.subs = <<proc[p].url>>
    BY <1>1, <2>1 DEF Entry
  <2>3. Distinct(entry'.subs) /\ Range(entry'.subs) = {proc[p].url}
    BY <2>2 DEF Distinct, Range
  <2>4. ~revived => wanted = {}
    <3>1. Range(entry.subs) = {}
      BY <2>1 DEF NoEntry, Range
    <3> QED BY <3>1 DEF TopicsInv, SubscribersInv
  <2>5. ~revived' => Range(entry'.subs) = wanted'
    BY <1>1, <1>3, <2>3, <2>4
  <2>6. /\ proc' \in [Proc -> Caller]
        /\ \A q \in Proc : proc'[q] = proc[q] \/ proc'[q] = IdleCaller
    BY <1>1, <1>3, DoneTurns, TurnsFacts
  <2>7. wanted' \subseteq Url
    BY <1>1, <1>3
  <2> QED BY <1>1, <1>3, <2>2, <2>3, <2>5, <2>6, <2>7, ChangeKeeps
<1> QED BY <1>2, <1>3 DEF CreateEntry

LEMMA UpdateKeeps ==
  ASSUME TopicsInv, NEW p \in Proc,
         UpdateEntry(p) \/ LookUpVersion(p) \/ SwapEntry(p)
  PROVE  TopicsInv'
<1>1. CASE UpdateEntry(p)
  <2>1. /\ proc[p].pc = "update" /\ UNCHANGED <<redis, left, sent>>
        /\ \/ SameVersion(p) /\ WriteEntry(p)
           \/ /\ ~SameVersion(p) /\ Retry(p)
              /\ UNCHANGED <<entry, wanted, writes, revived>>
    BY <1>1 DEF UpdateEntry
  <2>2. CASE SameVersion(p) /\ WriteEntry(p)
    BY <2>1, <2>2, WriteKeeps
  <2>3. CASE /\ ~SameVersion(p) /\ Retry(p)
             /\ UNCHANGED <<entry, wanted, writes, revived>>
    <3>1. entry # proc[p].copy
      BY <2>1, <2>3 DEF SameVersion, TopicsInv, SubscribersInv, CopyFits, NoEntry
    <3> QED BY <2>1, <2>3, <3>1, RetryKeeps DEF Snapshot
  <2> QED BY <2>1, <2>2, <2>3
<1>2. CASE LookUpVersion(p)
  <2>1. /\ proc[p].pc = "update" /\ proc[p] \in Caller /\ entry \in Entry
        /\ UNCHANGED <<redis, entry, left, sent, wanted, writes, revived>>
        /\ left \in Nat
    BY <1>2 DEF LookUpVersion, TopicsInv, TopicsTypeOK
  <2>2. CASE ~SameVersion(p)
    <3>1. entry # proc[p].copy
      BY <2>1, <2>2 DEF SameVersion, TopicsInv, SubscribersInv, CopyFits, NoEntry
    <3>2. Retry(p)
      BY <1>2, <2>2 DEF LookUpVersion
    <3> QED BY <2>1, <3>1, <3>2, RetryKeeps DEF Snapshot
  <2>3. CASE SameVersion(p)
    <3> DEFINE s == [proc[p] EXCEPT !.pc = "swap", !.seen = entry]
    <3>1. Turns(p, s)
      BY <1>2, <2>1, <2>3 DEF LookUpVersion, Turns, Caller, TopicsInv, TopicsTypeOK
    <3>2. /\ s.pc = "swap" /\ s.seen = entry /\ s.copy = proc[p].copy
          /\ s.op = proc[p].op /\ s.url = proc[p].url
          /\ s.tries = proc[p].tries /\ s.began = proc[p].began
      BY <2>1 DEF Caller
    <3> HIDE DEF s
    <3>3. proc'[p] = s
      BY <3>1, TurnsFacts DEF TopicsInv, TopicsTypeOK
    <3>4. MissedChanges(p) /\ CopyFits(p) /\ Asked(proc[p])
      BY DEF TopicsInv, ContentionInv, SubscribersInv, Asked
    <3>5. MissedChanges(p)'
      BY <2>1, <3>2, <3>3, <3>4 DEF MissedChanges, Snapshot
    <3>6. CopyFits(p)'
      BY <2>1, <2>3, <3>2, <3>3, <3>4 DEF CopyFits, Versioned, SameVersion
    <3>7. Asked(s)
      BY <2>1, <3>2, <3>4 DEF Asked
    <3> QED BY <2>1, <3>1, <3>5, <3>6, <3>7, QuietKeeps
  <2> QED BY <2>2, <2>3
<1>3. CASE SwapEntry(p)
  <2>1. /\ proc[p].pc = "swap" /\ UNCHANGED <<redis, left, sent>>
        /\ \/ entry = proc[p].seen /\ WriteEntry(p)
           \/ /\ entry # proc[p].seen /\ Retry(p)
              /\ UNCHANGED <<entry, wanted, writes, revived>>
    BY <1>3 DEF SwapEntry
  <2>2. CASE entry = proc[p].seen /\ WriteEntry(p)
    <3>1. SameVersion(p)
      BY <2>1, <2>2 DEF TopicsInv, SubscribersInv, CopyFits, SameVersion
    <3> QED BY <2>1, <2>2, <3>1, WriteKeeps
  <2>3. CASE /\ entry # proc[p].seen /\ Retry(p)
             /\ UNCHANGED <<entry, wanted, writes, revived>>
    BY <2>1, <2>3, RetryKeeps DEF Snapshot
  <2> QED BY <2>1, <2>2, <2>3
<1> QED BY <1>1, <1>2, <1>3


LEMMA DeleteKeeps ==
  ASSUME TopicsInv, DeleteTopic
  PROVE  TopicsInv'
<1>1. /\ entry' = NoEntry /\ left' \in Nat /\ wanted' = {}
      /\ writes' = writes + 1 /\ UNCHANGED <<redis, proc, sent, revived>>
      /\ redis \in BOOLEAN /\ proc \in [Proc -> Caller] /\ revived \in BOOLEAN
  BY DEF DeleteTopic, DeleteKv, TopicsInv, TopicsTypeOK
<1>2. /\ entry' \in Entry /\ Distinct(entry'.subs)
      /\ Range(entry'.subs) = wanted'
  BY <1>1, NoEntryType DEF NoEntry, Distinct, Range
<1> QED BY <1>1, <1>2, ChangeKeeps

LEMMA SubmitKeeps ==
  ASSUME TopicsInv, SubmitMessage
  PROVE  TopicsInv'
<1> DEFINE n == Len(sent)
<1>1. /\ sent \in Seq(Seq(Url)) /\ entry \in Entry /\ Distinct(entry.subs)
      /\ sent' = Append(sent, entry.subs)
      /\ UNCHANGED <<redis, entry, proc, left, wanted, writes, revived>>
      /\ \A k \in 1..n : Distinct(sent[k])
  BY DEF SubmitMessage, TopicsInv, TopicsTypeOK, SubscribersInv
<1>2. entry.subs \in Seq(Url)
  BY <1>1 DEF Entry
<1>3. /\ sent' \in Seq(Seq(Url)) /\ n \in Nat /\ Len(sent') = n + 1
      /\ sent'[n + 1] = entry.subs /\ \A k \in 1..n : sent'[k] = sent[k]
  BY <1>1, <1>2
<1>4. \A k \in 1..(n + 1) : Distinct(sent'[k])
  <2>1. \A k \in 1..(n + 1) : k \in 1..n \/ k = n + 1
    BY <1>3
  <2> QED BY <1>1, <1>3, <2>1
<1>5. TopicsTypeOK' /\ ContentionInv'
  BY <1>1, <1>3 DEF TopicsInv, TopicsTypeOK, ContentionInv, MissedChanges, Snapshot
<1>6. \A q \in Proc : CopyFits(q)'
  BY <1>1 DEF TopicsInv, SubscribersInv, CopyFits, Versioned
<1>7. SubscribersInv'
  BY <1>1, <1>3, <1>4, <1>6 DEF TopicsInv, SubscribersInv
<1> QED BY <1>5, <1>7 DEF TopicsInv

LEMMA TopicsInitial == TopicsInit => TopicsInv
<1> SUFFICES ASSUME TopicsInit PROVE TopicsInv
  OBVIOUS
<1>1. /\ entry = NoEntry /\ NoEntry \in Entry /\ sent = << >> /\ wanted = {}
      /\ \A p \in Proc : proc[p] = IdleCaller
      /\ writes = 0 /\ proc \in [Proc -> Caller]
  BY NoEntryType DEF TopicsInit
<1>2. TopicsTypeOK
  <2>1. sent \in Seq(Seq(Url)) /\ wanted \subseteq Url
    BY <1>1
  <2>2. redis \in BOOLEAN /\ revived \in BOOLEAN /\ left \in Nat /\ writes \in Nat
    BY TopicsAssumption DEF TopicsInit
  <2> QED BY <1>1, <2>1, <2>2 DEF TopicsTypeOK
<1>3. ContentionInv
  BY <1>1 DEF ContentionInv, MissedChanges, IdleCaller
<1>4. SubscribersInv
  BY <1>1 DEF SubscribersInv, CopyFits, IdleCaller, NoEntry, Distinct, Range
<1> QED BY <1>2, <1>3, <1>4 DEF TopicsInv

LEMMA TopicsStep == TopicsInv /\ [TopicsNext]_topicVars => TopicsInv'
<1> SUFFICES ASSUME TopicsInv, [TopicsNext]_topicVars PROVE TopicsInv'
  OBVIOUS
<1>1. CASE UNCHANGED topicVars
  BY <1>1 DEF topicVars, TopicsInv, TopicsTypeOK, ContentionInv, MissedChanges,
              Snapshot, SubscribersInv, CopyFits, Versioned
<1>2. CASE TopicsNext
  BY <1>2, StartKeeps, ReadKeeps, CreateKeeps, UpdateKeeps, DeleteKeeps,
     SubmitKeeps DEF TopicsNext, Step
<1> QED BY <1>1, <1>2

(* For any number of callers, URLs and attempts, on every store: the topic *)
(* has exactly the subscribers whose subscription was acknowledged and not *)
(* withdrawn, each once, and so have the Messages it was expanded to,      *)
(* unless it was deleted and created again under an update whose copy      *)
(* happened to have the version of the new life.                           *)
THEOREM SubscribersAreExact == TopicsSpec => []SubscribersExact
<1>1. TopicsInv => SubscribersExact
  <2> SUFFICES ASSUME TopicsInv PROVE SubscribersExact
    OBVIOUS
  <2>1. /\ sent \in Seq(Seq(Url)) /\ entry.subs \in Seq(Url)
        /\ Distinct(entry.subs) /\ \A k \in 1..Len(sent) : Distinct(sent[k])
        /\ ~revived => Range(entry.subs) = wanted
    BY DEF TopicsInv, TopicsTypeOK, SubscribersInv, Entry
  <2>2. ASSUME NEW subs \in {entry.subs} \cup Range(sent)
        PROVE  subs \in Seq(Url) /\ Distinct(subs)
    <3>1. CASE subs = entry.subs
      BY <2>1, <3>1
    <3>2. CASE subs \in Range(sent)
      <4>1. PICK k \in DOMAIN sent : subs = sent[k]
        BY <3>2, Zenon DEF Range
      <4>2. k \in 1..Len(sent) /\ sent[k] \in Seq(Url)
        BY <2>1, <4>1
      <4> QED BY <2>1, <4>1, <4>2
    <3> QED BY <3>1, <3>2
  <2>3. ASSUME NEW subs \in {entry.subs} \cup Range(sent),
               NEW i \in DOMAIN subs, NEW j \in DOMAIN subs, i # j
        PROVE  subs[i] # subs[j]
    <3>1. DOMAIN subs = 1..Len(subs) /\ Distinct(subs)
      BY <2>2
    <3> QED BY <2>3, <3>1 DEF Distinct
  <2> QED BY <2>1, <2>3, Zenon DEF SubscribersExact
<1> QED BY <1>1, TopicsInitial, TopicsStep, PTL DEF TopicsSpec

(* For any number of callers and attempts: an operation that gives up as   *)
(* contended was overtaken by as many successful changes as it has         *)
(* attempts.                                                               *)
THEOREM ContentionIsHonest == TopicsSpec => []ContentionHonest
<1>1. TopicsInv => ContentionHonest
  BY DEF TopicsInv, ContentionInv, MissedChanges, ContentionHonest
<1> QED BY <1>1, TopicsInitial, TopicsStep, PTL DEF TopicsSpec
=============================================================================
