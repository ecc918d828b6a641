------------------------- MODULE CoordinatorProofs -------------------------
(***************************************************************************)
(* Facts about the definitions of Coordinator that the proofs about every  *)
(* transaction kind use.                                                   *)
(***************************************************************************)
EXTENDS Coordinator, TLAPS

(* The record submit() inserts and the resting driver have their types.    *)
LEMMA NewTransactionType == NewTransaction \in Transaction /\ Idle \in DriverState
BY CoordinatorAssumption
   DEF NewTransaction, Transaction, Idle, DriverState, TransactionStatus,
       BranchStatus, Pc, Handler

(* Changing one field of a record of a transaction keeps its type.         *)
LEMMA TransactionUpdate ==
  ASSUME NEW t \in Transaction
  PROVE  /\ \A s \in TransactionStatus : [t EXCEPT !.status = s] \in Transaction
         /\ \A b \in Branch, s \in BranchStatus :
              [t EXCEPT !.bst[b] = s] \in Transaction
         /\ \A b \in Branch : [t EXCEPT !.att[b] = @ + 1] \in Transaction
         /\ [t EXCEPT !.rev = @ + 1] \in Transaction
<1>1. \A s \in TransactionStatus : [t EXCEPT !.status = s] \in Transaction
  BY DEF Transaction
<1>2. ASSUME NEW b \in Branch, NEW s \in BranchStatus
      PROVE  [t EXCEPT !.bst[b] = s] \in Transaction
  BY DEF Transaction
<1>3. ASSUME NEW b \in Branch
      PROVE  [t EXCEPT !.att[b] = @ + 1] \in Transaction
  <2> DEFINE n == t.att[b] + 1
  <2>1. n \in Nat
    BY DEF Transaction
  <2> HIDE DEF n
  <2>2. [t EXCEPT !.att[b] = n] \in Transaction
    BY <2>1 DEF Transaction
  <2> QED BY <2>2 DEF n
<1>4. [t EXCEPT !.rev = @ + 1] \in Transaction
  BY DEF Transaction
<1> QED BY <1>1, <1>2, <1>3, <1>4

(* The branch a driver is at exists while its position is in range.        *)
LEMMA CurrentType ==
  ASSUME NEW d \in Driver, drv[d] \in DriverState,
         drv[d].pos \in 1..Len(drv[d].tx.ids)
  PROVE  Current(d) \in Branch
<1> DEFINE n == Len(drv[d].tx.ids)
<1>1. drv[d].tx.ids \in Seq(Branch) /\ n \in Nat /\ drv[d].pos \in 1..n
  BY DEF DriverState, Transaction
<1>2. \A k, m \in Nat : k \in 1..m => m + 1 - k \in 1..m
  OBVIOUS
<1> DEFINE ids == drv[d].tx.ids
<1>3. \A i \in 1..n : ids[i] \in Branch
  BY <1>1
<1>4. Current(d) = ids[n + 1 - drv[d].pos] \/ Current(d) = ids[drv[d].pos]
  BY DEF Current
<1> HIDE DEF n, ids
<1>5. drv[d].pos \in Nat /\ n + 1 - drv[d].pos \in 1..n
  BY <1>1, <1>2
<1> QED BY <1>1, <1>3, <1>4, <1>5

(* Returning, moving and advancing a driver keep the drivers' types.       *)
LEMMA DriverUpdate ==
  ASSUME NEW d \in Driver, drv \in [Driver -> DriverState], NEW t \in Transaction
  PROVE  /\ Return(d) => drv' \in [Driver -> DriverState]
         /\ \A pc \in Pc : Goto(d, pc, t) => drv' \in [Driver -> DriverState]
         /\ Advance(d, t) => drv' \in [Driver -> DriverState]
<1>1. Return(d) => drv' \in [Driver -> DriverState]
  <2>1. Idle \in DriverState
    BY NewTransactionType DEF Idle, DriverState, Pc, Handler
  <2> QED BY <2>1 DEF Return
<1>2. ASSUME NEW pc \in Pc, Goto(d, pc, t)
      PROVE  drv' \in [Driver -> DriverState]
  BY <1>2 DEF Goto, DriverState
<1>3. Advance(d, t) => drv' \in [Driver -> DriverState]
  BY DEF Advance, DriverState, Pc
<1> QED BY <1>1, <1>2, <1>3

(* The revision a stored write leaves.                                     *)
LEMMA BumpedType ==
  ASSUME NEW t \in Transaction
  PROVE  /\ Bumped(t) \in Transaction
         /\ Bumped(t).ids = t.ids
         /\ Bumped(t).status = t.status
         /\ Cas => Bumped(t).rev = t.rev + 1
BY TransactionUpdate DEF Bumped, Transaction

LEMMA MembersAppend ==
  ASSUME NEW S, NEW s \in Seq(S), NEW b \in S
  PROVE  Members(s) \subseteq Members(Append(s, b))
<1> SUFFICES ASSUME NEW i \in 1..Len(s) PROVE s[i] \in Members(Append(s, b))
  BY DEF Members
<1>1. i \in 1..Len(Append(s, b)) /\ Append(s, b)[i] = s[i]
  OBVIOUS
<1> QED BY <1>1, Zenon DEF Members

(* Appending a registered branch keeps the type of the record.             *)
LEMMA RegisterType ==
  ASSUME tx \in Transaction, NEW b \in Branch, NEW st \in BranchStatus,
         RegisterBranch(b, st)
  PROVE  /\ tx' \in Transaction
         /\ tx'.ids = Append(tx.ids, b)
         /\ tx'.status = tx.status
         /\ Cas => tx'.rev = tx.rev + 1
<1> DEFINE ids2 == Append(tx.ids, b)
           new == [tx EXCEPT !.ids = ids2, !.bst[b] = st]
<1>1. ids2 \in Seq(Branch)
  BY DEF Transaction
<1>2. tx' = Bumped(new)
  BY DEF RegisterBranch
<1> HIDE DEF ids2
<1>3. /\ new \in Transaction /\ new.ids = ids2
      /\ new.status = tx.status /\ new.rev = tx.rev
  BY <1>1 DEF Transaction
<1> HIDE DEF new
<1> QED BY <1>2, <1>3, BumpedType DEF ids2

-----------------------------------------------------------------------------
(* What the steps of a driver do, with the driver's state as one record.   *)

At(pc, op, pos, t) == [pc |-> pc, op |-> op, pos |-> pos, tx |-> t]

(* Driver d alone moves, to state s.                                       *)
Puts(d, s) == s \in DriverState /\ drv' = [drv EXCEPT ![d] = s]

LEMMA PutsFacts ==
  ASSUME drv \in [Driver -> DriverState], NEW d \in Driver, NEW s, Puts(d, s)
  PROVE  /\ drv' \in [Driver -> DriverState]
         /\ drv'[d] = s
         /\ \A e \in Driver : e # d => drv'[e] = drv[e]
BY DEF Puts

(* A driver's state is determined by its fields.                           *)
LEMMA SameState ==
  ASSUME NEW r \in DriverState, NEW s \in DriverState,
         r.pc = s.pc, r.op = s.op, r.pos = s.pos, r.tx = s.tx
  PROVE  r = s
BY DEF DriverState

(* The ways a driver moves.                                                *)
LEMMA ReturnPuts ==
  ASSUME NEW d \in Driver, Return(d)
  PROVE  Puts(d, Idle)
BY NewTransactionType DEF Puts, Return

LEMMA ChoosePuts ==
  ASSUME NEW d \in Driver, NEW op \in Handler, Choose(d, op)
  PROVE  Puts(d, At("chosen", op, 1, NewTransaction))
<1> DEFINE s == [Idle EXCEPT !.pc = "chosen", !.op = op]
<1>1. s = At("chosen", op, 1, NewTransaction)
  <2>1. s \in DriverState /\ At("chosen", op, 1, NewTransaction) \in DriverState
    BY NewTransactionType DEF DriverState, Pc, At
  <2> QED BY <2>1, SameState DEF At, Idle
<1>2. s \in DriverState
  BY NewTransactionType DEF DriverState, Pc
<1>3. drv' = [drv EXCEPT ![d] = s]
  BY DEF Choose
<1> HIDE DEF s
<1> QED BY <1>1, <1>2, <1>3 DEF Puts

LEMMA BeginPuts ==
  ASSUME TypeOK, NEW d \in Driver, NEW op \in Handler, NEW pc \in Pc,
         NEW st \in TransactionStatus, Begin(d, op, pc, st)
  PROVE  /\ Puts(d, At(pc, op, 1, [tx EXCEPT !.status = st]))
         /\ [tx EXCEPT !.status = st] \in Transaction
         /\ [tx EXCEPT !.status = st].status = st
         /\ [tx EXCEPT !.status = st].ids = tx.ids
         /\ [tx EXCEPT !.status = st].bst = tx.bst
         /\ [tx EXCEPT !.status = st].rev = tx.rev
<1>1. tx \in Transaction
  BY DEF TypeOK
<1>2. [tx EXCEPT !.status = st] \in Transaction
  BY <1>1, TransactionUpdate
<1>3. Puts(d, At(pc, op, 1, [tx EXCEPT !.status = st]))
  BY <1>2 DEF Puts, Begin, At, DriverState
<1> QED BY <1>1, <1>2, <1>3 DEF Transaction

LEMMA GotoPuts ==
  ASSUME TypeOK, NEW d \in Driver, NEW pc \in Pc, NEW t \in Transaction,
         Goto(d, pc, t)
  PROVE  Puts(d, At(pc, drv[d].op, drv[d].pos, t))
<1>1. drv[d] \in DriverState /\ drv \in [Driver -> DriverState]
  BY DEF TypeOK
<1>2. At(pc, drv[d].op, drv[d].pos, t) \in DriverState
  BY <1>1 DEF At, DriverState
<1> DEFINE s == [drv[d] EXCEPT !.pc = pc, !.tx = t]
<1>3. s = At(pc, drv[d].op, drv[d].pos, t)
  <2>1. /\ s \in DriverState /\ s.pc = pc /\ s.op = drv[d].op
        /\ s.pos = drv[d].pos /\ s.tx = t
    BY <1>1 DEF DriverState
  <2> HIDE DEF s
  <2> QED BY <1>2, <2>1, SameState DEF At
<1>4. drv' = [drv EXCEPT ![d] = s]
  BY <1>1 DEF Goto
<1> HIDE DEF s
<1> QED BY <1>2, <1>3, <1>4 DEF Puts

LEMMA AdvancePuts ==
  ASSUME TypeOK, NEW d \in Driver, NEW t \in Transaction, Advance(d, t)
  PROVE  Puts(d, At("loop", drv[d].op, drv[d].pos + 1, t))
<1> DEFINE n == drv[d].pos + 1
<1>1. drv[d] \in DriverState /\ drv \in [Driver -> DriverState] /\ n \in Nat
  BY DEF TypeOK, DriverState
<1>2. drv' = [drv EXCEPT ![d].pc = "loop", ![d].pos = n, ![d].tx = t]
  BY DEF Advance
<1> HIDE DEF n
<1>3. At("loop", drv[d].op, n, t) \in DriverState
  BY <1>1 DEF At, DriverState, Pc
<1> DEFINE s == [drv[d] EXCEPT !.pc = "loop", !.pos = n, !.tx = t]
<1>4. s = At("loop", drv[d].op, n, t)
  <2>1. /\ s \in DriverState /\ s.pc = "loop" /\ s.op = drv[d].op
        /\ s.pos = n /\ s.tx = t
    BY <1>1 DEF DriverState, Pc
  <2> HIDE DEF s
  <2> QED BY <1>3, <2>1, SameState DEF At
<1>5. drv' = [drv EXCEPT ![d] = s]
  BY <1>1, <1>2
<1> HIDE DEF s
<1> QED BY <1>3, <1>4, <1>5 DEF n, Puts

(* The copy with a branch marked, and with an attempt counted.             *)
LEMMA Marked ==
  ASSUME NEW d \in Driver, drv[d].tx \in Transaction, Current(d) \in Branch,
         NEW st \in BranchStatus
  PROVE  /\ Mark(d, st) \in Transaction
         /\ Mark(d, st).status = drv[d].tx.status
         /\ Mark(d, st).ids = drv[d].tx.ids
         /\ Mark(d, st).rev = drv[d].tx.rev
         /\ Mark(d, st).bst = [drv[d].tx.bst EXCEPT ![Current(d)] = st]
BY TransactionUpdate DEF Mark, Transaction

LEMMA Counted ==
  ASSUME NEW t \in Transaction, NEW b \in Branch
  PROVE  LET u == [t EXCEPT !.att[b] = @ + 1]
         IN  /\ u \in Transaction
             /\ u.status = t.status /\ u.ids = t.ids
             /\ u.rev = t.rev /\ u.bst = t.bst
BY TransactionUpdate DEF Transaction

LEMMA Restated ==
  ASSUME NEW t \in Transaction, NEW st \in TransactionStatus
  PROVE  LET u == [t EXCEPT !.status = st]
         IN  /\ u \in Transaction
             /\ u.status = st /\ u.ids = t.ids
             /\ u.rev = t.rev /\ u.bst = t.bst
BY TransactionUpdate DEF Transaction

LEMMA Stored ==
  ASSUME NEW t \in Transaction
  PROVE  /\ Bumped(t) \in Transaction
         /\ Bumped(t).status = t.status /\ Bumped(t).ids = t.ids
         /\ Bumped(t).bst = t.bst
         /\ Cas => Bumped(t).rev = t.rev + 1
BY TransactionUpdate DEF Bumped, Transaction

-----------------------------------------------------------------------------
(* Ownership of keys, for every transaction kind.                          *)

(* A driver's key is a function of its state.                              *)
KeyOf(s) ==
  << IF s.op \in Backwards THEN s.tx.ids[Len(s.tx.ids) + 1 - s.pos]
                           ELSE s.tx.ids[s.pos],
     BarrierOp(s.op) >>

LEMMA OneMoved ==
  ASSUME drv \in [Driver -> DriverState], NEW d \in Driver, NEW s, Puts(d, s)
  PROVE  /\ DriverKey(d)' = KeyOf(s)
         /\ InFlight(d)' <=> s.pc \in {"invoke", "release"}
         /\ \A e \in Driver : e # d => /\ InFlight(e)' <=> InFlight(e)
                                       /\ DriverKey(e)' = DriverKey(e)
                                       /\ drv'[e] = drv[e]
<1>1. drv'[d] = s /\ \A e \in Driver : e # d => drv'[e] = drv[e]
  BY PutsFacts
<1> QED
  BY <1>1 DEF DriverKey, KeyOf, Current, InFlight

LEMMA KeyKept ==
  ASSUME NEW d \in Driver, NEW pc, NEW t, t.ids = drv[d].tx.ids
  PROVE  KeyOf(At(pc, drv[d].op, drv[d].pos, t)) = DriverKey(d)
BY DEF KeyOf, At, DriverKey, Current

(* The key of a driver in flight is a key of the barrier table.            *)
LEMMA KeyType ==
  ASSUME TypeOK, PositionInv, NEW d \in Driver, MoreBranches(d)
  PROVE  /\ Current(d) \in Branch
         /\ BarrierOp(drv[d].op) \in BarrierOps => DriverKey(d) \in Key
<1>1. drv[d] \in DriverState /\ drv[d].pos \in 1..Len(drv[d].tx.ids)
  BY DEF TypeOK, PositionInv, DriverState, Transaction, MoreBranches
<1> QED BY <1>1, CurrentType DEF DriverKey, Key

(* A driver moves to a state in which it holds no key: it held none, its   *)
(* call was accepted, its key was released, or it was abandoned.           *)
LEMMA KeysMove ==
  ASSUME TypeOK, PositionInv, KeysInv, NEW d \in Driver, NEW s, Puts(d, s),
         s.pc \notin {"invoke", "release"}, s.pos >= 1,
         \/ barriers \subseteq barriers' /\ acked' = acked
         \/ /\ InFlight(d) /\ barriers' = barriers
            /\ acked' = acked \cup {DriverKey(d)}
         \/ /\ InFlight(d) /\ barriers' = barriers \ {DriverKey(d)}
            /\ acked' = acked
  PROVE  PositionInv' /\ KeysInv'
<1> USE DEF TypeOK
<1>1. PositionInv'
  BY PutsFacts DEF PositionInv, InFlight, MoreBranches
<1>2. KeysInv'
  <2>1. ~InFlight(d)'
    BY OneMoved
  <2>2. \A e \in Driver : InFlight(e)' =>
          e # d /\ InFlight(e) /\ DriverKey(e)' = DriverKey(e)
    BY <2>1, OneMoved
  <2> QED BY <2>2 DEF KeysInv
<1> QED BY <1>1, <1>2

(* A driver takes a free key.                                              *)
LEMMA KeysClaim ==
  ASSUME TypeOK, PositionInv, KeysInv, NEW d \in Driver, NEW t,
         Puts(d, At("invoke", drv[d].op, drv[d].pos, t)),
         t.ids = drv[d].tx.ids, MoreBranches(d),
         BarrierOp(drv[d].op) \in BarrierOps, DriverKey(d) \notin barriers,
         barriers' = barriers \cup {DriverKey(d)}, acked' = acked
  PROVE  PositionInv' /\ KeysInv' /\ InFlight(d)' /\ DriverKey(d)' = DriverKey(d)
<1> USE DEF TypeOK
<1>1. PositionInv'
  BY PutsFacts DEF PositionInv, InFlight, MoreBranches, At
<1>2. InFlight(d)' /\ DriverKey(d)' = DriverKey(d)
  BY OneMoved, KeyKept DEF At
<1>3. \A e \in Driver : e # d /\ InFlight(e)' =>
        InFlight(e) /\ DriverKey(e)' = DriverKey(e)
  BY OneMoved
<1> QED BY <1>1, <1>2, <1>3 DEF KeysInv

(* A driver whose call failed is about to release its key.                 *)
LEMMA KeysStay ==
  ASSUME TypeOK, PositionInv, KeysInv, NEW d \in Driver, NEW t,
         Puts(d, At("release", drv[d].op, drv[d].pos, t)),
         t.ids = drv[d].tx.ids, InFlight(d),
         barriers' = barriers, acked' = acked
  PROVE  PositionInv' /\ KeysInv' /\ InFlight(d)' /\ DriverKey(d)' = DriverKey(d)
<1> USE DEF TypeOK
<1>1. PositionInv'
  BY PutsFacts DEF PositionInv, InFlight, MoreBranches, At
<1>2. InFlight(d)' /\ DriverKey(d)' = DriverKey(d)
  BY OneMoved, KeyKept DEF At
<1>3. \A e \in Driver : e # d /\ InFlight(e)' =>
        InFlight(e) /\ DriverKey(e)' = DriverKey(e)
  BY OneMoved
<1> QED BY <1>1, <1>2, <1>3 DEF KeysInv

(* No driver moves.                                                        *)
LEMMA KeysIdle ==
  ASSUME PositionInv, KeysInv, UNCHANGED <<drv, barriers, acked>>
  PROVE  PositionInv' /\ KeysInv'
BY DEF PositionInv, KeysInv, InFlight, MoreBranches, DriverKey, Current

(* A bounded event.                                                        *)
LEMMA BudgetSpent ==
  ASSUME budget \in [{"request", "call", "failure", "crash"} -> Nat], BudgetInv,
         Spend("request") \/ Spend("call") \/ Spend("failure") \/ Spend("crash")
  PROVE  /\ budget' \in [{"request", "call", "failure", "crash"} -> Nat]
         /\ BudgetInv'
         /\ WorkersOnly' => WorkersOnly
         /\ Undisturbed' => Undisturbed
         /\ Spend("call") => ~WorkersOnly'
         /\ Spend("crash") => ~WorkersOnly'
         /\ Spend("request") => ~Undisturbed'
         /\ Spend("failure") => (WorkersOnly' <=> WorkersOnly)
<1> USE CoordinatorAssumption
<1> DEFINE Event == {"request", "call", "failure", "crash"}
<1>1. PICK e \in Event : Spend(e)
  OBVIOUS
<1>2. /\ budget' \in [Event -> Nat]
      /\ \A x \in Event : budget'[x] = IF x = e THEN budget[x] - 1 ELSE budget[x]
  BY <1>1 DEF Spend
<1>3. \A x \in Event : Spend(x) => x = e
  <2> SUFFICES ASSUME NEW x \in Event, Spend(x), x # e PROVE FALSE
    OBVIOUS
  <2>1. budget'[x] = budget[x] - 1 /\ budget[x] \in Nat
    BY DEF Spend
  <2> QED BY <1>2, <2>1
<1>4. BudgetInv'
  BY <1>2 DEF BudgetInv
<1>5. WorkersOnly' => WorkersOnly /\ e # "call" /\ e # "crash"
  BY <1>2 DEF BudgetInv, WorkersOnly
<1>6. Undisturbed' => Undisturbed /\ e # "request"
  BY <1>2, <1>5 DEF BudgetInv, Undisturbed
<1>7. e = "failure" => (WorkersOnly' <=> WorkersOnly)
  BY <1>2 DEF WorkersOnly
<1> HIDE DEF Event
<1>8. {"request", "call", "failure", "crash"} = Event
  BY DEF Event
<1> QED BY <1>2, <1>3, <1>4, <1>5, <1>6, <1>7, <1>8

LEMMA Spent ==
  ASSUME TypeOK, BudgetInv, Spend("request") \/ Spend("call")
                            \/ Spend("failure") \/ Spend("crash")
  PROVE  /\ budget' \in [{"request", "call", "failure", "crash"} -> Nat]
         /\ BudgetInv'
         /\ WorkersOnly' => WorkersOnly
         /\ Undisturbed' => Undisturbed
         /\ Spend("call") => ~WorkersOnly'
         /\ Spend("crash") => ~WorkersOnly'
         /\ Spend("request") => ~Undisturbed'
         /\ Spend("failure") => (WorkersOnly' <=> WorkersOnly)
BY BudgetSpent DEF TypeOK

-----------------------------------------------------------------------------
(* The shapes of a driver's step.  The proofs about a transaction kind     *)
(* first bring its actions into these shapes and then reason about them.   *)

(* t is the driver's copy but for statuses and attempts.                   *)
OwnCopyOf(d, t) ==
  t \in Transaction /\ t.ids = drv[d].tx.ids /\ t.rev = drv[d].tx.rev

(* The driver is told to run handler op.                                   *)
Chooses(d, op) ==
  /\ ~InFlight(d)
  /\ Puts(d, At("chosen", op, 1, NewTransaction))
  /\ UNCHANGED <<tx, barriers, expired, acked, effects>>

(* Handler op has read the record; t is its copy.                          *)
Takes(d, op, pc, t) ==
  /\ ~InFlight(d)
  /\ t \in Transaction /\ t.ids = tx.ids /\ t.bst = tx.bst /\ t.rev = tx.rev
  /\ Puts(d, At(pc, op, 1, t))
  /\ UNCHANGED <<tx, barriers, expired, acked, effects>>

(* The handler returns.                                                    *)
Ends(d) ==
  /\ ~InFlight(d)
  /\ Puts(d, Idle)
  /\ UNCHANGED <<tx, barriers, expired, budget, acked, effects>>

(* The handler goes on without a call.                                     *)
Moves(d, pc, pos, t) ==
  /\ ~InFlight(d)
  /\ OwnCopyOf(d, t)
  /\ Puts(d, At(pc, drv[d].op, pos, t))
  /\ UNCHANGED <<tx, barriers, expired, budget, acked, effects>>

(* The handler takes a free barrier.                                       *)
Claims(d, t) ==
  /\ drv[d].pc = "loop" /\ MoreBranches(d)
  /\ BarrierOp(drv[d].op) \in BarrierOps
  /\ DriverKey(d) \notin barriers
  /\ barriers' = barriers \cup {DriverKey(d)}
  /\ OwnCopyOf(d, t)
  /\ Puts(d, At("invoke", drv[d].op, drv[d].pos, t))
  /\ UNCHANGED <<tx, expired, budget, acked, effects>>

(* The handler takes a free barrier for the branch it had picked before.   *)
Runs(d, t) ==
  /\ drv[d].pc = "mark" /\ MoreBranches(d)
  /\ BarrierOp(drv[d].op) \in BarrierOps
  /\ DriverKey(d) \notin barriers
  /\ barriers' = barriers \cup {DriverKey(d)}
  /\ OwnCopyOf(d, t)
  /\ Puts(d, At("invoke", drv[d].op, drv[d].pos, t))
  /\ UNCHANGED <<tx, expired, budget, acked, effects>>

(* The call was accepted.                                                  *)
Accepted(d, pc, pos, t) ==
  /\ drv[d].pc = "invoke"
  /\ acked' = acked \cup {DriverKey(d)}
  /\ effects' = effects \cup {DriverKey(d)}
  /\ OwnCopyOf(d, t)
  /\ Puts(d, At(pc, drv[d].op, pos, t))
  /\ UNCHANGED <<tx, barriers, expired, budget>>

(* The call failed.                                                        *)
Rejected(d, pc, t) ==
  /\ drv[d].pc = "invoke"
  /\ Spend("failure")
  /\ effects' \in {effects, effects \cup {DriverKey(d)}}
  /\ OwnCopyOf(d, t)
  /\ Puts(d, At(pc, drv[d].op, drv[d].pos, t))
  /\ UNCHANGED <<tx, barriers, expired, acked>>

(* The barrier is released.                                                *)
Releases(d, t) ==
  /\ drv[d].pc = "release"
  /\ barriers' = barriers \ {DriverKey(d)}
  /\ OwnCopyOf(d, t)
  /\ Puts(d, At("persist", drv[d].op, drv[d].pos, t))
  /\ UNCHANGED <<tx, expired, budget, acked, effects>>

(* The barrier is released and the handler will hand over.                 *)
Yields(d, t) ==
  /\ drv[d].pc = "release"
  /\ barriers' = barriers \ {DriverKey(d)}
  /\ OwnCopyOf(d, t)
  /\ Puts(d, At("handover", drv[d].op, drv[d].pos, t))
  /\ UNCHANGED <<tx, expired, budget, acked, effects>>

(* The handler writes t and returns.                                       *)
Writes(d, t) ==
  /\ drv[d].pc \in {"loop", "persist"}
  /\ OwnCopyOf(d, t)
  /\ tx' = IF CanStore(t) THEN Bumped(t) ELSE tx
  /\ Puts(d, Idle)
  /\ UNCHANGED <<barriers, expired, budget, acked, effects>>

(* The handler writes t in between and goes on in its loop, or ends.       *)
StoresOn(d, t, pos) ==
  /\ drv[d].pc \in {"mark", "save"}
  /\ OwnCopyOf(d, t)
  /\ \/ /\ CanStore(t) /\ tx' = Bumped(t)
        /\ Puts(d, At("loop", drv[d].op, pos, Bumped(t)))
     \/ ~CanStore(t) /\ tx' = tx /\ Puts(d, Idle)
  /\ UNCHANGED <<barriers, expired, budget, acked, effects>>

(* The handler writes t and is followed by handler op, or ends.            *)
HandsOver(d, t, op) ==
  /\ drv[d].pc = "handover"
  /\ OwnCopyOf(d, t)
  /\ \/ /\ CanStore(t) /\ tx' = Bumped(t)
        /\ Puts(d, At("chosen", op, 1, NewTransaction))
     \/ ~CanStore(t) /\ tx' = tx /\ Puts(d, Idle)
  /\ UNCHANGED <<barriers, expired, budget, acked, effects>>

(* The handler skips a branch and leaves its key behind.                   *)
Nullifies(d, t) ==
  /\ drv[d].pc = "loop" /\ MoreBranches(d)
  /\ BarrierOp(drv[d].op) \in BarrierOps
  /\ DriverKey(d) \notin barriers
  /\ barriers' = barriers \cup {DriverKey(d)}
  /\ OwnCopyOf(d, t)
  /\ Puts(d, At("loop", drv[d].op, drv[d].pos + 1, t))
  /\ UNCHANGED <<tx, expired, budget, acked, effects>>

(* The handler is abandoned.                                               *)
Abandons(d) ==
  /\ Spend("crash")
  /\ \/ effects' = effects
     \/ drv[d].pc = "invoke" /\ effects' = effects \cup {DriverKey(d)}
  /\ Puts(d, Idle)
  /\ UNCHANGED <<tx, barriers, expired, acked>>

(* A step in one of the shapes.                                            *)
Quiet(pc, pos) == pc \notin {"invoke", "release"} /\ pos >= 1

Shaped(d) ==
  \/ \E op : Chooses(d, op) /\ (budget' = budget \/ Spend("call"))
  \/ \E op, pc, t :
       /\ Takes(d, op, pc, t) /\ Quiet(pc, 1)
       /\ budget' = budget \/ Spend("call") \/ Spend("request")
  \/ Ends(d)
  \/ \E pc, pos, t : Moves(d, pc, pos, t) /\ Quiet(pc, pos)
  \/ \E t : Claims(d, t) \/ Runs(d, t)
  \/ \E t : Nullifies(d, t)
  \/ \E pc, pos, t : Accepted(d, pc, pos, t) /\ Quiet(pc, pos)
  \/ \E pc, t : Rejected(d, pc, t) /\ pc # "invoke"
  \/ \E t : Releases(d, t) \/ Yields(d, t)
  \/ \E t : Writes(d, t)
  \/ \E t, pos : StoresOn(d, t, pos) /\ pos >= 1
  \/ \E t, op : HandsOver(d, t, op)
  \/ Abandons(d)

(* What every step of a driver has in common.                              *)
LEMMA ShapedFacts ==
  ASSUME CoreInv, NEW d \in Driver, Shaped(d)
  PROVE  /\ \E s : Puts(d, s)
         /\ \A e \in Driver : e # d => drv'[e] = drv[e]
         /\ acked \subseteq acked'
         /\ expired' = expired
         /\ effects \subseteq effects'
         /\ \/ effects' = effects
            \/ drv[d].pc = "invoke" /\ effects' = effects \cup {DriverKey(d)}
         /\ \/ budget' = budget \/ Spend("request") \/ Spend("call")
            \/ Spend("failure") \/ Spend("crash")
<1>t. drv \in [Driver -> DriverState]
  BY DEF CoreInv, TypeOK
<1>1. \E s : Puts(d, s)
  BY DEF Shaped, Chooses, Takes, Ends, Moves, Claims, Nullifies, Accepted,
         Rejected, Releases, Writes, StoresOn, HandsOver, Abandons, Runs,
         Yields
<1>2. \A e \in Driver : e # d => drv'[e] = drv[e]
  BY <1>t, <1>1, PutsFacts
<1>3. acked \subseteq acked' /\ expired' = expired
  BY DEF Shaped, Chooses, Takes, Ends, Moves, Claims, Nullifies, Accepted,
         Rejected, Releases, Writes, StoresOn, HandsOver, Abandons, Runs,
         Yields
<1>4. \/ effects' = effects
      \/ drv[d].pc = "invoke" /\ effects' = effects \cup {DriverKey(d)}
  BY DEF Shaped, Chooses, Takes, Ends, Moves, Claims, Nullifies, Accepted,
         Rejected, Releases, Writes, StoresOn, HandsOver, Abandons, Runs,
         Yields
<1>5. \/ budget' = budget \/ Spend("request") \/ Spend("call")
      \/ Spend("failure") \/ Spend("crash")
  BY DEF Shaped, Chooses, Takes, Ends, Moves, Claims, Nullifies, Accepted,
         Rejected, Releases, Writes, StoresOn, HandsOver, Abandons, Runs,
         Yields
<1> QED BY <1>1, <1>2, <1>3, <1>4, <1>5

(* Only workers have called branches if it is so after the step.           *)
LEMMA WorkersOnlyBefore ==
  ASSUME CoreInv, WorkersOnly',
         \/ budget' = budget \/ Spend("request") \/ Spend("call")
         \/ Spend("failure") \/ Spend("crash")
  PROVE  WorkersOnly /\ ~Spend("call") /\ ~Spend("crash")
<1>1. CASE budget' = budget
  <2>1. ~Spend("call") /\ ~Spend("crash")
    BY <1>1 DEF Spend, CoreInv, TypeOK
  <2> QED BY <1>1, <2>1 DEF WorkersOnly
<1> QED BY <1>1, Spent DEF CoreInv

(* The copy's status of the branch the driver is at, and the copy with     *)
(* another one.                                                            *)
Status(d) == drv[d].tx.bst[Current(d)]

Marks(d, t, st) ==
  /\ t.status = drv[d].tx.status
  /\ t.bst = [drv[d].tx.bst EXCEPT ![Current(d)] = st]

(* The copy of a driver.                                                   *)
LEMMA CopiesTyped ==
  ASSUME CoreInv, NEW d \in Driver
  PROVE  /\ drv \in [Driver -> DriverState]
         /\ drv[d] \in DriverState /\ drv[d].tx \in Transaction
         /\ OwnCopyOf(d, drv[d].tx)
         /\ MoreBranches(d) => Current(d) \in Branch
         /\ InFlight(d) => MoreBranches(d)
BY KeyType DEF CoreInv, TypeOK, DriverState, OwnCopyOf, PositionInv

(* A write in between.                                                     *)
LEMMA StoresPuts ==
  ASSUME CoreInv, NEW d \in Driver, NEW pos \in Nat,
         PersistAndGo(d, drv[d].tx, "loop", pos), drv[d].pc \in {"mark", "save"},
         UNCHANGED <<barriers, expired, budget, acked, effects>>
  PROVE  StoresOn(d, drv[d].tx, pos)
<1>1. drv[d] \in DriverState /\ drv[d].tx \in Transaction
      /\ drv \in [Driver -> DriverState] /\ OwnCopyOf(d, drv[d].tx)
  BY CopiesTyped
<1> DEFINE t == Bumped(drv[d].tx)
           s == [drv[d] EXCEPT !.pc = "loop", !.pos = pos, !.tx = t]
<1>2. t \in Transaction
  BY <1>1, Stored
<1>3. CASE CanStore(drv[d].tx)
  <2>1. tx' = t /\ drv' = [drv EXCEPT ![d].pc = "loop", ![d].pos = pos, ![d].tx = t]
    BY <1>3 DEF PersistAndGo
  <2> HIDE DEF t
  <2>2. drv' = [drv EXCEPT ![d] = s]
    BY <1>1, <2>1
  <2>3. At("loop", drv[d].op, pos, t) \in DriverState
    BY <1>1, <1>2 DEF At, DriverState, Pc
  <2>4. s = At("loop", drv[d].op, pos, t)
    <3>1. /\ s \in DriverState /\ s.pc = "loop" /\ s.op = drv[d].op
          /\ s.pos = pos /\ s.tx = t
      BY <1>1, <1>2 DEF DriverState, Pc
    <3> HIDE DEF s
    <3> QED BY <2>3, <3>1, SameState DEF At
  <2> HIDE DEF s
  <2>5. Puts(d, At("loop", drv[d].op, pos, t))
    BY <2>2, <2>3, <2>4 DEF Puts
  <2> QED BY <1>1, <1>3, <2>1, <2>5 DEF StoresOn, t
<1>4. CASE ~CanStore(drv[d].tx)
  <2>1. tx' = tx /\ Puts(d, Idle)
    BY <1>4, ReturnPuts DEF PersistAndGo
  <2> QED BY <1>1, <1>4, <2>1 DEF StoresOn
<1> QED BY <1>3, <1>4

LEMMA MarksFacts ==
  ASSUME CoreInv, NEW d \in Driver, NEW t, NEW st, Marks(d, t, st),
         Current(d) \in Branch
  PROVE  /\ t.bst[Current(d)] = st /\ t.status = drv[d].tx.status
         /\ \A b \in Branch : b # Current(d) => t.bst[b] = drv[d].tx.bst[b]
BY DEF CoreInv, TypeOK, DriverState, Transaction, Marks

(* Every shape keeps the types and the ownership of keys.                  *)
LEMMA CoreChooses ==
  ASSUME CoreInv, NEW d \in Driver, NEW op, Chooses(d, op),
         budget' = budget \/ Spend("call")
  PROVE  CoreInv'
<1>1. drv' \in [Driver -> DriverState]
  BY PutsFacts DEF CoreInv, TypeOK, Chooses
<1>2. budget' \in [{"request", "call", "failure", "crash"} -> Nat] /\ BudgetInv'
  BY Spent DEF CoreInv, TypeOK, BudgetInv
<1>3. PositionInv' /\ KeysInv'
  BY KeysMove DEF CoreInv, Chooses, At
<1> QED BY <1>1, <1>2, <1>3 DEF CoreInv, TypeOK, Chooses

LEMMA CoreTakes ==
  ASSUME CoreInv, NEW d \in Driver, NEW op, NEW pc, NEW t, Takes(d, op, pc, t),
         pc \notin {"invoke", "release"},
         budget' = budget \/ Spend("call") \/ Spend("request")
  PROVE  CoreInv'
<1>1. drv' \in [Driver -> DriverState]
  BY PutsFacts DEF CoreInv, TypeOK, Takes
<1>2. budget' \in [{"request", "call", "failure", "crash"} -> Nat] /\ BudgetInv'
  BY Spent DEF CoreInv, TypeOK, BudgetInv
<1>3. PositionInv' /\ KeysInv'
  BY KeysMove DEF CoreInv, Takes, At
<1> QED BY <1>1, <1>2, <1>3 DEF CoreInv, TypeOK, Takes

LEMMA CoreEnds ==
  ASSUME CoreInv, NEW d \in Driver, Ends(d)
  PROVE  CoreInv'
<1>1. drv' \in [Driver -> DriverState]
  BY PutsFacts DEF CoreInv, TypeOK, Ends
<1>2. PositionInv' /\ KeysInv'
  BY KeysMove DEF CoreInv, Ends, Idle
<1> QED BY <1>1, <1>2 DEF CoreInv, TypeOK, Ends, BudgetInv

LEMMA CoreMoves ==
  ASSUME CoreInv, NEW d \in Driver, NEW pc, NEW pos, NEW t,
         Moves(d, pc, pos, t), pc \notin {"invoke", "release"}, pos >= 1
  PROVE  CoreInv'
<1>1. drv' \in [Driver -> DriverState]
  BY PutsFacts DEF CoreInv, TypeOK, Moves
<1>2. PositionInv' /\ KeysInv'
  BY KeysMove DEF CoreInv, Moves, At
<1> QED BY <1>1, <1>2 DEF CoreInv, TypeOK, Moves, BudgetInv

LEMMA CoreClaims ==
  ASSUME CoreInv, NEW d \in Driver, NEW t, Claims(d, t)
  PROVE  CoreInv' /\ InFlight(d)' /\ DriverKey(d)' = DriverKey(d)
<1>1. drv' \in [Driver -> DriverState]
  BY PutsFacts DEF CoreInv, TypeOK, Claims
<1>2. /\ PositionInv' /\ KeysInv'
      /\ InFlight(d)' /\ DriverKey(d)' = DriverKey(d)
  BY KeysClaim DEF CoreInv, Claims, OwnCopyOf
<1>3. DriverKey(d) \in Key
  BY KeyType DEF CoreInv, Claims
<1> QED BY <1>1, <1>2, <1>3 DEF CoreInv, TypeOK, Claims, BudgetInv

LEMMA CoreRuns ==
  ASSUME CoreInv, NEW d \in Driver, NEW t, Runs(d, t)
  PROVE  CoreInv' /\ InFlight(d)' /\ DriverKey(d)' = DriverKey(d)
<1>1. drv' \in [Driver -> DriverState]
  BY PutsFacts DEF CoreInv, TypeOK, Runs
<1>2. /\ PositionInv' /\ KeysInv'
      /\ InFlight(d)' /\ DriverKey(d)' = DriverKey(d)
  BY KeysClaim DEF CoreInv, Runs, OwnCopyOf
<1>3. DriverKey(d) \in Key
  BY KeyType DEF CoreInv, Runs
<1> QED BY <1>1, <1>2, <1>3 DEF CoreInv, TypeOK, Runs, BudgetInv

LEMMA CoreAccepted ==
  ASSUME CoreInv, NEW d \in Driver, NEW pc, NEW pos, NEW t,
         Accepted(d, pc, pos, t), pc \notin {"invoke", "release"}, pos >= 1
  PROVE  CoreInv'
<1>1. drv' \in [Driver -> DriverState]
  BY PutsFacts DEF CoreInv, TypeOK, Accepted
<1>2. InFlight(d)
  BY DEF Accepted, InFlight
<1>3. PositionInv' /\ KeysInv'
  BY <1>2, KeysMove DEF CoreInv, Accepted, At
<1>4. DriverKey(d) \in Key
  BY <1>2, KeyType DEF CoreInv, PositionInv
<1> QED BY <1>1, <1>3, <1>4 DEF CoreInv, TypeOK, Accepted, BudgetInv

LEMMA CoreRejected ==
  ASSUME CoreInv, NEW d \in Driver, NEW pc, NEW t, Rejected(d, pc, t),
         pc # "invoke"
  PROVE  CoreInv'
<1>1. drv' \in [Driver -> DriverState] /\ drv[d].pos >= 1
  BY PutsFacts DEF CoreInv, TypeOK, Rejected, PositionInv
<1>2. InFlight(d)
  BY DEF Rejected, InFlight
<1>3. PositionInv' /\ KeysInv'
  <2>1. CASE pc = "release"
    BY <1>2, <2>1, KeysStay DEF CoreInv, Rejected, OwnCopyOf
  <2>2. CASE pc # "release"
    <3>1. /\ At(pc, drv[d].op, drv[d].pos, t).pc \notin {"invoke", "release"}
          /\ At(pc, drv[d].op, drv[d].pos, t).pos >= 1
      BY <1>1, <2>2 DEF At
    <3> QED BY <1>2, <3>1, KeysMove DEF CoreInv, Rejected
  <2> QED BY <2>1, <2>2
<1>4. DriverKey(d) \in Key
  BY <1>2, KeyType DEF CoreInv, PositionInv
<1>5. budget' \in [{"request", "call", "failure", "crash"} -> Nat] /\ BudgetInv'
  BY Spent DEF CoreInv, Rejected
<1> QED BY <1>1, <1>3, <1>4, <1>5 DEF CoreInv, TypeOK, Rejected

LEMMA CoreReleases ==
  ASSUME CoreInv, NEW d \in Driver, NEW t, Releases(d, t)
  PROVE  CoreInv'
<1>1. drv' \in [Driver -> DriverState] /\ drv[d].pos >= 1
  BY PutsFacts DEF CoreInv, TypeOK, Releases, PositionInv
<1>2. InFlight(d)
  BY DEF Releases, InFlight
<1>3. PositionInv' /\ KeysInv'
  BY <1>1, <1>2, KeysMove DEF CoreInv, Releases, At
<1> QED BY <1>1, <1>3 DEF CoreInv, TypeOK, Releases, BudgetInv

LEMMA CoreYields ==
  ASSUME CoreInv, NEW d \in Driver, NEW t, Yields(d, t)
  PROVE  CoreInv'
<1>1. drv' \in [Driver -> DriverState] /\ drv[d].pos >= 1
  BY PutsFacts DEF CoreInv, TypeOK, Yields, PositionInv
<1>2. InFlight(d)
  BY DEF Yields, InFlight
<1>3. PositionInv' /\ KeysInv'
  BY <1>1, <1>2, KeysMove DEF CoreInv, Yields, At
<1> QED BY <1>1, <1>3 DEF CoreInv, TypeOK, Yields, BudgetInv

LEMMA CoreWrites ==
  ASSUME CoreInv, NEW d \in Driver, NEW t, Writes(d, t)
  PROVE  CoreInv'
<1>1. drv' \in [Driver -> DriverState]
  BY PutsFacts DEF CoreInv, TypeOK, Writes
<1>2. PositionInv' /\ KeysInv'
  BY KeysMove DEF CoreInv, Writes, Idle
<1>3. tx' \in Transaction
  BY Stored DEF CoreInv, TypeOK, Writes, OwnCopyOf
<1> QED BY <1>1, <1>2, <1>3 DEF CoreInv, TypeOK, Writes, BudgetInv

LEMMA CoreStoresOn ==
  ASSUME CoreInv, NEW d \in Driver, NEW t, NEW pos, StoresOn(d, t, pos),
         pos >= 1
  PROVE  CoreInv'
<1>1. drv' \in [Driver -> DriverState]
  BY PutsFacts DEF CoreInv, TypeOK, StoresOn
<1>2. PositionInv' /\ KeysInv'
  BY KeysMove DEF CoreInv, StoresOn, Idle, At
<1>3. tx' \in Transaction
  BY Stored DEF CoreInv, TypeOK, StoresOn, OwnCopyOf
<1> QED BY <1>1, <1>2, <1>3 DEF CoreInv, TypeOK, StoresOn, BudgetInv

LEMMA CoreHandsOver ==
  ASSUME CoreInv, NEW d \in Driver, NEW t, NEW op, HandsOver(d, t, op)
  PROVE  CoreInv'
<1>1. drv' \in [Driver -> DriverState]
  BY PutsFacts DEF CoreInv, TypeOK, HandsOver
<1>2. PositionInv' /\ KeysInv'
  BY KeysMove DEF CoreInv, HandsOver, Idle, At
<1>3. tx' \in Transaction
  BY Stored DEF CoreInv, TypeOK, HandsOver, OwnCopyOf
<1> QED BY <1>1, <1>2, <1>3 DEF CoreInv, TypeOK, HandsOver, BudgetInv

LEMMA CoreNullifies ==
  ASSUME CoreInv, NEW d \in Driver, NEW t, Nullifies(d, t)
  PROVE  CoreInv'
<1>1. drv' \in [Driver -> DriverState] /\ drv[d].pos + 1 >= 1
  BY PutsFacts DEF CoreInv, TypeOK, Nullifies, DriverState
<1>2. PositionInv' /\ KeysInv'
  BY <1>1, KeysMove DEF CoreInv, Nullifies, At
<1>3. DriverKey(d) \in Key
  BY KeyType DEF CoreInv, Nullifies
<1> QED BY <1>1, <1>2, <1>3 DEF CoreInv, TypeOK, Nullifies, BudgetInv

LEMMA CoreAbandons ==
  ASSUME CoreInv, NEW d \in Driver, Abandons(d)
  PROVE  CoreInv'
<1>1. drv' \in [Driver -> DriverState]
  BY PutsFacts DEF CoreInv, TypeOK, Abandons
<1>2. PositionInv' /\ KeysInv'
  BY KeysMove DEF CoreInv, Abandons, Idle
<1>3. drv[d].pc = "invoke" => DriverKey(d) \in Key
  BY KeyType DEF CoreInv, PositionInv, InFlight
<1>4. budget' \in [{"request", "call", "failure", "crash"} -> Nat] /\ BudgetInv'
  BY Spent DEF CoreInv, Abandons
<1> QED BY <1>1, <1>2, <1>3, <1>4 DEF CoreInv, TypeOK, Abandons

LEMMA CoreShaped ==
  ASSUME CoreInv, NEW d \in Driver, Shaped(d)
  PROVE  CoreInv'
BY CoreChooses, CoreTakes, CoreEnds, CoreMoves, CoreClaims, CoreNullifies,
   CoreAccepted, CoreRejected, CoreReleases, CoreWrites, CoreStoresOn,
   CoreHandsOver, CoreAbandons, CoreRuns, CoreYields DEF Shaped, Quiet

(* The steps that move no driver.                                          *)
LEMMA CoreRegister ==
  ASSUME CoreInv, NEW b \in Branch, NEW st \in BranchStatus,
         RegisterBranch(b, st)
  PROVE  CoreInv'
<1>1. tx' \in Transaction
  BY RegisterType DEF CoreInv, TypeOK
<1>2. PositionInv' /\ KeysInv'
  BY KeysIdle DEF CoreInv, RegisterBranch
<1>3. budget' \in [{"request", "call", "failure", "crash"} -> Nat] /\ BudgetInv'
  BY Spent DEF CoreInv, RegisterBranch
<1> QED BY <1>1, <1>2, <1>3 DEF CoreInv, TypeOK, RegisterBranch

LEMMA CoreIdle ==
  ASSUME CoreInv, Expire \/ UNCHANGED vars
  PROVE  CoreInv'
<1>1. PositionInv' /\ KeysInv'
  BY KeysIdle DEF CoreInv, Expire, vars
<1> QED BY <1>1 DEF CoreInv, TypeOK, Expire, vars, BudgetInv

(* It holds at the start.                                                  *)
LEMMA CoreInit == Init => CoreInv
<1> SUFFICES ASSUME Init PROVE CoreInv
  OBVIOUS
<1>1. tx \in Transaction /\ drv \in [Driver -> DriverState]
  BY NewTransactionType DEF Init
<1>2. /\ budget \in [{"request", "call", "failure", "crash"} -> Nat]
      /\ BudgetInv
  BY CoordinatorAssumption DEF Init, BudgetInv
<1>3. PositionInv /\ KeysInv
  BY DEF Init, PositionInv, KeysInv, InFlight, Idle
<1> QED BY <1>1, <1>2, <1>3 DEF CoreInv, TypeOK, Init

=============================================================================
