--------------------------- MODULE RecoveryProofs ---------------------------
(***************************************************************************)
(* Proofs about the recovery lease and those who work under it: the        *)
(* callback Workflow, whose recovery writes are fenced, and the recovery   *)
(* tick over all transactions.                                             *)
(***************************************************************************)
EXTENDS CallbackWorkflow, RecoveryTick, WellFoundedInduction, TLAPS

-----------------------------------------------------------------------------
(* The callback Workflow.                                                  *)

(* The part of the type invariant that the steps of drivers touch.         *)
DriverInv ==
  /\ drv \in [Driver -> [pc : Pc, op : Op, copy : Record]]
  /\ stale \subseteq {d \in Driver : drv[d].pc = "persist"}

RecordInv == wf \in Record /\ wrote \in Nat

(* What submit() stores is a record, so an idle driver is in its type.     *)
LEMMA NewRecordType == NewRecord \in Record /\ Idle \in [pc : Pc, op : Op, copy : Record]
<1>1. NewRecord \in Record
  BY DEF NewRecord, Record, Status, Reason
<1> QED BY <1>1 DEF Idle, Pc, Op

(* Every handler may move between two steps that hold no copy.             *)
LEMMA GotoType ==
  ASSUME NEW d \in Driver, NEW pc \in Pc, NEW op \in Op, DriverInv,
         drv[d].pc # "persist", Goto(d, pc, op), stale' = stale
  PROVE  DriverInv'
BY DEF DriverInv, Goto

(* Every handler may return.                                               *)
LEMMA ReturnType ==
  ASSUME NEW d \in Driver, DriverInv, Return(d)
  PROVE  DriverInv'
BY NewRecordType DEF DriverInv, Return

(* Every handler may take a copy of the record with another status.        *)
LEMMA TakeCopyType ==
  ASSUME NEW d \in Driver, NEW op \in Op, NEW status \in Status, DriverInv,
         wf \in Record, TakeCopy(d, op, status)
  PROVE  DriverInv'
<1>1. [wf EXCEPT !.status = status] \in Record
  BY DEF Record
<1>2. [pc |-> "persist", op |-> op, copy |-> [wf EXCEPT !.status = status]]
        \in [pc : Pc, op : Op, copy : Record]
  BY <1>1 DEF Pc
<1> QED BY <1>2 DEF DriverInv, TakeCopy

(* Every write keeps the types.                                            *)
LEMMA WriteType ==
  ASSUME NEW d \in Driver, NEW r \in Record, NEW pc \in Pc, NEW op \in Op,
         DriverInv, RecordInv, LeaseTypeOK, WriteAndGo(d, r, pc, op)
  PROVE  DriverInv' /\ RecordInv'
<1>1. [Idle EXCEPT !.pc = pc, !.op = op] \in [pc : Pc, op : Op, copy : Record]
  BY NewRecordType DEF Idle
<1>2. DriverInv'
  BY <1>1 DEF DriverInv, WriteAndGo, Outdated
<1>3. RecordInv'
  BY DEF RecordInv, WriteAndGo, LeaseTypeOK
<1> QED BY <1>2, <1>3

(* finish_workflow keeps the types.                                        *)
LEMMA CompleteType ==
  ASSUME NEW d \in Driver, NEW c \in Status \X Reason,
         DriverInv, RecordInv, LeaseTypeOK, Complete(d, c)
  PROVE  DriverInv' /\ RecordInv'
<1>1. Finished(c) \in Record
  BY DEF Finished, RecordInv, Record
<1>2. CASE Refused(d)
  BY <1>2, ReturnType DEF Refused, RecordInv
<1>3. CASE WriteAndGo(d, Finished(c), "idle", "none")
  BY <1>1, <1>3, WriteType DEF Pc, Op
<1> QED BY <1>2, <1>3 DEF Complete

(* A tick and recover() keep the types.                                    *)
LEMMA DispatchType ==
  ASSUME NEW d \in Driver, DriverInv, drv[d].pc # "persist", Dispatch(d), stale' = stale
  PROVE  DriverInv'
<1>1. CASE \E pc \in Pc, op \in Op : Goto(d, pc, op)
  BY <1>1, GotoType
<1>2. CASE drv' = [drv EXCEPT ![d] = Idle]
  BY <1>2, NewRecordType DEF DriverInv
<1> QED BY <1>1, <1>2 DEF Dispatch, Pc, Op

-----------------------------------------------------------------------------
(* Types.                                                                  *)

(* A step of acquire_recovery_lease, or the end of a lease, keeps its type.*)
LEMMA LeaseType ==
  ASSUME LeaseTypeOK, (\E w \in Worker : AcquireLease(w)) \/ LeaseRunsOut
  PROVE  LeaseTypeOK'
<1> USE LeaseAssumption
<1>1. GrantedEpoch \in Nat
  BY DEF GrantedEpoch, LeaseTypeOK
<1>2. ASSUME NEW w \in Worker, AcquireLease(w) PROVE LeaseTypeOK'
  BY <1>1, <1>2 DEF AcquireLease, LeaseTypeOK
<1>3. CASE LeaseRunsOut
  <2>1. lease' \in [owner : Worker \cup {NoOwner}, live : BOOLEAN, epoch : Nat]
    BY <1>3 DEF LeaseRunsOut, LeaseTypeOK
  <2>2. expiries' \in 0..MaxExpiries
    BY <1>3 DEF LeaseRunsOut, LeaseTypeOK
  <2> QED BY <1>3, <2>1, <2>2 DEF LeaseRunsOut, LeaseTypeOK
<1> QED BY <1>2, <1>3

(* The parts of the type invariant, in a state and after a step.           *)
Parts ==
  /\ LeaseTypeOK /\ DriverInv /\ RecordInv
  /\ expired \in BOOLEAN /\ budget \in [{"request", "crash"} -> Nat]
  /\ told \subseteq Completion
  /\ contract \in Contracts

LEMMA TypeParts == (CallbackTypeOK <=> Parts) /\ (CallbackTypeOK' <=> Parts')
BY DEF CallbackTypeOK, Parts, DriverInv, RecordInv

(* Every step of the callback Workflow keeps the types.                    *)
LEMMA TypeStep ==
  ASSUME CallbackTypeOK, [Next]_vars
  PROVE  CallbackTypeOK'
<1> USE TypeParts DEF Parts
<1>b. ASSUME NEW e \in {"request", "crash"}, Spend(e)
      PROVE  budget' \in [{"request", "crash"} -> Nat]
  BY <1>b DEF Spend
<1>u. ASSUME UNCHANGED leaseVars PROVE LeaseTypeOK'
  BY <1>u DEF leaseVars, LeaseTypeOK
<1>r. ASSUME UNCHANGED <<wf, wrote>> PROVE RecordInv'
  BY <1>r DEF RecordInv
<1>1. ASSUME NEW w \in Worker, Acquire(w) PROVE CallbackTypeOK'
  <2>1. DriverInv'
    BY <1>1, GotoType DEF Acquire, Driver, Pc, Op
  <2> QED BY <1>1, <2>1, <1>r, LeaseType DEF Acquire
<1>2. ASSUME NEW w \in Worker, List(w) PROVE CallbackTypeOK'
  <2>1. DriverInv'
    BY <1>2, DispatchType DEF List, Driver
  <2> QED BY <1>2, <2>1, <1>r, <1>u DEF List
<1>3. ASSUME NEW d \in Driver, Read(d) PROVE CallbackTypeOK'
  <2>1. CASE TakeCopy(d, drv[d].op, "Prepared")
    <3>1. drv[d].op \in Op
      BY DEF DriverInv
    <3> QED BY <2>1, <3>1, TakeCopyType, <1>3, <1>r, <1>u DEF Read, Status, RecordInv
  <2>2. CASE /\ \/ Goto(d, "finish", "expire") \/ Goto(d, "query", "query")
                \/ Goto(d, "apply", "defer")
             /\ UNCHANGED stale
    <3>1. DriverInv'
      BY <2>2, <1>3, GotoType DEF Read, Pc, Op
    <3> QED BY <3>1, <1>3, <1>r, <1>u DEF Read
  <2>3. CASE Return(d)
    BY <2>3, ReturnType, <1>3, <1>r, <1>u DEF Read
  <2> QED BY <1>3, <2>1, <2>2, <2>3 DEF Read
<1>4. ASSUME NEW d \in Driver, Persist(d) PROVE CallbackTypeOK'
  <2>1. drv[d].copy \in Record
    BY DEF DriverInv
  <2>2. CASE Refused(d)
    BY <2>2, ReturnType, <1>4, <1>r, <1>u DEF Persist, Refused
  <2>3. CASE WriteAndGo(d, drv[d].copy, "finish", "expire")
    BY <2>1, <2>3, WriteType, <1>4, <1>u DEF Persist, Pc, Op
  <2>4. CASE WriteAndGo(d, drv[d].copy, "idle", "none")
    BY <2>1, <2>4, WriteType, <1>4, <1>u DEF Persist, Pc, Op
  <2> QED BY <1>4, <2>2, <2>3, <2>4 DEF Persist
<1>5. ASSUME NEW d \in Driver, Answer(d) PROVE CallbackTypeOK'
  <2>1. CASE /\ \E result \in QueryResults(contract) :
                    Goto(d, "apply", AfterQuery(result))
             /\ UNCHANGED stale
    <3>1. \E op \in {"failed", "defer"} : Goto(d, "apply", op)
      BY <2>1 DEF AfterQuery
    <3>2. DriverInv'
      BY <2>1, <3>1, <1>5, GotoType DEF Answer, Pc, Op
    <3> QED BY <3>2, <1>5, <1>r, <1>u DEF Answer
  <2>2. CASE Return(d)
    BY <2>2, ReturnType, <1>5, <1>r, <1>u DEF Answer
  <2> QED BY <1>5, <2>1, <2>2 DEF Answer
<1>6. ASSUME NEW d \in Driver, Apply(d) PROVE CallbackTypeOK'
  <2>1. CASE Complete(d, <<"Failed", "callback">>)
    BY <2>1, CompleteType, <1>6, <1>u DEF Apply, Status, Reason
  <2>2. CASE WriteAndGo(d, wf, "idle", "none")
    BY <2>2, WriteType, <1>6, <1>u DEF Apply, Pc, Op, RecordInv
  <2>3. CASE Refused(d)
    BY <2>3, ReturnType, <1>6, <1>r, <1>u DEF Apply, Refused
  <2> QED BY <1>6, <2>1, <2>2, <2>3 DEF Apply
<1>7. ASSUME NEW d \in Driver, FinishExpired(d) PROVE CallbackTypeOK'
  BY <1>7, CompleteType, <1>u DEF FinishExpired, Status, Reason
<1>8. ASSUME NEW d \in Driver, Abandon(d) PROVE CallbackTypeOK'
  BY <1>8, ReturnType, <1>b, <1>r, <1>u DEF Abandon
<1>9. ASSUME NEW c \in Client, Prepare(c) \/ Recover(c) PROVE CallbackTypeOK'
  <2>1. DriverInv'
    BY <1>9, GotoType, DispatchType DEF Prepare, Recover, Request, Driver, Pc, Op
  <2> QED BY <1>9, <2>1, <1>b, <1>r, <1>u DEF Prepare, Recover, Request
<1>10. ASSUME NEW c \in Client, StatusRequest(c) PROVE CallbackTypeOK'
  <2>1. wf.status \in Status
    BY DEF RecordInv, Record
  <2>2. DriverInv'
    BY <1>10, <2>1, TakeCopyType DEF StatusRequest, Driver, Op, Status, RecordInv
  <2> QED BY <1>10, <2>2, <1>b, <1>r, <1>u DEF StatusRequest, Request
<1>11. ASSUME NEW c \in Client, Finish(c) PROVE CallbackTypeOK'
  <2>1. PICK e \in Completion : /\ wf' = Finished(e)
                                /\ stale' = IF wf' = wf THEN stale ELSE stale \cup Outdated(c)
                                /\ told' \in {told, told \cup {e}}
    BY <1>11 DEF Finish
  <2>2. Finished(e) \in Record
    <3>1. e[1] \in Status /\ e[2] \in Reason
      BY DEF Completion, Status, Reason
    <3> QED BY <3>1 DEF Finished, RecordInv, Record
  <2>3. DriverInv'
    BY <1>11, <2>1 DEF Finish, DriverInv, Outdated
  <2>4. RecordInv'
    BY <1>11, <2>1, <2>2 DEF Finish, RecordInv
  <2> QED BY <1>11, <2>1, <2>3, <2>4, <1>b, <1>u DEF Finish, Request
<1>12. ASSUME NEW c \in Client, Progress(c) PROVE CallbackTypeOK'
  <2>1. RecordInv'
    BY <1>12 DEF Progress, RecordInv, Record
  <2>2. DriverInv'
    BY <1>12 DEF Progress, DriverInv, Outdated
  <2> QED BY <1>12, <2>1, <2>2, <1>b, <1>u DEF Progress, Request
<1>13. CASE Expire
  BY <1>13, <1>r, <1>u DEF Expire, DriverInv
<1>14. CASE LeaseRunsOut /\ UNCHANGED flow
  BY <1>14, LeaseType, <1>r DEF flow, DriverInv
<1>15. CASE UNCHANGED vars
  BY <1>15, <1>r, <1>u DEF vars, flow, DriverInv
<1> QED
  BY <1>1, <1>2, <1>3, <1>4, <1>5, <1>6, <1>7, <1>8, <1>9, <1>10, <1>11, <1>12,
     <1>13, <1>14, <1>15 DEF Next, HandlerStep, ClientStep

(* The variables of the callback Workflow and of the recovery lease stay   *)
(* in their types, for any deployment and any store.                       *)
THEOREM TypeCorrect == Spec => []CallbackTypeOK
<1>1. Init => CallbackTypeOK
  <2> SUFFICES ASSUME Init PROVE CallbackTypeOK
    OBVIOUS
  <2>1. LeaseTypeOK
    BY LeaseAssumption DEF Init, LeaseInit, LeaseTypeOK
  <2>2. DriverInv /\ RecordInv
    BY NewRecordType DEF Init, DriverInv, RecordInv
  <2>3. budget \in [{"request", "crash"} -> Nat]
    BY CallbackAssumption DEF Init
  <2> QED BY <2>1, <2>2, <2>3, TypeParts DEF Init, Parts
<1> QED BY <1>1, TypeStep, PTL DEF Spec

-----------------------------------------------------------------------------
(* The fence.                                                              *)

(* An accepted recovery write carries the epoch of the running lease, any  *)
(* other write leaves the epoch of the last one alone.                     *)
LEMMA WriteEpoch ==
  ASSUME Redis, CallbackTypeOK, EpochInv, NEW d \in Driver, NEW r, NEW pc, NEW op,
         Allowed(d), WriteAndGo(d, r, pc, op)
  PROVE  wrote' \in {wrote, lease.epoch}
BY DEF WriteAndGo, Allowed, FenceHolds

(* Every handler step leaves the order of the epochs intact.               *)
LEMMA HandlerEpoch ==
  ASSUME Redis, CallbackTypeOK, EpochInv, NEW d \in Driver, HandlerStep(d)
  PROVE  UNCHANGED leaseVars /\ wrote' \in {wrote, lease.epoch}
<1>1. CASE Read(d) \/ Answer(d)
  BY <1>1 DEF Read, Answer
<1>2. CASE Persist(d)
  BY <1>2, WriteEpoch DEF Persist, Refused, CanStore
<1>3. CASE Apply(d) \/ FinishExpired(d)
  BY <1>3, WriteEpoch DEF Apply, FinishExpired, Complete, Refused
<1> QED BY <1>1, <1>2, <1>3 DEF HandlerStep

(* Every step keeps fences and writes behind the lease, and never writes   *)
(* with an epoch below one that has been written.                          *)
LEMMA EpochStep ==
  ASSUME CallbackTypeOK, EpochInv, [Next]_vars
  PROVE  EpochInv' /\ (Redis => wrote' >= wrote)
<1> SUFFICES ASSUME Redis PROVE EpochInv' /\ wrote' >= wrote
  BY LeaseAssumption DEF EpochInv
<1>t. /\ wrote \in Nat /\ lease.epoch \in Nat /\ wrote <= lease.epoch
      /\ \A w \in Worker : fence[w] \in Nat /\ fence[w] <= lease.epoch
  BY DEF CallbackTypeOK, LeaseTypeOK, EpochInv
<1>1. ASSUME NEW w \in Worker, Acquire(w) PROVE EpochInv' /\ wrote' >= wrote
  <2>1. GrantedEpoch \in Nat /\ GrantedEpoch >= lease.epoch
    BY <1>t DEF GrantedEpoch
  <2>2. /\ lease'.epoch = GrantedEpoch /\ wrote' = wrote
        /\ \A v \in Worker : fence'[v] = IF v = w THEN GrantedEpoch ELSE fence[v]
    BY <1>1 DEF Acquire, AcquireLease, CallbackTypeOK, LeaseTypeOK
  <2> QED BY <1>t, <2>1, <2>2 DEF EpochInv
<1>2. ASSUME NEW d \in Driver, HandlerStep(d) PROVE EpochInv' /\ wrote' >= wrote
  BY <1>2, <1>t, HandlerEpoch DEF EpochInv, leaseVars
<1>3. CASE LeaseRunsOut /\ UNCHANGED flow
  <2>1. lease'.epoch = lease.epoch /\ fence' = fence /\ wrote' = wrote
    BY <1>3 DEF LeaseRunsOut, flow, CallbackTypeOK, LeaseTypeOK
  <2> QED BY <1>t, <2>1 DEF EpochInv
<1>4. CASE UNCHANGED <<lease, fence, wrote>>
  BY <1>4, <1>t DEF EpochInv
<1>5. ASSUME NEW w \in Worker, List(w) PROVE UNCHANGED <<lease, fence, wrote>>
  BY <1>5 DEF List, leaseVars
<1>6. ASSUME NEW d \in Driver, Abandon(d) PROVE UNCHANGED <<lease, fence, wrote>>
  BY <1>6 DEF Abandon, leaseVars
<1>7. ASSUME NEW c \in Client, ClientStep(c) PROVE UNCHANGED <<lease, fence, wrote>>
  BY <1>7 DEF ClientStep, Prepare, StatusRequest, Finish, Progress, Recover, leaseVars
<1>8. CASE Expire
  BY <1>8, <1>4 DEF Expire, leaseVars
<1>9. CASE UNCHANGED vars
  BY <1>9, <1>4 DEF vars, flow, leaseVars
<1> QED
  BY <1>1, <1>2, <1>3, <1>4, <1>5, <1>6, <1>7, <1>8, <1>9 DEF Next

(* Redis: no recovery write that an earlier holder of the lease delayed is *)
(* accepted after a write of a later holder, for any number of workers and *)
(* leases.                                                                 *)
THEOREM EpochsOrdered == ASSUME Redis PROVE Spec => EpochOrder
<1>1. Init => EpochInv
  BY DEF Init, LeaseInit, EpochInv
<1>2. CallbackTypeOK /\ EpochInv /\ [Next]_vars => EpochInv' /\ [wrote' >= wrote]_wrote
  BY EpochStep
<1> QED BY <1>1, <1>2, TypeCorrect, PTL DEF Spec, EpochOrder

-----------------------------------------------------------------------------
(* The record.                                                             *)

(* What a step may do to the record.                                       *)
Kept ==
  /\ IsTerminal(wf.status) => wf' = wf
  /\ wf'.progress = wf.progress \/ \E c \in Client : Progress(c)

(* No copy that a driver still holds could be stored.                      *)
NoLiveCopy == \A d \in Driver : drv[d].pc = "persist" => d \in stale

(* apply_workflow_completion only changes a record that has not ended, and *)
(* not its progress.                                                       *)
LEMMA FinishedKeeps ==
  ASSUME wf \in Record, NEW c \in Status \X Reason, CanFinish(c)
  PROVE  /\ IsTerminal(wf.status) => Finished(c) = wf
         /\ Finished(c).progress = wf.progress
         /\ <<Finished(c).status, Finished(c).reason>> = c
<1>1. ASSUME IsTerminal(wf.status) PROVE Finished(c) = wf
  <2>1. wf.status = c[1] /\ wf.reason = c[2]
    BY <1>1 DEF CanFinish, IsTerminal
  <2> QED BY <2>1 DEF Finished, Record
<1> QED BY <1>1 DEF Finished, Record

(* A write leaves no copy that could be stored.                            *)
LEMMA WriteOutdates ==
  ASSUME DriverInv, NEW d \in Driver, NEW r, NEW pc \in Pc \ {"persist"}, NEW op,
         WriteAndGo(d, r, pc, op)
  PROVE  NoLiveCopy'
BY DEF DriverInv, WriteAndGo, NoLiveCopy, Outdated, Idle

(* A driver that returns leaves the other copies as they are.              *)
LEMMA ReturnKeeps ==
  ASSUME DriverInv, CopyInv, NEW d \in Driver, Return(d), wf' = wf
  PROVE  CopyInv'
BY DEF DriverInv, CopyInv, Return, Idle

(* So does one that moves on without a copy.                               *)
LEMMA GotoKeeps ==
  ASSUME DriverInv, CopyInv, NEW d \in Driver, NEW pc \in Pc \ {"persist"}, NEW op,
         Goto(d, pc, op), stale' = stale, wf' = wf
  PROVE  CopyInv'
BY DEF DriverInv, CopyInv, Goto

(* A tick and recover() only move on.                                      *)
LEMMA DispatchKeeps ==
  ASSUME DriverInv, CopyInv, NEW d \in Driver, Dispatch(d), stale' = stale, wf' = wf
  PROVE  CopyInv'
<1>1. CASE \E pc \in Pc \ {"persist"}, op \in Op : Goto(d, pc, op)
  BY <1>1, GotoKeeps
<1>2. CASE drv' = [drv EXCEPT ![d] = Idle]
  BY <1>2 DEF DriverInv, CopyInv, Idle
<1> QED BY <1>1, <1>2 DEF Dispatch, Pc, Op

(* A copy taken from a record that has not ended may be stored.            *)
LEMMA TakeCopyKeeps ==
  ASSUME DriverInv, wf \in Record, CopyInv, NEW d \in Driver, NEW op, NEW status,
         TakeCopy(d, op, status), ~IsTerminal(wf.status), wf' = wf
  PROVE  CopyInv'
<1>1. [wf EXCEPT !.status = status].progress = wf.progress
  BY DEF Record
<1> QED BY <1>1 DEF DriverInv, CopyInv, TakeCopy

(* finish_workflow by a driver.                                            *)
LEMMA CompleteKeeps ==
  ASSUME DriverInv, wf \in Record, CopyInv, NEW d \in Driver,
         NEW c \in Status \X Reason, Complete(d, c)
  PROVE  CopyInv' /\ Kept
<1>1. CASE Refused(d)
  BY <1>1, ReturnKeeps DEF Refused, Kept
<1>2. CASE CanFinish(c) /\ WriteAndGo(d, Finished(c), "idle", "none")
  <2>1. NoLiveCopy'
    BY <1>2, WriteOutdates DEF Pc
  <2>2. CopyInv'
    BY <2>1 DEF NoLiveCopy, CopyInv
  <2> QED BY <1>2, <2>2, FinishedKeeps DEF WriteAndGo, Kept
<1> QED BY <1>1, <1>2 DEF Complete

(* Every step of a handler.                                                *)
LEMMA HandlerKeeps ==
  ASSUME Redis, CallbackTypeOK, CopyInv, NEW d \in Driver, HandlerStep(d)
  PROVE  CopyInv' /\ Kept /\ told' = told
<1> USE TypeParts DEF Parts, RecordInv
<1>1. CASE Read(d)
  <2>1. wf' = wf /\ told' = told
    BY <1>1 DEF Read
  <2>2. CASE wf.status = "Submitted" /\ TakeCopy(d, drv[d].op, "Prepared")
    <3>1. ~IsTerminal(wf.status)
      BY <2>2 DEF IsTerminal
    <3> QED BY <2>1, <2>2, <3>1, TakeCopyKeeps DEF Kept
  <2>3. CASE /\ \/ Goto(d, "finish", "expire") \/ Goto(d, "query", "query")
                \/ Goto(d, "apply", "defer")
             /\ UNCHANGED stale
    BY <2>1, <2>3, GotoKeeps DEF Kept, Pc
  <2>4. CASE Return(d)
    BY <2>1, <2>4, ReturnKeeps DEF Kept
  <2> QED BY <1>1, <2>2, <2>3, <2>4 DEF Read
<1>2. CASE Persist(d)
  <2>1. CASE Refused(d)
    BY <1>2, <2>1, ReturnKeeps DEF Persist, Refused, Kept
  <2>2. CASE CanStore(d) /\ \E pc \in {"idle", "finish"}, op \in Op :
                              WriteAndGo(d, drv[d].copy, pc, op)
    <3>1. NoLiveCopy'
      BY <2>2, WriteOutdates DEF Pc
    <3>2. ~IsTerminal(wf.status) /\ drv[d].copy.progress = wf.progress
      BY <1>2, <2>2 DEF Persist, CanStore, CopyInv
    <3> QED BY <1>2, <2>2, <3>1, <3>2 DEF Persist, NoLiveCopy, CopyInv, WriteAndGo, Kept
  <2> QED BY <1>2, <2>1, <2>2 DEF Persist, Op
<1>3. CASE Answer(d)
  <2>1. CASE /\ \E result \in QueryResults(contract) :
                    Goto(d, "apply", AfterQuery(result))
             /\ UNCHANGED stale
    BY <1>3, <2>1, GotoKeeps DEF Answer, Kept, Pc
  <2>2. CASE Return(d)
    BY <1>3, <2>2, ReturnKeeps DEF Answer, Kept
  <2> QED BY <1>3, <2>1, <2>2 DEF Answer
<1>4. CASE Apply(d)
  <2>1. CASE Complete(d, <<"Failed", "callback">>)
    BY <1>4, <2>1, CompleteKeeps DEF Apply, Status, Reason
  <2>2. CASE WriteAndGo(d, wf, "idle", "none")
    <3>1. NoLiveCopy'
      BY <2>2, WriteOutdates DEF Pc
    <3> QED BY <1>4, <2>2, <3>1 DEF Apply, NoLiveCopy, CopyInv, WriteAndGo, Kept
  <2>3. CASE Refused(d)
    BY <1>4, <2>3, ReturnKeeps DEF Apply, Refused, Kept
  <2> QED BY <1>4, <2>1, <2>2, <2>3 DEF Apply
<1>5. CASE FinishExpired(d)
  BY <1>5, CompleteKeeps DEF FinishExpired, Status, Reason
<1> QED BY <1>1, <1>2, <1>3, <1>4, <1>5 DEF HandlerStep

(* Every request; only finish_callback_workflow tells of a completion, and *)
(* then the record says the same.                                          *)
LEMMA ClientKeeps ==
  ASSUME CallbackTypeOK, CopyInv, NEW c \in Client, ClientStep(c)
  PROVE  /\ CopyInv' /\ Kept
         /\ told' = told \/ \E e \in Completion :
              told' = told \cup {e} /\ <<wf'.status, wf'.reason>> = e
<1> USE TypeParts DEF Parts, RecordInv
<1>d. c \in Driver
  BY DEF Driver
<1>1. CASE Prepare(c)
  BY <1>1, <1>d, GotoKeeps DEF Prepare, Kept, Pc
<1>2. CASE Recover(c)
  BY <1>2, <1>d, DispatchKeeps DEF Recover, Kept
<1>3. CASE StatusRequest(c)
  BY <1>3, <1>d, TakeCopyKeeps DEF StatusRequest, Kept
<1>4. CASE Finish(c)
  <2>1. PICK e \in Completion : /\ CanFinish(e) /\ wf' = Finished(e)
                                /\ stale' = IF wf' = wf THEN stale ELSE stale \cup Outdated(c)
                                /\ told' \in {told, told \cup {e}}
    BY <1>4 DEF Finish
  <2>2. e \in Status \X Reason
    BY DEF Completion, Status, Reason
  <2>3. Kept /\ <<wf'.status, wf'.reason>> = e
    BY <2>1, <2>2, FinishedKeeps DEF Kept
  <2>4. CopyInv'
    BY <1>4, <2>1 DEF Finish, Request, CopyInv, Outdated, DriverInv
  <2> QED BY <2>1, <2>3, <2>4
<1>5. CASE Progress(c)
  <2>1. CopyInv'
    BY <1>5 DEF Progress, Request, CopyInv, Outdated, DriverInv
  <2> QED BY <1>5, <2>1 DEF Progress, Kept, IsTerminal
<1> QED BY <1>1, <1>2, <1>3, <1>4, <1>5 DEF ClientStep

(* Every step keeps the invariant, changes no record that has ended and    *)
(* only adds progress.                                                     *)
LEMMA RecordStep ==
  ASSUME Redis, CallbackTypeOK, CopyInv, CompletionHonoured, [Next]_vars
  PROVE  CopyInv' /\ CompletionHonoured' /\ Kept
<1> USE TypeParts DEF Parts, RecordInv
<1>1. ASSUME NEW w \in Worker, Acquire(w) PROVE CopyInv' /\ Kept /\ told' = told
  BY <1>1, GotoKeeps DEF Acquire, Kept, Driver, Pc
<1>2. ASSUME NEW w \in Worker, List(w) PROVE CopyInv' /\ Kept /\ told' = told
  BY <1>2, DispatchKeeps DEF List, Kept, Driver
<1>3. ASSUME NEW d \in Driver, HandlerStep(d) PROVE CopyInv' /\ Kept /\ told' = told
  BY <1>3, HandlerKeeps
<1>4. ASSUME NEW d \in Driver, Abandon(d) PROVE CopyInv' /\ Kept /\ told' = told
  BY <1>4, ReturnKeeps DEF Abandon, Kept
<1>5. ASSUME Expire \/ (LeaseRunsOut /\ UNCHANGED flow) \/ UNCHANGED vars
      PROVE  CopyInv' /\ Kept /\ told' = told
  BY <1>5 DEF Expire, flow, vars, CopyInv, Kept
<1>6. /\ CopyInv' /\ Kept
      /\ told' = told \/ \E e \in Completion :
           told' = told \cup {e} /\ <<wf'.status, wf'.reason>> = e
  BY <1>1, <1>2, <1>3, <1>4, <1>5, ClientKeeps DEF Next
<1>7. ASSUME NEW c \in told PROVE <<wf'.status, wf'.reason>> = c
  <2>1. <<wf.status, wf.reason>> = c /\ c \in Completion
    BY DEF CompletionHonoured
  <2>2. IsTerminal(wf.status)
    BY <2>1 DEF Completion, IsTerminal
  <2> QED BY <1>6, <2>1, <2>2 DEF Kept
<1>8. ASSUME NEW c \in told' PROVE <<wf'.status, wf'.reason>> = c
  BY <1>6, <1>7
<1>9. CompletionHonoured'
  BY <1>8 DEF CompletionHonoured
<1> QED BY <1>6, <1>9

(* Redis: the copies that drivers hold can only be stored while they are   *)
(* those of a record that has not ended, and a completion that a caller    *)
(* was told of stays, for any number of workers, callers and steps.        *)
THEOREM CompletionsHonoured == ASSUME Redis PROVE Spec => [](CopyInv /\ CompletionHonoured)
<1>1. Init => CopyInv /\ CompletionHonoured
  BY DEF Init, CopyInv, CompletionHonoured, Idle
<1>2. CallbackTypeOK /\ CopyInv /\ CompletionHonoured /\ [Next]_vars
        => CopyInv' /\ CompletionHonoured'
  BY RecordStep
<1> QED BY <1>1, <1>2, TypeCorrect, PTL DEF Spec

(* Redis: whoever ended the Workflow, no late handler changes the record   *)
(* afterwards.                                                             *)
THEOREM EndsAreFinal == ASSUME Redis PROVE Spec => EndIsFinal
<1>1. CallbackTypeOK /\ CopyInv /\ CompletionHonoured /\ [Next]_vars
        => [IsTerminal(wf.status) => wf' = wf]_wf
  BY RecordStep DEF Kept
<1> QED BY <1>1, TypeCorrect, CompletionsHonoured, PTL DEF Spec, EndIsFinal

(* Redis: progress that was recorded stays as it was recorded, whatever    *)
(* the handlers that hold older copies do.                                 *)
THEOREM ProgressIsKept == ASSUME Redis PROVE Spec => ProgressKept
<1>1. CallbackTypeOK /\ CopyInv /\ CompletionHonoured /\ [Next]_vars
        => [\A s \in Step : wf.progress[s] # NoProgress =>
              wf'.progress[s] = wf.progress[s]]_wf
  <2> SUFFICES ASSUME CallbackTypeOK, CopyInv, CompletionHonoured, [Next]_vars,
                      NEW s \in Step, wf.progress[s] # NoProgress
               PROVE  wf'.progress[s] = wf.progress[s]
    OBVIOUS
  <2>1. CASE \E c \in Client : Progress(c)
    BY <2>1 DEF Progress, CallbackTypeOK, Record
  <2> QED BY <2>1, RecordStep DEF Kept
<1> QED BY <1>1, TypeCorrect, CompletionsHonoured, PTL DEF Spec, ProgressKept

-----------------------------------------------------------------------------
(* Backoff.                                                                *)

(* Every set of numbers has a least one.                                   *)
LEMMA LeastNumber ==
  ASSUME NEW S \in SUBSET Nat, S # {}
  PROVE  \E n \in S : \A m \in S : n <= m
<1>1. PICK n \in S : \A m \in S : ~(<<m, n>> \in OpToRel(<, Nat))
  BY NatLessThanWellFounded, WFMin
<1>2. \A m \in S : ~(m < n)
  BY <1>1 DEF OpToRel
<1> QED BY <1>2

(* f doubles from 1 up to n.                                               *)
Doubles(f, n) ==
  f \in [0..n -> Nat] /\ f[0] = 1 /\ \A m \in 1..n : f[m] = 2 * f[m - 1]

LEMMA DoublesExists == \A n \in Nat : \E f : Doubles(f, n)
<1> DEFINE S == {n \in Nat : ~\E f : Doubles(f, n)}
<1> SUFFICES ASSUME S # {} PROVE FALSE
  OBVIOUS
<1>1. PICK n \in S : \A m \in S : n <= m
  BY LeastNumber
<1>2. n # 0
  <2>1. Doubles([i \in 0..0 |-> 1], 0)
    BY DEF Doubles
  <2> QED BY <2>1
<1>3. PICK f : Doubles(f, n - 1)
  <2>1. n - 1 \in Nat /\ n - 1 \notin S
    BY <1>1, <1>2
  <2> QED BY <2>1
<1>4. Doubles([i \in 0..n |-> IF i = n THEN 2 * f[n - 1] ELSE f[i]], n)
  <2> DEFINE g == [i \in 0..n |-> IF i = n THEN 2 * f[n - 1] ELSE f[i]]
  <2>1. n \in Nat /\ n >= 1
    BY <1>1, <1>2
  <2>2. /\ f[0] = 1 /\ \A i \in 0..(n - 1) : f[i] \in Nat
        /\ \A m \in 1..(n - 1) : f[m] = 2 * f[m - 1]
    BY <1>3, <2>1 DEF Doubles
  <2>3. \A i \in 0..n : g[i] \in Nat /\ (i < n => g[i] = f[i])
    BY <2>1, <2>2
  <2>4. g \in [0..n -> Nat] /\ g[0] = 1 /\ g[n] = 2 * f[n - 1]
    BY <2>1, <2>2, <2>3
  <2> HIDE DEF g
  <2>5. \A m \in 1..n : g[m] = 2 * g[m - 1]
    <3> SUFFICES ASSUME NEW m \in 1..n PROVE g[m] = 2 * g[m - 1]
      OBVIOUS
    <3>1. m \in Nat /\ m - 1 \in 0..n /\ m - 1 < n /\ g[m - 1] = f[m - 1]
      BY <2>1, <2>3
    <3>2. CASE m = n
      BY <2>4, <3>1, <3>2
    <3>3. CASE m < n
      <4>1. m \in 1..(n - 1) /\ m \in 0..n
        BY <2>1, <3>3
      <4> QED BY <2>2, <2>3, <3>1, <3>3, <4>1
    <3> QED BY <2>1, <3>1, <3>2, <3>3
  <2> QED BY <2>4, <2>5 DEF Doubles, g
<1> QED BY <1>1, <1>4

LEMMA DoublesUnique ==
  ASSUME NEW k \in Nat, NEW n \in Nat, NEW f, NEW g,
         Doubles(f, k), Doubles(g, n)
  PROVE  \A i \in Nat : i <= k /\ i <= n => f[i] = g[i]
<1> DEFINE S == {i \in Nat : i <= k /\ i <= n /\ f[i] # g[i]}
<1> SUFFICES ASSUME S # {} PROVE FALSE
  OBVIOUS
<1>1. PICK i \in S : \A j \in S : i <= j
  BY LeastNumber
<1>2. i # 0
  BY DEF Doubles
<1>3. i - 1 \in Nat /\ i - 1 \notin S
  BY <1>1, <1>2
<1>4. f[i - 1] = g[i - 1]
  BY <1>1, <1>3
<1>5. f[i] = 2 * f[i - 1] /\ g[i] = 2 * g[i - 1]
  BY <1>1, <1>2 DEF Doubles
<1> QED BY <1>1, <1>4, <1>5

(* 1 << n doubles with every shift.                                        *)
LEMMA ShiftedOneDef ==
  /\ ShiftedOne \in [Nat -> Nat]
  /\ ShiftedOne[0] = 1
  /\ \A n \in Nat \ {0} : ShiftedOne[n] = 2 * ShiftedOne[n - 1]
<1> DEFINE h(n) == CHOOSE f : Doubles(f, n)
           H == [n \in Nat |-> h(n)[n]]
<1>1. \A n \in Nat : Doubles(h(n), n)
  BY DoublesExists
<1> HIDE DEF h
<1>2. \A n \in Nat : h(n)[n] \in Nat
  BY <1>1 DEF Doubles
<1>3. h(0)[0] = 1
  BY <1>1 DEF Doubles
<1>4. ASSUME NEW n \in Nat \ {0}
      PROVE  h(n)[n] = 2 * h(n - 1)[n - 1]
  <2>1. h(n)[n] = 2 * h(n)[n - 1]
    BY <1>1 DEF Doubles
  <2>2. n - 1 \in Nat /\ Doubles(h(n - 1), n - 1) /\ Doubles(h(n), n)
    BY <1>1
  <2>3. h(n)[n - 1] = h(n - 1)[n - 1]
    BY <2>2, DoublesUnique
  <2> QED BY <2>1, <2>3
<1>5. H = [n \in Nat |-> IF n = 0 THEN 1 ELSE 2 * H[n - 1]]
  BY <1>3, <1>4
<1> HIDE DEF H
<1>6. ShiftedOne = [n \in Nat |-> IF n = 0 THEN 1 ELSE 2 * ShiftedOne[n - 1]]
  BY <1>5 DEF ShiftedOne
<1>7. \A n \in Nat : ShiftedOne[n] = IF n = 0 THEN 1 ELSE 2 * ShiftedOne[n - 1]
  BY <1>6
<1>8. \A n \in Nat : ShiftedOne[n] \in Nat
  <2> DEFINE S == {n \in Nat : ShiftedOne[n] \notin Nat}
  <2> SUFFICES ASSUME S # {} PROVE FALSE
    OBVIOUS
  <2>1. PICK n \in S : \A m \in S : n <= m
    BY LeastNumber
  <2>2. n # 0 /\ ShiftedOne[n] = 2 * ShiftedOne[n - 1]
    BY <1>7, <2>1
  <2>3. n - 1 \in Nat /\ n - 1 \notin S
    BY <2>1, <2>2
  <2> QED BY <2>1, <2>2, <2>3
<1> QED BY <1>6, <1>7, <1>8

LEMMA ShiftedOneGrows ==
  \A n \in Nat : /\ ShiftedOne[n] >= 1
                 /\ \A m \in Nat : m <= n => ShiftedOne[m] <= ShiftedOne[n]
<1> DEFINE S == {n \in Nat :
                   ~(/\ ShiftedOne[n] >= 1
                     /\ \A m \in Nat : m <= n => ShiftedOne[m] <= ShiftedOne[n])}
<1> SUFFICES ASSUME S # {} PROVE FALSE
  OBVIOUS
<1>1. PICK n \in S : \A m \in S : n <= m
  BY LeastNumber
<1>2. n # 0
  BY ShiftedOneDef
<1>3. n - 1 \in Nat /\ n - 1 \notin S
  BY <1>1, <1>2
<1>4. /\ ShiftedOne[n] = 2 * ShiftedOne[n - 1]
      /\ ShiftedOne[n - 1] \in Nat /\ ShiftedOne[n - 1] >= 1
      /\ \A m \in Nat : m <= n - 1 => ShiftedOne[m] <= ShiftedOne[n - 1]
  BY <1>1, <1>2, <1>3, ShiftedOneDef
<1>5. ASSUME NEW m \in Nat, m <= n
      PROVE  ShiftedOne[m] <= ShiftedOne[n]
  <2>1. CASE m = n
    BY <2>1, <1>4
  <2>2. CASE m # n
    <3>1. ShiftedOne[m] <= ShiftedOne[n - 1] /\ ShiftedOne[m] \in Nat
      BY <1>4, <1>5, <2>2, ShiftedOneDef
    <3> QED BY <3>1, <1>4
  <2> QED BY <2>1, <2>2
<1> QED BY <1>1, <1>4, <1>5

LEMMA ProductGrows ==
  ASSUME NEW a \in Nat, NEW b \in Nat, NEW c \in Nat, b <= c
  PROVE  a * b <= a * c /\ a * b \in Nat
<1>1. a * c = a * b + a * (c - b)
  OBVIOUS
<1>2. c - b \in Nat
  OBVIOUS
<1>3. a * (c - b) \in Nat /\ a * b \in Nat
  BY <1>2
<1> QED BY <1>1, <1>3

(* A later delay is not shorter, and every delay is in its limits.         *)
LEMMA DelayGrows ==
  ASSUME NEW n \in Nat \ {0}
  PROVE  /\ DelayAfter(n) \in Backoff..Greatest(Backoff, MaxBackoff)
         /\ DelayAfter(n + 1) >= DelayAfter(n)
<1> DEFINE shift(k) == Least(Greatest(k - 1, 0), MaxShift)
           x(k) == ShiftedOne[shift(k)]
<1>1. shift(n) \in Nat /\ shift(n + 1) \in Nat /\ shift(n) <= shift(n + 1)
  BY RecoveryTickAssumption DEF Least, Greatest
<1> HIDE DEF shift
<1>2. x(n) \in Nat /\ x(n + 1) \in Nat /\ 1 <= x(n) /\ x(n) <= x(n + 1)
  BY <1>1, ShiftedOneDef, ShiftedOneGrows
<1> HIDE DEF x
<1> DEFINE y(k) == Backoff * x(k)
<1>3. y(n) \in Nat /\ y(n + 1) \in Nat /\ Backoff <= y(n) /\ y(n) <= y(n + 1)
  <2>1. y(n) <= y(n + 1) /\ y(n) \in Nat
    BY <1>2, ProductGrows, RecoveryTickAssumption
  <2>2. Backoff * 1 <= y(n)
    BY <1>2, ProductGrows, RecoveryTickAssumption
  <2>3. y(n + 1) \in Nat
    BY <1>2, ProductGrows, RecoveryTickAssumption
  <2> QED BY <2>1, <2>2, <2>3, RecoveryTickAssumption
<1>4. \A k : DelayAfter(k) = Least(Least(y(k), MaxU64), Greatest(MaxBackoff, Backoff))
  BY DEF DelayAfter, SaturatingMul, shift, x
<1> HIDE DEF y
<1> QED BY <1>3, <1>4, RecoveryTickAssumption DEF Least, Greatest

-----------------------------------------------------------------------------
(* The recovery tick.                                                      *)

TickInv == TickTypeOK /\ LeaseHeld

WorkerType == [pc : {"idle", "insert", "tick", "dead"}, todo : Todo]

LEMMA IdleWorkerType == IdleWorker \in WorkerType
<1>1. << >> \in [{} -> [before : SUBSET Gid, handler : Handler]]
  OBVIOUS
<1>2. << >> \in Todo
  BY <1>1 DEF Todo
<1> QED BY <1>2 DEF IdleWorker, WorkerType

(* The list a tick begins with is of transactions that are due, and there  *)
(* is a handler for each.                                                  *)
LEMMA BeginTickKeeps ==
  ASSUME TickInv, NEW w \in Worker, BeginTick(w),
         UNCHANGED <<stage, timedOut, wait, attempts, late>>
  PROVE  TickInv'
<1> DEFINE list == [g \in DueNow |->
                     [before |-> {h \in DueNow : Before(h, g)}, handler |-> Chosen(g)]]
<1>1. list \in Todo /\ DOMAIN list = DueNow
  <2>1. DueNow \in SUBSET Gid
    BY DEF DueNow
  <2>2. \A g \in DueNow : Chosen(g) \in Handler
    <3> SUFFICES ASSUME NEW g \in DueNow PROVE Chosen(g) \in Handler
      OBVIOUS
    <3>1. stage[g] \in {"open", "prepared", "committing", "aborting"}
      BY DEF DueNow, Due, Workable, TickInv, TickTypeOK, Stage
    <3> QED BY <3>1 DEF Chosen, Handler
  <2>3. list \in [DueNow -> [before : SUBSET Gid, handler : Handler]]
    BY <2>1, <2>2
  <2> QED BY <2>1, <2>3 DEF Todo
<1> HIDE DEF list
<1>2. worker' = [worker EXCEPT ![w] = [pc |-> "tick", todo |-> list]]
  BY DEF BeginTick, list
<1>3. lease'.owner = w /\ lease'.live /\ (lease.live => lease.owner = w)
  BY DEF BeginTick, AcquireLease, Available
<1>4. \A g \in DueNow : g \in Gid /\ (wait'[g] = 0 \/ timedOut'[g])
  BY DEF DueNow, Due
<1>5. TickTypeOK'
  <2>1. [pc |-> "tick", todo |-> list] \in WorkerType
    BY <1>1 DEF WorkerType
  <2>2. worker' \in [Worker -> WorkerType]
    BY <1>2, <2>1 DEF TickInv, TickTypeOK, RetryOK, WorkerType
  <2> QED BY <2>2 DEF TickInv, TickTypeOK, RetryOK, WorkerType
<1>6. worker'[w].todo = list /\ \A v \in Worker \ {w} : worker'[v] = worker[v]
  BY <1>2 DEF TickInv, TickTypeOK
<1>7. ASSUME NEW v \in Worker, worker'[v].pc = "tick", v \notin late'
      PROVE  /\ v = w
             /\ \A g \in DOMAIN worker'[v].todo : g \in Gid /\ InTime(g)'
  <2>1. v = w
    BY <1>3, <1>6, <1>7 DEF TickInv, LeaseHeld
  <2> QED BY <2>1, <1>1, <1>4, <1>6 DEF InTime
<1>8. LeaseHeld'
  BY <1>3, <1>7 DEF LeaseHeld
<1> QED BY <1>5, <1>8 DEF TickInv

(* A worker that ends its tick, or was not in one, holds nothing back.     *)
LEMMA WorkerRests ==
  ASSUME TickInv, NEW w \in Worker, NEW s \in WorkerType, s.pc # "tick",
         worker' = [worker EXCEPT ![w] = s],
         UNCHANGED <<lease, stage, timedOut, wait, attempts, meddled>>,
         late \subseteq late' \cup {w}
  PROVE  TickInv'
<1>1. worker' \in [Worker -> WorkerType]
  BY DEF TickInv, TickTypeOK, RetryOK, WorkerType
<1>2. worker'[w] = s /\ \A v \in Worker \ {w} : worker'[v] = worker[v]
  BY DEF TickInv, TickTypeOK
<1>3. \A v \in Worker : worker'[v].pc = "tick" /\ v \notin late' =>
        v # w /\ worker'[v] = worker[v] /\ v \notin late
  BY <1>2
<1>4. \A g : InTime(g)' <=> InTime(g)
  BY DEF InTime
<1>5. LeaseHeld'
  BY <1>3, <1>4 DEF TickInv, LeaseHeld
<1> QED BY <1>1, <1>5 DEF TickInv, TickTypeOK, RetryOK, WorkerType

(* The tick goes on with less to do.  What it did to its transaction does  *)
(* not matter to it any more; to the holder of the lease it only does if   *)
(* the worker was late.                                                    *)
LEMMA GoOnKeeps ==
  ASSUME TickInv, NEW w \in Worker, NEW g \in Gid, At(w, g), GoOn(w, g),
         UNCHANGED <<lease, timedOut, late>>,
         stage' \in [Gid -> Stage],
         RetryOK',
         \A h \in Gid \ {g} : wait'[h] = wait[h] /\ stage'[h] = stage[h],
         meddled \subseteq meddled',
         w \in late => (InTime(g) => InTime(g)')
  PROVE  TickInv'
<1> DEFINE old  == worker[w].todo
           left == [h \in DOMAIN old \ {g} |->
                     [before |-> old[h].before \ {g}, handler |-> old[h].handler]]
<1>1. PICK S \in SUBSET Gid : old \in [S -> [before : SUBSET Gid, handler : Handler]]
  <2>1. old \in Todo
    BY DEF TickInv, TickTypeOK
  <2> QED BY <2>1 DEF Todo
<1>2. left \in Todo /\ DOMAIN left = DOMAIN old \ {g}
  <2>1. left \in [S \ {g} -> [before : SUBSET Gid, handler : Handler]]
    BY <1>1
  <2>2. S \ {g} \in SUBSET Gid
    OBVIOUS
  <2> QED BY <1>1, <2>1, <2>2 DEF Todo
<1> HIDE DEF left
<1>3. worker' = [worker EXCEPT ![w].todo = left]
  BY DEF GoOn, left
<1>4. /\ worker'[w].todo = left /\ worker'[w].pc = "tick"
      /\ \A v \in Worker \ {w} : worker'[v] = worker[v]
      /\ worker' \in [Worker -> WorkerType]
  BY <1>2, <1>3 DEF TickInv, TickTypeOK, At, WorkerType
<1>5. \A h \in Gid \ {g} : InTime(h) => InTime(h)'
  BY DEF InTime
<1>6. ASSUME NEW v \in Worker, worker'[v].pc = "tick", v \notin late'
      PROVE  /\ lease'.live /\ lease'.owner = v
             /\ \A h \in DOMAIN worker'[v].todo : h \in Gid /\ InTime(h)'
  <2>1. worker[v].pc = "tick" /\ v \notin late
    BY <1>4, <1>6 DEF At
  <2>2. /\ lease.live /\ lease.owner = v
        /\ \A h \in DOMAIN worker[v].todo : h \in Gid /\ InTime(h)
    BY <2>1 DEF TickInv, LeaseHeld
  <2>3. CASE v = w
    <3>1. DOMAIN worker'[v].todo = DOMAIN worker[v].todo \ {g}
      BY <1>2, <1>4, <2>3
    <3> QED BY <1>5, <2>2, <3>1
  <2>4. CASE v # w
    <3>1. w \in late
      BY <2>1, <2>2, <2>4 DEF TickInv, LeaseHeld, At
    <3>2. worker'[v] = worker[v]
      BY <1>4, <2>4
    <3> QED BY <1>5, <2>2, <3>1, <3>2
  <2> QED BY <2>3, <2>4
<1>7. LeaseHeld'
  BY <1>6 DEF TickInv, LeaseHeld
<1> QED BY <1>4, <1>7 DEF TickInv, TickTypeOK, RetryOK, WorkerType

(* What happens to a transaction elsewhere never makes its call untimely,  *)
(* but for a request in vain, which meddled records.                       *)
LEMMA WorkStays ==
  ASSUME TickInv, UNCHANGED <<lease, worker, late>>,
         timedOut' \in [Gid -> BOOLEAN],
         stage' \in [Gid -> Stage],
         RetryOK',
         \A g \in Gid : InTime(g) => InTime(g)'
  PROVE  TickInv'
BY DEF TickInv, TickTypeOK, LeaseHeld

(* A handler leaves its transaction in some stage, with a retry time.      *)
LEMMA SucceedsKeeps ==
  ASSUME TickInv, NEW g \in Gid, NEW h, Succeeds(g, h)
  PROVE  /\ stage' \in [Gid -> Stage] /\ RetryOK' /\ wait'[g] = 0
         /\ \A i \in Gid \ {g} : wait'[i] = wait[i] /\ stage'[i] = stage[i]
<1>1. PICK s \in Reached(g, h) : stage' = [stage EXCEPT ![g] = s]
  BY DEF Succeeds
<1>2. s \in Stage
  BY <1>1 DEF Reached, Stage
<1>3. attempts' = attempts /\ wait' = [wait EXCEPT ![g] = 0]
  BY DEF Succeeds
<1> QED BY <1>1, <1>2, <1>3 DEF TickInv, TickTypeOK, RetryOK

LEMMA FailsWait ==
  ASSUME RetryOK, NEW g \in Gid, NEW h, Fails(g, h)
  PROVE  /\ attempts' \in [Gid -> 0..(MaxShift + 1)]
         /\ \A i \in Gid : attempts'[i] # attempts[i] =>
              /\ i = g /\ g \notin Callback
              /\ attempts'[g] = attempts[g] + 1
              /\ wait'[g] = DelayAfter(attempts[g] + 1)
         /\ \E m \in 1..(MaxShift + 1) : wait' = [wait EXCEPT ![g] = DelayAfter(m)]
<1> DEFINE n == Least(attempts[g] + 1, MaxShift + 1)
<1>1. n \in 1..(MaxShift + 1) /\ (n # attempts[g] => n = attempts[g] + 1)
  BY RecoveryTickAssumption DEF RetryOK, Least
<1>2. /\ attempts' = [attempts EXCEPT ![g] = IF g \in Callback THEN @ ELSE n]
      /\ \E d \in Delays(g, n) : wait' = [wait EXCEPT ![g] = d]
  BY DEF Fails
<1> HIDE DEF n
<1>3. PICK m \in 1..(MaxShift + 1) :
        /\ wait' = [wait EXCEPT ![g] = DelayAfter(m)]
        /\ g \notin Callback => m = n
  BY <1>1, <1>2 DEF Delays
<1>4. attempts' \in [Gid -> 0..(MaxShift + 1)]
  BY <1>1, <1>2 DEF RetryOK
<1>5. ASSUME NEW i \in Gid, attempts'[i] # attempts[i]
      PROVE  /\ i = g /\ g \notin Callback
             /\ attempts'[g] = attempts[g] + 1
             /\ wait'[g] = DelayAfter(attempts[g] + 1)
  <2>1. i = g /\ g \notin Callback /\ attempts'[g] = n
    BY <1>2, <1>5 DEF RetryOK
  <2>2. n = attempts[g] + 1 /\ m = n
    BY <1>1, <1>3, <1>5, <2>1
  <2>3. wait'[g] = DelayAfter(m)
    BY <1>3 DEF RetryOK
  <2> QED BY <2>1, <2>2, <2>3
<1> QED BY <1>3, <1>4, <1>5

LEMMA FailsKeeps ==
  ASSUME TickInv, NEW g \in Gid, NEW h, Fails(g, h)
  PROVE  /\ stage' \in [Gid -> Stage] /\ RetryOK'
         /\ \A i \in Gid \ {g} : wait'[i] = wait[i] /\ stage'[i] = stage[i]
<1>1. PICK s \in Failed(g, h) : stage' = [stage EXCEPT ![g] = s]
  BY DEF Fails
<1>2. s \in Stage
  BY <1>1 DEF Failed, Stage
<1>3. PICK m \in 1..(MaxShift + 1) : wait' = [wait EXCEPT ![g] = DelayAfter(m)]
  BY FailsWait DEF TickInv, TickTypeOK
<1>4. DelayAfter(m) \in Nat
  BY DelayGrows, RecoveryTickAssumption DEF Greatest
<1>5. attempts' \in [Gid -> 0..(MaxShift + 1)]
  BY FailsWait DEF TickInv, TickTypeOK
<1> QED BY <1>1, <1>2, <1>3, <1>4, <1>5 DEF TickInv, TickTypeOK, RetryOK

LEMMA TakeLeaseKeeps ==
  ASSUME TickInv, NEW w \in Worker, TakeLease(w)
  PROVE  TickInv'
<1>1. \A pc \in {"idle", "insert"} : [worker[w] EXCEPT !.pc = pc] \in WorkerType
  BY DEF TickInv, TickTypeOK, RetryOK, WorkerType
<1>2. ASSUME NEW pc \in {"idle", "insert"},
             worker' = [worker EXCEPT ![w].pc = pc],
             UNCHANGED <<lease, stage, timedOut, wait, attempts, meddled, late>>
      PROVE  TickInv'
  <2>1. worker' = [worker EXCEPT ![w] = [worker[w] EXCEPT !.pc = pc]]
    BY <1>2
  <2>2. [worker[w] EXCEPT !.pc = pc].pc # "tick"
    BY DEF TickInv, TickTypeOK
  <2> QED BY <1>1, <1>2, <2>1, <2>2, WorkerRests
<1>3. CASE RenewLease(w)
  BY <1>2, <1>3, BeginTickKeeps DEF RenewLease, leaseVars, recordVars
<1>4. CASE InsertLease(w)
  BY <1>2, <1>4, BeginTickKeeps DEF InsertLease, leaseVars, recordVars
<1> QED BY <1>3, <1>4 DEF TakeLease

LEMMA HandleKeeps ==
  ASSUME TickInv, NEW w \in Worker, Handle(w)
  PROVE  TickInv'
<1>1. ASSUME EndTick(w), UNCHANGED <<lease, stage, timedOut, wait, attempts, meddled>>
      PROVE  TickInv'
  BY <1>1, IdleWorkerType, WorkerRests DEF EndTick, IdleWorker
<1>2. ASSUME NEW g \in Gid, HandlerEnds(w, g)
      PROVE  TickInv'
  BY <1>2, SucceedsKeeps, GoOnKeeps DEF HandlerEnds, leaseVars, historyVars, InTime
<1>3. ASSUME NEW g \in Gid, HandlerRetries(w, g)
      PROVE  TickInv'
  <2>1. w \in late => InTime(g)'
    BY <1>3 DEF HandlerRetries, InTime
  <2> QED BY <1>3, <2>1, FailsKeeps, GoOnKeeps DEF HandlerRetries, leaseVars
<1>4. ASSUME NEW g \in Gid, At(w, g), GoOn(w, g),
             UNCHANGED <<lease, stage, timedOut, wait, attempts, late, meddled>>
      PROVE  TickInv'
  <2>1. InTime(g) => InTime(g)'
    BY <1>4 DEF InTime
  <2> QED BY <1>4, <2>1, GoOnKeeps DEF TickInv, TickTypeOK, RetryOK
<1>5. ASSUME NEW g \in Gid, HandlerYields(w, g) \/ AlreadyEnded(w, g)
      PROVE  TickInv'
  BY <1>1, <1>4, <1>5
    DEF HandlerYields, AlreadyEnded, leaseVars, recordVars, historyVars
<1>6. ASSUME NEW g \in Gid, HandlerErrs(w, g)
      PROVE  TickInv'
  BY <1>1, <1>6 DEF HandlerErrs, leaseVars, recordVars
<1>7. CASE TickEnds(w)
  BY <1>1, <1>7 DEF TickEnds, leaseVars, recordVars
<1> QED BY <1>2, <1>3, <1>5, <1>6, <1>7 DEF Handle

(* What clients and administrators do.                                     *)
LEMMA RequestsKeep ==
  ASSUME TickInv, NEW g \in Gid,
         RequestHandles(g) \/ Commit(g) \/ Abort(g) \/ ForceStop(g) \/ ResetRetry(g)
  PROVE  TickInv'
<1>1. ASSUME UNCHANGED <<leaseVars, timedOut, worker, late>>,
             stage' \in [Gid -> Stage], RetryOK',
             \A i \in Gid \ {g} : wait'[i] = wait[i] /\ stage'[i] = stage[i],
             meddled \subseteq meddled',
             InTime(g) => InTime(g)'
      PROVE  TickInv'
  <2>1. \A i \in Gid : InTime(i) => InTime(i)'
    BY <1>1 DEF InTime
  <2> QED BY <1>1, <2>1, WorkStays DEF leaseVars, TickInv, TickTypeOK
<1>2. CASE RequestHandles(g)
  <2>1. PICK h : \/ Succeeds(g, h) /\ UNCHANGED meddled
                 \/ Fails(g, h) /\ meddled' = meddled \cup {g}
    BY <1>2 DEF RequestHandles
  <2>2. UNCHANGED <<leaseVars, timedOut, worker, late>>
    BY <1>2 DEF RequestHandles
  <2>3. CASE Succeeds(g, h) /\ UNCHANGED meddled
    <3>1. wait'[g] = 0
      BY <2>3, SucceedsKeeps
    <3>2. InTime(g)'
      BY <3>1 DEF InTime
    <3> QED BY <1>1, <2>2, <2>3, <3>2, SucceedsKeeps
  <2>4. CASE Fails(g, h) /\ meddled' = meddled \cup {g}
    <3>1. InTime(g)'
      BY <2>4 DEF InTime
    <3> QED BY <1>1, <2>2, <2>4, <3>1, FailsKeeps
  <2> QED BY <2>1, <2>3, <2>4
<1>3. CASE Commit(g)
  <2>1. PICK s \in {"committing", "open"} : stage' = [stage EXCEPT ![g] = s]
    BY <1>3 DEF Commit
  <2>2. stage' \in [Gid -> Stage] /\ \A i \in Gid \ {g} : stage'[i] = stage[i]
    BY <2>1 DEF TickInv, TickTypeOK, Stage
  <2>3. InTime(g) => InTime(g)'
    BY <1>3 DEF Commit, InTime, historyVars
  <2> QED BY <1>1, <1>3, <2>2, <2>3 DEF Commit, historyVars, TickInv, TickTypeOK, RetryOK
<1>4. CASE Abort(g)
  <2>1. stage' \in [Gid -> Stage] /\ \A i \in Gid \ {g} : stage'[i] = stage[i]
    BY <1>4 DEF Abort, TickInv, TickTypeOK, Stage
  <2>2. /\ RetryOK' /\ \A i \in Gid \ {g} : wait'[i] = wait[i]
        /\ wait'[g] = wait[g] \/ wait'[g] = 0
    BY <1>4 DEF Abort, TickInv, TickTypeOK, RetryOK
  <2>3. InTime(g) => InTime(g)'
    BY <1>4, <2>2 DEF Abort, InTime, historyVars
  <2> QED BY <1>1, <1>4, <2>1, <2>2, <2>3 DEF Abort, historyVars
<1>5. CASE ForceStop(g) \/ ResetRetry(g)
  <2>1. stage' \in [Gid -> Stage] /\ \A i \in Gid \ {g} : stage'[i] = stage[i]
    BY <1>5 DEF ForceStop, ResetRetry, TickInv, TickTypeOK, Stage
  <2>2. RetryOK' /\ wait'[g] = 0 /\ \A i \in Gid \ {g} : wait'[i] = wait[i]
    BY <1>5 DEF ForceStop, ResetRetry, TickInv, TickTypeOK, RetryOK
  <2>3. InTime(g)'
    BY <2>2 DEF InTime
  <2> QED BY <1>1, <1>5, <2>1, <2>2, <2>3 DEF ForceStop, ResetRetry, historyVars
<1> QED BY <1>2, <1>3, <1>4, <1>5

LEMMA SurroundingsKeep ==
  ASSUME TickInv,
         (\E g \in Gid : TimesOut(g)) \/ TimePasses \/ LeaseLapses \/ (\E w \in Worker : Die(w))
  PROVE  TickInv'
<1>1. ASSUME NEW g \in Gid, TimesOut(g) PROVE TickInv'
  <2>1. \A i \in Gid : InTime(i) => InTime(i)'
    BY <1>1 DEF TimesOut, InTime, recordVars, historyVars, TickInv, TickTypeOK
  <2> QED BY <1>1, <2>1, WorkStays
        DEF TimesOut, leaseVars, recordVars, historyVars, TickInv, TickTypeOK, RetryOK
<1>2. CASE TimePasses
  <2>1. PICK d \in Gid : wait' = [h \in Gid |-> Greatest(wait[h] - wait[d], 0)] /\ wait[d] > 0
    BY <1>2 DEF TimePasses
  <2>2. RetryOK' /\ \A i \in Gid : wait[i] = 0 => wait'[i] = 0
    BY <1>2, <2>1 DEF TimePasses, Greatest, TickInv, TickTypeOK, RetryOK
  <2>3. \A i \in Gid : InTime(i) => InTime(i)'
    BY <1>2, <2>2 DEF TimePasses, InTime, historyVars
  <2> QED BY <1>2, <2>2, <2>3, WorkStays
        DEF TimePasses, leaseVars, historyVars, TickInv, TickTypeOK
<1>3. CASE LeaseLapses
  <2>1. /\ UNCHANGED <<worker, stage, timedOut, wait, meddled>>
        /\ late \subseteq late'
        /\ worker[lease.owner].pc = "tick" => lease.owner \in late'
        /\ lease.live
    BY <1>3 DEF LeaseLapses, recordVars
  <2>2. \A w \in Worker : worker[w].pc = "tick" => w \in late'
    BY <2>1 DEF TickInv, LeaseHeld
  <2>3. ~(lease'.live)
    BY <1>3 DEF LeaseLapses
  <2>4. attempts' = attempts
    BY <1>3 DEF LeaseLapses, recordVars
  <2> QED BY <2>1, <2>2, <2>3, <2>4 DEF TickInv, LeaseHeld, TickTypeOK, RetryOK
<1>4. ASSUME NEW w \in Worker, Die(w) PROVE TickInv'
  <2>1. [IdleWorker EXCEPT !.pc = "dead"] \in WorkerType
    BY IdleWorkerType DEF WorkerType
  <2>2. [IdleWorker EXCEPT !.pc = "dead"].pc # "tick"
    BY DEF IdleWorker
  <2> QED BY <1>4, <2>1, <2>2, WorkerRests DEF Die, leaseVars, recordVars
<1> QED BY <1>1, <1>2, <1>3, <1>4

LEMMA TickInvHolds == /\ TickInit => TickInv
                      /\ TickInv /\ [TickNext]_recoveryVars => TickInv'
<1>1. TickInit => TickInv
  <2> SUFFICES ASSUME TickInit PROVE TickInv
    OBVIOUS
  <2>1. worker \in [Worker -> WorkerType]
    BY IdleWorkerType DEF TickInit
  <2>2. TickTypeOK
    BY <2>1, RecoveryTickAssumption DEF TickInit, TickTypeOK, RetryOK, WorkerType, Stage
  <2>3. LeaseHeld
    BY DEF TickInit, LeaseInit, LeaseHeld, IdleWorker
  <2> QED BY <2>2, <2>3 DEF TickInv
<1>2. TickInv /\ [TickNext]_recoveryVars => TickInv'
  <2> SUFFICES ASSUME TickInv, [TickNext]_recoveryVars PROVE TickInv'
    OBVIOUS
  <2>1. CASE UNCHANGED recoveryVars
    BY <2>1 DEF recoveryVars, leaseVars, tickVars, recordVars, historyVars,
                TickInv, TickTypeOK, RetryOK, LeaseHeld, InTime
  <2>2. CASE TickNext
    BY <2>2, TakeLeaseKeeps, HandleKeeps, RequestsKeep, SurroundingsKeep DEF TickNext
  <2> QED BY <2>1, <2>2
<1> QED BY <1>1, <1>2

(* Of the workers whose tick has not outlived its lease, at most one works *)
(* through a list, and it calls what failed before only when the retry is  *)
(* due or the transaction expired, unless a request or a late worker       *)
(* called it in vain meanwhile: for any number of workers, transactions    *)
(* and requests, however the two statements of the lease interleave and    *)
(* whoever dies or fails.                                                  *)
THEOREM OneWorkerHolds == TickSpec => []OneWorkerAtATime
<1>1. TickInit => TickInv
  BY TickInvHolds
<1>2. TickInv /\ [TickNext]_recoveryVars => TickInv'
  BY TickInvHolds
<1>3. TickInv => OneWorkerAtATime
  BY DEF TickInv, LeaseHeld, OneWorkerAtATime, At
<1> QED BY <1>1, <1>2, <1>3, PTL DEF TickSpec

(* Only a failure counts an attempt, or makes a transaction wait longer.   *)
LEMMA RetryStep ==
  ASSUME TickInv, [TickNext]_recoveryVars
  PROVE  \/ attempts' = attempts /\ \A g \in Gid : ~(wait'[g] > wait[g])
         \/ \E g \in Gid, h \in Handler : Fails(g, h)
<1> DEFINE Shorter == attempts' = attempts /\ \A g \in Gid : ~(wait'[g] > wait[g])
<1>1. ASSUME UNCHANGED <<attempts, wait>> PROVE Shorter
  BY <1>1 DEF TickInv, TickTypeOK, RetryOK
<1>2. ASSUME NEW g \in Gid, attempts' = attempts, wait' = [wait EXCEPT ![g] = 0]
      PROVE  Shorter
  BY <1>2 DEF TickInv, TickTypeOK, RetryOK
<1> HIDE DEF Shorter
<1>3. ASSUME NEW w \in Worker, TakeLease(w) \/ Die(w) PROVE Shorter
  BY <1>1, <1>3 DEF TakeLease, RenewLease, InsertLease, Die, recordVars
<1>4. ASSUME NEW w \in Worker, Handle(w)
      PROVE  Shorter \/ \E g \in Gid, h \in Handler : Fails(g, h)
  <2>1. ASSUME NEW g \in Gid, HandlerEnds(w, g) PROVE Shorter
    BY <1>2, <2>1 DEF HandlerEnds, Succeeds
  <2>2. ASSUME NEW g \in Gid, HandlerRetries(w, g)
        PROVE  \E h \in Handler : Fails(g, h)
    <3>1. worker[w].todo \in Todo /\ g \in DOMAIN worker[w].todo
      BY <2>2 DEF HandlerRetries, At, TickInv, TickTypeOK
    <3>2. worker[w].todo[g].handler \in Handler
      BY <3>1 DEF Todo
    <3> QED BY <2>2, <3>2 DEF HandlerRetries
  <2>3. ASSUME NEW g \in Gid,
               HandlerYields(w, g) \/ AlreadyEnded(w, g) \/ HandlerErrs(w, g)
        PROVE  Shorter
    BY <1>1, <2>3 DEF HandlerYields, AlreadyEnded, HandlerErrs, recordVars
  <2>4. CASE TickEnds(w)
    BY <1>1, <2>4 DEF TickEnds, recordVars
  <2> QED BY <1>4, <2>1, <2>2, <2>3, <2>4 DEF Handle
<1>5. ASSUME NEW g \in Gid, RequestHandles(g)
      PROVE  Shorter \/ \E h \in Handler : Fails(g, h)
  <2>1. PICK h \in Requested(g) : Succeeds(g, h) \/ Fails(g, h)
    BY <1>5 DEF RequestHandles
  <2>2. h \in Handler
    BY <2>1 DEF Requested, Handler
  <2> QED BY <1>2, <2>1, <2>2 DEF Succeeds
<1>6. ASSUME NEW g \in Gid,
             Commit(g) \/ Abort(g) \/ ForceStop(g) \/ ResetRetry(g) \/ TimesOut(g)
      PROVE  Shorter
  <2>1. attempts' = attempts
        /\ (wait' = wait \/ wait' = [wait EXCEPT ![g] = 0])
    BY <1>6 DEF Commit, Abort, ForceStop, ResetRetry, TimesOut, recordVars,
                TickInv, TickTypeOK, RetryOK
  <2> QED BY <1>1, <1>2, <2>1
<1>7. CASE TimePasses
  <2>1. PICK d \in Gid : wait' = [h \in Gid |-> Greatest(wait[h] - wait[d], 0)] /\ wait[d] > 0
    BY <1>7 DEF TimePasses
  <2>2. \A g \in Gid : wait'[g] <= wait[g] /\ wait'[g] \in Nat
    BY <2>1 DEF Greatest, TickInv, TickTypeOK, RetryOK
  <2>3. attempts' = attempts
    BY <1>7 DEF TimePasses
  <2> QED BY <2>2, <2>3 DEF Shorter, TickInv, TickTypeOK, RetryOK
<1>8. CASE LeaseLapses \/ UNCHANGED recoveryVars
  <2>1. UNCHANGED <<attempts, wait>>
    BY <1>8 DEF LeaseLapses, recoveryVars, tickVars, recordVars
  <2> QED BY <1>1, <2>1 DEF Shorter
<1> QED BY <1>3, <1>4, <1>5, <1>6, <1>7, <1>8 DEF TickNext, Shorter

(* The delays of a failing branch never shrink, but for those of callback  *)
(* Workflows, start at the configured backoff and stay under the limit,    *)
(* for every configuration, also where the product saturates, whoever      *)
(* calls the branch.                                                       *)
THEOREM BackoffAlwaysGrows == TickSpec => BackoffGrows
<1> DEFINE Grows(g) ==
             /\ attempts'[g] # attempts[g] /\ attempts[g] > 0 =>
                  wait'[g] >= DelayAfter(attempts[g])
             /\ wait'[g] > wait[g] =>
                  wait'[g] \in Backoff..Greatest(Backoff, MaxBackoff)
<1>1. TickInit => TickInv
  BY TickInvHolds
<1>2. TickInv /\ [TickNext]_recoveryVars => TickInv'
  BY TickInvHolds
<1>3. TickInv /\ [TickNext]_recoveryVars => \A g \in Gid : Grows(g)
  <2> SUFFICES ASSUME TickInv, [TickNext]_recoveryVars, NEW g \in Gid
               PROVE  Grows(g)
    OBVIOUS
  <2>1. CASE attempts' = attempts /\ \A i \in Gid : ~(wait'[i] > wait[i])
    BY <2>1
  <2>2. ASSUME NEW i \in Gid, NEW h \in Handler, Fails(i, h)
        PROVE  Grows(g)
    <3>1. /\ \A j \in Gid : attempts'[j] # attempts[j] =>
               j = i /\ wait'[i] = DelayAfter(attempts[i] + 1)
          /\ \E m \in 1..(MaxShift + 1) : wait' = [wait EXCEPT ![i] = DelayAfter(m)]
      BY <2>2, FailsWait DEF TickInv, TickTypeOK
    <3>2. wait'[g] > wait[g] => wait'[g] \in Backoff..Greatest(Backoff, MaxBackoff)
      <4>1. PICK m \in 1..(MaxShift + 1) : wait' = [wait EXCEPT ![i] = DelayAfter(m)]
        BY <3>1
      <4>2. CASE g = i
        <5>1. wait'[g] = DelayAfter(m)
          BY <4>1, <4>2 DEF TickInv, TickTypeOK, RetryOK
        <5>2. m \in Nat \ {0}
          BY RecoveryTickAssumption
        <5> QED BY <5>1, <5>2, DelayGrows
      <4>3. CASE g # i
        <5>1. wait'[g] = wait[g] /\ wait[g] \in Nat
          BY <4>1, <4>3 DEF TickInv, TickTypeOK, RetryOK
        <5> QED BY <5>1
      <4> QED BY <4>2, <4>3
    <3>3. attempts'[g] # attempts[g] /\ attempts[g] > 0 =>
            wait'[g] >= DelayAfter(attempts[g])
      <4>1. attempts[g] \in Nat
        BY RecoveryTickAssumption DEF TickInv, TickTypeOK, RetryOK
      <4> QED BY <3>1, <4>1, DelayGrows
    <3> QED BY <3>2, <3>3
  <2> QED BY <2>1, <2>2, RetryStep
<1>4. TickInv /\ [TickNext]_recoveryVars => [\A g \in Gid : Grows(g)]_recoveryVars
  BY <1>3
<1> QED BY <1>1, <1>2, <1>4, PTL DEF TickSpec, BackoffGrows

=============================================================================
