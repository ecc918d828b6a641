-------------------------- MODULE CallbackWorkflow --------------------------
(***************************************************************************)
(* One callback Workflow: no branches of its own, a caller that records    *)
(* progress and submits the terminal result, and recovery workers that ask *)
(* the caller's QueryPrepared endpoint and enforce the timeout.            *)
(*                                                                         *)
(* record_workflow_progress, finish_workflow and defer_workflow_recovery   *)
(* are atomic in every store.  The other operations read the record and    *)
(* write a copy of it back (pc persist); stale names the drivers whose     *)
(* copy was read before the last write, which is when a comparison of      *)
(* revisions fails.  The times and counters of the retry schedule are      *)
(* abstracted: a retry is due whenever the model lets it run.              *)
(***************************************************************************)
EXTENDS RecoveryLease

CONSTANTS
  Client,       \* drivers that run handlers on behalf of API requests
  Step,         \* progress keys, branch id and operation
  Value,        \* progress contents
  Contracts,    \* the callback contracts a Workflow may have been stored with
  CanExpire,    \* has the Workflow an explicit timeout that may elapse
  MaxRequests,  \* bound: API requests that run a handler
  MaxCrashes    \* bound: abandoned handlers

Driver == Worker \cup Client

ASSUME CallbackAssumption ==
  /\ Worker \cap Client = {}
  /\ CanExpire \in BOOLEAN
  /\ MaxRequests \in Nat
  /\ MaxCrashes \in Nat

VARIABLES
  wf,        \* the stored transaction record
  drv,       \* the drivers
  stale,     \* drivers whose copy is not the stored record any more
  expired,   \* has timeout_millis elapsed
  budget,    \* what is left of the bounds on requests and crashes
  told,      \* history: completions a caller was told are stored
  wrote,     \* history: the epoch of the last recovery write, 0 if none
  contract   \* how QueryPrepared is asked, out of the record's metadata

flow == <<wf, drv, stale, expired, budget, told, wrote, contract>>
vars == <<flow, leaseVars>>

-----------------------------------------------------------------------------
(* The record.                                                             *)

Status == {"Submitted", "Prepared", "Succeeded", "Failed", "Aborting", "Aborted"}

IsTerminal(status) == status \in {"Succeeded", "Failed", "Aborted"}

NoProgress == "none"

(* reason stands for rollback_reason and dtm.workflow.result together.     *)
Reason == {"none", "result", "callback", "timeout"}

Record ==
  [status : Status, reason : Reason, progress : [Step -> Value \cup {NoProgress}]]

NewRecord ==
  [status |-> "Submitted", reason |-> "none",
   progress |-> [s \in Step |-> NoProgress]]

(* What a caller may submit: a result, or a failure without a reason.      *)
Completion == {<<"Succeeded", "result">>, <<"Failed", "none">>}

-----------------------------------------------------------------------------
(* Drivers.                                                                *)

Pc == {"idle", "leased", "read", "persist", "query", "apply", "finish"}

Op == {"none", "prepare", "query", "expire", "failed", "defer", "force_stop",
       "reset_retry", "schedule_abort", "abort"}

Idle == [pc |-> "idle", op |-> "none", copy |-> NewRecord]

Goto(d, pc, op) == drv' = [drv EXCEPT ![d].pc = pc, ![d].op = op]

Return(d) == drv' = [drv EXCEPT ![d] = Idle] /\ stale' = stale \ {d}

(* The driver holds a copy of the record as it is now, with a new status.  *)
TakeCopy(d, op, status) ==
  /\ drv' = [drv EXCEPT ![d] =
               [pc |-> "persist", op |-> op, copy |-> [wf EXCEPT !.status = status]]]
  /\ stale' = stale \ {d}

Spend(event) ==
  /\ budget[event] > 0
  /\ budget' = [budget EXCEPT ![event] = @ - 1]

Request(c) == c \in Client /\ drv[c].pc = "idle" /\ Spend("request")

-----------------------------------------------------------------------------
(* Writes.                                                                 *)

(* The fence of RecoveryFencedStore; a request has none.                   *)
Allowed(d) == d \in Worker => FenceHolds(d)

(* Mutant of CanStore: the revision is not compared.                       *)
StoreBlindly(d) == Allowed(d)

CanStore(d) == Allowed(d) /\ (Redis => d \notin stale)

(* The drivers, other than d, whose copies a write makes stale.            *)
Outdated(d) == {e \in Driver \ {d} : drv[e].pc = "persist"}

(* The write of r by d, after which d goes to pc.                          *)
WriteAndGo(d, r, pc, op) ==
  /\ wf' = r
  /\ drv' = [drv EXCEPT ![d] = [Idle EXCEPT !.pc = pc, !.op = op]]
  /\ stale' = (stale \cup Outdated(d)) \ {d}
  /\ wrote' = IF d \in Worker THEN fence[d] ELSE wrote

Refused(d) == Return(d) /\ UNCHANGED <<wf, wrote>>

(* Mutant of CanFinish: a terminal result may be replaced.                 *)
FinishAnytime(c) == wf.status = "Prepared" \/ IsTerminal(wf.status)

(* apply_workflow_completion changes a Prepared record, and accepts what   *)
(* the record says already.                                                *)
CanFinish(c) == wf.status = "Prepared" \/ <<wf.status, wf.reason>> = c

Finished(c) == [wf EXCEPT !.status = c[1], !.reason = c[2]]

(* finish_workflow by a driver.  On a conflict terminal_after_conflict     *)
(* returns the record or the error; neither changes anything.              *)
Complete(d, c) ==
  IF Allowed(d) /\ CanFinish(c)
  THEN IF Finished(c) = wf THEN Refused(d) ELSE WriteAndGo(d, Finished(c), "idle", "none")
  ELSE Refused(d)

-----------------------------------------------------------------------------
(* QueryPrepared.                                                          *)

(* The stored contract: the configured protocol, whether the URL is an     *)
(* HTTP one, whether it names a JSON-RPC method, and whether URL, name and *)
(* data pass the checks of workflow_callback_request.                      *)
Contract ==
  [protocol : {"none", "http", "json-rpc", "grpc"}, http : BOOLEAN,
   method : BOOLEAN, valid : BOOLEAN]

ASSUME ContractsAssumption == Contracts # {} /\ Contracts \subseteq Contract

CallbackProtocol(k) ==
  IF k.protocol = "grpc" \/ ~k.http THEN "Grpc"
  ELSE IF k.protocol = "json-rpc" \/ (k.protocol = "none" /\ k.method) THEN "JsonRpc"
  ELSE "Http"

(* Replies: an HTTP status, the code of a JSON-RPC error (0 without one),  *)
(* or a gRPC code.  The last of each stands for all others, a connection   *)
(* that fails included.                                                    *)
HttpStatus == {200, 409, 425, 500}
RpcCode == {0, -32901, -32902, -32603}
GrpcCode == {"Ok", "Aborted", "FailedPrecondition", "Unavailable"}

(* WorkflowCallbackResult, or the error of the call.                       *)
CallbackResult == {"Completed", "Failed", "Ongoing", "error"}

HttpResult(status) ==
  CASE status = 200 -> "Completed"
    [] status = 409 -> "Failed"
    [] status = 425 -> "Ongoing"
    [] OTHER        -> "error"

(* A JSON-RPC error comes with HTTP status 200; a status that is not 200   *)
(* counts as it does without JSON-RPC.                                     *)
JsonRpcResult(status, code) ==
  CASE status # 200                    -> HttpResult(status)
    [] status = 200 /\ code = 0        -> "Completed"
    [] status = 200 /\ code = -32901   -> "Failed"
    [] status = 200 /\ code = -32902   -> "Ongoing"
    [] OTHER                           -> "error"

GrpcResult(code) ==
  CASE code = "Ok"                 -> "Completed"
    [] code = "Aborted"            -> "Failed"
    [] code = "FailedPrecondition" -> "Ongoing"
    [] OTHER                       -> "error"

(* What query_workflow_callback may return under contract k.  A JSON-RPC   *)
(* URL without a method is an error before anything is sent.               *)
QueryResults(k) ==
  CASE CallbackProtocol(k) = "Http" -> {HttpResult(s) : s \in HttpStatus}
    [] CallbackProtocol(k) = "JsonRpc" /\ k.method ->
         {JsonRpcResult(s, c) : s \in HttpStatus, c \in RpcCode}
    [] CallbackProtocol(k) = "JsonRpc" /\ ~k.method -> {"error"}
    [] OTHER -> {GrpcResult(c) : c \in GrpcCode}

(* Only a reported failure finishes the Workflow: ongoing, completed and   *)
(* an error defer it.                                                      *)
AfterQuery(result) == IF result = "Failed" THEN "failed" ELSE "defer"

(* defer_workflow_recovery takes a Prepared record and changes its retry   *)
(* schedule only.                                                          *)
MayDefer == wf.status = "Prepared"

-----------------------------------------------------------------------------
(* Recovery.                                                               *)

(* tick_recover_once_with_lease: without the lease the tick is over.       *)
Acquire(w) ==
  /\ drv[w].pc = "idle"
  /\ AcquireLease(w)
  /\ Goto(w, "leased", "none")
  /\ UNCHANGED <<wf, stale, expired, budget, told, wrote, contract>>

(* Mutant of Dispatch: the timeout is not looked at.                       *)
DispatchUntimed(d) ==
  CASE wf.status = "Submitted" -> Goto(d, "read", "prepare")
    [] wf.status = "Prepared"  -> Goto(d, "read", "query")
    [] OTHER                   -> drv' = [drv EXCEPT ![d] = Idle]

(* What a tick and recover() do with the record they read: choose a        *)
(* handler, which reads again, or expire_callback_workflow, which goes by  *)
(* what was read; a Workflow in any other state is refused or skipped.     *)
Dispatch(d) ==
  CASE expired /\ wf.status = "Prepared"   -> Goto(d, "finish", "expire")
    [] expired /\ wf.status = "Submitted"  -> Goto(d, "read", "expire")
    [] ~expired /\ wf.status = "Submitted" -> Goto(d, "read", "prepare")
    [] ~expired /\ wf.status = "Prepared"  -> Goto(d, "read", "query")
    [] OTHER                               -> drv' = [drv EXCEPT ![d] = Idle]

List(w) ==
  /\ drv[w].pc = "leased"
  /\ Dispatch(w)
  /\ UNCHANGED <<wf, stale, expired, budget, told, wrote, contract, leaseVars>>

Recover(c) ==
  /\ Request(c)
  /\ Dispatch(c)
  /\ UNCHANGED <<wf, stale, expired, told, wrote, contract, leaseVars>>

(* The handler reads the record: prepare_workflow, also from               *)
(* expire_callback_workflow, or recover_callback_workflow, which defers    *)
(* the Workflow at once if its contract is not valid.                      *)
Read(d) ==
  /\ drv[d].pc = "read"
  /\ \/ /\ drv[d].op \in {"prepare", "expire"} /\ wf.status = "Submitted"
        /\ TakeCopy(d, drv[d].op, "Prepared")
     \/ /\ drv[d].op = "expire" /\ wf.status = "Prepared"
        /\ Goto(d, "finish", "expire") /\ UNCHANGED stale
     \/ /\ drv[d].op = "query" /\ wf.status = "Prepared" /\ contract.valid
        /\ Goto(d, "query", "query") /\ UNCHANGED stale
     \/ /\ drv[d].op = "query" /\ wf.status = "Prepared" /\ ~contract.valid
        /\ Goto(d, "apply", "defer") /\ UNCHANGED stale
     \/ /\ \/ wf.status \notin {"Submitted", "Prepared"}
           \/ drv[d].op = "prepare" /\ wf.status = "Prepared"
           \/ drv[d].op = "query" /\ wf.status = "Submitted"
        /\ Return(d)
  /\ UNCHANGED <<wf, expired, budget, told, wrote, contract, leaseVars>>

(* persist_transaction: stores the copy or ends the handler with an error. *)
Persist(d) ==
  /\ drv[d].pc = "persist"
  /\ IF ~CanStore(d) THEN Refused(d)
     ELSE IF drv[d].op = "expire" THEN WriteAndGo(d, drv[d].copy, "finish", "expire")
     ELSE WriteAndGo(d, drv[d].copy, "idle", "none")
  /\ UNCHANGED <<expired, budget, told, contract, leaseVars>>

(* QueryPrepared answered, or could not be asked, and the record is read   *)
(* again.                                                                  *)
Answer(d) ==
  /\ drv[d].pc = "query"
  /\ IF wf.status = "Prepared"
     THEN /\ \E result \in QueryResults(contract) : Goto(d, "apply", AfterQuery(result))
          /\ UNCHANGED stale
     ELSE Return(d)
  /\ UNCHANGED <<wf, expired, budget, told, wrote, contract, leaseVars>>

Apply(d) ==
  /\ drv[d].pc = "apply"
  /\ IF drv[d].op = "failed" THEN Complete(d, <<"Failed", "callback">>)
     ELSE IF Allowed(d) /\ MayDefer
     THEN WriteAndGo(d, wf, "idle", "none")
     ELSE Refused(d)
  /\ UNCHANGED <<expired, budget, told, contract, leaseVars>>

(* The end of expire_callback_workflow.                                    *)
FinishExpired(d) ==
  /\ drv[d].pc = "finish"
  /\ Complete(d, <<"Failed", "timeout">>)
  /\ UNCHANGED <<expired, budget, told, contract, leaseVars>>

-----------------------------------------------------------------------------
(* Requests.                                                               *)

(* Prepare reaches prepare_workflow after submit() has stored the record.  *)
Prepare(c) ==
  /\ Request(c)
  /\ Goto(c, "read", "prepare")
  /\ UNCHANGED <<wf, stale, expired, told, wrote, contract, leaseVars>>

(* Operations that read the record and write it with another status: force *)
(* stop, reset of the retry time, WaitResult=false and synchronous abort.  *)
StatusRequest(c) ==
  /\ Request(c)
  /\ ~IsTerminal(wf.status)
  /\ \/ TakeCopy(c, "force_stop", "Failed")
     \/ TakeCopy(c, "reset_retry", wf.status)
     \/ TakeCopy(c, "schedule_abort", "Aborting")
     \/ TakeCopy(c, "abort", "Aborted")
  /\ UNCHANGED <<wf, expired, told, wrote, contract, leaseVars>>

(* Submit with a completion: finish_callback_workflow.  The answer may be  *)
(* lost on its way to the caller.                                          *)
Finish(c) ==
  /\ Request(c)
  /\ \E e \in Completion :
       /\ CanFinish(e)
       /\ wf' = Finished(e)
       /\ stale' = IF wf' = wf THEN stale ELSE stale \cup Outdated(c)
       /\ told' \in {told, told \cup {e}}
  /\ UNCHANGED <<drv, expired, wrote, contract, leaseVars>>

(* Mutant of Progress: a later value replaces the recorded one.            *)
ProgressReplaces(c) ==
  /\ Request(c)
  /\ wf.status = "Prepared"
  /\ \E s \in Step, v \in Value : wf' = [wf EXCEPT !.progress[s] = v]
  /\ stale' = stale \cup Outdated(c)
  /\ UNCHANGED <<drv, expired, told, wrote, contract, leaseVars>>

(* record_workflow_progress; the recorded value is accepted again, without *)
(* a change, and any other value is refused.                               *)
Progress(c) ==
  /\ Request(c)
  /\ wf.status = "Prepared"
  /\ \E s \in Step, v \in Value :
       /\ wf.progress[s] = NoProgress
       /\ wf' = [wf EXCEPT !.progress[s] = v]
  /\ stale' = stale \cup Outdated(c)
  /\ UNCHANGED <<drv, expired, told, wrote, contract, leaseVars>>

-----------------------------------------------------------------------------

Expire ==
  /\ CanExpire
  /\ ~expired
  /\ expired' = TRUE
  /\ UNCHANGED <<wf, drv, stale, budget, told, wrote, contract, leaseVars>>

(* A handler is abandoned between two steps.                               *)
Abandon(d) ==
  /\ drv[d].pc # "idle"
  /\ Spend("crash")
  /\ Return(d)
  /\ UNCHANGED <<wf, expired, told, wrote, contract, leaseVars>>

Init ==
  /\ LeaseInit
  /\ wf = NewRecord
  /\ drv = [d \in Driver |-> Idle]
  /\ stale = {}
  /\ expired = FALSE
  /\ budget = [request |-> MaxRequests, crash |-> MaxCrashes]
  /\ told = {}
  /\ wrote = 0
  /\ contract \in Contracts

HandlerStep(d) ==
  Read(d) \/ Persist(d) \/ Answer(d) \/ Apply(d) \/ FinishExpired(d)

ClientStep(c) ==
  Prepare(c) \/ StatusRequest(c) \/ Finish(c) \/ Progress(c) \/ Recover(c)

Next ==
  \/ \E w \in Worker : Acquire(w) \/ List(w)
  \/ \E d \in Driver : HandlerStep(d) \/ Abandon(d)
  \/ \E c \in Client : ClientStep(c)
  \/ Expire
  \/ LeaseRunsOut /\ UNCHANGED flow

Spec == Init /\ [][Next]_vars

(* Workers keep ticking, and a handler that runs keeps running.            *)
Fairness ==
  /\ \A w \in Worker : WF_vars(Acquire(w)) /\ WF_vars(List(w))
  /\ \A d \in Driver : WF_vars(HandlerStep(d))

FairSpec == Spec /\ Fairness

-----------------------------------------------------------------------------
(* Properties.                                                             *)

(* The variables stay in their types, and only a driver that is about to   *)
(* write its copy with persist_transaction can have one that is outdated.  *)
CallbackTypeOK ==
  /\ LeaseTypeOK
  /\ wf \in Record
  /\ drv \in [Driver -> [pc : Pc, op : Op, copy : Record]]
  /\ stale \subseteq {d \in Driver : drv[d].pc = "persist"}
  /\ expired \in BOOLEAN
  /\ budget \in [{"request", "crash"} -> Nat]
  /\ told \subseteq Completion
  /\ contract \in Contracts
  /\ wrote \in Nat

(* With revision checks in update_transaction, an end is final: whichever  *)
(* of the caller, QueryPrepared, the timeout and an administrator came     *)
(* first, no late write changes status, reason or progress.                *)
EndIsFinal == [][IsTerminal(wf.status) => wf' = wf]_wf

(* With revision checks in update_transaction, progress that               *)
(* record_workflow_progress stored is never dropped or replaced.           *)
ProgressKept ==
  [][\A s \in Step : wf.progress[s] # NoProgress =>
       wf'.progress[s] = wf.progress[s]]_wf

(* A caller that was told that finish_callback_workflow stored its         *)
(* completion finds this completion in the record forever, so that two     *)
(* callers are never told different ones.                                  *)
CompletionHonoured == \A c \in told : <<wf.status, wf.reason>> = c

(* With the fence of the Redis store, recovery writes follow the order of  *)
(* the leases: once a new holder has written, no write of an earlier       *)
(* holder, delayed past the end of its lease, is accepted.                 *)
EpochOrder == [][wrote' >= wrote]_wrote

(* A Workflow whose timeout elapsed ends, through expire_callback_workflow *)
(* if not otherwise, also when leases run out and handlers die; unless an  *)
(* abort was scheduled.                                                    *)
TimeoutEnds == expired ~> IsTerminal(wf.status) \/ wf.status = "Aborting"

-----------------------------------------------------------------------------
(* The inductive invariant behind the properties above.                    *)

(* With revision checks: a copy whose write would be accepted was taken    *)
(* from the record as it is now, and before it ended.                      *)
CopyInv ==
  Redis => \A d \in Driver :
    drv[d].pc = "persist" /\ d \notin stale =>
      /\ ~IsTerminal(wf.status)
      /\ drv[d].copy.progress = wf.progress

(* No fence and no recovery write is ahead of the lease.                   *)
EpochInv ==
  Redis => /\ wrote <= lease.epoch
           /\ \A w \in Worker : fence[w] <= lease.epoch

=============================================================================
