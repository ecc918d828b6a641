---------------------------- MODULE RecoveryTick ----------------------------
(***************************************************************************)
(* The recovery workers over all transactions of a deployment: the lease   *)
(* before every tick, the list a tick works through from the longest       *)
(* untouched transaction on, the handler it chooses from the listed copy,  *)
(* the backoff that holds a transaction back, the error of one handler     *)
(* that ends the tick, and the requests that come in between.              *)
(*                                                                         *)
(* A transaction is reduced to what the tick sees: how far it is, whether  *)
(* it has expired, and when its failed branch is due, kept as the time     *)
(* that is left.  A handler is one step; what happens within it is in the  *)
(* module of its kind, and so is the delay of a Message.  The store is one *)
(* of the SQL stores, which do not fence.                                  *)
(***************************************************************************)
EXTENDS RecoveryLease, Sequences, SequencesExt

CONSTANTS
  Gid,         \* transactions
  Tcc,         \* those of them that are TCC transactions
  Callback,    \* and callback Workflows; the others may be of any other kind
  Backoff,     \* retry_backoff_millis, in clock units
  MaxBackoff,  \* max_retry_backoff_millis
  MaxShift,    \* 16 in the code
  MaxU64,      \* the largest u64
  MaxEvents    \* bound: failed store calls, workers that die, ticks that
               \* outlive their lease, requests that run a handler, abort or
               \* reset_retry

ASSUME RecoveryTickAssumption ==
  /\ Tcc \subseteq Gid /\ Callback \subseteq Gid /\ Tcc \cap Callback = {}
  /\ Backoff \in Nat \ {0} /\ MaxBackoff \in Nat /\ MaxShift \in Nat
  /\ MaxU64 \in Nat /\ Backoff <= MaxU64 /\ MaxBackoff <= MaxU64
  /\ MaxEvents \in Nat

VARIABLES
  stage,     \* "open" (Submitted, Trying; for Saga and Workflow Succeeding
             \* too), "prepared", "committing" (Succeeding of the others),
             \* "aborting" or "ended"
  timedOut,  \* is the timeout over
  wait,      \* time to next_retry_millis of the failed branch, 0: due
  attempts,  \* calls of the branch, counted up to where the delay is constant
  listing,   \* the transactions by updated_at_millis
  worker,    \* "idle", "insert", "tick" or "dead", and what is left of the
             \* tick: the transactions, each with those that come before it
             \* and the handler that was chosen for it
  events,    \* what is left of the bounded events
  late,      \* history: the workers whose tick has outlived its lease
  meddled    \* history: the transactions that a request or a late worker
             \* called in vain since the holder of the lease listed them

recordVars == <<stage, wait, attempts, listing>>
historyVars == <<late, meddled>>
tickVars == <<recordVars, timedOut, worker, events, historyVars>>
recoveryVars == <<leaseVars, tickVars>>

-----------------------------------------------------------------------------
(* record_branch_failure.                                                  *)

Least(a, b) == IF a < b THEN a ELSE b
Greatest(a, b) == IF a > b THEN a ELSE b

(* Mutant of SaturatingMul: the product wraps around.                      *)
WrappingMul(a, b) == (a * b) % (MaxU64 + 1)

SaturatingMul(a, b) == Least(a * b, MaxU64)

(* 1 << n, which does not overflow for the shifts there are.               *)
ShiftedOne[n \in Nat] == IF n = 0 THEN 1 ELSE 2 * ShiftedOne[n - 1]

(* The delay after the n-th call failed.                                   *)
DelayAfter(n) ==
  Least(SaturatingMul(Backoff, ShiftedOne[Least(Greatest(n - 1, 0), MaxShift)]),
        Greatest(MaxBackoff, Backoff))

-----------------------------------------------------------------------------
(* What a handler does to its transaction.                                 *)

Handler == {"start", "commit", "abort", "query", "expire"}

(* The stages from which a handler works; the others it refuses.           *)
Accepted(g, h) ==
  CASE h = "start"  -> {"open"} \cup {s \in {"prepared"} : g \notin Tcc \cup Callback}
    [] h = "commit" -> {"prepared", "committing"} \cup {s \in {"open"} : g \notin Tcc}
    [] h = "abort"  -> {"open", "prepared", "aborting"}
    [] h = "query"  -> {"prepared"}
    [] h = "expire" -> {"open", "prepared"}

(* The stages in which it leaves the transaction, when all calls succeed.  *)
Reached(g, h) ==
  CASE h # "start"                -> {"ended"}
    [] g \in Tcc \cup Callback   -> {"prepared"}
    [] OTHER                      -> {"prepared", "ended"}

(* And when one does not: TCC, Sagas and Workflows give up and abort.      *)
Failed(g, h) ==
  CASE h = "start" /\ g \notin Callback -> {"open", "aborting"}
    [] h = "commit"                     -> {"committing"}
    [] h = "abort"                      -> {"aborting"}
    [] h = "query"                      -> {"prepared"}
    [] OTHER                            -> {}

(* persist_transaction sets updated_at_millis.                             *)
Touch(g) == listing' = Append(SelectSeq(listing, LAMBDA h : h # g), g)

(* The branches accept, the callback has an answer, or the timeout fails   *)
(* the callback Workflow.                                                  *)
Succeeds(g, h) ==
  /\ stage[g] \in Accepted(g, h)
  /\ \E s \in Reached(g, h) : stage' = [stage EXCEPT ![g] = s]
  /\ wait' = [wait EXCEPT ![g] = 0]
  /\ Touch(g)
  /\ UNCHANGED attempts

(* After the n-th failure.  What a callback Workflow waits depends on its  *)
(* answers (the one for "ongoing" starts over): its calls are not counted. *)
Delays(g, n) ==
  {DelayAfter(m) : m \in IF g \in Callback THEN 1..(MaxShift + 1) ELSE {n}}

(* The branch does not accept: the handler stores the failure and returns  *)
(* Ok.                                                                     *)
Fails(g, h) ==
  LET n == Least(attempts[g] + 1, MaxShift + 1) IN
  /\ stage[g] \in Accepted(g, h)
  /\ \E s \in Failed(g, h) : stage' = [stage EXCEPT ![g] = s]
  /\ attempts' = [attempts EXCEPT ![g] = IF g \in Callback THEN @ ELSE n]
  /\ \E d \in Delays(g, n) : wait' = [wait EXCEPT ![g] = d]
  /\ Touch(g)

-----------------------------------------------------------------------------
(* The tick.                                                               *)

(* Is there something the tick does with g, now or when its retry is due?  *)
(* What is prepared waits for a decision, an aborted callback Workflow is  *)
(* skipped; an expired transaction is always handled.                      *)
Workable(g) ==
  /\ stage[g] # "ended"
  /\ \/ timedOut[g]
     \/ stage[g] \in {"open", "committing"}
     \/ stage[g] = "prepared" /\ g \in Callback
     \/ stage[g] = "aborting" /\ g \notin Callback

(* Mutant of Due: the retry time is not looked at.                         *)
AlwaysDue(g) == Workable(g)

(* An expired transaction is handled whatever its retry time is.           *)
Due(g) == Workable(g) /\ (timedOut[g] \/ wait[g] = 0)

DueNow == {g \in Gid : Due(g)}

(* The handler that the tick calls for g as it is listed.  An expired      *)
(* Message or XA transaction that was submitted is carried out.            *)
Chosen(g) ==
  IF ~timedOut[g]
  THEN [open |-> "start", prepared |-> "query", committing |-> "commit",
        aborting |-> "abort"][stage[g]]
  ELSE IF g \in Callback THEN "expire"
  ELSE IF stage[g] = "committing" /\ g \notin Tcc THEN "commit" ELSE "abort"

(* list_transactions returns h before g.                                   *)
Before(h, g) ==
  \E i, j \in 1..Len(listing) : i < j /\ listing[i] = h /\ listing[j] = g

(* The worker has the lease: it lists the transactions and will handle     *)
(* those that are due now, as they are now.                                *)
BeginTick(w) ==
  /\ AcquireLease(w)
  /\ worker' = [worker EXCEPT ![w] =
                  [pc |-> "tick",
                   todo |-> [g \in DueNow |->
                              [before  |-> {h \in DueNow : Before(h, g)},
                               handler |-> Chosen(g)]]]]
  /\ meddled' = {}

(* try_acquire_recovery_lease takes two statements: an UPDATE of a row     *)
(* that is the worker's or has expired ...  A row is never deleted, so     *)
(* that a worker that finds another's running lease is done.               *)
RenewLease(w) ==
  /\ worker[w].pc = "idle"
  /\ \/ lease.owner # NoOwner /\ BeginTick(w)
     \/ /\ lease.owner = NoOwner
        /\ worker' = [worker EXCEPT ![w].pc = "insert"]
        /\ UNCHANGED <<leaseVars, meddled>>
  /\ UNCHANGED <<recordVars, timedOut, events, late>>

(* ... and an INSERT, which leaves a row alone that another worker has     *)
(* inserted meanwhile.  Without the lease the tick is over.                *)
InsertLease(w) ==
  /\ worker[w].pc = "insert"
  /\ \/ lease.owner = NoOwner /\ BeginTick(w)
     \/ /\ lease.owner # NoOwner
        /\ worker' = [worker EXCEPT ![w].pc = "idle"]
        /\ UNCHANGED <<leaseVars, meddled>>
  /\ UNCHANGED <<recordVars, timedOut, events, late>>

(* The tick is at g, the first of what is left to do.                      *)
At(w, g) ==
  /\ worker[w].pc = "tick"
  /\ g \in DOMAIN worker[w].todo
  /\ worker[w].todo[g].before = {}

(* The tick goes on to the next transaction.                               *)
GoOn(w, g) ==
  worker' = [worker EXCEPT ![w].todo =
               [h \in DOMAIN @ \ {g} |->
                 [before |-> @[h].before \ {g}, handler |-> @[h].handler]]]

BoundedEvent == events > 0 /\ events' = events - 1

IdleWorker == [pc |-> "idle", todo |-> << >>]

(* `?' in the loop: the tick ends, whatever was left to do.                *)
EndTick(w) ==
  /\ worker' = [worker EXCEPT ![w] = IdleWorker]
  /\ late' = late \ {w}

(* The handler reads the transaction again: the one the tick chose for it. *)
HandlerEnds(w, g) ==
  /\ At(w, g) /\ Succeeds(g, worker[w].todo[g].handler)
  /\ GoOn(w, g)
  /\ UNCHANGED <<leaseVars, timedOut, events, historyVars>>

HandlerRetries(w, g) ==
  /\ At(w, g) /\ Fails(g, worker[w].todo[g].handler)
  /\ GoOn(w, g)
  /\ meddled' = meddled \cup {h \in {g} : w \in late}
  /\ UNCHANGED <<leaseVars, timedOut, events, late>>

(* It was prepared since, or the barrier of a branch is held elsewhere     *)
(* (start_saga has stored its transaction by then, start_workflow not).    *)
HandlerYields(w, g) ==
  /\ At(w, g)
  /\ LET h == worker[w].todo[g].handler IN
     \/ h = "start" /\ stage[g] = "prepared" /\ UNCHANGED listing
     \/ /\ g \notin Callback /\ stage[g] \in Accepted(g, h)
        /\ Touch(g) \/ UNCHANGED listing
  /\ GoOn(w, g)
  /\ UNCHANGED <<leaseVars, stage, timedOut, wait, attempts, events, historyVars>>

(* Another worker or a request ended it since it was listed: the handler   *)
(* returns it, or refuses the state it is in.                              *)
AlreadyEnded(w, g) ==
  /\ At(w, g) /\ stage[g] = "ended"
  /\ (GoOn(w, g) /\ UNCHANGED late) \/ EndTick(w)
  /\ UNCHANGED <<leaseVars, recordVars, timedOut, events, meddled>>

(* The handler refuses the stage.  It does so for ever in two cases: the   *)
(* tick calls cancel_tcc for every expired TCC transaction, and            *)
(* expire_callback_workflow for every expired callback Workflow.           *)
Refuses(w, g) ==
  LET h == worker[w].todo[g].handler IN
  /\ stage[g] \notin Accepted(g, h) \cup {"ended"}
  /\ ~(h = "start" /\ stage[g] = "prepared")

(* The handler returns an error: it refuses, or a store call failed.       *)
HandlerErrs(w, g) ==
  /\ At(w, g)
  /\ \/ Refuses(w, g) /\ UNCHANGED events
     \/ BoundedEvent
  /\ EndTick(w)
  /\ UNCHANGED <<leaseVars, recordVars, timedOut, meddled>>

TickEnds(w) ==
  /\ worker[w].pc = "tick" /\ DOMAIN worker[w].todo = {}
  /\ EndTick(w)
  /\ UNCHANGED <<leaseVars, recordVars, timedOut, events, meddled>>

-----------------------------------------------------------------------------
(* What happens around the workers.                                        *)

(* The handlers that requests run: prepare, submit and abort that wait for *)
(* the result, the caller's completion of a callback Workflow, recover().  *)
Requested(g) ==
  IF g \notin Callback THEN {"start", "commit", "abort"}
  ELSE {"start", "query"} \cup {h \in {"expire"} : timedOut[g]}

(* A request runs a handler, whatever the retry time is.                   *)
RequestHandles(g) ==
  /\ BoundedEvent
  /\ \E h \in Requested(g) :
       \/ Succeeds(g, h) /\ UNCHANGED meddled
       \/ Fails(g, h) /\ meddled' = meddled \cup {g}
  /\ UNCHANGED <<leaseVars, timedOut, worker, late>>

(* schedule_submit stores a decision, or that a Workflow may start; it     *)
(* does not look at the timeout.  A Message need not be prepared.          *)
Commit(g) ==
  /\ g \notin Callback
  /\ stage[g] \in {"prepared"} \cup {o \in {"open"} : g \notin Tcc}
  /\ \E s \in {"committing"} \cup {o \in {"open"} : g \notin Tcc} :
       s # stage[g] /\ stage' = [stage EXCEPT ![g] = s]
  /\ Touch(g)
  /\ UNCHANGED <<leaseVars, timedOut, wait, attempts, worker, events, historyVars>>

(* schedule_abort clears the retry times of branches; a callback Workflow  *)
(* has none, and keeps its own.                                            *)
Abort(g) ==
  /\ BoundedEvent
  /\ stage[g] \in {"open", "prepared", "aborting"}
  /\ stage' = [stage EXCEPT ![g] = "aborting"]
  /\ wait' = [wait EXCEPT ![g] = IF g \in Callback THEN @ ELSE 0]
  /\ Touch(g)
  /\ UNCHANGED <<leaseVars, attempts, timedOut, worker, historyVars>>

(* force_stop.                                                             *)
ForceStop(g) ==
  /\ stage[g] # "ended"
  /\ stage' = [stage EXCEPT ![g] = "ended"]
  /\ wait' = [wait EXCEPT ![g] = 0]
  /\ Touch(g)
  /\ UNCHANGED <<leaseVars, attempts, timedOut, worker, events, historyVars>>

(* reset_retry, also as one of a batch.                                    *)
ResetRetry(g) ==
  /\ BoundedEvent
  /\ stage[g] # "ended"
  /\ wait' = [wait EXCEPT ![g] = 0]
  /\ Touch(g)
  /\ UNCHANGED <<leaseVars, stage, timedOut, attempts, worker, historyVars>>

TimesOut(g) ==
  /\ stage[g] # "ended" /\ ~timedOut[g]
  /\ timedOut' = [timedOut EXCEPT ![g] = TRUE]
  /\ UNCHANGED <<leaseVars, recordVars, worker, events, historyVars>>

(* Until the next retry is due; before, nothing changes.                   *)
TimePasses ==
  /\ \E g \in Gid :
       /\ wait[g] > 0 /\ \A h \in Gid : wait[h] > 0 => wait[g] <= wait[h]
       /\ wait' = [h \in Gid |-> Greatest(wait[h] - wait[g], 0)]
  /\ UNCHANGED <<leaseVars, stage, timedOut, attempts, listing, worker,
                 events, historyVars>>

(* The lease runs out, after the tick or during one that takes too long.   *)
LeaseLapses ==
  /\ lease.live
  /\ \/ worker[lease.owner].pc # "tick" /\ UNCHANGED <<events, late>>
     \/ /\ worker[lease.owner].pc = "tick" /\ BoundedEvent
        /\ late' = late \cup {lease.owner}
  /\ lease' = [lease EXCEPT !.live = FALSE]
  /\ UNCHANGED <<fence, expiries, recordVars, timedOut, worker, meddled>>

(* One instance stays up.                                                  *)
Die(w) ==
  /\ worker[w].pc # "dead" /\ \E v \in Worker \ {w} : worker[v].pc # "dead"
  /\ BoundedEvent
  /\ worker' = [worker EXCEPT ![w] = [IdleWorker EXCEPT !.pc = "dead"]]
  /\ late' = late \ {w}
  /\ UNCHANGED <<leaseVars, recordVars, timedOut, meddled>>

-----------------------------------------------------------------------------

TickInit ==
  /\ LeaseInit
  /\ stage = [g \in Gid |-> "open"]
  /\ timedOut = [g \in Gid |-> FALSE]
  /\ wait = [g \in Gid |-> 0]
  /\ attempts = [g \in Gid |-> 0]
  /\ listing = SetToSeq(Gid)
  /\ worker = [w \in Worker |-> IdleWorker]
  /\ events = MaxEvents
  /\ late = {} /\ meddled = {}

TakeLease(w) == RenewLease(w) \/ InsertLease(w)

Handle(w) ==
  \/ \E g \in Gid :
       HandlerEnds(w, g) \/ HandlerRetries(w, g) \/ HandlerYields(w, g)
       \/ AlreadyEnded(w, g) \/ HandlerErrs(w, g)
  \/ TickEnds(w)

TickNext ==
  \/ \E w \in Worker : TakeLease(w) \/ Handle(w) \/ Die(w)
  \/ \E g \in Gid : RequestHandles(g) \/ Commit(g) \/ Abort(g) \/ ForceStop(g)
                    \/ ResetRetry(g) \/ TimesOut(g)
  \/ TimePasses \/ LeaseLapses

(* The ticker fires again, handlers return (every call has a timeout), the *)
(* clock runs and a lease that is not renewed runs out.                    *)
TickFairness ==
  /\ \A w \in Worker :
       WF_recoveryVars(TakeLease(w)) /\ WF_recoveryVars(Handle(w))
  /\ WF_recoveryVars(TimePasses)
  /\ WF_recoveryVars(LeaseLapses)

TickSpec == TickInit /\ [][TickNext]_recoveryVars

FairTickSpec == TickSpec /\ TickFairness

-----------------------------------------------------------------------------
(* Properties.                                                             *)

(* No retry time speaks against calling g.                                 *)
InTime(g) == wait[g] = 0 \/ timedOut[g] \/ stage[g] = "ended" \/ g \in meddled

(* Of the workers whose tick has not outlived its lease, at most one works *)
(* through a list.  It calls no branch that failed before its retry time,  *)
(* unless the transaction expired, or a request or a late worker called    *)
(* the branch in vain after the tick had judged the listed copy due, which *)
(* no handler does again.                                                  *)
OneWorkerAtATime ==
  \A w \in Worker : worker[w].pc = "tick" /\ w \notin late =>
    /\ \A v \in Worker : worker[v].pc = "tick" /\ v \notin late => v = w
    /\ \A g \in Gid : At(w, g) => InTime(g)

(* The delays of a failing branch never shrink, but for those of callback  *)
(* Workflows, start at the configured backoff and stay under the limit,    *)
(* also where the product overflows, whoever calls the branch.             *)
BackoffGrows ==
  [][\A g \in Gid :
       /\ attempts'[g] # attempts[g] /\ attempts[g] > 0 =>
            wait'[g] >= DelayAfter(attempts[g])
       /\ wait'[g] > wait[g] =>
            wait'[g] \in Backoff..Greatest(Backoff, MaxBackoff)]_recoveryVars

(* Every tick that reaches h ends there: cancel_tcc refuses an expired TCC *)
(* transaction with a commit decision, expire_callback_workflow an expired *)
(* callback Workflow that was aborted.  Neither touches it.                *)
AlwaysRefused(h) ==
  /\ timedOut[h]
  /\ \/ h \in Tcc /\ stage[h] = "committing"
     \/ h \in Callback /\ stage[h] = "aborting"

(* A handler of g runs and returns Ok.                                     *)
Handled(w, g) == HandlerEnds(w, g) \/ HandlerRetries(w, g) \/ HandlerYields(w, g)

(* No transaction is starved: one with which the tick has something to do  *)
(* is handled again and again, whatever the others do, workers die and     *)
(* store calls fail; unless a transaction whose handler always refuses it  *)
(* ends the ticks.                                                         *)
NoneStarved ==
  \A g \in Gid :
    <>[](Workable(g) /\ \A h \in Gid : ~AlwaysRefused(h))
      => []<><<\E w \in Worker : Handled(w, g)>>_recoveryVars

-----------------------------------------------------------------------------
(* The inductive invariant behind OneWorkerAtATime.                        *)

(* A lease that runs is a worker's.  Who ticks and is not late holds the   *)
(* lease, and what it has to do is due.                                    *)
LeaseHeld ==
  /\ lease.live => lease.owner \in Worker
  /\ \A w \in Worker : worker[w].pc = "tick" /\ w \notin late =>
       /\ lease.live /\ lease.owner = w
       /\ \A g \in DOMAIN worker[w].todo : g \in Gid /\ InTime(g)

Stage == {"open", "prepared", "committing", "aborting", "ended"}

(* What is left of a tick.                                                 *)
Todo == UNION {[S -> [before : SUBSET Gid, handler : Handler]] : S \in SUBSET Gid}

RetryOK ==
  wait \in [Gid -> Nat] /\ attempts \in [Gid -> 0..(MaxShift + 1)]

(* The functions the steps update.                                         *)
TickTypeOK ==
  /\ worker \in [Worker -> [pc : {"idle", "insert", "tick", "dead"}, todo : Todo]]
  /\ timedOut \in [Gid -> BOOLEAN]
  /\ stage \in [Gid -> Stage]
  /\ RetryOK

=============================================================================
