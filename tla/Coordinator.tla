---------------------------- MODULE Coordinator ----------------------------
(***************************************************************************)
(* The part of the coordinator every transaction kind shares: the stored   *)
(* record of one global transaction, the branch barrier table, and the     *)
(* drivers, which are the concurrent executions of handlers of struct Dtm  *)
(* (request handlers and recovery workers) working on that transaction.    *)
(*                                                                         *)
(* A handler reads the record once, works on its own copy, and writes the  *)
(* copy back; every await point in between is a place where other drivers  *)
(* run.  A driver therefore has a program counter and a private copy:      *)
(*                                                                         *)
(*   idle     no handler is running                                        *)
(*   chosen   a handler was chosen and is about to read the record         *)
(*   mark     about to write the decision before the loop is entered       *)
(*   loop     in the handler's loop, about to look at branch number pos    *)
(*   invoke   the barrier is held and the branch is being called           *)
(*   save     the call succeeded, about to write the copy and go on        *)
(*   release  the call failed, the barrier is about to be released         *)
(*   persist  about to write the copy back and return                      *)
(*   handover about to write the copy back and start the abort handler     *)
(*                                                                         *)
(* Time is abstracted: a retry is due whenever the model lets it run, and  *)
(* expired becomes TRUE at an arbitrary moment.                            *)
(***************************************************************************)
EXTENDS Integers, Sequences, FiniteSets

CONSTANTS
  Branch,       \* every branch id the model knows
  Initial,      \* the branch ids of the submitted transaction, in order
  Worker,       \* drivers that run recovery ticks
  Client,       \* drivers that run handlers on behalf of API requests
  Endpoints,    \* the API operations the clients may call
  Cas,          \* TRUE: Redis, a write needs the revision it was read at
                \* FALSE: memory, SQLite, PostgreSQL, MySQL: blind upsert
  MaxAttempts,  \* TransactionOptions retry_limit + 1, or DtmOptions default
  CanExpire,    \* may timeout_millis elapse in this instance
  MaxRequests,  \* bound: API requests that only read and write the record
  MaxCalls,     \* bound: API requests that run a handler with branch calls
  MaxFailures,  \* bound: failing branch calls
  MaxCrashes    \* bound: abandoned handlers

Driver == Worker \cup Client

ASSUME CoordinatorAssumption ==
  /\ Initial \in Seq(Branch)
  /\ Cas \in BOOLEAN
  /\ CanExpire \in BOOLEAN
  /\ MaxAttempts \in Nat \ {0}
  /\ MaxRequests \in Nat
  /\ MaxCalls \in Nat
  /\ MaxFailures \in Nat
  /\ MaxCrashes \in Nat

VARIABLES
  tx,        \* the stored transaction record
  barriers,  \* the stored barrier keys, <<branch, operation>>
  drv,       \* the drivers
  expired,   \* has timeout_millis elapsed
  budget,    \* what is left of the four bounds
  acked,     \* history: keys whose call returned Ok to the coordinator
  effects    \* history: keys whose call took effect at the branch

vars == <<tx, barriers, drv, expired, budget, acked, effects>>

-----------------------------------------------------------------------------
(* The stored record and the barrier table.                                *)

TransactionStatus ==
  {"Submitted", "Trying", "Prepared", "Succeeding", "Succeeded",
   "Aborting", "Aborted", "Failed"}

IsTerminal(status) == status \in {"Succeeded", "Aborted", "Failed"}

BranchStatus ==
  {"Pending", "Running", "Compensating", "Succeeded", "Failed", "Skipped"}

(* ids is the vector of branches, bst and att their status and attempts.   *)
Transaction ==
  [status : TransactionStatus,
   ids    : Seq(Branch),
   bst    : [Branch -> BranchStatus],
   att    : [Branch -> Nat],
   rev    : Nat]

(* What submit() inserts.                                                  *)
NewTransaction ==
  [status |-> "Submitted",
   ids    |-> Initial,
   bst    |-> [b \in Branch |-> "Pending"],
   att    |-> [b \in Branch |-> 0],
   rev    |-> 1]

BarrierOps ==
  {"try", "confirm", "cancel", "commit", "rollback", "action", "compensate",
   "message", "workflow", "workflow_rollback"}

Key == Branch \X BarrierOps

(* Mutants of BarrierDecision: no duplicate check, no check for a Cancel.  *)
NoDuplicateCheck(key) ==
  IF key[2] = "try" /\ <<key[1], "cancel">> \in barriers
    THEN "SkipCancelledTry"
  ELSE IF key[2] = "cancel" /\ <<key[1], "try">> \notin barriers
    THEN "SkipNullCompensation"
  ELSE "Execute"

NoCancelCheck(key) ==
  IF key \in barriers THEN "SkipDuplicate"
  ELSE IF key[2] = "cancel" /\ <<key[1], "try">> \notin barriers
    THEN "SkipNullCompensation"
  ELSE "Execute"

(* TransactionStore::barrier of the memory store, the SQLite store and the *)
(* Redis script, which are atomic: what the caller is told ...             *)
BarrierDecision(key) ==
  IF key \in barriers THEN "SkipDuplicate"
  ELSE IF key[2] = "try" /\ <<key[1], "cancel">> \in barriers
         THEN "SkipCancelledTry"
  ELSE IF key[2] = "cancel" /\ <<key[1], "try">> \notin barriers
         THEN "SkipNullCompensation"
  ELSE "Execute"

(* ... and what the table holds afterwards.                                *)
BarrierTable(key) ==
  IF BarrierDecision(key) = "SkipCancelledTry" THEN barriers
  ELSE barriers \cup {key}

-----------------------------------------------------------------------------
(* Drivers.                                                                *)

Pc == {"idle", "chosen", "mark", "loop", "invoke", "save", "release",
       "persist", "handover"}

(* The handlers a driver can be in.                                        *)
Handler ==
  {"none", "prepare", "confirm", "cancel", "commit", "rollback", "action",
   "compensate", "message", "workflow", "workflow_rollback", "abort_message",
   "schedule_submit", "schedule_abort", "force_stop", "reset_retry"}

(* The barrier operation a handler uses.                                   *)
BarrierOp(op) == IF op = "prepare" THEN "try" ELSE op

(* Mutant of Backwards: every loop goes forward.                           *)
NoneBackwards == {}

(* The handlers whose loop goes through the branches from last to first.   *)
Backwards == {"compensate", "workflow_rollback"}

DriverState == [pc : Pc, op : Handler, pos : Nat, tx : Transaction]

Idle == [pc |-> "idle", op |-> "none", pos |-> 1, tx |-> NewTransaction]

(* The branch a driver in its loop is at.                                  *)
Current(d) ==
  IF drv[d].op \in Backwards
  THEN drv[d].tx.ids[Len(drv[d].tx.ids) + 1 - drv[d].pos]
  ELSE drv[d].tx.ids[drv[d].pos]

(* The key of the barrier the driver takes, holds or releases.             *)
DriverKey(d) == <<Current(d), BarrierOp(drv[d].op)>>

MoreBranches(d) == drv[d].pos <= Len(drv[d].tx.ids)

(* The driver's copy with the status of the branch it is at replaced.      *)
Mark(d, status) == [drv[d].tx EXCEPT !.bst[Current(d)] = status]

(* The driver goes to pc with copy t.                                      *)
Goto(d, pc, t) == drv' = [drv EXCEPT ![d].pc = pc, ![d].tx = t]

(* The driver goes to the next branch with copy t.                         *)
Advance(d, t) ==
  drv' = [drv EXCEPT ![d].pc = "loop", ![d].pos = @ + 1, ![d].tx = t]

Return(d) == drv' = [drv EXCEPT ![d] = Idle]

(* A handler read the record and set its copy's status; nothing is stored. *)
Begin(d, op, pc, status) ==
  drv' = [drv EXCEPT ![d] =
            [pc |-> pc, op |-> op, pos |-> 1,
             tx |-> [tx EXCEPT !.status = status]]]

(* A tick or recover() chose handler op, which is about to read.           *)
Choose(d, op) ==
  drv' = [drv EXCEPT ![d] = [Idle EXCEPT !.pc = "chosen", !.op = op]]

(* One of the bounded events happens.                                      *)
Spend(event) ==
  /\ budget[event] > 0
  /\ budget' = [budget EXCEPT ![event] = @ - 1]

(* A client starts an API operation, "request" or "call" by its bound.     *)
Request(d, event, endpoint) ==
  /\ d \in Client
  /\ drv[d].pc = "idle"
  /\ endpoint \in Endpoints
  /\ Spend(event)

-----------------------------------------------------------------------------
(* Store updates.                                                          *)

(* Mutant of CanStore: the revision is not compared.                       *)
StoreBlindly(t) == TRUE

(* update_transaction of the memory and SQL stores replaces the record     *)
(* whatever it is; that of the Redis store returns an error, which ends    *)
(* the handler, unless the stored revision is the one that was read.       *)
CanStore(t) == Cas => tx.rev = t.rev

(* The revision is only kept where something compares it.                  *)
Bumped(t) == IF Cas THEN [t EXCEPT !.rev = @ + 1] ELSE t

(* persist_transaction followed by the handler's return.                   *)
Persist(d, t) ==
  /\ tx' = IF CanStore(t) THEN Bumped(t) ELSE tx
  /\ Return(d)

(* persist_transaction in the middle of a handler: the copy gets the new   *)
(* revision and the handler goes on, or ends with the store's error.       *)
PersistAndGo(d, t, pc, pos) ==
  IF CanStore(t)
  THEN /\ tx' = Bumped(t)
       /\ drv' = [drv EXCEPT ![d].pc = pc, ![d].pos = pos, ![d].tx = Bumped(t)]
  ELSE tx' = tx /\ Return(d)

-----------------------------------------------------------------------------
(* Operations that do not depend on the kind of the transaction.           *)

(* A recovery tick listed the record and chose handler op for it.          *)
WorkerTick(d, op) ==
  /\ d \in Worker
  /\ drv[d].pc = "idle"
  /\ op # "none"
  /\ Choose(d, op)
  /\ UNCHANGED <<tx, barriers, expired, budget, acked, effects>>

(* recover() read the record and chose handler op for it.                  *)
RecoverRequest(d, op) ==
  /\ Request(d, "call", "recover")
  /\ op # "none"
  /\ Choose(d, op)
  /\ UNCHANGED <<tx, barriers, expired, acked, effects>>

(* A request that only reads the record and writes it with a new status.   *)
StatusRequest(d, endpoint, status) ==
  /\ Request(d, "request", endpoint)
  /\ Begin(d, endpoint, "persist", status)
  /\ UNCHANGED <<tx, barriers, expired, acked, effects>>

ForceStop(d) ==
  /\ ~IsTerminal(tx.status)
  /\ StatusRequest(d, "force_stop", "Failed")

(* The retry times it resets are abstracted; the write is not.             *)
ResetRetry(d) ==
  /\ ~IsTerminal(tx.status)
  /\ StatusRequest(d, "reset_retry", tx.status)

(* TransactionStore::register_branch of every store: one atomic            *)
(* read-check-append; status is what the service gives the new branch.     *)
RegisterBranch(b, status) ==
  /\ "register" \in Endpoints
  /\ tx.status \in {"Submitted", "Prepared"}
  /\ \A i \in 1..Len(tx.ids) : tx.ids[i] # b
  /\ tx' = Bumped([tx EXCEPT !.ids = Append(@, b), !.bst[b] = status])
  /\ Spend("request")
  /\ UNCHANGED <<barriers, drv, expired, acked, effects>>

(* Time passes: is_expired becomes true.                                   *)
Expire ==
  /\ CanExpire
  /\ ~expired
  /\ expired' = TRUE
  /\ UNCHANGED <<tx, barriers, drv, budget, acked, effects>>

-----------------------------------------------------------------------------
(* The steps of a handler's loop that do not depend on the handler.        *)

(* The barrier said Execute: the key is stored and the call is about to be *)
(* made with the attempt counted.                                          *)
Claim(d, t) ==
  /\ barriers' = BarrierTable(DriverKey(d))
  /\ Goto(d, "invoke", [t EXCEPT !.att[Current(d)] = @ + 1])

(* The branch call returned Ok.                                            *)
CallSucceeds(d) ==
  /\ drv[d].pc = "invoke"
  /\ acked' = acked \cup {DriverKey(d)}
  /\ effects' = effects \cup {DriverKey(d)}
  /\ UNCHANGED <<tx, barriers, expired, budget>>

(* The branch call failed or timed out; the branch may have executed it.   *)
CallFails(d) ==
  /\ drv[d].pc = "invoke"
  /\ Spend("failure")
  /\ effects' \in {effects, effects \cup {DriverKey(d)}}
  /\ UNCHANGED <<tx, barriers, expired, acked>>

(* Mutant of ReleaseBarrier: the key stays.                                *)
KeepBarrier(d) ==
  /\ drv[d].pc = "release"
  /\ UNCHANGED <<tx, barriers, expired, budget, acked, effects>>

(* release_barrier, which deletes the key.                                 *)
ReleaseBarrier(d) ==
  /\ drv[d].pc = "release"
  /\ barriers' = barriers \ {DriverKey(d)}
  /\ UNCHANGED <<tx, expired, budget, acked, effects>>

(* The handler writes its copy back and returns.                           *)
Save(d) ==
  /\ drv[d].pc = "persist"
  /\ Persist(d, drv[d].tx)
  /\ UNCHANGED <<barriers, expired, budget, acked, effects>>

(* A handler is abandoned between two steps: the process dies, the request *)
(* future is dropped, or a store call returns an error through `?'.  If a  *)
(* branch was being called, the call may have taken effect.                *)
Abandon(d) ==
  /\ drv[d].pc # "idle"
  /\ Spend("crash")
  /\ IF drv[d].pc = "invoke"
     THEN effects' \in {effects, effects \cup {DriverKey(d)}}
     ELSE effects' = effects
  /\ Return(d)
  /\ UNCHANGED <<tx, barriers, expired, acked>>

Init ==
  /\ tx = NewTransaction
  /\ barriers = {}
  /\ drv = [d \in Driver |-> Idle]
  /\ expired = FALSE
  /\ budget = [request |-> MaxRequests, call |-> MaxCalls,
               failure |-> MaxFailures, crash |-> MaxCrashes]
  /\ acked = {}
  /\ effects = {}

TypeOK ==
  /\ tx \in Transaction
  /\ barriers \subseteq Key
  /\ drv \in [Driver -> DriverState]
  /\ expired \in BOOLEAN
  /\ budget \in [{"request", "call", "failure", "crash"} -> Nat]
  /\ acked \subseteq Key
  /\ effects \subseteq Key

(* The driver holds the barrier of the branch it is at.                    *)
InFlight(d) == drv[d].pc \in {"invoke", "release"}

(* No branch operation is ever called by two drivers at a time, nor again  *)
(* after a call that returned Ok, whatever drivers crash: what barrier()   *)
(* and release_barrier() around every branch call are for.                 *)
BarrierExclusion ==
  /\ \A d, e \in Driver :
       d # e /\ InFlight(d) /\ InFlight(e) => DriverKey(d) # DriverKey(e)
  /\ \A d \in Driver : InFlight(d) => DriverKey(d) \notin acked

(* Ownership of keys: a driver in flight is at a branch of its copy and    *)
(* alone owns the key of the call, which is in the table and not accepted; *)
(* a key that was accepted stays in the table.  It implies the above.      *)
PositionInv ==
  \A d \in Driver :
    /\ drv[d].pos >= 1
    /\ InFlight(d) => MoreBranches(d) /\ BarrierOp(drv[d].op) \in BarrierOps

KeysInv ==
  /\ acked \subseteq barriers
  /\ \A d \in Driver : InFlight(d) => DriverKey(d) \in barriers \ acked
  /\ \A d, e \in Driver :
       d # e /\ InFlight(d) /\ InFlight(e) => DriverKey(d) # DriverKey(e)

(* What is left of a bound is at most the bound.                           *)
BudgetInv ==
  /\ budget.request <= MaxRequests
  /\ budget.call <= MaxCalls
  /\ budget.crash <= MaxCrashes

CoreInv == TypeOK /\ PositionInv /\ KeysInv /\ BudgetInv

(* So far only recovery workers have called branches, and none of them was *)
(* abandoned; and not even a decision has come from outside.               *)
WorkersOnly == budget.call = MaxCalls /\ budget.crash = MaxCrashes
Undisturbed == WorkersOnly /\ budget.request = MaxRequests

(* The recovery lease lets one worker run at a time.                       *)
OneWorker == \A v, w \in Worker : v = w

Members(s) == {s[i] : i \in 1..Len(s)}

-----------------------------------------------------------------------------
(* The phase of the stored transaction, for the abstract specification.    *)

Phase(status) ==
  CASE status \in {"Submitted", "Trying", "Prepared"} -> "open"
    [] status = "Succeeding" -> "committing"
    [] status = "Succeeded"  -> "committed"
    [] status = "Aborting"   -> "aborting"
    [] status = "Aborted"    -> "aborted"
    [] OTHER                 -> "stopped"

Lifecycle == INSTANCE TransactionLifecycle WITH phase <- Phase(tx.status)

=============================================================================
