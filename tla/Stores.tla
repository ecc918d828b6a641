------------------------------- MODULE Stores -------------------------------
(***************************************************************************)
(* The five transaction stores, statement by statement, on one global      *)
(* transaction with one branch: its row, its barrier keys, and the callers *)
(* of the store, each in one operation at a time.  Between two statements  *)
(* of an operation every other caller may run.                             *)
(*                                                                         *)
(*   memory            one write lock around every operation               *)
(*   sqlite            a mutation reads and then compares and swaps the    *)
(*                     payload; a database transaction that has written    *)
(*                     keeps every other writer out                        *)
(*   postgres, mysql   a mutation locks the row with FOR UPDATE; a read in *)
(*                     barrier() sees committed keys only, and an insert   *)
(*                     waits for an uncommitted insert of the same key     *)
(*   redis             a mutation compares and swaps the payload, an       *)
(*                     update also needs the revision it was read at, and  *)
(*                     a barrier is decided by one script                  *)
(*                                                                         *)
(* Assumption: a gid is not used again after its transaction was purged.   *)
(***************************************************************************)
EXTENDS Integers, FiniteSets

CONSTANTS
  Backends,   \* the stores the deployment may use
  Proc,       \* the callers
  Recovery,   \* the callers that are recovery workers and write under a fence
  Mutation,   \* the branches to register and the Workflow progress to record
  MaxTries,   \* attempts of a compare-and-swap mutation, 16 in the code
  Retention,  \* clock units after which a finished and an open one expire
  MaxTime,    \* bound: the clock
  MaxOps,     \* bound: operations that are started
  MaxCrashes, \* bound: callers that die in an operation
  MaxLeases   \* bound: recovery leases that are granted

ASSUME StoresAssumption ==
  /\ Backends \subseteq {"memory", "sqlite", "postgres", "mysql", "redis"}
  /\ Recovery \subseteq Proc
  /\ "nobody" \notin Proc
  /\ MaxLeases \in Nat
  /\ MaxTries \in Nat \ {0}
  /\ Retention \in [finished : Nat \ {0}, open : Nat \ {0}]
  /\ Retention.finished <= Retention.open
  /\ MaxTime \in Nat
  /\ MaxOps \in Nat
  /\ MaxCrashes \in Nat

VARIABLES
  backend,   \* the configured store
  row,       \* the committed row of roze_dtm_transactions
  keys,      \* the committed barrier keys of the branch
  fresh,     \* the barrier key each caller has inserted and not committed
  now,       \* current_millis
  lock,      \* the caller that holds the row lock
  holder,    \* the recovery worker whose lease runs, as Redis knows it
  proc,      \* the callers
  left,      \* what is left of the bounds
  told,      \* history: mutations that returned Ok
  overwrote, \* history: has an update replaced a row it had not read
  purged,    \* history: has retention deleted the transaction
  kept,      \* history: keys whose call succeeded
  nulled,    \* history: has a Cancel been told to skip
  overlapped \* history: have a Try and a Cancel been undecided together

history == <<told, overwrote, purged, kept, nulled, overlapped>>
vars == <<backend, row, keys, fresh, now, lock, holder, proc, left, history>>

NoRow == [rev |-> 0, open |-> FALSE, done |-> {}, at |-> 0]
NoKey == "none"
Nobody == "nobody"

(* The row: its revision, whether its status is not terminal, the          *)
(* mutations it holds, and updated_at_millis.                              *)
Row == [rev : Nat, open : BOOLEAN, done : SUBSET Mutation, at : Nat]

NewRow == [rev |-> 1, open |-> TRUE, done |-> {}, at |-> now]

RowLocking == backend \in {"postgres", "mysql"}
Optimistic == backend \in {"sqlite", "redis"}
Scripted == backend \in {"memory", "redis"}

BarrierOp == {"try", "cancel"}

Idle == [pc |-> "idle", op |-> "none", copy |-> NoRow, tries |-> 0]

Executing(p, key) == proc[p].pc = "call" /\ proc[p].op = key

(* Statements that write the row wait for the caller that locked it.       *)
RowFree(p) == lock \in {Nobody, p}

(* In SQLite a database transaction that has written keeps other writers   *)
(* out.                                                                    *)
MayWrite(p) ==
  backend = "sqlite" => \A q \in Proc \ {p} : fresh[q] = NoKey

(* RecoveryFencedStore sends the writes of a recovery worker to the fenced *)
(* operations, which only Redis has: its scripts compare owner, epoch and  *)
(* expiry of the lease before they change anything.                        *)
Fenced(p) == backend = "redis" /\ p \in Recovery
FenceLost(p) == Fenced(p) /\ holder # p

Become(p, pc) == proc' = [proc EXCEPT ![p].pc = pc]
Done(p) == proc' = [proc EXCEPT ![p] = Idle]

(* bump_transaction_revision.                                              *)
Bump(r) == [r EXCEPT !.rev = @ + 1, !.at = now]

Start(p, op, pc, copy) ==
  /\ proc[p].pc = "idle"
  /\ left.ops > 0
  /\ left' = [left EXCEPT !.ops = @ - 1]
  /\ proc' = [proc EXCEPT ![p] =
                [pc |-> pc, op |-> op, copy |-> copy, tries |-> 0]]
  /\ UNCHANGED <<backend, holder, now, row, keys, fresh, lock, history>>

-----------------------------------------------------------------------------
(* insert_transaction.                                                     *)

(* A gid that exists is refused, and nothing changes.                      *)
InsertTransaction ==
  /\ row = NoRow /\ ~purged
  /\ row' = NewRow
  /\ UNCHANGED <<backend, holder, now, keys, fresh, lock, proc, left, history>>

-----------------------------------------------------------------------------
(* update_transaction: the handlers read a record, work, and write it back *)
(* with a terminal status.                                                 *)

GetTransaction(p) ==
  /\ row # NoRow
  /\ Start(p, "update", "update", row)

(* The memory and SQL stores insert or replace whatever is there.  Redis   *)
(* looks the payload up, compares revisions, and swaps what it looked up.  *)
Replaces(p) ==
  backend = "redis" => /\ ~FenceLost(p)
                       /\ row # NoRow /\ row.rev = proc[p].copy.rev

UpdateTransaction(p) ==
  /\ proc[p].pc = "update"
  /\ MayWrite(p) /\ RowFree(p)
  /\ row' = IF Replaces(p) THEN Bump([proc[p].copy EXCEPT !.open = FALSE])
            ELSE row
  /\ overwrote' = (overwrote \/ (Replaces(p) /\ row # proc[p].copy))
  /\ Done(p)
  /\ UNCHANGED <<backend, holder, now, keys, fresh, lock, left, told, purged, kept,
                 nulled, overlapped>>

-----------------------------------------------------------------------------
(* The mutations: register_branch, record_workflow_progress and            *)
(* finish_workflow read, check and write the row in one operation.  A      *)
(* mutation the row holds already returns Ok and writes nothing.           *)

Mutated(r, m) == IF m \in r.done THEN r ELSE Bump([r EXCEPT !.done = @ \cup {m}])

StartMutation(p, m) == Start(p, m, "mutate", NoRow)

(* The row is missing, or its status refuses the mutation.                 *)
Refused(r) == r = NoRow \/ ~r.open

(* The memory store, under its write lock.                                 *)
MutateLocked(p) ==
  /\ proc[p].pc = "mutate" /\ backend = "memory"
  /\ row' = IF Refused(row) THEN row ELSE Mutated(row, proc[p].op)
  /\ told' = IF Refused(row) THEN told ELSE told \cup {proc[p].op}
  /\ Done(p)
  /\ UNCHANGED <<backend, holder, now, keys, fresh, lock, left, overwrote, purged, kept,
                 nulled, overlapped>>

(* SQLite and Redis: the payload is read and checked.                      *)
ReadPayload(p) ==
  /\ proc[p].pc = "mutate" /\ Optimistic
  /\ IF Refused(row) THEN Done(p)
     ELSE proc' = [proc EXCEPT ![p].pc = "swap", ![p].copy = row]
  /\ UNCHANGED <<backend, holder, now, row, keys, fresh, lock, left, history>>

(* Mutant of Unchanged: the swap does not look at the payload.             *)
AlwaysUnchanged(p) == TRUE

Unchanged(p) == row = proc[p].copy

(* The swap succeeds if the payload is the one that was read; otherwise    *)
(* the mutation is tried again, until its attempts are used up.            *)
CompareAndSwap(p) ==
  LET m == proc[p].op IN
  /\ proc[p].pc = "swap" /\ MayWrite(p)
  /\ \/ FenceLost(p) /\ Done(p) /\ UNCHANGED <<row, told>>
     \/ /\ ~FenceLost(p) /\ Unchanged(p)
        /\ row' = Mutated(proc[p].copy, m)
        /\ told' = told \cup {m}
        /\ Done(p)
     \/ /\ ~FenceLost(p) /\ ~Unchanged(p)
        /\ IF (row = NoRow /\ backend = "redis") \/ proc[p].tries + 1 = MaxTries
           THEN Done(p)
           ELSE proc' = [proc EXCEPT ![p].pc = "mutate", ![p].tries = @ + 1]
        /\ UNCHANGED <<row, told>>
  /\ UNCHANGED <<backend, holder, now, keys, fresh, lock, left, overwrote, purged, kept,
                 nulled, overlapped>>

(* Mutant of SelectForUpdate: the row is read and not locked.              *)
SelectOnly(p) ==
  /\ proc[p].pc = "mutate" /\ RowLocking /\ RowFree(p)
  /\ IF Refused(row) THEN Done(p)
     ELSE proc' = [proc EXCEPT ![p].pc = "locked", ![p].copy = row]
  /\ UNCHANGED <<backend, holder, now, row, keys, fresh, lock, left, history>>

(* PostgreSQL and MySQL: SELECT ... FOR UPDATE, and the check.             *)
SelectForUpdate(p) ==
  /\ proc[p].pc = "mutate" /\ RowLocking /\ RowFree(p)
  /\ IF Refused(row) THEN Done(p) /\ UNCHANGED lock
     ELSE /\ proc' = [proc EXCEPT ![p].pc = "locked", ![p].copy = row]
          /\ lock' = p
  /\ UNCHANGED <<backend, holder, now, row, keys, fresh, left, history>>

(* UPDATE and COMMIT, which releases the row.                              *)
UpdateAndCommit(p) ==
  /\ proc[p].pc = "locked"
  /\ row' = Mutated(proc[p].copy, proc[p].op)
  /\ told' = told \cup {proc[p].op}
  /\ lock' = Nobody
  /\ Done(p)
  /\ UNCHANGED <<backend, holder, now, keys, fresh, left, overwrote, purged, kept,
                 nulled, overlapped>>

-----------------------------------------------------------------------------
(* Retention.                                                              *)

Clock ==
  /\ now < MaxTime
  /\ now' = now + 1
  /\ UNCHANGED <<backend, holder, row, keys, fresh, lock, proc, left, history>>

(* transaction_expired.                                                    *)
Eligible(r) ==
  /\ r # NoRow
  /\ now - r.at >= IF r.open THEN Retention.open ELSE Retention.finished

(* purge_expired_transactions lists the records and picks this one.        *)
PurgeLists(p) ==
  /\ Eligible(row)
  /\ Start(p, "purge", "purge", row)

(* delete_transaction_if_unchanged of the SQL stores and of Redis looks    *)
(* the record up first, and leaves one that has changed.                   *)
PurgeLooksUp(p) ==
  /\ proc[p].pc = "purge" /\ backend # "memory"
  /\ IF Unchanged(p) THEN Become(p, "delete") ELSE Done(p)
  /\ UNCHANGED <<backend, holder, now, row, keys, fresh, lock, left, history>>

(* The record is deleted if its payload still is the same, with the        *)
(* barrier keys that are committed.                                        *)
Purge(p) ==
  /\ row' = IF Unchanged(p) THEN NoRow ELSE row
  /\ keys' = IF Unchanged(p) THEN {} ELSE keys
  /\ purged' = (purged \/ Unchanged(p))
  /\ Done(p)
  /\ UNCHANGED <<backend, holder, now, fresh, lock, left, told, overwrote, kept,
                 nulled, overlapped>>

(* The memory store compares and removes under its write lock, the SQL     *)
(* stores with DELETE ... WHERE payload and COMMIT, Redis with a script.   *)
DeleteLocked(p) == proc[p].pc = "purge" /\ backend = "memory" /\ Purge(p)

DeleteAndCommit(p) ==
  /\ proc[p].pc = "delete" /\ backend # "redis"
  /\ MayWrite(p) /\ RowFree(p)
  /\ Purge(p)

DeleteScript(p) == proc[p].pc = "delete" /\ backend = "redis" /\ Purge(p)

-----------------------------------------------------------------------------
(* barrier() and release_barrier().                                        *)

StartBarrier(p, op) == Start(p, op, "barrier", NoRow)

(* Mutant of Decision: a Try does not look for a Cancel.                   *)
DecisionForgetsCancel(op, table) ==
  IF op \in table THEN "duplicate"
  ELSE IF op = "cancel" /\ "try" \notin table THEN "null"
  ELSE "execute"

(* What barrier() answers on a given set of keys.                          *)
Decision(op, table) ==
  IF op \in table THEN "duplicate"
  ELSE IF op = "try" /\ "cancel" \in table THEN "cancelled_try"
  ELSE IF op = "cancel" /\ "try" \notin table THEN "null"
  ELSE "execute"

(* The caller is told what to do: only execute makes it call the branch.   *)
Tell(p, decision) ==
  /\ IF decision = "execute" THEN Become(p, "call") ELSE Done(p)
  /\ nulled' = (nulled \/ decision = "null")

(* The key is recorded and the caller told, in one step.                   *)
Decide(p, decision) ==
  /\ Tell(p, decision)
  /\ keys' = IF decision = "cancelled_try" THEN keys
             ELSE keys \cup {proc[p].op}

(* The memory store under its lock, and the Redis script.                  *)
DecideAtOnce(p) ==
  /\ proc[p].pc = "barrier" /\ Scripted /\ ~Fenced(p)
  /\ Decide(p, Decision(proc[p].op, keys))
  /\ UNCHANGED <<backend, holder, now, row, fresh, lock, left, told, overwrote,
                 purged, kept, overlapped>>

(* barrier_fenced: a worker that lost its lease gets an error and no key.  *)
BarrierFenced(p) ==
  /\ proc[p].pc = "barrier" /\ Fenced(p)
  /\ IF FenceLost(p) THEN Done(p) /\ UNCHANGED <<keys, nulled>>
     ELSE Decide(p, Decision(proc[p].op, keys))
  /\ UNCHANGED <<backend, holder, now, row, fresh, lock, left, told, overwrote,
                 purged, kept, overlapped>>

(* Mutant of InsertBarrier: an insert under way is not waited for, as in a *)
(* store without a unique key.                                             *)
InsertUnguarded(p) ==
  LET key == proc[p].op IN
  /\ proc[p].pc = "barrier" /\ ~Scripted
  /\ IF key \in keys THEN Done(p) /\ UNCHANGED fresh
     ELSE Become(p, "check") /\ fresh' = [fresh EXCEPT ![p] = key]
  /\ overlapped' = (overlapped \/ \E q \in Proc : fresh[q] \notin {NoKey, key})
  /\ UNCHANGED <<backend, holder, now, row, keys, lock, left, told, overwrote,
                 purged, kept, nulled>>

(* The SQL stores insert the key first, and wait for an insert of the same *)
(* key that is under way.  A key that is there makes the call a duplicate. *)
InsertBarrier(p) ==
  LET key == proc[p].op IN
  /\ proc[p].pc = "barrier" /\ ~Scripted /\ MayWrite(p)
  /\ \A q \in Proc : fresh[q] # key
  /\ IF key \in keys THEN Done(p) /\ UNCHANGED fresh
     ELSE Become(p, "check") /\ fresh' = [fresh EXCEPT ![p] = key]
  /\ overlapped' = (overlapped \/ \E q \in Proc : fresh[q] # NoKey)
  /\ UNCHANGED <<backend, holder, now, row, keys, lock, left, told, overwrote,
                 purged, kept, nulled>>

(* Then they look for the opposite key, among the committed ones.  A Try   *)
(* that was cancelled deletes its own key again.                           *)
CheckOpposite(p) ==
  LET decision == Decision(proc[p].op, keys) IN
  /\ proc[p].pc = "check"
  /\ Become(p, decision)
  /\ fresh' = IF decision = "cancelled_try" THEN [fresh EXCEPT ![p] = NoKey]
              ELSE fresh
  /\ UNCHANGED <<backend, holder, now, row, keys, lock, left, history>>

CommitBarrier(p) ==
  /\ proc[p].pc \in {"cancelled_try", "null", "execute"}
  /\ keys' = IF fresh[p] = NoKey THEN keys ELSE keys \cup {fresh[p]}
  /\ fresh' = [fresh EXCEPT ![p] = NoKey]
  /\ Tell(p, proc[p].pc)
  /\ UNCHANGED <<backend, holder, now, row, lock, left, told, overwrote, purged,
                 kept, overlapped>>

(* The branch was called: the key stays, or is deleted for a retry.        *)
KeepKey(p) ==
  /\ proc[p].pc = "call"
  /\ kept' = kept \cup {proc[p].op}
  /\ Done(p)
  /\ UNCHANGED <<backend, holder, now, row, keys, fresh, lock, left, told,
                 overwrote, purged, nulled, overlapped>>

ReleaseBarrier(p) ==
  /\ proc[p].pc = "call" /\ MayWrite(p) /\ ~Fenced(p)
  /\ keys' = keys \ {proc[p].op}
  /\ Done(p)
  /\ UNCHANGED <<backend, holder, now, row, fresh, lock, left, history>>

(* release_barrier_fenced: after the lease was lost the key stays.         *)
ReleaseFenced(p) ==
  /\ proc[p].pc = "call" /\ Fenced(p)
  /\ keys' = IF FenceLost(p) THEN keys ELSE keys \ {proc[p].op}
  /\ Done(p)
  /\ UNCHANGED <<backend, holder, now, row, fresh, lock, left, history>>

-----------------------------------------------------------------------------
(* The recovery lease.                                                     *)

(* A worker takes the lease between two operations.                        *)
TakeLease(p) ==
  /\ Fenced(p) /\ proc[p].pc = "idle"
  /\ holder = Nobody /\ left.leases > 0
  /\ holder' = p
  /\ left' = [left EXCEPT !.leases = @ - 1]
  /\ UNCHANGED <<backend, now, row, keys, fresh, lock, proc, history>>

(* Its time to live passes, also in the middle of an operation.            *)
LeaseRunsOut ==
  /\ holder # Nobody
  /\ holder' = Nobody
  /\ UNCHANGED <<backend, now, row, keys, fresh, lock, proc, left, history>>

-----------------------------------------------------------------------------

(* The caller dies or loses its connection: the database rolls back.       *)
Crash(p) ==
  /\ proc[p].pc # "idle"
  /\ left.crashes > 0
  /\ left' = [left EXCEPT !.crashes = @ - 1]
  /\ fresh' = [fresh EXCEPT ![p] = NoKey]
  /\ lock' = IF lock = p THEN Nobody ELSE lock
  /\ Done(p)
  /\ UNCHANGED <<backend, holder, now, row, keys, history>>

Init ==
  /\ backend \in Backends
  /\ now = 0
  /\ row = NoRow
  /\ keys = {}
  /\ fresh = [p \in Proc |-> NoKey]
  /\ lock = Nobody
  /\ holder = Nobody
  /\ proc = [p \in Proc |-> Idle]
  /\ left = [ops |-> MaxOps, crashes |-> MaxCrashes, leases |-> MaxLeases]
  /\ told = {} /\ kept = {}
  /\ overwrote = FALSE /\ purged = FALSE /\ nulled = FALSE
  /\ overlapped = FALSE

RowStep(p) ==
  \/ GetTransaction(p) \/ UpdateTransaction(p)
  \/ \E m \in Mutation : StartMutation(p, m)
  \/ MutateLocked(p) \/ ReadPayload(p) \/ CompareAndSwap(p)
  \/ SelectForUpdate(p) \/ UpdateAndCommit(p)
  \/ PurgeLists(p) \/ PurgeLooksUp(p)
  \/ DeleteLocked(p) \/ DeleteAndCommit(p) \/ DeleteScript(p)

BarrierStep(p) ==
  \/ \E op \in BarrierOp : StartBarrier(p, op)
  \/ DecideAtOnce(p) \/ InsertBarrier(p) \/ CheckOpposite(p)
  \/ CommitBarrier(p) \/ KeepKey(p) \/ ReleaseBarrier(p)
  \/ BarrierFenced(p) \/ ReleaseFenced(p) \/ TakeLease(p)

Next ==
  \/ InsertTransaction \/ Clock \/ LeaseRunsOut
  \/ \E p \in Proc : RowStep(p) \/ BarrierStep(p) \/ Crash(p)

Spec == Init /\ [][Next]_vars

ProcState ==
  [pc : {"idle", "update", "mutate", "swap", "locked", "purge", "delete",
         "barrier", "check", "cancelled_try", "null", "execute", "call"},
   op : {"none", "update", "purge"} \cup Mutation \cup BarrierOp,
   copy : Row,
   tries : Nat]

TypeOK ==
  /\ backend \in Backends
  /\ row \in Row
  /\ keys \subseteq BarrierOp
  /\ fresh \in [Proc -> BarrierOp \cup {NoKey}]
  /\ now \in Nat
  /\ lock \in Proc \cup {Nobody}
  /\ holder \in Recovery \cup {Nobody}
  /\ proc \in [Proc -> ProcState]
  /\ left \in [ops : Nat, crashes : Nat, leases : Nat]
  /\ told \subseteq Mutation
  /\ kept \subseteq BarrierOp
  /\ overwrote \in BOOLEAN /\ purged \in BOOLEAN
  /\ nulled \in BOOLEAN /\ overlapped \in BOOLEAN

-----------------------------------------------------------------------------
(* Properties.                                                             *)

(* No store loses a mutation that returned Ok to another mutation, however *)
(* their statements interleave; only an update_transaction that replaces a *)
(* row it had not read can drop one, and in Redis there is no such update. *)
MutationsKept ==
  /\ row # NoRow /\ ~overwrote => told \subseteq row.done
  /\ backend = "redis" => ~overwrote

(* purge_expired_transactions only deletes a record that is expired when   *)
(* it is deleted: one that was updated after the listing is kept by every  *)
(* store.  And what was purged from Redis is not written again by a        *)
(* handler that had read it before.                                        *)
RetentionSafe ==
  [][/\ row # NoRow /\ row' = NoRow => Eligible(row)
     /\ purged /\ backend = "redis" => row' = NoRow]_vars

(* barrier() tells at most one caller at a time to execute an operation,   *)
(* and nobody once a call has succeeded, in every store and whatever       *)
(* callers die, unless retention has deleted the keys.                     *)
BarrierOnce ==
  ~purged =>
    \A op \in BarrierOp :
      /\ \A p, q \in Proc : Executing(p, op) /\ Executing(q, op) => p = q
      /\ \A p \in Proc : Executing(p, op) => op \in keys \ kept

(* barrier() never lets a Try execute after it told a Cancel that there is *)
(* nothing to cancel; the SQL servers only if the two calls overlap, since *)
(* neither reads what the other has not committed.                         *)
NoTryAfterNull ==
  /\ (\E p \in Proc : Executing(p, "try")) /\ nulled /\ ~purged => overlapped
  /\ overlapped => RowLocking

-----------------------------------------------------------------------------
(* The inductive invariant behind the properties above.                    *)

(* A statement is only reached in the stores that execute it, with a copy  *)
(* of a row; a lock is held from SELECT ... FOR UPDATE to COMMIT, and what *)
(* it protects is as it was read; a listed record stays expired.           *)
ControlInv ==
  \A p \in Proc :
    /\ proc[p].pc \in {"update", "swap"} => proc[p].copy # NoRow
    /\ proc[p].pc \in {"mutate", "swap", "locked"} => proc[p].op \in Mutation
    /\ proc[p].pc = "swap" => Optimistic
    /\ proc[p].pc = "locked" <=> lock = p
    /\ lock = p => RowLocking /\ row # NoRow /\ proc[p].copy = row
    /\ proc[p].pc \in {"purge", "delete"} => Eligible(proc[p].copy)
    /\ proc[p].pc \in {"barrier", "check", "cancelled_try", "null", "execute",
                       "call"} => proc[p].op \in BarrierOp

(* An inserted barrier key belongs to one caller, which has not committed  *)
(* it; two are uncommitted together only if they overlapped.               *)
FreshInv ==
  /\ \A p \in Proc :
       IF proc[p].pc \in {"check", "null", "execute"}
       THEN fresh[p] = proc[p].op /\ ~Scripted /\ fresh[p] \notin keys
       ELSE fresh[p] = NoKey
  /\ \A p, q \in Proc :
       p # q /\ fresh[p] # NoKey /\ fresh[q] # NoKey =>
         fresh[p] # fresh[q] /\ overlapped

(* In Redis the only copy of the stored revision is the stored record, and *)
(* what was purged stays away.                                             *)
RedisInv ==
  backend = "redis" =>
    /\ purged => row = NoRow
    /\ \A p \in Proc :
         proc[p].pc = "update" =>
           IF row = NoRow THEN purged
           ELSE proc[p].copy.rev < row.rev \/ proc[p].copy = row

(* Nothing was acknowledged before there was a row.                        *)
ToldInv == row = NoRow /\ ~purged => told = {}

(* Keys whose call succeeded are there, and so is the Cancel that was told *)
(* to skip, which nobody executes; what a caller found out about the       *)
(* opposite key is still true when it commits, unless two calls overlapped.*)
NullInv ==
  /\ ~purged => kept \subseteq keys
  /\ nulled /\ ~purged =>
       "cancel" \in keys /\ \A p \in Proc : ~Executing(p, "cancel")
  /\ \A p \in Proc :
       /\ proc[p].pc = "null" => proc[p].op = "cancel"
       /\ ~overlapped /\ proc[p].pc = "null" => "try" \notin keys
       /\ ~overlapped /\ proc[p].pc = "execute" /\ proc[p].op = "try" =>
            "cancel" \notin keys

StoresInv ==
  /\ TypeOK /\ ControlInv /\ FreshInv /\ RedisInv /\ ToldInv /\ NullInv
  /\ MutationsKept /\ BarrierOnce /\ NoTryAfterNull

=============================================================================
