--------------------------- MODULE RecoveryLease ---------------------------
(***************************************************************************)
(* The recovery lease the workers of a deployment compete for before every *)
(* tick, and the fence a worker's writes carry.  The Redis store numbers   *)
(* the holders with epochs and checks owner, epoch and expiry together     *)
(* with every recovery write; the other stores give every holder epoch 1   *)
(* and check nothing.                                                      *)
(***************************************************************************)
EXTENDS Integers

CONSTANTS
  Worker,       \* the worker ids of the deployment
  Redis,        \* TRUE: Redis store; FALSE: memory, SQLite, PostgreSQL, MySQL
  MaxExpiries   \* bound: leases that run out

ASSUME LeaseAssumption == Redis \in BOOLEAN /\ MaxExpiries \in Nat

VARIABLES
  lease,     \* the stored lease
  fence,     \* the epoch of the fence each worker got last, 0 if none
  expiries   \* how many leases may still run out

leaseVars == <<lease, fence, expiries>>

NoOwner == "none"

LeaseTypeOK ==
  /\ lease \in [owner : Worker \cup {NoOwner}, live : BOOLEAN, epoch : Nat]
  /\ fence \in [Worker -> Nat]
  /\ expiries \in 0..MaxExpiries

LeaseInit ==
  /\ lease = [owner |-> NoOwner, live |-> FALSE, epoch |-> 0]
  /\ fence = [w \in Worker |-> 0]
  /\ expiries = MaxExpiries

(* Mutant of Available: a lease that ran out is still its owner's.         *)
OwnedForever(w) == lease.owner \in {NoOwner, w}

(* A lease that runs is only given to its owner.                           *)
Available(w) == lease.live => lease.owner = w

(* The epoch of the fence: a renewal keeps it, a new holder gets the next. *)
GrantedEpoch ==
  IF ~Redis THEN 1 ELSE IF lease.live THEN lease.epoch ELSE lease.epoch + 1

(* acquire_recovery_lease.                                                 *)
AcquireLease(w) ==
  /\ Available(w)
  /\ lease' = [owner |-> w, live |-> TRUE, epoch |-> GrantedEpoch]
  /\ fence' = [fence EXCEPT ![w] = GrantedEpoch]
  /\ UNCHANGED expiries

(* The time to live passes while the holder is still at work.              *)
LeaseRunsOut ==
  /\ lease.live
  /\ expiries > 0
  /\ expiries' = expiries - 1
  /\ lease' = [lease EXCEPT !.live = FALSE]
  /\ UNCHANGED fence

(* Mutant of FenceHolds: recovery writes are not fenced.                   *)
NoFence(w) == TRUE

(* What a recovery write of w needs besides the transaction's own checks.  *)
FenceHolds(w) ==
  Redis => lease.owner = w /\ lease.live /\ lease.epoch = fence[w]

=============================================================================
