----------------------------- MODULE XaResource -----------------------------
(***************************************************************************)
(* The XA coordinator of module Xa together with the resource managers it  *)
(* resolves: prepare_branch of the business processes, resolve as the      *)
(* target of phase 2, and the operators who settle what is left prepared   *)
(* with reconcile and resolve_heuristically.                               *)
(*                                                                         *)
(* MySQL and PostgreSQL differ where a second prepare_branch meets a first *)
(* one that is not over: XA START refuses the xid, which changes nothing,  *)
(* and the INSERT of the barrier row waits for the row.  A process makes   *)
(* one call of prepare_branch, an operator one of resolve_heuristically,   *)
(* and one that stops takes no further step.                               *)
(*                                                                         *)
(* The global transaction is driven as DtmHttpClient drives it, by one     *)
(* request that runs phase 2, with the worker behind it.  Module Xa has    *)
(* the other requests, and coordinators that die.                          *)
(***************************************************************************)
EXTENDS Xa

CONSTANTS
  Proc,      \* business processes
  Operator,  \* operators of the resource managers
  Decision   \* decision ids

(* "none" stands for no branch.                                            *)
ASSUME XaResourceAssumption == "none" \notin Branch

VARIABLES
  resource,   \* the local transaction of each branch
  proc,       \* the business processes
  ready,      \* branches whose prepare_branch returned Ok
  decisions,  \* the table roze_xa_decisions, by decision id
  operator,   \* the operators
  called,     \* history: branches on which a phase-2 statement was executed
  late,       \* history: branches that were prepared after that
  settled     \* history: decisions that resolved a prepared branch

rmVars ==
  <<resource, proc, ready, decisions, operator, called, late,
    settled>>
xaVars == <<vars, rmVars>>

(* "free" is also a local transaction that was rolled back: its barrier    *)
(* row is gone with it.                                                    *)
ResourceState == {"free", "active", "prepared", "committed"}

IdleProc == [pc |-> "idle", branch |-> "none"]

NoDecision == [branch |-> "none", phase |-> "none", status |-> "none"]

IdleOperator ==
  [pc |-> "idle", prepared |-> {}, id |-> "none", request |-> NoDecision]

Phase2 == {"commit", "rollback"}

-----------------------------------------------------------------------------
(* prepare_branch.  A statement that fails ends in cleanup: ROLLBACK, or a *)
(* closed connection, which the server rolls back.                         *)

Cleanup(p) ==
  /\ resource' = [resource EXCEPT ![proc[p].branch] = "free"]
  /\ proc' = [proc EXCEPT ![p].pc = "done"]

(* The local transaction begins, inserts the barrier row and executes the  *)
(* business statements.  A committed row makes the call a Duplicate.       *)
StartBranch(p, b) ==
  /\ proc[p].pc = "idle"
  /\ \/ /\ resource[b] = "free"
        /\ resource' = [resource EXCEPT ![b] = "active"]
        /\ proc' = [proc EXCEPT ![p] = [pc |-> "register", branch |-> b]]
        /\ ready' = ready
     \/ /\ resource[b] = "committed"
        /\ ready' = ready \cup {b}
        /\ proc' = [proc EXCEPT ![p].pc = "done"]
        /\ UNCHANGED resource
  /\ UNCHANGED <<vars, decisions, operator, called, late, settled>>

(* The branch is in the record as it is registered.                        *)
Registered(b) ==
  /\ tx.status \in {"Submitted", "Prepared"}
  /\ b \in Members(tx.ids)
  /\ UNCHANGED vars

(* Mutant of RegisterXaBranch: the answer of the coordinator is ignored.   *)
RegisterUnheard(p) ==
  LET b == proc[p].branch IN
  /\ proc[p].pc = "register"
  /\ \/ RegisterBranch(b, "Pending") \/ Registered(b)
     \/ tx.status \notin {"Submitted", "Prepared"} /\ UNCHANGED vars
  /\ proc' = [proc EXCEPT ![p].pc = "prepare"]
  /\ UNCHANGED <<resource, ready, decisions, operator, called, late, settled>>

(* registerXaBranch: refused once the transaction has left Prepared; the   *)
(* reply of an accepted one may be lost.                                   *)
RegisterXaBranch(p) ==
  LET b == proc[p].branch IN
  /\ proc[p].pc = "register"
  /\ \/ /\ RegisterBranch(b, "Pending") \/ Registered(b)
        /\ \/ proc' = [proc EXCEPT ![p].pc = "prepare"] /\ UNCHANGED resource
           \/ Cleanup(p)
     \/ /\ tx.status \notin {"Submitted", "Prepared"}
        /\ Cleanup(p)
        /\ UNCHANGED vars
  /\ UNCHANGED <<ready, decisions, operator, called, late,
                 settled>>

(* PREPARE is executed, and its reply may be lost.                         *)
PrepareLocal(p) ==
  LET b == proc[p].branch IN
  /\ proc[p].pc = "prepare"
  /\ resource' = [resource EXCEPT ![b] = "prepared"]
  /\ proc' = [proc EXCEPT ![p].pc = "done"]
  /\ ready' \in {ready, ready \cup {b}}
  /\ late' = IF b \in called THEN late \cup {b} ELSE late
  /\ UNCHANGED <<vars, decisions, operator, called, settled>>

(* A statement of prepare_branch fails, or the process dies.               *)
LocalFails(p) ==
  /\ proc[p].pc \in {"register", "prepare"}
  /\ Cleanup(p)
  /\ UNCHANGED <<vars, ready, decisions, operator, called, late,
                 settled>>

-----------------------------------------------------------------------------
(* resolve: COMMIT or ROLLBACK of a prepared local transaction.  One that  *)
(* is not prepared is unknown to the server, and the answer is             *)
(* AlreadyResolved, whatever the reason.                                   *)

Resolve(b, phase) ==
  /\ resource' = [resource EXCEPT
       ![b] = IF @ = "prepared"
              THEN IF phase = "commit" THEN "committed" ELSE "free"
              ELSE @]
  /\ called' = called \cup {b}

Outcome(b) ==
  IF resource[b] = "prepared" THEN "applied" ELSE "already_resolved"

(* The phase-2 call of commit_xa or rollback_xa: answered, or failed with  *)
(* or without the statement having been executed.                          *)
PhaseTwoOk(d) ==
  /\ BranchOk(d)
  /\ Resolve(Current(d), drv[d].op)
  /\ UNCHANGED <<proc, ready, decisions, operator, late, settled>>

PhaseTwoErr(d) ==
  /\ BranchErr(d)
  /\ \/ Resolve(Current(d), drv[d].op)
     \/ UNCHANGED <<resource, called>>
  /\ UNCHANGED <<proc, ready, decisions, operator, late, settled>>

-----------------------------------------------------------------------------
(* Operators.                                                              *)

Done(o) ==
  operator' = [operator EXCEPT ![o] = [IdleOperator EXCEPT !.pc = "done"]]

Pending(rec) == rec.status \in {"requested", "failed"}

PendingBranches == {decisions[i].branch : i \in {j \in Decision : Pending(decisions[j])}}

(* reconcile: recover_prepared, when there is something to report ...      *)
ReadPrepared(o) ==
  /\ operator[o].pc = "idle"
  /\ \E b \in Branch : resource[b] = "prepared" \/ b \in PendingBranches
  /\ operator' = [operator EXCEPT
       ![o] = [IdleOperator EXCEPT !.pc = "report",
                 !.prepared = {b \in Branch : resource[b] = "prepared"}]]
  /\ UNCHANGED <<vars, resource, proc, ready, decisions, called, late,
                 settled>>

(* ... and list_heuristic_decisions, as a report.  The operator requests a *)
(* decision on a branch that is prepared without one, or repeats one that  *)
(* is pending.                                                             *)
ActOnReport(o, i, b, phase) ==
  /\ operator[o].pc = "report"
  /\ \/ b \in operator[o].prepared \ PendingBranches
     \/ /\ Pending(decisions[i])
        /\ decisions[i].branch = b /\ decisions[i].phase = phase
  /\ operator' = [operator EXCEPT
       ![o] = [IdleOperator EXCEPT !.pc = "intent", !.id = i,
                 !.request = [branch |-> b, phase |-> phase,
                              status |-> "requested"]]]
  /\ UNCHANGED <<vars, resource, proc, ready, decisions, called,
                 late, settled>>

(* Another decision has the id, or the branch.                             *)
Conflicting(i, rec) ==
  \E j \in Decision :
    /\ decisions[j] # NoDecision
    /\ j = i \/ decisions[j].branch = rec.branch
    /\ \/ j # i
       \/ decisions[j].branch # rec.branch
       \/ decisions[j].phase # rec.phase

(* record_heuristic_intent: INSERT IGNORE, which leaves a row with the id  *)
(* or the branch alone ...                                                 *)
RecordIntent(o) ==
  LET i == operator[o].id
      rec == operator[o].request
      taken == decisions[i] # NoDecision
                 \/ \E j \in Decision : decisions[j].branch = rec.branch
  IN
  /\ operator[o].pc = "intent"
  /\ decisions' = IF taken THEN decisions ELSE [decisions EXCEPT ![i] = rec]
  /\ operator' = [operator EXCEPT ![o].pc = "compare"]
  /\ UNCHANGED <<vars, resource, proc, ready, called, late,
                 settled>>

(* ... and the SELECT of the row that is there, which has to be the        *)
(* request.  A completed one is returned.                                  *)
CompareIntent(o) ==
  LET i == operator[o].id IN
  /\ operator[o].pc = "compare"
  /\ IF ~Conflicting(i, operator[o].request) /\ Pending(decisions[i])
     THEN operator' = [operator EXCEPT ![o].pc = "resolve"]
     ELSE Done(o)
  /\ UNCHANGED <<vars, resource, proc, ready, decisions, called, late,
                 settled>>

(* resolve with the requested decision: its outcome, or an error with or   *)
(* without the statement having been executed.                             *)
ResolveHeuristically(o) ==
  LET b == operator[o].request.branch
      did == IF resource[b] = "prepared" THEN settled \cup {operator[o].id}
             ELSE settled
  IN
  /\ operator[o].pc = "resolve"
  /\ \/ /\ Resolve(b, operator[o].request.phase)
        /\ settled' = did
        /\ \E status \in {Outcome(b), "failed"} :
             operator' = [operator EXCEPT ![o].pc = "finish",
                                          ![o].request.status = status]
     \/ /\ operator' = [operator EXCEPT ![o].pc = "finish",
                                        ![o].request.status = "failed"]
        /\ UNCHANGED <<resource, called, settled>>
  /\ UNCHANGED <<vars, proc, ready, decisions, late>>

(* Mutant of FinishDecision: every outcome is stored as applied.           *)
FinishApplied(o) ==
  /\ operator[o].pc = "finish"
  /\ decisions' = [decisions EXCEPT ![operator[o].id].status = "applied"]
  /\ Done(o)
  /\ UNCHANGED <<vars, resource, proc, ready, called, late,
                 settled>>

(* finish_heuristic_decision, whatever another operator stored meanwhile.  *)
FinishDecision(o) ==
  /\ operator[o].pc = "finish"
  /\ decisions' = [decisions EXCEPT
                     ![operator[o].id].status = operator[o].request.status]
  /\ Done(o)
  /\ UNCHANGED <<vars, resource, proc, ready, called, late,
                 settled>>

-----------------------------------------------------------------------------
(* The coordinator's other steps.                                          *)

(* Mutant of GlobalTransaction: the commit does not wait for the branches. *)
CommitsEarly(d) == \E op \in XaHandler : Call(d, op)

(* xa_global_transaction: the client prepares, commits when the business   *)
(* operation, and so prepare_branch of every branch, returned Ok, and      *)
(* rolls back when it did not.                                             *)
GlobalTransaction(d) ==
  \/ Call(d, "prepare")
  \/ ready = Branch /\ Call(d, "commit")
  \/ ready # Branch /\ Call(d, "rollback")

CoordinatorStep(d) ==
  /\ \/ StartChosen(d) \/ ResolveBranch(d) \/ Release(d) \/ Save(d)
     \/ Complete(d) \/ GlobalTransaction(d) \/ Tick(d)
  /\ UNCHANGED rmVars

RmInit ==
  /\ Init
  /\ resource = [b \in Branch |-> "free"]
  /\ proc = [p \in Proc |-> IdleProc]
  /\ ready = {}
  /\ decisions = [i \in Decision |-> NoDecision]
  /\ operator = [o \in Operator |-> IdleOperator]
  /\ called = {}
  /\ late = {}
  /\ settled = {}

ProcStep(p) ==
  \/ \E b \in Branch : StartBranch(p, b)
  \/ RegisterXaBranch(p) \/ PrepareLocal(p) \/ LocalFails(p)

OperatorStep(o) ==
  \/ ReadPrepared(o)
  \/ \E i \in Decision, b \in Branch, phase \in Phase2 : ActOnReport(o, i, b, phase)
  \/ RecordIntent(o) \/ CompareIntent(o)
  \/ ResolveHeuristically(o) \/ FinishDecision(o)

RmNext ==
  \/ \E d \in Driver :
       CoordinatorStep(d) \/ PhaseTwoOk(d) \/ PhaseTwoErr(d)
  \/ \E p \in Proc : ProcStep(p)
  \/ \E o \in Operator : OperatorStep(o)
  \/ Expire /\ UNCHANGED rmVars

RmSpec == RmInit /\ [][RmNext]_xaVars

-----------------------------------------------------------------------------
(* Properties.                                                             *)

Undecided(b) == \A i \in Decision : decisions[i].branch # b

(* A global commit is complete: when commit_xa has stored Succeeded, the   *)
(* local transaction of every branch is committed, though branches were    *)
(* registered before they were prepared, replies were lost and processes   *)
(* died; unless an operator decided the branch, or the timeout raced the   *)
(* commit.                                                                 *)
CommitComplete ==
  tx.status = "Succeeded" /\ ~expired =>
    \A b \in Branch : Undecided(b) => resource[b] = "committed"

(* A branch is left prepared after the global transaction has ended only   *)
(* if it was prepared after phase 2 had called it: registerXaBranch comes  *)
(* before PREPARE, and resolve of what is not prepared yet answers         *)
(* AlreadyResolved.  Or the request and a worker that found the            *)
(* transaction expired ran phase 2 together: one skips a branch whose      *)
(* barrier the other holds.                                                *)
OrphansExplained ==
  IsTerminal(tx.status) /\ (expired => budget.call = MaxCalls) =>
    \A b \in Branch : resource[b] = "prepared" => b \in late

(* Whatever operators race or stop: a branch has at most one decision, one *)
(* stored as applied did resolve its branch, and after a completed         *)
(* decision the branch is prepared only if it was prepared later.          *)
DecisionsHonest ==
  \A i \in Decision :
    /\ decisions[i].status = "applied" => i \in settled
    /\ \A j \in Decision \ {i} :
         decisions[i] # NoDecision => decisions[i].branch # decisions[j].branch
    /\ decisions[i].status \in {"applied", "already_resolved"} =>
         resource[decisions[i].branch] # "prepared" \/ decisions[i].branch \in late

-----------------------------------------------------------------------------
(* The inductive invariant behind DecisionsHonest.                         *)

DecisionRecord ==
  [branch : Branch \cup {"none"}, phase : Phase2 \cup {"none"},
   status : {"none", "requested", "applied", "already_resolved", "failed"}]

Completed(rec) == rec.status \in {"applied", "already_resolved"}

RmTypeOK ==
  /\ resource \in [Branch -> ResourceState]
  /\ proc \in [Proc -> [pc : {"idle", "register", "prepare", "done"},
                        branch : Branch \cup {"none"}]]
  /\ decisions \in [Decision -> DecisionRecord]
  /\ operator \in [Operator ->
       [pc : {"idle", "report", "intent", "compare", "resolve", "finish", "done"},
        prepared : SUBSET Branch, id : Decision \cup {"none"},
        request : DecisionRecord]]

(* A phase-2 statement was executed on b, which is prepared only if that   *)
(* happened later.                                                         *)
Explained(b) == b \in called /\ (resource[b] # "prepared" \/ b \in late)

(* Rows are one to a branch, and what a row says of its branch holds.      *)
RowsInv ==
  \A i \in Decision :
    /\ decisions[i] # NoDecision => decisions[i].branch \in Branch
    /\ \A j \in Decision \ {i} :
         decisions[i] # NoDecision => decisions[i].branch # decisions[j].branch
    /\ decisions[i].status = "applied" => i \in settled
    /\ Completed(decisions[i]) => Explained(decisions[i].branch)

(* An operator that resolves or finishes has the row it asked for, and     *)
(* what it is about to store in it holds.                                  *)
OperatorsInv ==
  \A o \in Operator :
    LET i   == operator[o].id
        rec == operator[o].request
    IN
    /\ operator[o].pc \in {"intent", "compare", "resolve", "finish"} =>
         i \in Decision /\ rec.branch \in Branch
    /\ operator[o].pc = "intent" => rec.status = "requested"
    /\ operator[o].pc \in {"resolve", "finish"} => decisions[i].branch = rec.branch
    /\ operator[o].pc = "finish" /\ Completed(rec) => Explained(rec.branch)
    /\ operator[o].pc = "finish" /\ rec.status = "applied" => i \in settled

DecisionInv == RmTypeOK /\ RowsInv /\ OperatorsInv


-----------------------------------------------------------------------------
(* The inductive invariants behind CommitComplete and OrphansExplained.    *)

(* xa_global_transaction makes one request that runs phase 2.              *)
OneRequest == MaxCalls = 1

(* The driver runs phase 2, or was chosen to.                              *)
Phasing(d) == drv[d].op \in {"commit", "rollback"}

Open == tx.status \in {"Submitted", "Prepared"}

(* No handlers but those of XA run, and nobody stops the transaction.      *)
HandlersInv ==
  /\ \A d \in Driver : drv[d].pc = "idle" \/ drv[d].op \in XaHandler
  /\ tx.status # "Failed"

(* The timeout has not let a worker run phase 2 beside the request.        *)
Alone == expired => budget.call = MaxCalls

(* Then phase 2 has one driver at a time: the request, which finds the     *)
(* transaction open and leaves it so until it is over, or the worker.      *)
AloneInv ==
  Alone =>
    /\ \A d, e \in Driver : Phasing(d) /\ Phasing(e) => d = e
    /\ \A d \in Driver \ Worker : Phasing(d) => Open /\ budget.call = 0
    /\ ~expired /\ (~Open \/ \E d \in Driver : Phasing(d)) => budget.call = 0

(* Keys, loops and ends are as they are when a worker drives phase 2 alone. *)
PhaseTwoInv == Held /\ (Alone => Passed /\ Ended)

(* The process has begun the local transaction of its branch.              *)
Holds(p) == proc[p].pc \in {"register", "prepare"}

(* Local transactions have one process, and are registered before they are *)
(* prepared.                                                               *)
RegisteredInv ==
  /\ \A p \in Proc : Holds(p) =>
       proc[p].branch \in Branch /\ resource[proc[p].branch] = "active"
  /\ \A p, q \in Proc :
       Holds(p) /\ Holds(q) /\ proc[p].branch = proc[q].branch => p = q
  /\ \A p \in Proc : proc[p].pc = "prepare" => proc[p].branch \in Members(tx.ids)
  /\ \A b \in Branch :
       resource[b] \in {"prepared", "committed"} => b \in Members(tx.ids)

(* An accepted phase-2 call was executed.                                  *)
CalledInv ==
  /\ \A key \in acked : key[1] \in called
  /\ \A b \in called \cap Branch : Explained(b)

Committing ==
  tx.status \in {"Succeeding", "Succeeded"} \/ \E d \in Driver : drv[d].op = "commit"

RollingBack ==
  tx.status \in {"Aborting", "Aborted"} \/ \E d \in Driver : drv[d].op = "rollback"

(* Before the timeout: what is ready is prepared until the request rolls   *)
(* back, and the commit of what is ready commits it.                       *)
CommitInv ==
  ~expired =>
    /\ Committing => ready = Branch /\ ~RollingBack
    /\ Committing \/ budget.call = MaxCalls =>
         \A b \in ready : Undecided(b) => resource[b] \in {"prepared", "committed"}
    /\ \A b \in Branch :
         <<b, "commit">> \in acked /\ Undecided(b) => resource[b] = "committed"

CompletenessInv ==
  /\ HandlersInv /\ AloneInv /\ PhaseTwoInv
  /\ RegisteredInv /\ CalledInv /\ CommitInv
=============================================================================
