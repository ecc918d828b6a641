---------------------------- MODULE StoresProofs ----------------------------
(***************************************************************************)
(* Proofs of the safety properties of Stores for every set of stores,      *)
(* callers, recovery workers and mutations, and every bound.               *)
(***************************************************************************)
EXTENDS Stores, TLAPS

-----------------------------------------------------------------------------
(* Types.                                                                  *)

(* What the steps write is of the right type.                              *)
LEMMA RowTypes ==
  /\ NoRow \in Row
  /\ Idle \in ProcState
  /\ \A r \in Row : now \in Nat => Bump(r) \in Row /\ Bump(r) # NoRow
                                   /\ Bump(r).done = r.done
                                   /\ Bump(r).rev = r.rev + 1
<1>1. NoRow \in Row
  BY DEF NoRow, Row
<1>2. Idle \in ProcState
  BY <1>1 DEF Idle, ProcState
<1>3. ASSUME NEW r \in Row, now \in Nat
      PROVE  /\ Bump(r) \in Row
             /\ Bump(r).done = r.done
             /\ Bump(r).rev = r.rev + 1 /\ Bump(r).rev > 0
  <2> DEFINE n == r.rev + 1
  <2>1. n \in Nat /\ n > 0
    BY DEF Row
  <2>2. Bump(r) = [r EXCEPT !.rev = n, !.at = now]
    BY DEF Bump
  <2> HIDE DEF n
  <2>3. Bump(r) \in Row /\ Bump(r).done = r.done /\ Bump(r).rev = n
    BY <1>3, <2>1, <2>2 DEF Row
  <2> QED BY <2>1, <2>3 DEF n
<1>4. NoRow.rev = 0
  BY DEF NoRow
<1>5. \A r \in Row : now \in Nat => Bump(r) # NoRow
  BY <1>3, <1>4
<1> QED BY <1>1, <1>2, <1>3, <1>5

(* A mutation adds itself to the row, and a row that holds it stays.       *)
LEMMA MutatedRow ==
  ASSUME NEW r \in Row, NEW m \in Mutation, now \in Nat
  PROVE  /\ Mutated(r, m) \in Row
         /\ Mutated(r, m).done = r.done \cup {m}
         /\ r # NoRow => Mutated(r, m) # NoRow
         /\ Mutated(r, m) = r \/ Mutated(r, m).rev = r.rev + 1
<1> DEFINE s == [r EXCEPT !.done = @ \cup {m}]
<1>1. s \in Row /\ s.done = r.done \cup {m} /\ s.rev = r.rev
  BY DEF Row
<1>2. Mutated(r, m) = IF m \in r.done THEN r ELSE Bump(s)
  BY DEF Mutated
<1> HIDE DEF s
<1>3. CASE m \in r.done
  BY <1>2, <1>3
<1>4. CASE m \notin r.done
  BY <1>1, <1>2, <1>4, RowTypes
<1> QED BY <1>3, <1>4

(* A caller's new state, whatever the step.                                *)
LEMMA ProcTypes ==
  ASSUME proc \in [Proc -> ProcState], NEW p \in Proc
  PROVE  /\ Done(p) => proc' \in [Proc -> ProcState]
         /\ \A pc \in {"idle", "update", "mutate", "swap", "locked", "purge",
                       "delete", "barrier", "check", "cancelled_try", "null",
                       "execute", "call"} :
              Become(p, pc) => proc' \in [Proc -> ProcState]
BY RowTypes DEF Done, Become, ProcState

(* Every step on the row keeps the types, ...                              *)
LEMMA TypeRowStep ==
  ASSUME TypeOK, ControlInv, NEW p \in Proc, RowStep(p)
  PROVE  TypeOK'
<1> USE DEF TypeOK
<1>1. /\ proc[p] \in ProcState /\ proc[p].copy \in Row /\ proc[p].tries \in Nat
      /\ now \in Nat /\ row \in Row
  BY DEF ProcState
<1>2. proc[p].pc \in {"mutate", "swap", "locked"} => proc[p].op \in Mutation
  BY DEF ControlInv
<1>3. CASE GetTransaction(p)
  BY <1>3, <1>1, <1>2, RowTypes, MutatedRow, ProcTypes
     DEF GetTransaction, Start, ProcState, history
<1>4. CASE UpdateTransaction(p)
  <2>1. [proc[p].copy EXCEPT !.open = FALSE] \in Row
    BY <1>1 DEF Row
  <2>2. row' \in Row
    BY <1>1, <1>4, <2>1, RowTypes DEF UpdateTransaction
  <2> QED BY <1>4, <2>2, ProcTypes DEF UpdateTransaction
<1>5. CASE MutateLocked(p)
  <2>1. proc[p].op \in Mutation
    BY <1>2, <1>5 DEF MutateLocked
  <2>2. row' \in Row /\ told' \subseteq Mutation
    BY <1>1, <1>5, <2>1, MutatedRow DEF MutateLocked
  <2>3. proc' \in [Proc -> ProcState]
    BY <1>5, ProcTypes DEF MutateLocked
  <2> QED BY <1>5, <2>2, <2>3 DEF MutateLocked
<1>6. CASE ReadPayload(p)
  <2>1. proc' \in [Proc -> ProcState]
    <3>1. CASE Done(p)
      BY <3>1, ProcTypes
    <3>2. CASE proc' = [proc EXCEPT ![p].pc = "swap", ![p].copy = row]
      BY <1>1, <3>2 DEF ProcState
    <3> QED BY <1>6, <3>1, <3>2 DEF ReadPayload
  <2> QED BY <1>6, <2>1 DEF ReadPayload, history
<1>7. CASE CompareAndSwap(p)
  <2>1. row' \in Row /\ told' \subseteq Mutation
    BY <1>1, <1>2, <1>7, MutatedRow DEF CompareAndSwap
  <2>2. proc' \in [Proc -> ProcState]
    BY <1>1, <1>7, ProcTypes DEF CompareAndSwap, ProcState
  <2> QED BY <1>7, <2>1, <2>2 DEF CompareAndSwap
<1>8. CASE SelectForUpdate(p)
  BY <1>8, <1>1, <1>2, RowTypes, MutatedRow, ProcTypes
     DEF SelectForUpdate, Done, Idle, Refused, ProcState, history
<1>9. CASE UpdateAndCommit(p)
  BY <1>9, <1>1, <1>2, RowTypes, MutatedRow, ProcTypes
     DEF UpdateAndCommit, Done, Idle, Mutated, Bump, ProcState, history
<1>10. CASE PurgeLists(p)
  BY <1>10, <1>1, <1>2, RowTypes, MutatedRow, ProcTypes
     DEF PurgeLists, Start, ProcState, history
<1>11. CASE PurgeLooksUp(p)
  BY <1>11, <1>1, <1>2, RowTypes, MutatedRow, ProcTypes
     DEF PurgeLooksUp, Done, Idle, Become, ProcState, history
<1>12. CASE DeleteLocked(p)
  BY <1>12, <1>1, <1>2, RowTypes, MutatedRow, ProcTypes
     DEF DeleteLocked, Purge, Done, Idle, ProcState, history
<1>13. CASE DeleteAndCommit(p)
  BY <1>13, <1>1, <1>2, RowTypes, MutatedRow, ProcTypes
     DEF DeleteAndCommit, Purge, Done, Idle, ProcState, history
<1>14. CASE DeleteScript(p)
  BY <1>14, <1>1, <1>2, RowTypes, MutatedRow, ProcTypes
     DEF DeleteScript, Purge, Done, Idle, ProcState, history
<1>15. ASSUME NEW m \in Mutation, StartMutation(p, m)
      PROVE  TypeOK'
  BY <1>15, RowTypes DEF StartMutation, Start, ProcState, history
<1> QED BY <1>3, <1>4, <1>5, <1>6, <1>7, <1>8, <1>9, <1>10, <1>11, <1>12, <1>13,
    <1>14, <1>15 DEF RowStep

(* ... every step on the barrier keys, ...                                 *)
LEMMA TypeBarrierStep ==
  ASSUME TypeOK, ControlInv, FreshInv, NEW p \in Proc, BarrierStep(p)
  PROVE  TypeOK'
<1> USE DEF TypeOK
<1>1. /\ proc[p] \in ProcState
      /\ proc[p].pc \in {"barrier", "check", "null", "execute", "call"} =>
           proc[p].op \in BarrierOp
  BY DEF ControlInv
<1>2. \A op \in BarrierOp :
        Decision(op, keys) \in {"duplicate", "cancelled_try", "null", "execute"}
  BY DEF Decision
<1>3. CASE DecideAtOnce(p)
  BY <1>3, <1>1, <1>2, ProcTypes
     DEF DecideAtOnce, Decide, Tell, Become, Done, Idle, history
<1>4. CASE InsertBarrier(p)
  BY <1>4, <1>1, <1>2, ProcTypes
     DEF InsertBarrier, Become, Done, Idle, history
<1>5. CASE CheckOpposite(p)
  <2>1. proc[p].op \in BarrierOp /\ proc[p].op \notin keys
    BY <1>1, <1>5 DEF CheckOpposite, FreshInv
  <2>2. Decision(proc[p].op, keys) \in {"cancelled_try", "null", "execute"}
    BY <2>1 DEF Decision
  <2> QED BY <1>5, <2>2, ProcTypes DEF CheckOpposite, history
<1>6. CASE CommitBarrier(p)
  BY <1>6, <1>1, <1>2, ProcTypes
     DEF CommitBarrier, Tell, Become, Done, Idle, history
<1>7. CASE KeepKey(p)
  BY <1>7, <1>1, <1>2, ProcTypes
     DEF KeepKey, Done, Idle, history
<1>8. CASE ReleaseBarrier(p)
  BY <1>8, <1>1, <1>2, ProcTypes
     DEF ReleaseBarrier, Done, Idle, history
<1>9. CASE BarrierFenced(p)
  BY <1>9, <1>1, <1>2, ProcTypes
     DEF BarrierFenced, Decide, Tell, Become, Done, Idle, history
<1>10. CASE ReleaseFenced(p)
  BY <1>10, <1>1, <1>2, ProcTypes
     DEF ReleaseFenced, Done, Idle, history
<1>11. CASE TakeLease(p)
  BY <1>11, <1>1, <1>2, ProcTypes
     DEF TakeLease, Fenced, history
<1>12. ASSUME NEW op \in BarrierOp, StartBarrier(p, op)
      PROVE  TypeOK'
  BY <1>12, RowTypes DEF StartBarrier, Start, ProcState, history
<1> QED BY <1>3, <1>4, <1>5, <1>6, <1>7, <1>8, <1>9, <1>10, <1>11, <1>12 DEF
    BarrierStep

(* How a caller goes on: at another statement, or done.                    *)
LEMMA ProcEffects ==
  ASSUME proc \in [Proc -> ProcState], NEW p \in Proc
  PROVE  /\ \A pc : Become(p, pc) =>
              /\ proc'[p].pc = pc
              /\ proc'[p].op = proc[p].op
              /\ proc'[p].copy = proc[p].copy
              /\ \A q \in Proc \ {p} : proc'[q] = proc[q]
         /\ Done(p) =>
              /\ proc'[p] = Idle
              /\ \A q \in Proc \ {p} : proc'[q] = proc[q]
BY DEF Become, Done, ProcState

(* The steps on the row keep the control invariant, ...                    *)
LEMMA ControlRowStep ==
  ASSUME TypeOK, ControlInv, NEW p \in Proc, RowStep(p)
  PROVE  ControlInv'
<1>1. /\ proc \in [Proc -> ProcState] /\ row \in Row /\ now \in Nat
      /\ lock \in Proc \cup {Nobody} /\ Nobody \notin Proc
      /\ proc[p].copy \in Row
  BY StoresAssumption DEF TypeOK, ProcState, Nobody
<1>2. Idle.pc = "idle"
  BY DEF Idle
<1>3. CASE GetTransaction(p)
  BY <1>3, <1>1, <1>2, ProcEffects
     DEF GetTransaction, Start, ControlInv, Eligible, RowFree, RowLocking,
         Optimistic
<1>4. CASE UpdateTransaction(p)
  BY <1>4, <1>1, <1>2, ProcEffects
     DEF UpdateTransaction, Replaces, ControlInv, Eligible, RowFree, RowLocking,
         Optimistic
<1>5. CASE MutateLocked(p)
  BY <1>5, <1>1, <1>2, ProcEffects
     DEF MutateLocked, Refused, ControlInv, Eligible, RowFree, RowLocking,
         Optimistic
<1>6. CASE ReadPayload(p)
  BY <1>6, <1>1, <1>2, ProcEffects
     DEF ReadPayload, Refused, ProcState, ControlInv, Eligible, RowFree,
         RowLocking, Optimistic
<1>7. CASE CompareAndSwap(p)
  BY <1>7, <1>1, <1>2, ProcEffects
     DEF CompareAndSwap, ProcState, ControlInv, Eligible, RowFree, RowLocking,
         Optimistic
<1>8. CASE SelectForUpdate(p)
  BY <1>8, <1>1, <1>2, ProcEffects
     DEF SelectForUpdate, Refused, ProcState, ControlInv, Eligible, RowFree,
         RowLocking, Optimistic
<1>9. CASE UpdateAndCommit(p)
  BY <1>9, <1>1, <1>2, ProcEffects
     DEF UpdateAndCommit, ControlInv, Eligible, RowFree, RowLocking, Optimistic
<1>10. CASE PurgeLists(p)
  BY <1>10, <1>1, <1>2, ProcEffects
     DEF PurgeLists, Start, ControlInv, Eligible, RowFree, RowLocking,
         Optimistic
<1>11. CASE PurgeLooksUp(p)
  BY <1>11, <1>1, <1>2, ProcEffects
     DEF PurgeLooksUp, ControlInv, Eligible, RowFree, RowLocking, Optimistic
<1>12. CASE DeleteLocked(p)
  BY <1>12, <1>1, <1>2, ProcEffects
     DEF DeleteLocked, Purge, ControlInv, Eligible, RowFree, RowLocking,
         Optimistic
<1>13. CASE DeleteAndCommit(p)
  BY <1>13, <1>1, <1>2, ProcEffects
     DEF DeleteAndCommit, Purge, ControlInv, Eligible, RowFree, RowLocking,
         Optimistic
<1>14. CASE DeleteScript(p)
  BY <1>14, <1>1, <1>2, ProcEffects
     DEF DeleteScript, Purge, ControlInv, Eligible, RowFree, RowLocking,
         Optimistic
<1>15. ASSUME NEW m \in Mutation, StartMutation(p, m)
      PROVE  ControlInv'
  BY <1>15, <1>1 DEF StartMutation, Start, ControlInv, Eligible, RowLocking,
     Optimistic
<1> QED BY <1>3, <1>4, <1>5, <1>6, <1>7, <1>8, <1>9, <1>10, <1>11, <1>12, <1>13,
    <1>14, <1>15 DEF RowStep

(* ... so do the steps on the barrier keys, ...                             *)
LEMMA ControlBarrierStep ==
  ASSUME TypeOK, ControlInv, FreshInv, NEW p \in Proc, BarrierStep(p)
  PROVE  ControlInv'
<1>1. /\ proc \in [Proc -> ProcState] /\ row \in Row /\ now \in Nat
      /\ lock \in Proc \cup {Nobody} /\ Nobody \notin Proc
      /\ proc[p].copy \in Row
  BY StoresAssumption DEF TypeOK, ProcState, Nobody
<1>2. Idle.pc = "idle"
  BY DEF Idle
<1>3. CASE DecideAtOnce(p)
  BY <1>3, <1>1, <1>2, ProcEffects
     DEF DecideAtOnce, Decide, Tell, ControlInv, Eligible, RowLocking,
         Optimistic
<1>4. CASE InsertBarrier(p)
  BY <1>4, <1>1, <1>2, ProcEffects
     DEF InsertBarrier, ControlInv, Eligible, RowLocking, Optimistic
<1>5. CASE CheckOpposite(p)
  BY <1>5, <1>1, <1>2, ProcEffects
     DEF CheckOpposite, Decision, ControlInv, Eligible, RowLocking, Optimistic
<1>6. CASE CommitBarrier(p)
  BY <1>6, <1>1, <1>2, ProcEffects
     DEF CommitBarrier, Tell, ControlInv, Eligible, RowLocking, Optimistic
<1>7. CASE KeepKey(p)
  BY <1>7, <1>1, <1>2, ProcEffects
     DEF KeepKey, ControlInv, Eligible, RowLocking, Optimistic
<1>8. CASE ReleaseBarrier(p)
  BY <1>8, <1>1, <1>2, ProcEffects
     DEF ReleaseBarrier, ControlInv, Eligible, RowLocking, Optimistic
<1>9. CASE BarrierFenced(p)
  BY <1>9, <1>1, <1>2, ProcEffects
     DEF BarrierFenced, Decide, Tell, ControlInv, Eligible, RowLocking,
         Optimistic
<1>10. CASE ReleaseFenced(p)
  BY <1>10, <1>1, <1>2, ProcEffects
     DEF ReleaseFenced, ControlInv, Eligible, RowLocking, Optimistic
<1>11. CASE TakeLease(p)
  BY <1>11, <1>1, <1>2, ProcEffects
     DEF TakeLease, ControlInv, Eligible, RowLocking, Optimistic
<1>12. ASSUME NEW op \in BarrierOp, StartBarrier(p, op)
      PROVE  ControlInv'
  BY <1>12, <1>1 DEF StartBarrier, Start, ControlInv, Eligible, RowLocking,
     Optimistic
<1> QED BY <1>3, <1>4, <1>5, <1>6, <1>7, <1>8, <1>9, <1>10, <1>11, <1>12 DEF
    BarrierStep

(* ... and what remains: submission, time and crashes.                     *)
LEMMA TypeOtherStep ==
  ASSUME TypeOK,
         InsertTransaction \/ Clock \/ LeaseRunsOut \/ \E p \in Proc : Crash(p)
  PROVE  TypeOK'
<1> USE DEF TypeOK, history
<1>1. CASE InsertTransaction
  BY <1>1 DEF InsertTransaction, NewRow, Row
<1>2. CASE Clock
  BY <1>2 DEF Clock
<1>3. CASE LeaseRunsOut
  BY <1>3 DEF LeaseRunsOut
<1>4. ASSUME NEW p \in Proc, Crash(p)
      PROVE  TypeOK'
  BY <1>4, ProcTypes DEF Crash
<1> QED BY <1>1, <1>2, <1>3, <1>4

LEMMA ControlOtherStep ==
  ASSUME TypeOK, ControlInv,
         InsertTransaction \/ Clock \/ LeaseRunsOut \/ \E p \in Proc : Crash(p)
  PROVE  ControlInv'
<1>1. CASE InsertTransaction
  BY <1>1 DEF InsertTransaction, ControlInv, Eligible, RowLocking, Optimistic
<1>2. CASE Clock
  <2>1. \A r \in Row : Eligible(r) => Eligible(r)'
    BY <1>2, StoresAssumption DEF Clock, Eligible, Row, TypeOK
  <2>2. \A p \in Proc : proc[p].copy \in Row
    BY DEF TypeOK, ProcState
  <2> QED BY <1>2, <2>1, <2>2 DEF Clock, ControlInv, RowLocking, Optimistic
<1>3. CASE LeaseRunsOut
  BY <1>3 DEF LeaseRunsOut, ControlInv, Eligible, RowLocking, Optimistic
<1>4. ASSUME NEW p \in Proc, Crash(p)
      PROVE  ControlInv'
  <2>1. Nobody \notin Proc /\ Idle.pc = "idle" /\ proc \in [Proc -> ProcState]
    BY StoresAssumption DEF Nobody, Idle, TypeOK
  <2> QED BY <1>4, <2>1, ProcEffects
             DEF Crash, ControlInv, Eligible, RowLocking, Optimistic
<1> QED BY <1>1, <1>2, <1>3, <1>4

(* No step on the row touches a barrier key but a purge.                   *)
LEMMA FreshRowStep ==
  ASSUME TypeOK, ControlInv, FreshInv, NEW p \in Proc, RowStep(p)
  PROVE  FreshInv'
<1>1. /\ proc \in [Proc -> ProcState]
      /\ fresh \in [Proc -> BarrierOp \cup {NoKey}]
      /\ NoKey \notin BarrierOp /\ Idle.pc = "idle"
      /\ backend \in {"memory", "sqlite", "postgres", "mysql", "redis"}
  BY StoresAssumption DEF TypeOK, NoKey, BarrierOp, Idle
<1>2. CASE GetTransaction(p)
  BY <1>2, <1>1, ProcEffects
     DEF GetTransaction, Start, FreshInv, Scripted, history
<1>3. CASE UpdateTransaction(p)
  BY <1>3, <1>1, ProcEffects
     DEF UpdateTransaction, FreshInv, Scripted, history
<1>4. CASE MutateLocked(p)
  BY <1>4, <1>1, ProcEffects
     DEF MutateLocked, FreshInv, Scripted, history
<1>5. CASE ReadPayload(p)
  BY <1>5, <1>1, ProcEffects
     DEF ReadPayload, ProcState, FreshInv, Scripted, history
<1>6. CASE CompareAndSwap(p)
  BY <1>6, <1>1, ProcEffects
     DEF CompareAndSwap, ProcState, FreshInv, Scripted, history
<1>7. CASE SelectForUpdate(p)
  BY <1>7, <1>1, ProcEffects
     DEF SelectForUpdate, ProcState, FreshInv, Scripted, history
<1>8. CASE UpdateAndCommit(p)
  BY <1>8, <1>1, ProcEffects
     DEF UpdateAndCommit, FreshInv, Scripted, history
<1>9. CASE PurgeLists(p)
  BY <1>9, <1>1, ProcEffects
     DEF PurgeLists, Start, FreshInv, Scripted, history
<1>10. CASE PurgeLooksUp(p)
  BY <1>10, <1>1, ProcEffects
     DEF PurgeLooksUp, FreshInv, Scripted, history
<1>11. CASE DeleteLocked(p)
  BY <1>11, <1>1, ProcEffects
     DEF DeleteLocked, Purge, FreshInv, Scripted, history
<1>12. CASE DeleteAndCommit(p)
  BY <1>12, <1>1, ProcEffects
     DEF DeleteAndCommit, Purge, FreshInv, Scripted, history
<1>13. CASE DeleteScript(p)
  BY <1>13, <1>1, ProcEffects
     DEF DeleteScript, Purge, FreshInv, Scripted, history
<1>14. ASSUME NEW m \in Mutation, StartMutation(p, m)
      PROVE  FreshInv'
  BY <1>14, <1>1 DEF StartMutation, Start, FreshInv, Scripted, history
<1> QED BY <1>2, <1>3, <1>4, <1>5, <1>6, <1>7, <1>8, <1>9, <1>10, <1>11, <1>12,
    <1>13, <1>14 DEF RowStep

(* An insert waits for one of the same key, and a commit ends one.         *)
LEMMA FreshBarrierStep ==
  ASSUME TypeOK, ControlInv, FreshInv, NEW p \in Proc, BarrierStep(p)
  PROVE  FreshInv'
<1>1. /\ proc \in [Proc -> ProcState]
      /\ fresh \in [Proc -> BarrierOp \cup {NoKey}]
      /\ NoKey \notin BarrierOp /\ Idle.pc = "idle"
      /\ backend \in {"memory", "sqlite", "postgres", "mysql", "redis"}
  BY StoresAssumption DEF TypeOK, NoKey, BarrierOp, Idle
<1>2. CASE DecideAtOnce(p)
  BY <1>2, <1>1, ProcEffects
     DEF DecideAtOnce, Decide, Tell, Decision, ControlInv, FreshInv, Scripted,
         history
<1>3. CASE InsertBarrier(p)
  <2> DEFINE key == proc[p].op
  <2>1. /\ proc[p].pc = "barrier" /\ key \in BarrierOp /\ ~Scripted
        /\ \A q \in Proc : fresh[q] # key
        /\ UNCHANGED <<backend, keys>>
        /\ IF key \in keys THEN Done(p) /\ UNCHANGED fresh
           ELSE Become(p, "check") /\ fresh' = [fresh EXCEPT ![p] = key]
    BY <1>3 DEF InsertBarrier, ControlInv
  <2>2. /\ overlapped => overlapped'
        /\ (\E q \in Proc : fresh[q] # NoKey) => overlapped'
    BY <1>3, Zenon DEF InsertBarrier
  <2>3. CASE key \in keys
    <3>1. /\ proc'[p].pc = "idle" /\ UNCHANGED fresh
          /\ \A q \in Proc \ {p} : proc'[q] = proc[q]
      BY <1>1, <2>1, <2>3, ProcEffects
    <3> QED BY <2>1, <2>2, <3>1 DEF FreshInv, Scripted
  <2>4. CASE key \notin keys
    <3>1. Become(p, "check") /\ fresh' = [fresh EXCEPT ![p] = key]
      BY <2>1, <2>4
    <3>2. /\ proc'[p].pc = "check" /\ proc'[p].op = key
          /\ \A q \in Proc \ {p} : proc'[q] = proc[q]
      BY <1>1, <3>1, ProcEffects
    <3>3. fresh'[p] = key /\ \A q \in Proc \ {p} : fresh'[q] = fresh[q]
      BY <1>1, <3>1
    <3> HIDE DEF key
    <3> QED BY <1>1, <2>1, <2>4, <2>2, <3>2, <3>3 DEF FreshInv, Scripted
  <2> QED BY <2>3, <2>4
<1>4. CASE CheckOpposite(p)
  BY <1>4, <1>1, ProcEffects
     DEF CheckOpposite, Decision, ControlInv, FreshInv, Scripted, history
<1>5. CASE CommitBarrier(p)
  BY <1>5, <1>1, ProcEffects
     DEF CommitBarrier, Tell, ControlInv, FreshInv, Scripted, history
<1>6. CASE KeepKey(p)
  BY <1>6, <1>1, ProcEffects
     DEF KeepKey, ControlInv, FreshInv, Scripted, history
<1>7. CASE ReleaseBarrier(p)
  BY <1>7, <1>1, ProcEffects
     DEF ReleaseBarrier, ControlInv, FreshInv, Scripted, history
<1>8. CASE BarrierFenced(p)
  BY <1>8, <1>1, ProcEffects
     DEF BarrierFenced, Decide, Tell, Decision, Fenced, ControlInv, FreshInv,
         Scripted, history
<1>9. CASE ReleaseFenced(p)
  BY <1>9, <1>1, ProcEffects
     DEF ReleaseFenced, Fenced, ControlInv, FreshInv, Scripted, history
<1>10. CASE TakeLease(p)
  BY <1>10, <1>1, ProcEffects
     DEF TakeLease, ControlInv, FreshInv, Scripted, history
<1>11. ASSUME NEW op \in BarrierOp, StartBarrier(p, op)
      PROVE  FreshInv'
  BY <1>11, <1>1 DEF StartBarrier, Start, FreshInv, Scripted, history
<1> QED BY <1>2, <1>3, <1>4, <1>5, <1>6, <1>7, <1>8, <1>9, <1>10, <1>11 DEF
    BarrierStep

-----------------------------------------------------------------------------
(* The row.                                                                *)

(* Callers that are about to update keep the copy they read.               *)
CopiesKept ==
  \A q \in Proc :
    proc'[q].pc = "update" =>
      proc[q].pc = "update" /\ proc'[q].copy = proc[q].copy

(* A step that leaves row and history alone keeps what is known of them.   *)
LEMMA RowUntouched ==
  ASSUME RedisInv, ToldInv, MutationsKept, CopiesKept,
         UNCHANGED <<backend, row, told, overwrote, purged>>
  PROVE  RedisInv' /\ ToldInv' /\ MutationsKept'
BY DEF RedisInv, ToldInv, MutationsKept, CopiesKept

(* So does one that replaces a row by its successor, and tells of nothing  *)
(* that is not in it.                                                      *)
LEMMA RowReplaced ==
  ASSUME TypeOK, RedisInv, ToldInv, MutationsKept, CopiesKept,
         row # NoRow, row' \in Row, row' # NoRow,
         row' = row \/ row'.rev = row.rev + 1,
         told \subseteq row.done => told' \subseteq row'.done,
         UNCHANGED <<backend, overwrote, purged>>
  PROVE  RedisInv' /\ ToldInv' /\ MutationsKept'
<1>1. ToldInv' /\ MutationsKept'
  BY DEF ToldInv, MutationsKept
<1>2. row.rev \in Nat /\ \A q \in Proc : proc[q].copy.rev \in Nat
  BY DEF TypeOK, Row, ProcState
<1>3. ASSUME backend = "redis", NEW q \in Proc, proc'[q].pc = "update"
      PROVE  proc'[q].copy.rev < row'.rev \/ proc'[q].copy = row'
  BY <1>2, <1>3 DEF RedisInv, CopiesKept
<1>4. backend = "redis" => ~purged
  BY DEF RedisInv
<1>5. RedisInv'
  BY <1>3, <1>4 DEF RedisInv
<1> QED BY <1>1, <1>5

(* A caller that goes on or is done does not read.                         *)
LEMMA CopiesStay ==
  ASSUME proc \in [Proc -> ProcState], NEW p \in Proc
  PROVE  /\ Done(p) => CopiesKept
         /\ \A pc : pc # "update" /\ Become(p, pc) => CopiesKept
         /\ \A op, pc, copy :
              pc # "update" /\ Start(p, op, pc, copy) => CopiesKept
<1>1. Idle.pc = "idle"
  BY DEF Idle
<1>2. Done(p) => CopiesKept
  BY <1>1, ProcEffects DEF CopiesKept
<1>3. \A pc : pc # "update" /\ Become(p, pc) => CopiesKept
  BY ProcEffects DEF CopiesKept
<1>4. ASSUME NEW op, NEW pc, NEW copy, pc # "update", Start(p, op, pc, copy)
      PROVE  CopiesKept
  BY <1>4 DEF Start, CopiesKept
<1> QED BY <1>2, <1>3, <1>4

(* The steps on the row keep what is acknowledged, in Redis also against   *)
(* updates.                                                                *)
LEMMA KeptRowStep ==
  ASSUME TypeOK, ControlInv, RedisInv, ToldInv, MutationsKept,
         NEW p \in Proc, RowStep(p)
  PROVE  RedisInv' /\ ToldInv' /\ MutationsKept'
<1>1. /\ proc \in [Proc -> ProcState] /\ row \in Row /\ now \in Nat
      /\ proc[p].copy \in Row
  BY DEF TypeOK, ProcState
<1>2. CASE GetTransaction(p)
  <2>1. /\ proc'[p].copy = row /\ row # NoRow
        /\ \A q \in Proc \ {p} : proc'[q] = proc[q]
        /\ UNCHANGED <<backend, row, told, overwrote, purged>>
    BY <1>1, <1>2 DEF GetTransaction, Start, history
  <2> QED BY <1>1, <2>1 DEF RedisInv, ToldInv, MutationsKept
<1>3. CASE UpdateTransaction(p)
  <2> DEFINE new == Bump([proc[p].copy EXCEPT !.open = FALSE])
  <2>1. /\ proc[p].pc = "update" /\ CopiesKept
        /\ row' = IF Replaces(p) THEN new ELSE row
        /\ UNCHANGED <<backend, told, purged>>
    BY <1>1, <1>3, CopiesStay DEF UpdateTransaction
  <2>2. [proc[p].copy EXCEPT !.open = FALSE] \in Row
    BY <1>1 DEF Row
  <2>3. /\ new \in Row /\ new # NoRow /\ new.done = proc[p].copy.done
        /\ new.rev = proc[p].copy.rev + 1
    <3>1. /\ [proc[p].copy EXCEPT !.open = FALSE].done = proc[p].copy.done
          /\ [proc[p].copy EXCEPT !.open = FALSE].rev = proc[p].copy.rev
      BY <1>1 DEF Row
    <3> QED BY <1>1, <2>2, <3>1, RowTypes
  <2>4. proc[p].copy # NoRow
    BY <2>1 DEF ControlInv
  <2> HIDE DEF new
  <2>5. CASE ~Replaces(p)
    <3>1. overwrote' = overwrote
      BY <1>3, <2>5 DEF UpdateTransaction, TypeOK
    <3> QED BY <2>1, <2>5, <3>1, RowUntouched
  <2>6. CASE Replaces(p) /\ row = proc[p].copy
    <3>1. overwrote' = overwrote
      BY <1>3, <2>6 DEF UpdateTransaction, TypeOK
    <3> QED BY <2>1, <2>3, <2>4, <2>6, <3>1, RowReplaced
  <2>7. CASE Replaces(p) /\ row # proc[p].copy
    <3>1. overwrote'
      BY <1>3, <2>7, Zenon DEF UpdateTransaction
    <3>2. backend # "redis"
      <4>1. proc[p].copy.rev \in Nat
        BY <1>1 DEF Row
      <4> QED BY <2>1, <2>7, <4>1 DEF Replaces, RedisInv
    <3> QED BY <2>1, <2>3, <2>7, <3>1, <3>2 DEF RedisInv, ToldInv, MutationsKept
  <2> QED BY <2>5, <2>6, <2>7
<1>4. CASE MutateLocked(p)
  <2>1. /\ proc[p].op \in Mutation /\ CopiesKept
        /\ UNCHANGED <<backend, overwrote, purged>>
    BY <1>1, <1>4, CopiesStay DEF MutateLocked, ControlInv
  <2>2. CASE Refused(row)
    BY <1>4, <2>1, <2>2, RowUntouched DEF MutateLocked
  <2>3. CASE ~Refused(row)
    <3>1. /\ row # NoRow /\ row' = Mutated(row, proc[p].op)
          /\ told' = told \cup {proc[p].op}
      BY <1>4, <2>3 DEF MutateLocked, Refused
    <3> QED BY <1>1, <2>1, <3>1, MutatedRow, RowReplaced
  <2> QED BY <2>2, <2>3
<1>5. CASE ReadPayload(p)
  <2>1. CopiesKept
    BY <1>1, <1>5, CopiesStay DEF ReadPayload, CopiesKept, ProcState
  <2> QED BY <1>5, <2>1, RowUntouched DEF ReadPayload, history
<1>6. CASE CompareAndSwap(p)
  <2>1. /\ proc[p].op \in Mutation /\ proc[p].copy # NoRow
        /\ UNCHANGED <<backend, overwrote, purged>>
    BY <1>6 DEF CompareAndSwap, ControlInv
  <2>2. CopiesKept
    BY <1>1, <1>6, CopiesStay DEF CompareAndSwap, CopiesKept, ProcState
  <2>3. CASE UNCHANGED <<row, told>>
    BY <2>1, <2>2, <2>3, RowUntouched
  <2>4. CASE /\ Unchanged(p) /\ row' = Mutated(proc[p].copy, proc[p].op)
             /\ told' = told \cup {proc[p].op}
    BY <1>1, <2>1, <2>2, <2>4, MutatedRow, RowReplaced DEF Unchanged
  <2> QED BY <1>6, <2>3, <2>4 DEF CompareAndSwap
<1>7. CASE SelectForUpdate(p)
  <2>1. CopiesKept
    BY <1>1, <1>7, CopiesStay DEF SelectForUpdate, CopiesKept, ProcState
  <2> QED BY <1>7, <2>1, RowUntouched DEF SelectForUpdate, history
<1>8. CASE UpdateAndCommit(p)
  <2>1. /\ row = proc[p].copy /\ row # NoRow /\ proc[p].op \in Mutation
        /\ row' = Mutated(row, proc[p].op) /\ told' = told \cup {proc[p].op}
        /\ CopiesKept /\ UNCHANGED <<backend, overwrote, purged>>
    BY <1>1, <1>8, CopiesStay DEF UpdateAndCommit, ControlInv
  <2> QED BY <1>1, <2>1, MutatedRow, RowReplaced
<1>9. CASE PurgeLists(p)
  BY <1>1, <1>9, CopiesStay, RowUntouched DEF PurgeLists, Start, history
<1>10. CASE PurgeLooksUp(p)
  BY <1>1, <1>10, CopiesStay, RowUntouched DEF PurgeLooksUp, history
<1>11. ASSUME Purge(p)
       PROVE  RedisInv' /\ ToldInv' /\ MutationsKept'
  <2>1. CopiesKept /\ UNCHANGED <<backend, told, overwrote>>
    BY <1>1, <1>11, CopiesStay DEF Purge
  <2>2. CASE Unchanged(p)
    <3>1. row' = NoRow /\ purged'
      BY <1>11, <2>2, Zenon DEF Purge
    <3> QED BY <2>1, <3>1 DEF RedisInv, ToldInv, MutationsKept
  <2>3. CASE ~Unchanged(p)
    <3>1. UNCHANGED <<row, purged>>
      BY <1>11, <2>3 DEF Purge, TypeOK
    <3> QED BY <2>1, <3>1, RowUntouched
  <2> QED BY <2>2, <2>3
<1>12. ASSUME NEW m \in Mutation, StartMutation(p, m)
       PROVE  RedisInv' /\ ToldInv' /\ MutationsKept'
  BY <1>1, <1>12, CopiesStay, RowUntouched DEF StartMutation, Start, history
<1> QED
  BY <1>2, <1>3, <1>4, <1>5, <1>6, <1>7, <1>8, <1>9, <1>10, <1>11, <1>12
     DEF RowStep, DeleteLocked, DeleteAndCommit, DeleteScript

(* No step on the barrier keys touches the row.                            *)
LEMMA KeptBarrierStep ==
  ASSUME TypeOK, RedisInv, ToldInv, MutationsKept, NEW p \in Proc,
     BarrierStep(p)
  PROVE  RedisInv' /\ ToldInv' /\ MutationsKept'
<1>1. proc \in [Proc -> ProcState]
  BY DEF TypeOK
<1>2. \A op : Decision(op, keys) # "update"
  BY DEF Decision
<1>3. UNCHANGED <<backend, row, told, overwrote, purged>>
  BY DEF BarrierStep, StartBarrier, Start, DecideAtOnce, InsertBarrier,
         CheckOpposite, CommitBarrier, KeepKey, ReleaseBarrier, BarrierFenced,
         ReleaseFenced, TakeLease, history
<1>4. CopiesKept
  <2>1. CASE DecideAtOnce(p) \/ BarrierFenced(p) \/ CommitBarrier(p)
    BY <1>1, <2>1, CopiesStay
       DEF DecideAtOnce, BarrierFenced, CommitBarrier, Decide, Tell
  <2>2. CASE InsertBarrier(p) \/ CheckOpposite(p)
    BY <1>1, <1>2, <2>2, CopiesStay DEF InsertBarrier, CheckOpposite
  <2>3. CASE KeepKey(p) \/ ReleaseBarrier(p) \/ ReleaseFenced(p)
    BY <1>1, <2>3, CopiesStay DEF KeepKey, ReleaseBarrier, ReleaseFenced
  <2>4. CASE TakeLease(p)
    BY <2>4 DEF TakeLease, CopiesKept
  <2>5. ASSUME NEW op \in BarrierOp, StartBarrier(p, op)
        PROVE  CopiesKept
    BY <1>1, <2>5, CopiesStay DEF StartBarrier
  <2> QED BY <2>1, <2>2, <2>3, <2>4, <2>5 DEF BarrierStep
<1> QED BY <1>3, <1>4, RowUntouched

LEMMA KeptOtherStep ==
  ASSUME TypeOK, RedisInv, ToldInv, MutationsKept,
         InsertTransaction \/ Clock \/ LeaseRunsOut \/ \E p \in Proc : Crash(p)
  PROVE  RedisInv' /\ ToldInv' /\ MutationsKept'
<1>1. CASE InsertTransaction
  BY <1>1 DEF InsertTransaction, NewRow, history, RedisInv, ToldInv,
     MutationsKept
<1>2. CASE Clock \/ LeaseRunsOut
  BY <1>2, RowUntouched DEF Clock, LeaseRunsOut, CopiesKept, history
<1>3. ASSUME NEW p \in Proc, Crash(p)
      PROVE  RedisInv' /\ ToldInv' /\ MutationsKept'
  BY <1>3, CopiesStay, RowUntouched DEF Crash, TypeOK, history
<1> QED BY <1>1, <1>2, <1>3

LEMMA FreshOtherStep ==
  ASSUME TypeOK, FreshInv,
         InsertTransaction \/ Clock \/ LeaseRunsOut \/ \E p \in Proc : Crash(p)
  PROVE  FreshInv'
<1>1. CASE InsertTransaction \/ Clock \/ LeaseRunsOut
  BY <1>1 DEF InsertTransaction, Clock, LeaseRunsOut, history, FreshInv,
     Scripted
<1>2. ASSUME NEW p \in Proc, Crash(p)
      PROVE  FreshInv'
  <2>1. proc \in [Proc -> ProcState] /\ fresh \in [Proc -> BarrierOp \cup
     {NoKey}]
    BY DEF TypeOK
  <2> QED BY <1>2, <2>1, ProcEffects DEF Crash, Idle, history, FreshInv,
     Scripted
<1> QED BY <1>1, <1>2

-----------------------------------------------------------------------------
(* The barrier.                                                            *)

BarrierInv == NullInv /\ BarrierOnce /\ NoTryAfterNull

(* Callers that have decided or are calling keep their operation.          *)
NoNewDecision ==
  \A q \in Proc :
    proc'[q].pc \in {"null", "execute", "call"} =>
      proc'[q].pc = proc[q].pc /\ proc'[q].op = proc[q].op

(* A step that leaves the keys and their history alone keeps what is known *)
(* of them.                                                                *)
LEMMA KeysUntouched ==
  ASSUME BarrierInv, NoNewDecision,
         UNCHANGED <<backend, keys, kept, nulled, overlapped, purged>>
  PROVE  BarrierInv'
BY DEF BarrierInv, NullInv, BarrierOnce, NoTryAfterNull, NoNewDecision,
   Executing,
       RowLocking

(* A caller that goes on elsewhere or is done decides nothing.             *)
LEMMA NothingDecided ==
  ASSUME proc \in [Proc -> ProcState], NEW p \in Proc
  PROVE  /\ Done(p) => NoNewDecision
         /\ \A pc : pc \notin {"null", "execute", "call"} /\ Become(p, pc) =>
              NoNewDecision
         /\ \A op, pc, copy :
              pc \notin {"null", "execute", "call"} /\ Start(p, op, pc, copy) =>
                NoNewDecision
<1>1. Idle.pc = "idle"
  BY DEF Idle
<1>2. Done(p) => NoNewDecision
  BY <1>1, ProcEffects DEF NoNewDecision
<1>3. \A pc : pc \notin {"null", "execute", "call"} /\ Become(p, pc) =>
        NoNewDecision
  BY ProcEffects DEF NoNewDecision
<1>4. ASSUME NEW op, NEW pc, NEW copy, pc \notin {"null", "execute", "call"},
             Start(p, op, pc, copy)
      PROVE  NoNewDecision
  BY <1>4 DEF Start, NoNewDecision
<1> QED BY <1>2, <1>3, <1>4

(* Of the steps on the row only a purge touches the keys.                  *)
LEMMA BarrierRowStep ==
  ASSUME TypeOK, BarrierInv, NEW p \in Proc, RowStep(p)
  PROVE  BarrierInv'
<1>1. proc \in [Proc -> ProcState]
  BY DEF TypeOK
<1>2. CASE Purge(p)
  <2>1. NoNewDecision /\ UNCHANGED <<backend, kept, nulled, overlapped>>
    BY <1>1, <1>2, NothingDecided DEF Purge
  <2>2. CASE Unchanged(p)
    <3>1. keys' = {} /\ purged'
      BY <1>2, <2>2, Zenon DEF Purge
    <3> QED BY <2>1, <3>1
            DEF BarrierInv, NullInv, BarrierOnce, NoTryAfterNull, NoNewDecision,
                RowLocking
  <2>3. CASE ~Unchanged(p)
    <3>1. UNCHANGED <<keys, purged>>
      BY <1>2, <2>3 DEF Purge, TypeOK
    <3> QED BY <2>1, <3>1, KeysUntouched
  <2> QED BY <2>2, <2>3
<1>3. CASE ~Purge(p)
  <2>1. UNCHANGED <<backend, keys, kept, nulled, overlapped, purged>>
    BY <1>3 DEF RowStep, GetTransaction, UpdateTransaction, StartMutation,
       Start,
         MutateLocked, ReadPayload, CompareAndSwap, SelectForUpdate,
         UpdateAndCommit, PurgeLists, PurgeLooksUp, DeleteLocked,
         DeleteAndCommit, DeleteScript, history
  <2>2. NoNewDecision
    <3>1. CASE GetTransaction(p) \/ PurgeLists(p)
      BY <1>1, <3>1, NothingDecided DEF GetTransaction, PurgeLists
    <3>2. CASE UpdateTransaction(p) \/ MutateLocked(p) \/ UpdateAndCommit(p)
      BY <1>1, <3>2, NothingDecided
         DEF UpdateTransaction, MutateLocked, UpdateAndCommit
    <3>3. CASE ReadPayload(p)
      BY <1>1, <3>3, NothingDecided DEF ReadPayload, NoNewDecision, ProcState
    <3>4. CASE CompareAndSwap(p)
      BY <1>1, <3>4, NothingDecided DEF CompareAndSwap, NoNewDecision, ProcState
    <3>5. CASE SelectForUpdate(p)
      BY <1>1, <3>5, NothingDecided DEF SelectForUpdate, NoNewDecision,
         ProcState
    <3>6. CASE PurgeLooksUp(p)
      BY <1>1, <3>6, NothingDecided DEF PurgeLooksUp
    <3>7. ASSUME NEW m \in Mutation, StartMutation(p, m)
          PROVE  NoNewDecision
      BY <1>1, <3>7, NothingDecided DEF StartMutation
    <3> QED
      BY <1>3, <3>1, <3>2, <3>3, <3>4, <3>5, <3>6, <3>7
         DEF RowStep, DeleteLocked, DeleteAndCommit, DeleteScript
  <2> QED BY <2>1, <2>2, KeysUntouched
<1> QED BY <1>2, <1>3

(* The memory store and Redis decide and record in one step.               *)
LEMMA DecideStep ==
  ASSUME TypeOK, ControlInv, FreshInv, BarrierInv, NEW p \in Proc,
         proc[p].pc = "barrier", Scripted, Decide(p, Decision(proc[p].op,
            keys)),
         UNCHANGED <<backend, kept, overlapped, purged>>
  PROVE  BarrierInv'
<1> DEFINE op == proc[p].op
           dec == Decision(op, keys)
<1>1. /\ proc \in [Proc -> ProcState] /\ op \in {"try", "cancel"}
      /\ \A q \in Proc : proc[q].pc \notin {"null", "execute"}
  BY DEF TypeOK, ControlInv, FreshInv, BarrierOp
<1>2. Tell(p, dec) /\ keys' = IF dec = "cancelled_try" THEN keys
                              ELSE keys \cup {op}
  BY DEF Decide
<1>3. CASE dec \in {"duplicate", "cancelled_try"}
  <2>1. keys' = keys
    BY <1>2, <1>3 DEF Decision
  <2>2. Done(p) /\ UNCHANGED nulled
    BY <1>2, <1>3 DEF Tell, TypeOK
  <2> QED BY <1>1, <2>1, <2>2, NothingDecided, KeysUntouched
<1>4. CASE dec = "null"
  <2>1. op = "cancel" /\ "cancel" \notin keys /\ "try" \notin keys
    BY <1>4 DEF Decision
  <2>2. Done(p) /\ nulled'
    BY <1>2, <1>4, Zenon DEF Tell
  <2>3. keys' = keys \cup {"cancel"} /\ NoNewDecision
    BY <1>1, <1>2, <1>4, <2>1, <2>2, NothingDecided
  <2> QED BY <1>1, <2>1, <2>2, <2>3
          DEF BarrierInv, NullInv, BarrierOnce, NoTryAfterNull, NoNewDecision,
              Executing, BarrierOp, RowLocking
<1>5. CASE dec = "execute"
  <2>1. op \notin keys /\ (op = "try" => "cancel" \notin keys)
    BY <1>5 DEF Decision
  <2>2. Become(p, "call") /\ nulled' = nulled
    BY <1>2, <1>5 DEF Tell, TypeOK
  <2>3. /\ proc'[p].pc = "call" /\ proc'[p].op = op
        /\ \A q \in Proc \ {p} : proc'[q] = proc[q]
        /\ keys' = keys \cup {op}
    BY <1>1, <1>2, <1>5, <2>2, ProcEffects
  <2> HIDE DEF op
  <2> QED BY <1>1, <2>1, <2>2, <2>3
          DEF BarrierInv, NullInv, BarrierOnce, NoTryAfterNull, Executing,
              BarrierOp, RowLocking
<1> QED BY <1>3, <1>4, <1>5 DEF Decision

(* The SQL stores record first, then look for the opposite key, ...        *)
LEMMA InsertStep ==
  ASSUME TypeOK, ControlInv, FreshInv, BarrierInv, NEW p \in Proc,
         InsertBarrier(p)
  PROVE  BarrierInv'
<1>1. /\ proc \in [Proc -> ProcState] /\ fresh[p] = NoKey
      /\ backend \in {"memory", "sqlite", "postgres", "mysql", "redis"}
  BY StoresAssumption DEF TypeOK, FreshInv, InsertBarrier
<1>2. /\ NoNewDecision
      /\ UNCHANGED <<backend, keys, kept, nulled, purged>>
  BY <1>1, NothingDecided DEF InsertBarrier
<1>3. overlapped => overlapped'
  BY Zenon DEF InsertBarrier
<1>4. overlapped' => RowLocking
  <2>1. ~RowLocking => \A q \in Proc : fresh[q] = NoKey
    BY <1>1 DEF InsertBarrier, MayWrite, Scripted, RowLocking
  <2>2. overlapped' = (overlapped \/ \E q \in Proc : fresh[q] # NoKey)
    BY DEF InsertBarrier
  <2>3. overlapped => RowLocking
    BY DEF BarrierInv, NoTryAfterNull
  <2> QED BY <2>1, <2>2, <2>3, Zenon
<1> QED
  BY <1>2, <1>3, <1>4
     DEF BarrierInv, NullInv, BarrierOnce, NoTryAfterNull, NoNewDecision,
         Executing, RowLocking

LEMMA CheckStep ==
  ASSUME TypeOK, ControlInv, FreshInv, BarrierInv, NEW p \in Proc,
         CheckOpposite(p)
  PROVE  BarrierInv'
<1> DEFINE dec == Decision(proc[p].op, keys)
<1>1. /\ proc \in [Proc -> ProcState] /\ proc[p].op \in BarrierOp
      /\ proc[p].pc = "check"
      /\ Become(p, dec)
      /\ UNCHANGED <<backend, keys, kept, nulled, overlapped, purged>>
  BY DEF TypeOK, CheckOpposite, ControlInv, history
<1>2. /\ dec = "null" => proc[p].op = "cancel" /\ "try" \notin keys
      /\ dec = "execute" => (proc[p].op = "try" => "cancel" \notin keys)
      /\ dec \in {"duplicate", "cancelled_try", "null", "execute"}
  BY DEF Decision
<1>3. /\ proc'[p].pc = dec /\ proc'[p].op = proc[p].op
      /\ \A q \in Proc \ {p} : proc'[q] = proc[q]
  BY <1>1, ProcEffects
<1> HIDE DEF dec
<1> QED
  BY <1>1, <1>2, <1>3
     DEF BarrierInv, NullInv, BarrierOnce, NoTryAfterNull, Executing, RowLocking

(* ... and tell the caller when they commit.                               *)
LEMMA CommitStep ==
  ASSUME TypeOK, ControlInv, FreshInv, BarrierInv, NEW p \in Proc,
         CommitBarrier(p)
  PROVE  BarrierInv'
<1> DEFINE op == proc[p].op
<1>1. /\ proc \in [Proc -> ProcState] /\ op \in {"try", "cancel"}
      /\ Tell(p, proc[p].pc)
      /\ keys' = IF fresh[p] = NoKey THEN keys ELSE keys \cup {fresh[p]}
      /\ UNCHANGED <<backend, kept, overlapped, purged>>
  BY DEF TypeOK, CommitBarrier, ControlInv, BarrierOp
<1>2. /\ proc[p].pc \in {"null", "execute"} =>
           fresh[p] = op /\ op \notin keys /\ keys' = keys \cup {op}
      /\ proc[p].pc = "cancelled_try" => keys' = keys
  BY <1>1 DEF FreshInv, NoKey
<1>3. ASSUME proc[p].pc \in {"null", "execute"}, ~overlapped, NEW q \in Proc, q
   # p
      PROVE  proc[q].pc \notin {"null", "execute"}
  BY <1>1, <1>2, <1>3 DEF FreshInv, NoKey, ControlInv, BarrierOp
<1>4. CASE proc[p].pc = "cancelled_try"
  <2>1. Done(p) /\ UNCHANGED nulled
    BY <1>1, <1>4 DEF Tell, TypeOK
  <2> QED BY <1>1, <1>2, <1>4, <2>1, NothingDecided, KeysUntouched
<1>5. CASE proc[p].pc = "null"
  <2>1. Done(p) /\ nulled'
    BY <1>1, <1>5, Zenon DEF Tell
  <2>2. op = "cancel" /\ (~overlapped => "try" \notin keys)
    BY <1>5 DEF BarrierInv, NullInv
  <2>3. NoNewDecision /\ proc'[p].pc = "idle"
    BY <1>1, <2>1, NothingDecided, ProcEffects DEF Idle
  <2>4. BarrierOnce'
    BY <1>1, <1>2, <1>5, <2>2, <2>3
       DEF BarrierInv, BarrierOnce, NoNewDecision, Executing, BarrierOp
  <2>5. NullInv'
    BY <1>1, <1>2, <1>3, <1>5, <2>1, <2>2, <2>3
       DEF BarrierInv, BarrierOnce, NullInv, NoNewDecision, Executing, BarrierOp
  <2>6. NoTryAfterNull'
    BY <1>1, <1>2, <1>5, <2>2, <2>3
       DEF BarrierInv, BarrierOnce, NoTryAfterNull, NoNewDecision, Executing,
           BarrierOp, RowLocking
  <2> QED BY <2>4, <2>5, <2>6 DEF BarrierInv
<1>6. CASE proc[p].pc = "execute"
  <2>1. Become(p, "call") /\ nulled' = nulled
    BY <1>1, <1>6 DEF Tell, TypeOK
  <2>2. /\ proc'[p].pc = "call" /\ proc'[p].op = op
        /\ \A q \in Proc \ {p} : proc'[q] = proc[q]
    BY <1>1, <2>1, ProcEffects
  <2> HIDE DEF op
  <2>3. ~overlapped /\ op = "try" => "cancel" \notin keys
    BY <1>6 DEF BarrierInv, NullInv, op
  <2>4. BarrierOnce'
    BY <1>1, <1>2, <1>6, <2>2
       DEF BarrierInv, NullInv, BarrierOnce, Executing, BarrierOp
  <2>5. NullInv'
    BY <1>1, <1>2, <1>3, <1>6, <2>1, <2>2
       DEF BarrierInv, NullInv, Executing, BarrierOp
  <2>6. NoTryAfterNull'
    BY <1>1, <1>2, <1>6, <2>1, <2>2, <2>3
       DEF BarrierInv, NullInv, NoTryAfterNull, Executing, BarrierOp, RowLocking
  <2> QED BY <2>4, <2>5, <2>6 DEF BarrierInv
<1> QED BY <1>4, <1>5, <1>6 DEF CommitBarrier

(* The call is over: the key is kept, or only its caller gives it back.    *)
LEMMA CallOver ==
  ASSUME TypeOK, ControlInv, BarrierInv, NEW p \in Proc,
         KeepKey(p) \/ ReleaseBarrier(p) \/ ReleaseFenced(p)
  PROVE  BarrierInv'
<1> DEFINE op == proc[p].op
<1>1. /\ proc \in [Proc -> ProcState] /\ op \in BarrierOp
      /\ proc[p].pc = "call" /\ Executing(p, op)
      /\ Done(p) /\ UNCHANGED <<backend, nulled, overlapped, purged>>
  BY DEF TypeOK, ControlInv, KeepKey, ReleaseBarrier, ReleaseFenced, Executing,
         history
<1>2. /\ NoNewDecision /\ proc'[p].pc = "idle"
      /\ \A q \in Proc \ {p} : proc'[q] = proc[q]
  BY <1>1, NothingDecided, ProcEffects DEF Idle
<1>3. \/ keys' = keys /\ kept' = kept
      \/ keys' = keys /\ kept' = kept \cup {op}
      \/ keys' = keys \ {op} /\ kept' = kept
  BY DEF KeepKey, ReleaseBarrier, ReleaseFenced, history
<1> HIDE DEF op
<1>4. BarrierOnce'
  BY <1>1, <1>2, <1>3 DEF BarrierInv, BarrierOnce, NoNewDecision, Executing
<1>5. NullInv'
  BY <1>1, <1>2, <1>3
     DEF BarrierInv, BarrierOnce, NullInv, NoNewDecision, Executing, BarrierOp
<1>6. NoTryAfterNull'
  BY <1>1, <1>2 DEF BarrierInv, NoTryAfterNull, NoNewDecision, Executing,
     RowLocking
<1> QED BY <1>4, <1>5, <1>6 DEF BarrierInv

LEMMA BarrierBarrierStep ==
  ASSUME TypeOK, ControlInv, FreshInv, BarrierInv, NEW p \in Proc,
         BarrierStep(p)
  PROVE  BarrierInv'
<1>1. proc \in [Proc -> ProcState]
  BY DEF TypeOK
<1>2. CASE DecideAtOnce(p)
  BY <1>2, DecideStep DEF DecideAtOnce
<1>3. CASE BarrierFenced(p)
  <2>1. CASE FenceLost(p)
    BY <1>1, <1>3, <2>1, NothingDecided, KeysUntouched DEF BarrierFenced
  <2>2. CASE ~FenceLost(p)
    BY <1>3, <2>2, DecideStep DEF BarrierFenced, Fenced, Scripted
  <2> QED BY <2>1, <2>2
<1>4. CASE TakeLease(p)
  BY <1>4, KeysUntouched DEF TakeLease, NoNewDecision, history
<1>5. ASSUME NEW op \in BarrierOp, StartBarrier(p, op)
      PROVE  BarrierInv'
  <2>1. NoNewDecision
    BY <1>1, <1>5, NothingDecided DEF StartBarrier
  <2> QED BY <1>5, <2>1, KeysUntouched DEF StartBarrier, Start, history
<1> QED
  BY <1>2, <1>3, <1>4, <1>5, InsertStep, CheckStep, CommitStep, CallOver
     DEF BarrierStep

LEMMA BarrierOtherStep ==
  ASSUME TypeOK, BarrierInv,
         InsertTransaction \/ Clock \/ LeaseRunsOut \/ \E p \in Proc : Crash(p)
  PROVE  BarrierInv'
<1>1. UNCHANGED <<backend, keys, kept, nulled, overlapped, purged>>
  BY DEF InsertTransaction, Clock, LeaseRunsOut, Crash, history
<1>2. NoNewDecision
  <2>1. CASE InsertTransaction \/ Clock \/ LeaseRunsOut
    BY <2>1 DEF InsertTransaction, Clock, LeaseRunsOut, NoNewDecision
  <2>2. ASSUME NEW p \in Proc, Crash(p)
        PROVE  NoNewDecision
    BY <2>2, NothingDecided DEF Crash, TypeOK
  <2> QED BY <2>1, <2>2
<1> QED BY <1>1, <1>2, KeysUntouched

-----------------------------------------------------------------------------
(* The theorems.                                                           *)

LEMMA StoresInit == Init => StoresInv
<1> SUFFICES ASSUME Init
             PROVE  StoresInv
  OBVIOUS
<1>1. Idle.pc = "idle"
  BY DEF Idle
<1>2. TypeOK
  BY RowTypes, StoresAssumption DEF Init, TypeOK
<1>3. ControlInv
  BY <1>1, StoresAssumption DEF Init, ControlInv, Nobody
<1>4. FreshInv
  BY <1>1 DEF Init, FreshInv
<1>5. RedisInv /\ ToldInv
  BY <1>1 DEF Init, RedisInv, ToldInv
<1>6. NullInv
  BY <1>1 DEF Init, NullInv, Executing
<1>7. MutationsKept /\ BarrierOnce /\ NoTryAfterNull
  BY <1>1 DEF Init, MutationsKept, BarrierOnce, NoTryAfterNull, Executing
<1> QED BY <1>2, <1>3, <1>4, <1>5, <1>6, <1>7 DEF StoresInv

LEMMA StoresStep == StoresInv /\ [Next]_vars => StoresInv'
<1> SUFFICES ASSUME StoresInv, [Next]_vars
             PROVE  StoresInv'
  OBVIOUS
<1> USE DEF StoresInv
<1>1. ASSUME NEW p \in Proc, RowStep(p)
      PROVE  StoresInv'
  BY <1>1, TypeRowStep, ControlRowStep, FreshRowStep, KeptRowStep,
     BarrierRowStep
     DEF BarrierInv
<1>2. ASSUME NEW p \in Proc, BarrierStep(p)
      PROVE  StoresInv'
  BY <1>2, TypeBarrierStep, ControlBarrierStep, FreshBarrierStep,
     KeptBarrierStep, BarrierBarrierStep
     DEF BarrierInv
<1>3. CASE InsertTransaction \/ Clock \/ LeaseRunsOut \/ \E p \in Proc :
   Crash(p)
  BY <1>3, TypeOtherStep, ControlOtherStep, FreshOtherStep, KeptOtherStep,
     BarrierOtherStep
     DEF BarrierInv
<1>4. CASE UNCHANGED vars
  <2>1. TypeOK' /\ ControlInv'
    BY <1>4 DEF vars, history, TypeOK, ControlInv, Eligible, RowLocking,
       Optimistic
  <2>2. FreshInv' /\ RedisInv' /\ ToldInv'
    BY <1>4 DEF vars, history, FreshInv, Scripted, RedisInv, ToldInv
  <2>3. NullInv' /\ MutationsKept' /\ BarrierOnce' /\ NoTryAfterNull'
    BY <1>4 DEF vars, history, NullInv, MutationsKept, BarrierOnce,
                NoTryAfterNull, Executing, RowLocking
  <2> QED BY <2>1, <2>2, <2>3
<1> QED BY <1>1, <1>2, <1>3, <1>4 DEF Next

(* The invariant of the five stores: types, which statement a caller is    *)
(* at, uncommitted keys, Redis revisions, and the three properties below.  *)
THEOREM StoresInvHolds == Spec => []StoresInv
<1>1. Init => StoresInv
  BY StoresInit
<1>2. StoresInv /\ [Next]_vars => StoresInv'
  BY StoresStep
<1> QED BY <1>1, <1>2, PTL DEF Spec

(* In every store a mutation that returned Ok stays in the row, unless an  *)
(* update_transaction replaced a row it had not read; never in Redis.      *)
THEOREM MutationsAreKept == Spec => []MutationsKept
<1>1. StoresInv => MutationsKept
  BY DEF StoresInv
<1> QED BY <1>1, StoresInvHolds, PTL

(* In every store barrier() lets one caller at a time execute, and nobody  *)
(* after a call that succeeded, until retention deletes the keys.          *)
THEOREM BarrierExecutesOnce == Spec => []BarrierOnce
<1>1. StoresInv => BarrierOnce
  BY DEF StoresInv
<1> QED BY <1>1, StoresInvHolds, PTL

(* A Try is executed after a Cancel was told to skip only in PostgreSQL or *)
(* MySQL, and only if the two calls of barrier() overlapped.               *)
THEOREM NoTryFollowsNull == Spec => []NoTryAfterNull
<1>1. StoresInv => NoTryAfterNull
  BY DEF StoresInv
<1> QED BY <1>1, StoresInvHolds, PTL

(* A step that deletes the row deletes one that is expired at that moment. *)
LEMMA DeletesExpired ==
  ASSUME StoresInv, Next, row # NoRow, row' = NoRow
  PROVE  Eligible(row)
<1> USE DEF StoresInv
<1>1. row \in Row /\ now \in Nat
  BY DEF TypeOK
<1>2. PICK p \in Proc : RowStep(p)
  BY DEF Next, InsertTransaction, Clock, LeaseRunsOut, Crash, BarrierStep,
         StartBarrier, Start, DecideAtOnce, InsertBarrier, CheckOpposite,
         CommitBarrier, KeepKey, ReleaseBarrier, BarrierFenced, ReleaseFenced,
         TakeLease
<1>3. proc[p].copy \in Row
  BY DEF TypeOK, ProcState
<1>4. CASE UpdateTransaction(p)
  <2>1. [proc[p].copy EXCEPT !.open = FALSE] \in Row
    BY <1>3 DEF Row
  <2> QED BY <1>1, <1>4, <2>1, RowTypes DEF UpdateTransaction
<1>5. CASE MutateLocked(p) \/ CompareAndSwap(p) \/ UpdateAndCommit(p)
  BY <1>1, <1>3, <1>5, MutatedRow
     DEF MutateLocked, CompareAndSwap, UpdateAndCommit, ControlInv, Unchanged
<1>6. CASE DeleteLocked(p) \/ DeleteAndCommit(p) \/ DeleteScript(p)
  BY <1>6
     DEF DeleteLocked, DeleteAndCommit, DeleteScript, Purge, Unchanged,
         ControlInv
<1>7. CASE GetTransaction(p) \/ ReadPayload(p) \/ SelectForUpdate(p)
             \/ PurgeLists(p) \/ PurgeLooksUp(p)
             \/ \E m \in Mutation : StartMutation(p, m)
  BY <1>7 DEF GetTransaction, ReadPayload, SelectForUpdate, PurgeLists,
              PurgeLooksUp, StartMutation, Start
<1> QED BY <1>2, <1>4, <1>5, <1>6, <1>7 DEF RowStep

(* Retention deletes a record only if it is expired when it is deleted,    *)
(* whatever happened since it was listed, and what was purged from Redis   *)
(* is not written again.                                                   *)
THEOREM RetentionIsSafe == Spec => RetentionSafe
<1> DEFINE Safe == /\ row # NoRow /\ row' = NoRow => Eligible(row)
                   /\ purged /\ backend = "redis" => row' = NoRow
<1>1. ASSUME StoresInv, StoresInv', [Next]_vars
      PROVE  [Safe]_vars
  <2>1. CASE UNCHANGED vars
    BY <2>1
  <2>2. CASE Next
    <3>1. row # NoRow /\ row' = NoRow => Eligible(row)
      BY <1>1, <2>2, DeletesExpired
    <3>2. backend' = backend
      <4>1. ASSUME NEW p \in Proc, RowStep(p) PROVE backend' = backend
        BY <4>1 DEF RowStep, GetTransaction, UpdateTransaction, StartMutation,
           Start, MutateLocked, ReadPayload, CompareAndSwap, SelectForUpdate,
           UpdateAndCommit, PurgeLists, PurgeLooksUp, DeleteLocked,
           DeleteAndCommit, DeleteScript, Purge
      <4>2. ASSUME NEW p \in Proc, BarrierStep(p) PROVE backend' = backend
        <5>1. CASE DecideAtOnce(p) \/ InsertBarrier(p) \/ CheckOpposite(p)
          BY <5>1 DEF DecideAtOnce, InsertBarrier, CheckOpposite
        <5> QED BY <4>2, <5>1 DEF BarrierStep, StartBarrier, Start,
                     CommitBarrier, KeepKey, ReleaseBarrier, BarrierFenced,
                     ReleaseFenced, TakeLease
      <4> QED BY <2>2, <4>1, <4>2 DEF Next, InsertTransaction, Clock,
                   LeaseRunsOut, Crash, TakeLease
    <3>3. purged => purged'
      <4>1. CASE \E p \in Proc : Purge(p)
        BY <4>1, Zenon DEF Purge
      <4>2. CASE ~ \E p \in Proc : Purge(p)
        <5>1. ASSUME NEW p \in Proc, RowStep(p) PROVE purged' = purged
          BY <4>2, <5>1 DEF RowStep, GetTransaction, UpdateTransaction,
             StartMutation, Start, MutateLocked, ReadPayload, CompareAndSwap,
             SelectForUpdate, UpdateAndCommit, PurgeLists, PurgeLooksUp,
             DeleteLocked, DeleteAndCommit, DeleteScript, history
        <5>2. ASSUME NEW p \in Proc, BarrierStep(p) PROVE purged' = purged
          <6>1. CASE DecideAtOnce(p) \/ InsertBarrier(p) \/ CheckOpposite(p)
            BY <6>1 DEF DecideAtOnce, InsertBarrier, CheckOpposite, history
          <6> QED BY <5>2, <6>1 DEF BarrierStep, StartBarrier, Start,
                       CommitBarrier, KeepKey, ReleaseBarrier, BarrierFenced,
                       ReleaseFenced, TakeLease, history
        <5> QED BY <2>2, <5>1, <5>2 DEF Next, InsertTransaction, Clock,
                     LeaseRunsOut, Crash, TakeLease, history
      <4> QED BY <4>1, <4>2
    <3> QED BY <1>1, <3>1, <3>2, <3>3 DEF StoresInv, RedisInv
  <2> QED BY <1>1, <2>1, <2>2
<1>2. [][Safe]_vars => RetentionSafe
  BY DEF RetentionSafe
<1> QED BY <1>1, <1>2, StoresInvHolds, PTL DEF Spec

=============================================================================
