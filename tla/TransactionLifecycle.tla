------------------------ MODULE TransactionLifecycle ------------------------
(***************************************************************************)
(* What the coordinator promises about the phase of one global             *)
(* transaction, whatever its kind and however many drivers work on it: the *)
(* outcome is decided once, a decided transaction only moves towards that  *)
(* outcome, and a finished or force-stopped transaction never moves again. *)
(***************************************************************************)

VARIABLE phase

(* The phases: nothing decided, decided either way, and the three ends.    *)
Phases == {"open", "committing", "committed", "aborting", "aborted", "stopped"}

(* The phases TransactionStatus::is_terminal accepts.                      *)
FinalPhases == {"committed", "aborted", "stopped"}

(* The phases a transaction may move to from p in one stored write.        *)
Successors(p) ==
  CASE p = "open"       -> Phases
    [] p = "committing" -> {"committing", "committed", "stopped"}
    [] p = "aborting"   -> {"aborting", "aborted", "stopped"}
    [] OTHER            -> {p}

Init == phase = "open"

(* One stored write moves the transaction along.                           *)
Move == phase' \in Successors(phase)

Spec == Init /\ [][Move]_phase

=============================================================================
