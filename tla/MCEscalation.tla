---------------------------- MODULE MCEscalation ----------------------------
(* Small instances of Escalation for TLC. *)
EXTENDS Escalation, TLC

CONSTANTS c1, k1

(* Every decision has a case identifier of its own ... *)
OwnCaseId(k) == k

(* ... or all share their prefix. *)
SharedCaseId(k) == c1

MCSymmetry ==
  Permutations(Threads) \cup Permutations(Keys) \cup Permutations(Actions)
=============================================================================
