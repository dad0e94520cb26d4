------------------------------ MODULE MCLedger ------------------------------
(* Small instances of Ledger for TLC. *)
EXTENDS Ledger, TLC

CONSTANTS b1, approve

(* Pure evaluation: bundle b1 approves, the facts are malformed for others. *)
MCEvaluate(facts, bundle) == IF bundle = b1 THEN approve ELSE Invalid

MCSymmetry == Permutations(Threads) \cup Permutations(ClientKeys)
=============================================================================
