----------------------------- MODULE EdgeParity -----------------------------
(***************************************************************************)
(* The caller of Consultation asks both evaluators: the reference, and the *)
(* Rust port that ships to the customer's side.                            *)
(***************************************************************************)
EXTENDS Consultation

CONSTANT MaxInt64  \* 2^63 - 1

Edge == INSTANCE EdgeEvaluator

ASSUME EdgeAssumptions ==
  /\ MaxInt64 \in Nat
  /\ \A n \in Declared : FactSpecs[n].value_type \in {"number", "string", "boolean"}
  /\ \A v \in Values : /\ v.type = "number" => v.value \in Int
                       /\ Edge!check_type(v) # None

(* Where a policy compares with a number strictly inside 64 bits. *)
InRange(ps) ==
  \A i \in DOMAIN ps : \A k \in DOMAIN ps[i].conditions :
    LET c == ps[i].conditions[k] IN
      c.value_type = "number" =>
        /\ c.value \in Int
        /\ -MaxInt64 - 1 < c.value /\ c.value < MaxInt64

(* OUTCOME-EXACT (edge-evaluator/src/eval.rs:1-7): while the thresholds of *)
(* a bundle lie strictly inside 64 bits the port decides like the          *)
(* reference, whatever facts are known, numbers beyond 64 bits included.   *)
EdgeAgrees == InRange(bundle) => Edge!evaluate(bundle, facts) = outcome
=============================================================================
