----------------------------- MODULE Authoring -----------------------------
(***************************************************************************)
(* The vocabulary in which a reference bundle is written down: facts,      *)
(* conditions, policies and golden cases (backend/bundle/schema.py and     *)
(* backend/replay/cases.py), as the builders in backend/bundle/seed_*.py   *)
(* abbreviate it.  Evidence, rationale and descriptions are left out: no   *)
(* decision depends on them.                                               *)
(***************************************************************************)
EXTENDS Integers, Sequences

CONSTANTS
  NormStr(_),  \* _norm_str of the evaluator: strips and lowers a string
  None

(* Values of facts. *)
Number(x) == [type |-> "number", value |-> x]
Text(x) == [type |-> "string", value |-> x]
Flag(x) == [type |-> "boolean", value |-> x]

(* FactSpec *)
Required(t) == [value_type |-> t, default |-> None]
Defaults(v) == [value_type |-> v.type, default |-> v]

(* _c *)
Num(f, op, x) == [field |-> f, operator |-> op, value |-> x, value_type |-> "number"]
Str(f, op, x) == [field |-> f, operator |-> op, value |-> x, value_type |-> "string"]
Truth(f, x) == [field |-> f, operator |-> "eq", value |-> x, value_type |-> "boolean"]

Policy(id, kind, action, priority, conditions) ==
  [id |-> id, kind |-> kind, action |-> action, priority |-> priority,
   conditions |-> conditions, overrides |-> {}]

Overriding(p, ids) == [p EXCEPT !.overrides = ids]

(* _case: a decision that is expected, or the reason there is none. *)
Case(id, facts, kind, action) ==
  [case_id |-> id, facts |-> facts,
   expected |-> [kind |-> kind, action |-> action, escalation_reason |-> None]]

GapCase(id, facts, reason) ==
  [case_id |-> id, facts |-> facts,
   expected |-> [kind |-> "escalate", action |-> None, escalation_reason |-> reason]]

NoFacts == [n \in {} |-> None]

Workflow(facts, policies, cases) ==
  [facts |-> facts, policies |-> policies, cases |-> cases]
=============================================================================
