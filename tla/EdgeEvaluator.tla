---------------------------- MODULE EdgeEvaluator ----------------------------
(***************************************************************************)
(* evaluate as the Rust port decides it (edge-evaluator/src/eval.rs), for  *)
(* the policies of one workflow: it goes by a status per policy and by the *)
(* ids of policies, and casts numbers to 64 bits.                          *)
(*                                                                         *)
(* Numbers are integers that a double holds exactly (both evaluators       *)
(* compare doubles); a condition holds a value of its type (the port       *)
(* panics where a boolean condition does not).                             *)
(***************************************************************************)
EXTENDS Integers, Sequences

CONSTANTS
  FactSpecs,   \* declared fact -> [value_type, default]
  NormStr(_),  \* norm_str: trims and lowers a string
  MaxInt64,    \* 2^63 - 1
  None

-----------------------------------------------------------------------------
(* check_type: f as i64 saturates. *)

(* Mutant of as_i64: the cast wraps around. *)
as_i64_wrapping(x) == ((x + MaxInt64 + 1) % (2 * MaxInt64 + 2)) - MaxInt64 - 1

as_i64(x) ==
  IF x > MaxInt64 THEN MaxInt64 ELSE IF x < -MaxInt64 - 1 THEN -MaxInt64 - 1 ELSE x

check_type(v) ==
  IF v.type = "number" THEN [type |-> "number", value |-> as_i64(v.value)] ELSE v

InvalidFacts(facts) ==
  \E n \in DOMAIN FactSpecs :
    facts[n] # None /\ facts[n].type # FactSpecs[n].value_type

effective(facts) ==
  [n \in DOMAIN FactSpecs |->
     IF facts[n] = None THEN FactSpecs[n].default ELSE check_type(facts[n])]

-----------------------------------------------------------------------------
(* compare and evaluate_policy *)

compare(cond, a) ==
  LET e  == cond.value
      op == cond.operator
  IN  CASE cond.value_type = "number" ->
             (op = "gt" /\ a > e) \/ (op = "gte" /\ a >= e) \/ (op = "lt" /\ a < e)
               \/ (op = "lte" /\ a <= e) \/ (op = "eq" /\ a = e) \/ (op = "neq" /\ a # e)
        [] cond.value_type = "string" ->
             (op = "eq" /\ NormStr(a) = NormStr(e))
               \/ (op = "neq" /\ NormStr(a) # NormStr(e))
               \/ (op = "in" /\ \E v \in e : NormStr(v) = NormStr(a))
               \/ (op = "not_in" /\ ~ \E v \in e : NormStr(v) = NormStr(a))
        [] cond.value_type = "boolean" -> a = e

any_fail(policy, eff) ==
  \E k \in DOMAIN policy.conditions :
    LET cond == policy.conditions[k]
    IN  eff[cond.field] # None /\ ~ compare(cond, eff[cond.field].value)

missing_fields(policy, eff) ==
  {policy.conditions[k].field : k \in
     {k \in DOMAIN policy.conditions : eff[policy.conditions[k].field] = None}}

status(policy, eff) ==
  IF any_fail(policy, eff) THEN "Failed"
  ELSE IF missing_fields(policy, eff) # {} THEN "Undeterminable"
  ELSE "Matched"

with_status(policies, eff, s) == {i \in DOMAIN policies : status(policies[i], eff) = s}

-----------------------------------------------------------------------------
(* select_winner *)

ids(policies, S) == {policies[i].id : i \in S}

(* The ids that matched policies override, if they match themselves. *)
overridden(policies, matched) ==
  ids(policies, matched) \cap UNION {policies[i].overrides : i \in matched}

unoverridden(policies, matched) ==
  {i \in matched : policies[i].id \notin overridden(policies, matched)}

(* retain(specificity == top), with top the greatest there is. *)
retain_specific(policies, S) ==
  {i \in S : \A j \in S : Len(policies[j].conditions) <= Len(policies[i].conditions)}

retain_priority(policies, S) ==
  {i \in S : \A j \in S : policies[j].priority <= policies[i].priority}

survivors(policies, matched) ==
  retain_priority(policies, retain_specific(policies, unoverridden(policies, matched)))

-----------------------------------------------------------------------------
(* evaluate *)

Outcome(kind, policy_id, reason, missing, conflict) ==
  [kind |-> kind, policy_id |-> policy_id, escalation_reason |-> reason,
   missing_facts |-> missing, conflict_between |-> conflict]

(* survivors[0], where there is no other. *)
only(left) == CHOOSE i \in left : TRUE

missing_of(policies, S, eff) == UNION {missing_fields(policies[i], eff) : i \in S}

decide(policies, eff) ==
  LET matched        == with_status(policies, eff, "Matched")
      undeterminable == with_status(policies, eff, "Undeterminable")
      left           == survivors(policies, matched)
      winner         == policies[only(left)]
      blockers       == {i \in undeterminable : policies[i].priority > winner.priority}
  IN  IF \E i, j \in left : i # j
        THEN Outcome("escalate", None, "conflict", {}, ids(policies, left))
      ELSE IF left = {} /\ undeterminable # {}
        THEN Outcome("escalate", None, "missing_facts",
                     missing_of(policies, undeterminable, eff), {})
      ELSE IF left = {}
        THEN Outcome("escalate", None, "no_matching_policy", {}, {})
      ELSE IF blockers # {}
        THEN Outcome("escalate", None, "missing_facts",
                     missing_of(policies, blockers, eff), {})
      ELSE Outcome(winner.kind, winner.id, None, {}, {})

evaluate(policies, facts) ==
  IF InvalidFacts(facts)
    THEN Outcome("InvalidFactsError", None, None, {}, {})
    ELSE decide(policies, effective(facts))
=============================================================================
