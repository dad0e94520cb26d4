------------------------------ MODULE Evaluator ------------------------------
(***************************************************************************)
(* evaluate (backend/runtime/evaluator.py), the pure function from facts   *)
(* and a bundle to a decision, for the policies of one workflow.           *)
(*                                                                         *)
(* A policy is named by its position in the bundle: the code works on      *)
(* lists, and the order shows in the trace (eliminated_by).  What a trace  *)
(* lists in sorted order is a set here, and so are the rules applied,      *)
(* whose order is fixed.                                                   *)
(***************************************************************************)
EXTENDS Authoring, FiniteSets

CONSTANT FactSpecs  \* declared fact -> [value_type, default]

Declared == DOMAIN FactSpecs

OutcomeKinds == {"approve", "deny", "route", "escalate"}

EscalationReasons == {"missing_facts", "no_matching_policy", "conflict"}

Ids(ps) == {ps[i].id : i \in DOMAIN ps}

(* _assert_acyclic_overrides: the policies of a bundle can be numbered so  *)
(* that each one overrides only policies with a greater number.            *)
AcyclicOverrides(ps) ==
  \E rank \in [DOMAIN ps -> 1 .. Len(ps)] :
    \A i, j \in DOMAIN ps : ps[j].id \in ps[i].overrides => rank[i] < rank[j]

IsList(s) == Len(s) \in Nat /\ DOMAIN s = 1 .. Len(s)

(* Policy and Bundle._integrity. *)
Integrity(ps) ==
  /\ IsList(ps)
  /\ \A i, j \in DOMAIN ps : ps[i].id = ps[j].id => i = j
  /\ \A i \in DOMAIN ps :
       /\ ps[i].kind \in OutcomeKinds
       /\ ps[i].priority \in 0 .. 1000
       /\ ps[i].overrides \subseteq Ids(ps)
       /\ IsList(ps[i].conditions)
       /\ \A k \in DOMAIN ps[i].conditions :
            LET c == ps[i].conditions[k]
            IN  c.field \in Declared /\ c.value_type = FactSpecs[c.field].value_type
  /\ AcyclicOverrides(ps)

-----------------------------------------------------------------------------
(* _validate_facts *)

Invalid(f) ==
  \E n \in Declared : f[n] # None /\ f[n].type # FactSpecs[n].value_type

(* What conditions see: declared facts only, defaults for absent ones. *)
Effective(f) ==
  [n \in Declared |-> IF f[n] # None THEN f[n] ELSE FactSpecs[n].default]

-----------------------------------------------------------------------------
(* _compare and _evaluate_policy *)

CompareNumber(op, a, e) ==
  \/ op = "gt"  /\ a > e
  \/ op = "gte" /\ a >= e
  \/ op = "lt"  /\ a < e
  \/ op = "lte" /\ a <= e
  \/ op = "eq"  /\ a = e
  \/ op = "neq" /\ a # e

CompareString(op, a, e) ==
  \/ op = "eq"     /\ NormStr(a) = NormStr(e)
  \/ op = "neq"    /\ NormStr(a) # NormStr(e)
  \/ op = "in"     /\ NormStr(a) \in {NormStr(v) : v \in e}
  \/ op = "not_in" /\ NormStr(a) \notin {NormStr(v) : v \in e}

Compare(c, actual) ==
  \/ c.value_type = "number"  /\ CompareNumber(c.operator, actual.value, c.value)
  \/ c.value_type = "string"  /\ CompareString(c.operator, actual.value, c.value)
  \/ c.value_type = "boolean" /\ actual.value = c.value

Missing(p, eff) ==
  {n \in Declared : eff[n] = None /\ \E k \in DOMAIN p.conditions : p.conditions[k].field = n}

Fails(p, eff) ==
  \E k \in DOMAIN p.conditions :
    LET c == p.conditions[k]
    IN  eff[c.field] # None /\ ~ Compare(c, eff[c.field])

(* Mutant of Matched: a missing fact is neutral (the legacy behaviour). *)
MatchedUnlessFailed(ps, eff) == {i \in DOMAIN ps : ~ Fails(ps[i], eff)}

Matched(ps, eff) ==
  {i \in DOMAIN ps : ~ Fails(ps[i], eff) /\ Missing(ps[i], eff) = {}}

Undeterminable(ps, eff) ==
  {i \in DOMAIN ps : ~ Fails(ps[i], eff) /\ Missing(ps[i], eff) # {}}

-----------------------------------------------------------------------------
(* _select_winner, from the positions M of the matched policies *)

Overriders(ps, M, i) == {j \in M : ps[i].id \in ps[j].overrides}

Overridden(ps, M) == {i \in M : Overriders(ps, M, i) # {}}

specificity(p) == Len(p.conditions)

MostSpecific(ps, S) ==
  {i \in S : \A j \in S : specificity(ps[j]) <= specificity(ps[i])}

TopPriority(ps, S) == {i \in S : \A j \in S : ps[j].priority <= ps[i].priority}

Specific(ps, M) == MostSpecific(ps, M \ Overridden(ps, M))

(* Mutant of Survivors: priority is looked at before specificity. *)
SurvivorsByPriority(ps, M) ==
  MostSpecific(ps, TopPriority(ps, M \ Overridden(ps, M)))

Survivors(ps, M) == TopPriority(ps, Specific(ps, M))

First(S) == CHOOSE i \in S : \A j \in S : i <= j

Last(S) == CHOOSE i \in S : \A j \in S : j <= i

Elimination(ps, i, by, rule) ==
  [policy_id |-> ps[i].id, eliminated_by |-> ps[by].id, rule |-> rule]

(* Mutant of Eliminated: the losers on priority are not reported. *)
EliminatedWithoutPriority(ps, M) ==
  LET proven == M \ Overridden(ps, M)
  IN  {Elimination(ps, i, Last(Overriders(ps, M, i)), "overrides") : i \in Overridden(ps, M)}
      \cup {Elimination(ps, i, First(Specific(ps, M)), "specificity") : i \in proven \ Specific(ps, M)}

Eliminated(ps, M) ==
  LET proven == M \ Overridden(ps, M)
  IN  {Elimination(ps, i, Last(Overriders(ps, M, i)), "overrides") :
         i \in Overridden(ps, M)}
      \cup {Elimination(ps, i, First(Specific(ps, M)), "specificity") :
              i \in proven \ Specific(ps, M)}
      \cup {Elimination(ps, i, First(Survivors(ps, M)), "priority") :
              i \in Specific(ps, M) \ Survivors(ps, M)}

-----------------------------------------------------------------------------
(* evaluate *)

Escalate(reason, missing, conflict) ==
  [kind |-> "escalate", policy_id |-> None, escalation_reason |-> reason,
   missing_facts |-> missing, conflict_between |-> conflict]

Decisive(p) ==
  [kind |-> p.kind, policy_id |-> p.id, escalation_reason |-> None,
   missing_facts |-> {}, conflict_between |-> {}]

(* No outcome: the request is refused, or survivors[0] of an empty list. *)
Raise(error) ==
  [kind |-> error, policy_id |-> None, escalation_reason |-> None,
   missing_facts |-> {}, conflict_between |-> {}]

(* Mutant of MissingIn: the first field of each policy, known or not. *)
FirstFieldsIn(ps, U, eff) == {ps[i].conditions[1].field : i \in U}

MissingIn(ps, U, eff) == UNION {Missing(ps[i], eff) : i \in U}

Winner(ps, M) == First(Survivors(ps, M))

Blockers(ps, M, U) == {i \in U : ps[i].priority > ps[Winner(ps, M)].priority}

OutcomeOf(ps, M, U, eff) ==
  CASE Cardinality(Survivors(ps, M)) > 1 ->
         Escalate("conflict", {}, {ps[i].id : i \in Survivors(ps, M)})
    [] M = {} /\ U # {} ->
         Escalate("missing_facts", MissingIn(ps, U, eff), {})
    [] M = {} /\ U = {} ->
         Escalate("no_matching_policy", {}, {})
    [] M # {} /\ Survivors(ps, M) = {} ->
         Raise("IndexError")
    [] Cardinality(Survivors(ps, M)) = 1 /\ Blockers(ps, M, U) # {} ->
         Escalate("missing_facts", MissingIn(ps, Blockers(ps, M, U), eff), {})
    [] OTHER ->
         Decisive(ps[Winner(ps, M)])

evaluate(ps, f) ==
  LET eff == Effective(f)
  IN  IF Invalid(f)
        THEN Raise("InvalidFactsError")
        ELSE OutcomeOf(ps, Matched(ps, eff), Undeterminable(ps, eff), eff)

(* PrecedenceTrace *)
precedence(ps, f) ==
  LET eff == Effective(f)
      M   == Matched(ps, eff)
      U   == Undeterminable(ps, eff)
      out == OutcomeOf(ps, M, U, eff)
      blocked == M # {} /\ out.escalation_reason = "missing_facts"
  IN  [winner               |-> out.policy_id,
       tie_between          |-> out.conflict_between,
       eliminated           |-> Eliminated(ps, M),
       dominance_blocked_by |-> IF blocked THEN {ps[i].id : i \in Blockers(ps, M, U)} ELSE {}]
=============================================================================
