---------------------------- MODULE Consultation ----------------------------
(***************************************************************************)
(* A caller asks one bundle for a decision, again and again, each time     *)
(* with one more fact: because the decision escalated for missing facts,   *)
(* or because it has learned one.  This is how the evaluator is used       *)
(* (missing_facts lists what to bring), and it is the relation the         *)
(* metamorphic tests (backend/tests/test_evaluator_properties.py) put      *)
(* between two evaluations.                                                *)
(***************************************************************************)
EXTENDS Evaluator

CONSTANTS
  Bundles,  \* bundles: the policies of the workflow, in order
  Names,    \* names a caller may use for a fact
  Values    \* values a caller may give: [type, value]

ASSUME ConsultationAssumptions ==
  /\ Declared \subseteq Names
  /\ None \notin Values /\ None \notin EscalationReasons
  /\ \A n \in Declared :
       FactSpecs[n].default # None =>
         FactSpecs[n].default.type = FactSpecs[n].value_type
  /\ \A ps \in Bundles : Integrity(ps) /\ None \notin Ids(ps)

VARIABLES
  bundle,  \* the active bundle
  facts    \* what the caller supplies: a value or None for each name

vars == <<bundle, facts>>

Init ==
  /\ bundle \in Bundles
  /\ facts = [n \in Names |-> None]

outcome == evaluate(bundle, facts)

Supply(n, v) ==
  /\ facts[n] = None
  /\ facts' = [facts EXCEPT ![n] = v]
  /\ UNCHANGED bundle

(* The caller brings a fact it was asked for, of the declared type. *)
Answer ==
  \E n \in outcome.missing_facts, v \in Values :
    v.type = FactSpecs[n].value_type /\ Supply(n, v)

Next == \E n \in Names, v \in Values : Supply(n, v)

Spec == Init /\ [][Next]_vars

(* A caller that is asked for facts brings them. *)
FairSpec == Spec /\ WF_vars(Answer)

-----------------------------------------------------------------------------
(* Properties. *)

(* The caller's facts have their type, and evaluate always returns an      *)
(* outcome or refuses ill-typed facts: it never runs out of survivors.     *)
TypeOK ==
  /\ bundle \in Bundles
  /\ facts \in [Names -> Values \cup {None}]
  /\ outcome.kind # "IndexError"
  /\ outcome.kind = "InvalidFactsError" <=> Invalid(facts)
  /\ outcome.escalation_reason \in EscalationReasons \cup {None}
  /\ outcome.missing_facts \subseteq Declared
  /\ outcome.conflict_between \subseteq Ids(bundle)

(***************************************************************************)
(* The semantics as the module docstring of evaluator.py states them, one  *)
(* policy against another instead of the code's successive filters.        *)
(***************************************************************************)
Known(n) == Effective(facts)[n] # None

Holds(c) == Known(c.field) /\ Compare(c, Effective(facts)[c.field])

ConditionsOf(p) == {p.conditions[k] : k \in DOMAIN p.conditions}

Proven == {i \in DOMAIN bundle : \A c \in ConditionsOf(bundle[i]) : Holds(c)}

Unproven ==
  {i \in DOMAIN bundle : \A c \in ConditionsOf(bundle[i]) : Known(c.field) => Holds(c)}
    \ Proven

(* Some policy of S overrides i. *)
OverriddenIn(S, i) == \E j \in S : bundle[i].id \in bundle[j].overrides

Beats(i, j) ==
  \/ specificity(bundle[i]) > specificity(bundle[j])
  \/ /\ specificity(bundle[i]) = specificity(bundle[j])
     /\ bundle[i].priority > bundle[j].priority

Standing == {i \in Proven : ~ OverriddenIn(Proven, i)}

Undefeated == {i \in Standing : \A j \in Standing : ~ Beats(j, i)}

(* Unproven exceptions with authored precedence over policy i. *)
Exceptions(i) == {j \in Unproven : bundle[j].priority > bundle[i].priority}

UnknownFields(S) ==
  {n \in Declared : ~ Known(n) /\ \E i \in S : \E c \in ConditionsOf(bundle[i]) : c.field = n}

(* evaluate decides in the order its module states (evaluator.py:17-31),   *)
(* overrides, specificity, priority: one undefeated policy rules unless an *)
(* unproven exception outranks it, several conflict, and where none is     *)
(* proven the decision asks for exactly the facts that could prove one.    *)
(* The plan it cites (V1_EXECUTION_PLAN.md:120) has authority settle what  *)
(* priority leaves tied; here, as in the code, such policies conflict.     *)
DecidesByPrecedence ==
  ~ Invalid(facts) =>
    /\ Proven = {} /\ Unproven = {} => outcome = Escalate("no_matching_policy", {}, {})
    /\ Proven = {} /\ Unproven # {} =>
         outcome = Escalate("missing_facts", UnknownFields(Unproven), {})
    /\ Proven # {} => Undefeated # {}
    /\ \A i \in Undefeated :
         \/ /\ Undefeated = {i}
            /\ outcome = IF Exceptions(i) = {}
                           THEN Decisive(bundle[i])
                           ELSE Escalate("missing_facts", UnknownFields(Exceptions(i)), {})
         \/ /\ Undefeated # {i}
            /\ outcome = Escalate("conflict", {}, {bundle[j].id : j \in Undefeated})

(* The trace is complete: each matched policy is the winner, in the tie,   *)
(* or eliminated once, by another matched policy; only the policy that an  *)
(* exception blocked, if there is one, goes without saying.                *)
ExplanationComplete ==
  LET p       == precedence(bundle, facts)
      matched == {bundle[i].id : i \in Proven}
      out     == {e.policy_id : e \in p.eliminated}
      kept    == p.tie_between \cup ({p.winner} \ {None})
  IN  ~ Invalid(facts) =>
        /\ out \cup kept \subseteq matched
        /\ out \cap kept = {}
        /\ Cardinality(matched \ (out \cup kept)) =
             IF p.dominance_blocked_by = {} THEN 0 ELSE 1
        /\ \A d, e \in p.eliminated : d.policy_id = e.policy_id => d = e
        /\ \A e \in p.eliminated : e.eliminated_by \in matched \ {e.policy_id}

(* Exceptions must be proven to defeat a rule: when one more fact takes    *)
(* the decision away from a policy, and no default was overwritten, then   *)
(* the fact has proven another policy, one that overrides it or that it    *)
(* does not beat.                                                          *)
LosesOnlyToProof ==
  \A i \in DOMAIN bundle :
    outcome = Decisive(bundle[i]) /\ outcome' # outcome =>
      \/ Invalid(facts')
      \/ \E n \in Declared : Known(n) /\ Effective(facts')[n] # Effective(facts)[n]
      \/ \E j \in Unproven \cap Proven' :
           bundle[i].id \in bundle[j].overrides \/ ~ Beats(i, j)

DefeatsAreProven == [][LosesOnlyToProof]_vars

(* A caller that brings what it is asked for is not asked for ever: the    *)
(* escalations for missing facts come to an end.                           *)
Asking == outcome.escalation_reason = "missing_facts"

AskingEnds == <>[] ~ Asking
=============================================================================
