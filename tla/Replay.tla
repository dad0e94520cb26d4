------------------------------- MODULE Replay -------------------------------
(***************************************************************************)
(* ReplayEngine.run (backend/replay/engine.py) as a function: how a case   *)
(* set scores a candidate bundle against what each case expects, and       *)
(* against a reference bundle.  A bundle is a function from the names of   *)
(* its workflows to their facts and policies.                              *)
(***************************************************************************)
EXTENDS Authoring, FiniteSets

Under(specs) == INSTANCE Evaluator WITH FactSpecs <- specs

(* The facts of a request, None where a declared fact is not supplied. *)
Supplied(facts, specs) ==
  [n \in DOMAIN specs \cup DOMAIN facts |-> IF n \in DOMAIN facts THEN facts[n] ELSE None]

(* The action of the policy that decided; an escalation for a reason has   *)
(* none.                                                                   *)
ActionOf(policies, outcome) ==
  IF outcome.policy_id = None
    THEN None
    ELSE policies[CHOOSE i \in DOMAIN policies : policies[i].id = outcome.policy_id].action

(* evaluate, with its action.  KeyError: no such workflow. *)
Decide(bundle, workflow, facts) ==
  IF workflow \notin DOMAIN bundle
    THEN [kind |-> "KeyError", action |-> None, escalation_reason |-> None, policy_id |-> None]
    ELSE LET w   == bundle[workflow]
             out == Under(w.facts)!evaluate(w.policies, Supplied(facts, w.facts))
         IN  [kind |-> out.kind, action |-> ActionOf(w.policies, out),
              escalation_reason |-> out.escalation_reason, policy_id |-> out.policy_id]

(* _outcome_of returns an error. *)
Errs(decision) == decision.kind \in {"KeyError", "InvalidFactsError"}

(* Mutant of GoldenPass: only the kind of the outcome is compared. *)
GoldenPassKind(decision, expected) == decision.kind = expected.kind

(* golden_pass: what the case leaves open is not compared. *)
GoldenPass(decision, expected) ==
  /\ decision.kind = expected.kind
  /\ expected.action # None => decision.action = expected.action
  /\ expected.escalation_reason # None =>
       decision.escalation_reason = expected.escalation_reason

(* flipped: the reference has an outcome too, and it is another one. *)
Flipped(decision, reference) ==
  /\ ~ Errs(reference)
  /\ decision.kind # reference.kind \/ decision.action # reference.action

(* CaseResult.  A case is one of a workflow; reference is None when the    *)
(* run has no reference bundle.                                            *)
CaseResult(candidate, reference, case) ==
  LET mine == Decide(candidate, case.workflow, case.facts)
      ref  == Decide(reference, case.workflow, case.facts)
      flip == ~ Errs(mine) /\ reference # None /\ Flipped(mine, ref)
  IN  [error          |-> Errs(mine),
       golden_pass    |-> ~ Errs(mine) /\ GoldenPass(mine, case.expected),
       flipped        |-> flip,
       new_escalation |-> flip /\ mine.kind = "escalate" /\ ref.kind # "escalate"]

(* ReplaySummary over a list of cases. *)
Summary(candidate, reference, cases) ==
  LET result == [i \in DOMAIN cases |-> CaseResult(candidate, reference, cases[i])]
      count(set) == Cardinality(set)
  IN  [total         |-> Len(cases),
       golden_passed |-> count({i \in DOMAIN cases : result[i].golden_pass}),
       golden_failed |-> count({i \in DOMAIN cases : ~ result[i].error /\ ~ result[i].golden_pass}),
       flips         |-> count({i \in DOMAIN cases : result[i].flipped}),
       new_escalations |-> count({i \in DOMAIN cases : result[i].new_escalation}),
       errors        |-> count({i \in DOMAIN cases : result[i].error})]
=============================================================================
