-------------------------- MODULE ReferenceTenant --------------------------
(***************************************************************************)
(* The two reference tenants with their real bundles and golden cases.  A  *)
(* requester asks a workflow for a decision, fact after fact; an owner     *)
(* looks at a candidate that lacks a policy, or a whole workflow, in the   *)
(* workbench, where it is replayed on the golden cases against what is     *)
(* live.  The limits that the source documents and the authors' rationales *)
(* set are checked for every request, and not only for the golden cases.   *)
(***************************************************************************)
EXTENDS Rivanly, Higgsfield, Replay, TLC

CONSTANT Samples(_, _)  \* values to try for a fact of a workflow

Sets == INSTANCE FiniteSetsExt

Tenants == [rivanly |-> RivanlyBundle, higgsfield |-> HiggsfieldBundle]

(* Bundle: the workflows, without the golden cases. *)
LiveBundles ==
  [c \in DOMAIN Tenants |->
     [w \in DOMAIN Tenants[c] |->
        [facts |-> Tenants[c][w].facts, policies |-> Tenants[c][w].policies]]]

Live(company) == LiveBundles[company]

WorkflowCases(company, w) ==
  [k \in DOMAIN Tenants[company][w].cases |-> Tenants[company][w].cases[k] @@ [workflow |-> w]]

(* build_golden_cases: the cases of all workflows. *)
GoldenCases(company) ==
  Sets!FoldSet(LAMBDA w, cases : cases \o WorkflowCases(company, w), <<>>, DOMAIN Tenants[company])

(* A policy taken out, with the override edges that lead to it (an edge to *)
(* no policy does not validate).                                           *)
WithoutPolicy(bundle, w, i) ==
  LET ps   == bundle[w].policies
      kept == SelectSeq(ps, LAMBDA p : p.id # ps[i].id)
  IN  [bundle EXCEPT ![w].policies =
         [k \in DOMAIN kept |-> [kept[k] EXCEPT !.overrides = @ \ {ps[i].id}]]]

WithoutWorkflow(bundle, w) == [v \in DOMAIN bundle \ {w} |-> bundle[v]]

(* What the type of a fact allows as its value. *)
Typed(v, t) ==
  /\ v # None /\ v.type = t
  /\ t = "number" => v.value \in Int
  /\ t = "boolean" => v.value \in BOOLEAN

(* None is no value, requests are typed, and the strings that the bundles  *)
(* compare with are already stripped and in lower case.                    *)
ASSUME ReferenceAssumptions ==
  /\ None # Number(0) /\ None # Number(9999) /\ None # Flag(FALSE)
  /\ \A c \in DOMAIN Tenants : \A w \in DOMAIN Tenants[c] : \A n \in DOMAIN Tenants[c][w].facts :
       \A v \in Samples(w, n) : Typed(v, Tenants[c][w].facts[n].value_type)
  /\ \A c \in DOMAIN Tenants : \A w \in DOMAIN Tenants[c] : \A i \in DOMAIN Tenants[c][w].policies :
       /\ Tenants[c][w].policies[i].id # None
       /\ \A k \in DOMAIN Tenants[c][w].policies[i].conditions :
            LET x == Tenants[c][w].policies[i].conditions[k]
            IN  x.value_type = "string" /\ x.operator = "eq" => NormStr(x.value) = x.value

Candidates(company, w) ==
  {WithoutPolicy(Live(company), w, i) : i \in DOMAIN Live(company)[w].policies}
    \cup {WithoutWorkflow(Live(company), w)}

VARIABLES
  company,    \* one of the tenants
  workflow,   \* the workflow that is asked, or edited
  request,    \* the facts that the requester supplied so far
  candidate   \* the bundle in the workbench, None where nobody edits

tenantVars == <<company, workflow, request, candidate>>

TenantInit ==
  /\ company \in DOMAIN Tenants
  /\ workflow \in DOMAIN Tenants[company]
  /\ request = NoFacts
  /\ candidate = None

(* The requester supplies one more fact. *)
Bring(n, v) ==
  /\ candidate = None
  /\ n \notin DOMAIN request
  /\ request' = [m \in DOMAIN request \cup {n} |-> IF m = n THEN v ELSE request[m]]
  /\ UNCHANGED <<company, workflow, candidate>>

(* The owner replays a candidate. *)
Edit ==
  /\ request = NoFacts
  /\ candidate = None
  /\ candidate' \in Candidates(company, workflow)
  /\ UNCHANGED <<company, workflow, request>>

TenantNext ==
  \/ \E n \in DOMAIN Live(company)[workflow].facts :
       \E v \in Samples(workflow, n) : Bring(n, v)
  \/ Edit

TenantSpec == TenantInit /\ [][TenantNext]_tenantVars

-----------------------------------------------------------------------------
(* Properties. *)

Decision == Decide(Live(company), workflow, request)

Asked(c, w) == company = c /\ workflow = w /\ candidate = None

Given(n) == n \in DOMAIN request

Has(n, x) == Given(n) /\ request[n].value = x

AtMost(n, x) == Given(n) /\ request[n].value <= x

MoreThan(n, x) == Given(n) /\ request[n].value > x

(* The bundles validate, and the golden set guards every policy: the live  *)
(* bundle passes all of its cases, replayed against itself nothing flips,  *)
(* and a candidate that lacks any one policy fails a case and flips one,   *)
(* one that lacks a workflow gets errors for it (v1_container.py: the seed *)
(* is published only after it passed its own golden set).                  *)
GoldenSetGuards ==
  LET live   == Live(company)
      cases  == GoldenCases(company)
      result == Summary(IF candidate = None THEN live ELSE candidate, live, cases)
  IN  request = NoFacts =>
        /\ \A w \in DOMAIN live : Under(live[w].facts)!Integrity(live[w].policies)
        /\ IF candidate = None
             THEN result = [total |-> Len(cases), golden_passed |-> Len(cases),
                            golden_failed |-> 0, flips |-> 0,
                            new_escalations |-> 0, errors |-> 0]
             ELSE \/ result.golden_failed > 0 /\ result.flips > 0
                  \/ result.errors = Len(Tenants[company][workflow].cases)

(* The limits of the refund SOP (rivanly-inc): nobody gets a refund more   *)
(* than 60 days after the purchase, nor without the age of the purchase    *)
(* and the plan being known; enterprise and lifetime deals never, and a    *)
(* new monthly customer never more than 500 dollars.                       *)
RefundLimits ==
  Asked("rivanly", "refund") /\ Decision.kind = "approve" =>
    /\ AtMost("days_since_purchase", 60)
    /\ Given("plan_type") /\ request.plan_type.value \notin {"enterprise", "lifetime_deal"}
    /\ ~ /\ Has("plan_type", "monthly")
         /\ AtMost("tenure_months", 2)
         /\ MoreThan("refund_amount", 500)

(* The screens of the customer policy (higgsfield): an enterprise refund   *)
(* always goes to a human, and so does a refund over 200 dollars of an     *)
(* account less than 7 days old, to the fraud review, for facts that can   *)
(* be true (nobody has bought before there was an account).                *)
NothingBoughtBefore ==
  Given("days_since_purchase") => request.days_since_purchase.value <= request.account_age_days.value

FraudScreened ==
  Asked("higgsfield", "refund") =>
    /\ Has("plan_type", "enterprise") => Decision.kind = "escalate"
    /\ /\ AtMost("account_age_days", 6)
       /\ MoreThan("refund_amount", 200)
       /\ NothingBoughtBefore
       => Decision.action = "escalate_to_fraud_review"

(* The approval ladder for expenses has no gap and no overlap: every       *)
(* amount is decided, by the rung whose tier it is in.                     *)
Rung(x) ==
  CASE x < 500                 -> "approve_by_manager"
    [] x >= 500 /\ x <= 2500   -> "route_to_department_head"
    [] x > 2500 /\ x <= 10000  -> "require_cfo_approval"
    [] x > 10000               -> "require_cfo_and_ceo_approval"

LadderComplete ==
  Asked("higgsfield", "expense") /\ Given("amount") /\ ~ Has("is_new_saas", TRUE) =>
    Decision.action = Rung(request.amount.value)

(* What Higgsfield's seed gates stays gated, whichever facts come with it  *)
(* and whichever policies they bring along (seed_higgsfield.py, screens of *)
(* refunds and ladder of expenses).                                        *)
HiggsfieldGates == FraudScreened /\ LadderComplete
=============================================================================
