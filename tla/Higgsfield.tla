----------------------------- MODULE Higgsfield -----------------------------
(* The higgsfield reference bundle and its golden cases                    *)
(* (backend/bundle/seed_higgsfield.py).                                    *)
EXTENDS Authoring

HiggsfieldRefundFacts ==
  [plan_type            |-> Required("string"),
   days_since_purchase  |-> Required("number"),
   hours_since_purchase |-> Required("number"),
   credit_usage_percent |-> Defaults(Number(0)),
   account_age_days     |-> Defaults(Number(9999)),
   refund_amount        |-> Defaults(Number(0))]

HiggsfieldTriageFacts ==
  [severity |-> Required("string"), customer_type |-> Defaults(Text("standard"))]

ExpenseFacts ==
  [amount |-> Required("number"), is_new_saas |-> Defaults(Flag(FALSE))]

(* Mutant of FraudScreen: no authored precedence over the plans' rules. *)
FraudScreenUnranked ==
  Policy("refund.fraud_new_account_large", "escalate", "escalate_to_fraud_review", 70,
         <<Num("account_age_days", "lt", 7), Num("refund_amount", "gt", 200)>>)

FraudScreen ==
  Policy("refund.fraud_new_account_large", "escalate", "escalate_to_fraud_review", 100,
         <<Num("account_age_days", "lt", 7), Num("refund_amount", "gt", 200)>>)

HiggsfieldRefundPolicies ==
  LET plan(x) == Str("plan_type", "eq", x)
      days(op, x) == Num("days_since_purchase", op, x)
      hours(op, x) == Num("hours_since_purchase", op, x)
      usage(op, x) == Num("credit_usage_percent", op, x)
  IN  << FraudScreen,
         Policy("refund.enterprise_escalate_ae", "escalate", "escalate_to_account_executive", 90,
                <<plan("enterprise")>>),
         Policy("refund.annual_full_14d", "approve", "approve_full_refund", 70,
                <<plan("annual"), days("lte", 14)>>),
         Policy("refund.annual_prorated_low_usage", "approve", "approve_prorated_refund", 70,
                <<plan("annual"), days("gt", 14), usage("lte", 20)>>),
         Policy("refund.annual_high_usage_extension", "deny", "deny_refund_offer_extension", 70,
                <<plan("annual"), days("gt", 14), usage("gt", 20)>>),
         Policy("refund.monthly_48h_window", "approve", "approve_full_refund", 70,
                <<plan("monthly"), hours("lte", 48)>>),
         Policy("refund.monthly_after_48h_credit", "approve", "issue_account_credit_50_percent", 70,
                <<plan("monthly"), hours("gt", 48)>>),
         Policy("refund.api_unused_prepaid_30d", "approve", "approve_full_refund", 70,
                <<plan("api"), days("lte", 30)>>) >>

HiggsfieldTriagePolicies ==
  LET severity(x) == Str("severity", "eq", x)
  IN  << Policy("triage.p0_page_on_call", "route", "page_on_call", 100, <<severity("p0")>>),
         Policy("triage.p1_enterprise_notify_ae", "route", "notify_ae_and_on_call", 90,
                <<severity("p1"), Str("customer_type", "eq", "enterprise")>>),
         Policy("triage.p1_standard_assign_on_call", "route", "assign_to_on_call", 70,
                <<severity("p1")>>),
         Policy("triage.p2_next_standup", "route", "triage_next_standup", 60, <<severity("p2")>>),
         Policy("triage.p3_backlog", "route", "add_to_backlog", 50, <<severity("p3")>>) >>

CfoRung ==
  Policy("expense.cfo_2500_to_10000", "escalate", "require_cfo_approval", 70,
         <<Num("amount", "gt", 2500), Num("amount", "lte", 10000)>>)

NewSaas == Truth("is_new_saas", TRUE)

ExpensePolicies ==
  LET amount(op, x) == Num("amount", op, x)
  IN  << Policy("expense.new_saas_cfo", "escalate", "require_cfo_approval", 100,
                <<NewSaas>>),
         Policy("expense.manager_under_500", "approve", "approve_by_manager", 70,
                <<amount("lt", 500)>>),
         Policy("expense.dept_head_500_to_2500", "route", "route_to_department_head", 70,
                <<amount("gte", 500), amount("lte", 2500)>>),
         CfoRung,
         Policy("expense.cfo_ceo_above_10000", "escalate", "require_cfo_and_ceo_approval", 80,
                <<amount("gt", 10000)>>) >>

-----------------------------------------------------------------------------
(* build_golden_cases *)

HiggsfieldRefundCases ==
  LET annual(days) == [plan_type |-> Text("annual"), days_since_purchase |-> Number(days)]
      used(days, percent) ==
        [plan_type |-> Text("annual"), days_since_purchase |-> Number(days),
         credit_usage_percent |-> Number(percent)]
      monthly(hours) == [plan_type |-> Text("monthly"), hours_since_purchase |-> Number(hours)]
      api(days) == [plan_type |-> Text("api"), days_since_purchase |-> Number(days)]
      young(days, age, usd) ==
        [plan_type |-> Text("annual"), days_since_purchase |-> Number(days),
         account_age_days |-> Number(age), refund_amount |-> Number(usd)]
  IN  << Case("HF-REF-01", annual(9), "approve", "approve_full_refund"),
         Case("HF-REF-02", annual(14), "approve", "approve_full_refund"),
         Case("HF-REF-03", used(15, 10), "approve", "approve_prorated_refund"),
         Case("HF-REF-04", used(20, 20), "approve", "approve_prorated_refund"),
         Case("HF-REF-05", used(20, 21), "deny", "deny_refund_offer_extension"),
         Case("HF-REF-06", monthly(48), "approve", "approve_full_refund"),
         Case("HF-REF-07", monthly(49), "approve", "issue_account_credit_50_percent"),
         Case("HF-REF-08",
              [plan_type |-> Text("enterprise"), days_since_purchase |-> Number(1),
               refund_amount |-> Number(50000)],
              "escalate", "escalate_to_account_executive"),
         Case("HF-REF-09", api(15), "approve", "approve_full_refund"),
         GapCase("HF-REF-10", api(31), "no_matching_policy"),
         Case("HF-REF-11", young(3, 2, 500), "escalate", "escalate_to_fraud_review"),
         Case("HF-REF-12", young(3, 30, 500), "approve", "approve_full_refund"),
         Case("HF-REF-13", young(3, 2, 150), "approve", "approve_full_refund"),
         Case("HF-REF-14",
              [plan_type |-> Text("monthly"), hours_since_purchase |-> Number(10),
               account_age_days |-> Number(3), refund_amount |-> Number(250)],
              "escalate", "escalate_to_fraud_review"),
         GapCase("HF-REF-15",
                 [plan_type |-> Text("lifetime_deal"), days_since_purchase |-> Number(5)],
                 "no_matching_policy") >>

HiggsfieldTriageCases ==
  LET bug(x) == [severity |-> Text(x)]
      p1(customer) == [severity |-> Text("p1"), customer_type |-> Text(customer)]
  IN  << Case("HF-BUG-01", bug("p0"), "route", "page_on_call"),
         Case("HF-BUG-02", p1("enterprise"), "route", "notify_ae_and_on_call"),
         Case("HF-BUG-03", p1("standard"), "route", "assign_to_on_call"),
         Case("HF-BUG-04", bug("p2"), "route", "triage_next_standup"),
         Case("HF-BUG-05", bug("p3"), "route", "add_to_backlog"),
         GapCase("HF-BUG-06", bug("p5"), "no_matching_policy") >>

ExpenseCases ==
  LET usd(x) == [amount |-> Number(x)]
  IN  << Case("HF-EXP-01", usd(300), "approve", "approve_by_manager"),
         Case("HF-EXP-02", usd(500), "route", "route_to_department_head"),
         Case("HF-EXP-03", usd(2500), "route", "route_to_department_head"),
         Case("HF-EXP-04", usd(2501), "escalate", "require_cfo_approval"),
         Case("HF-EXP-05", usd(10000), "escalate", "require_cfo_approval"),
         Case("HF-EXP-06", usd(10001), "escalate", "require_cfo_and_ceo_approval"),
         Case("HF-EXP-07", [amount |-> Number(50), is_new_saas |-> Flag(TRUE)],
              "escalate", "require_cfo_approval") >>

HiggsfieldBundle ==
  [refund     |-> Workflow(HiggsfieldRefundFacts, HiggsfieldRefundPolicies, HiggsfieldRefundCases),
   bug_triage |-> Workflow(HiggsfieldTriageFacts, HiggsfieldTriagePolicies, HiggsfieldTriageCases),
   expense    |-> Workflow(ExpenseFacts, ExpensePolicies, ExpenseCases)]
=============================================================================
