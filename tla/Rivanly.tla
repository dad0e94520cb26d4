------------------------------ MODULE Rivanly ------------------------------
(* The rivanly-inc reference bundle and its golden cases                   *)
(* (backend/bundle/seed_rivanly.py).  Durations of SLA breaches are in     *)
(* half hours, since a case has 1.5 and one 2.5 hours.                     *)
EXTENDS Authoring

RivanlyRefundFacts ==
  [plan_type           |-> Required("string"),
   days_since_purchase |-> Required("number"),
   refund_amount       |-> Required("number"),
   tenure_months       |-> Required("number"),
   tenure_years        |-> Required("number")]

DiscountFacts ==
  [discount_percent |-> Defaults(Number(0)),
   customer_stage   |-> Required("string"),
   plan             |-> Required("string")]

RivanlyTriageFacts ==
  [priority             |-> Required("string"),
   customer_type        |-> Required("string"),
   active_outage        |-> Defaults(Flag(FALSE)),
   affected_users_pct   |-> Required("number"),
   workaround_available |-> Required("boolean")]

SlaFacts == [customer_type |-> Required("string"), sla_breach_hours |-> Required("number")]

ChurnFacts == [churn_signals_count |-> Required("number")]

OnboardingFacts == [customer_type |-> Required("string"), status |-> Required("string")]

HiringFacts == [role |-> Required("string"), stage |-> Required("string")]

PerformanceFacts == [missed_kpi_quarters |-> Required("number")]

VendorFacts == [invoice_amount |-> Required("number"), vendor_type |-> Required("string")]

(* Mutant of DenyAfter60: the edge to the prorated refund is forgotten. *)
DenyAfter60Forgets ==
  Overriding(Policy("refund.deny_after_60_days", "deny", "deny_refund", 100,
                    <<Num("days_since_purchase", "gt", 60)>>),
             {"refund.annual_full_14d", "refund.loyalty_precedent",
              "refund.monthly_new_large_founder"})

(* Tier-independent cutoff; the edges are needed because specificity comes *)
(* before priority.                                                        *)
DenyAfter60 ==
  Overriding(Policy("refund.deny_after_60_days", "deny", "deny_refund", 100,
                    <<Num("days_since_purchase", "gt", 60)>>),
             {"refund.annual_full_14d", "refund.annual_prorate",
              "refund.loyalty_precedent", "refund.monthly_new_large_founder"})

RivanlyRefundPolicies ==
  LET plan(x) == Str("plan_type", "eq", x)
      days(op, x) == Num("days_since_purchase", op, x)
  IN  << DenyAfter60,
         Policy("refund.enterprise_escalate", "escalate", "escalate_to_account_manager", 90,
                <<plan("enterprise")>>),
         Policy("refund.lifetime_deal_deny", "deny", "deny_refund_ltd_terms", 110,
                <<plan("lifetime_deal")>>),
         Policy("refund.monthly_new_large_founder", "escalate", "get_founder_approval", 80,
                <<plan("monthly"), Num("tenure_months", "lt", 3), Num("refund_amount", "gt", 500)>>),
         Policy("refund.annual_full_14d", "approve", "approve_full_refund", 70,
                <<plan("annual"), days("lte", 14)>>),
         Policy("refund.annual_prorate", "approve", "approve_prorated_refund", 60,
                <<plan("annual"), days("gt", 14)>>),
         Overriding(Policy("refund.loyalty_precedent", "approve", "approve_full_refund", 55,
                           <<Num("tenure_years", "gt", 2)>>),
                    {"refund.annual_prorate"}) >>

DiscountPolicies ==
  LET percent(op, x) == Num("discount_percent", op, x)
  IN  << Policy("discount.large_escalate_ae", "escalate", "escalate_to_account_executive", 90,
                <<percent("gt", 30)>>),
         Policy("discount.standard_10", "approve", "approve_discount", 70, <<percent("lte", 10)>>),
         Policy("discount.startup_20_annual", "approve", "approve_20_percent_startup_discount", 60,
                <<Str("customer_stage", "in", {"pre-seed", "seed"}),
                  Str("plan", "eq", "annual"), percent("lte", 20)>>) >>

RivanlyTriagePolicies ==
  LET priority(x) == Str("priority", "eq", x)
  IN  << Policy("triage.outage_incident_template", "route", "send_incident_template", 95,
                <<Truth("active_outage", TRUE)>>),
         Policy("triage.p0_enterprise_page", "route", "page_on_call", 90,
                <<priority("p0"), Str("customer_type", "eq", "enterprise")>>),
         Policy("triage.p1_resolve_4h", "route", "resolve_within_4_hours", 80, <<priority("p1")>>),
         Policy("triage.p2_backlog", "route", "add_to_backlog", 70, <<priority("p2")>>) >>

SlaPolicies ==
  << Policy("sla.enterprise_2h_notify_am_eng", "route", "notify_am_and_eng_lead", 80,
            <<Str("customer_type", "eq", "enterprise"), Num("sla_breach_hours", "gte", 4)>>),
     Policy("sla.standard_1h_notify_support_lead", "route", "notify_support_lead", 70,
            <<Num("sla_breach_hours", "gt", 2)>>) >>

ChurnPolicies ==
  << Policy("churn.am_call_3_signals", "route", "schedule_am_call", 80,
            <<Num("churn_signals_count", "gte", 3)>>),
     Policy("churn.below_threshold_monitor", "route", "monitor", 70,
            <<Num("churn_signals_count", "lt", 3)>>) >>

OnboardingPolicies ==
  << Policy("onboarding.enterprise_kickoff", "route", "initiate_enterprise_onboarding", 80,
            <<Str("customer_type", "eq", "enterprise"), Str("status", "eq", "new")>>) >>

HiringPolicies ==
  << Policy("hiring.eng_offer_founder_approval", "escalate", "get_founder_approval", 80,
            <<Str("role", "eq", "engineering"), Str("stage", "eq", "offer")>>) >>

PerformancePolicies ==
  << Policy("performance.pip_two_quarters", "route", "initiate_pip", 80,
            <<Num("missed_kpi_quarters", "gte", 2)>>) >>

VendorPolicies ==
  << Policy("vendor.software_3500_route_ops", "route", "route_to_ops_lead", 80,
            <<Str("vendor_type", "eq", "software"), Num("invoice_amount", "gte", 3500)>>) >>

-----------------------------------------------------------------------------
(* build_golden_cases; the cases of its later expansion stand with the     *)
(* others of their workflow.                                               *)

RivanlyRefundCases ==
  LET plan(x) == [plan_type |-> Text(x)]
      bought(x, days) == [plan_type |-> Text(x), days_since_purchase |-> Number(days)]
      monthly(usd) ==
        [plan_type |-> Text("monthly"), tenure_months |-> Number(2), refund_amount |-> Number(usd),
         days_since_purchase |-> Number(10)]
  IN  << Case("REF-01", bought("annual", 9), "approve", "approve_full_refund"),
         Case("REF-02", bought("annual", 20), "approve", "approve_prorated_refund"),
         Case("REF-03", bought("enterprise", 7), "escalate", "escalate_to_account_manager"),
         Case("REF-04", bought("lifetime_deal", 30), "deny", "deny_refund_ltd_terms"),
         Case("REF-05", monthly(650), "escalate", "get_founder_approval"),
         Case("REF-06", bought("annual", 75), "deny", "deny_refund"),
         Case("REF-07", bought("annual", 14), "approve", "approve_full_refund"),
         Case("REF-ADV-01",
              [plan_type |-> Text("enterprise"), days_since_purchase |-> Number(5),
               requested_by |-> Text("account_manager")],
              "escalate", "escalate_to_account_manager"),
         Case("SLACK-01",
              [plan_type |-> Text("annual"), days_since_purchase |-> Number(45), tenure_years |-> Number(4)],
              "approve", "approve_full_refund"),
         Case("COND-01", bought("annual", 14), "approve", "approve_full_refund"),
         Case("COND-02", bought("annual", 15), "approve", "approve_prorated_refund"),
         GapCase("COND-03",
                 [plan_type |-> Text("monthly"), tenure_months |-> Number(2), refund_amount |-> Number(500),
                  days_since_purchase |-> Number(10), tenure_years |-> Number(0)],
                 "no_matching_policy"),
         Case("COND-04", monthly(501), "escalate", "get_founder_approval"),
         Case("COND-06", bought("annual", 60), "approve", "approve_prorated_refund"),
         Case("COND-06B", bought("annual", 61), "deny", "deny_refund"),
         Case("COND-07", plan("lifetime_deal"), "deny", "deny_refund_ltd_terms"),
         GapCase("DET-03", [vague |-> Flag(TRUE)], "missing_facts"),
         GapCase("DET-04", plan("enterprise"), "missing_facts") >>

DiscountCases ==
  LET percent(x) == [discount_percent |-> Number(x)]
  IN  << Case("PRICE-01", percent(10), "approve", "approve_discount"),
         Case("PRICE-02", percent(35), "escalate", "escalate_to_account_executive"),
         Case("PRICE-03", [customer_stage |-> Text("pre-seed"), plan |-> Text("annual")],
              "approve", "approve_20_percent_startup_discount"),
         GapCase("PRICE-ADV-01", [customer_stage |-> Text("series_a"), discount_percent |-> Number(25)],
                 "no_matching_policy"),
         GapCase("PRICE-GAP", percent(25), "no_matching_policy"),
         GapCase("DET-05", percent(30), "no_matching_policy") >>

RivanlyTriageCases ==
  LET bug(x) == [priority |-> Text(x)]
  IN  << Case("ENG-01", [priority |-> Text("P0"), customer_type |-> Text("enterprise")],
              "route", "page_on_call"),
         Case("ENG-03", [active_outage |-> Flag(TRUE)], "route", "send_incident_template"),
         Case("ENG-04", bug("P1"), "route", "resolve_within_4_hours"),
         Case("ENG-ADV-01",
              [priority |-> Text("P2"), affected_users_pct |-> Number(4), workaround_available |-> Flag(TRUE)],
              "route", "add_to_backlog"),
         GapCase("ENG-P0-UNKNOWN", bug("P0"), "missing_facts"),
         GapCase("DET-01", NoFacts, "missing_facts"),
         GapCase("DET-06", [customer_type |-> Text("enterprise")], "missing_facts") >>

SlaCases ==
  LET sla(customer, halves) ==
        [customer_type |-> Text(customer), sla_breach_hours |-> Number(halves)]
  IN  << Case("ENG-02", sla("enterprise", 5), "route", "notify_am_and_eng_lead"),
         Case("SLA-STD", sla("smb", 3), "route", "notify_support_lead"),
         GapCase("SLA-UNKNOWN-TIER", [sla_breach_hours |-> Number(6)], "missing_facts"),
         Case("SLA-01", sla("enterprise", 4), "route", "notify_am_and_eng_lead"),
         Case("SLA-02", sla("enterprise", 3), "route", "notify_support_lead"),
         GapCase("SLA-03", sla("smb", 2), "no_matching_policy") >>

ChurnCases ==
  LET signals(x) == [churn_signals_count |-> Number(x)]
  IN  << Case("CS-01", signals(4), "route", "schedule_am_call"),
         Case("CS-03", signals(2), "route", "monitor"),
         Case("CS-ADV-01", signals(2), "route", "monitor"),
         Case("COND-08", signals(3), "route", "schedule_am_call"),
         Case("CHURN-05", signals(3), "route", "schedule_am_call"),
         Case("CHURN-06", signals(0), "route", "monitor") >>

OnboardingCases ==
  LET customer(x, status) == [customer_type |-> Text(x), status |-> Text(status)]
  IN  << Case("CS-02", customer("enterprise", "new"), "route", "initiate_enterprise_onboarding"),
         GapCase("ONBOARD-02", customer("enterprise", "existing"), "no_matching_policy"),
         GapCase("ONBOARD-03", customer("smb", "new"), "no_matching_policy") >>

HiringCases ==
  LET hire(role, stage) == [role |-> Text(role), stage |-> Text(stage)]
  IN  << Case("HR-01", hire("engineering", "offer"), "escalate", "get_founder_approval"),
         GapCase("HR-ADV-01",
                 [role |-> Text("product_manager"), stage |-> Text("offer"), includes_equity |-> Flag(TRUE)],
                 "no_matching_policy"),
         GapCase("DET-02", [stage |-> Text("offer")], "missing_facts"),
         GapCase("HIRING-02", hire("engineering", "screening"), "no_matching_policy"),
         GapCase("HIRING-03", hire("sales", "offer"), "no_matching_policy") >>

PerformanceCases ==
  << Case("HR-02", [missed_kpi_quarters |-> Number(2)], "route", "initiate_pip"),
     GapCase("PERF-02", [missed_kpi_quarters |-> Number(1)], "no_matching_policy") >>

VendorCases ==
  LET invoice(vendor, usd) == [vendor_type |-> Text(vendor), invoice_amount |-> Number(usd)]
  IN  << Case("OPS-01", invoice("software", 4200), "route", "route_to_ops_lead"),
         GapCase("OPS-SMALL", invoice("software", 900), "no_matching_policy"),
         Case("VENDOR-02", invoice("software", 3500), "route", "route_to_ops_lead"),
         GapCase("VENDOR-03", invoice("hardware", 5000), "no_matching_policy") >>

RivanlyBundle ==
  [refund      |-> Workflow(RivanlyRefundFacts, RivanlyRefundPolicies, RivanlyRefundCases),
   discount    |-> Workflow(DiscountFacts, DiscountPolicies, DiscountCases),
   bug_triage  |-> Workflow(RivanlyTriageFacts, RivanlyTriagePolicies, RivanlyTriageCases),
   sla         |-> Workflow(SlaFacts, SlaPolicies, SlaCases),
   churn       |-> Workflow(ChurnFacts, ChurnPolicies, ChurnCases),
   onboarding  |-> Workflow(OnboardingFacts, OnboardingPolicies, OnboardingCases),
   hiring      |-> Workflow(HiringFacts, HiringPolicies, HiringCases),
   performance |-> Workflow(PerformanceFacts, PerformancePolicies, PerformanceCases),
   vendor      |-> Workflow(VendorFacts, VendorPolicies, VendorCases)]
=============================================================================
