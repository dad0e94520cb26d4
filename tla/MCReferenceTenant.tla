------------------------- MODULE MCReferenceTenant -------------------------
(* The reference tenants with values at the boundaries of the conditions.  *)
EXTENDS ReferenceTenant

MCNormStr(s) ==
  IF s \in {"P0", "P1", "P2"} THEN [P0 |-> "p0", P1 |-> "p1", P2 |-> "p2"][s] ELSE s

Numbers(X) == {Number(x) : x \in X}

Strings(X) == {Text(x) : x \in X}

Booleans == {Flag(TRUE), Flag(FALSE)}

MCSamples(w, n) ==
  CASE n = "plan_type"            -> Strings({"annual", "monthly", "enterprise", "api", "lifetime_deal"})
    [] n = "days_since_purchase"  -> Numbers({5, 14, 15, 31, 60, 61})
    [] n = "hours_since_purchase" -> Numbers({48, 49})
    [] n = "credit_usage_percent" -> Numbers({20, 21})
    [] n = "account_age_days"     -> Numbers({6, 7})
    [] n = "refund_amount"        -> Numbers({200, 201, 501})
    [] n = "tenure_months"        -> Numbers({2, 3})
    [] n = "tenure_years"         -> Numbers({2, 3})
    [] n = "discount_percent"     -> Numbers({10, 11, 20, 21, 31})
    [] n = "customer_stage"       -> Strings({"seed", "series_a"})
    [] n = "plan"                 -> Strings({"annual", "monthly"})
    [] n = "priority"             -> Strings({"P0", "p1", "p2"})
    [] n = "severity"             -> Strings({"p0", "p1", "p2", "p3", "p5"})
    [] n = "customer_type"        -> Strings({"enterprise", "smb"})
    [] n = "affected_users_pct"   -> Numbers({4})
    [] n = "sla_breach_hours"     -> Numbers({2, 3, 4})
    [] n = "churn_signals_count"  -> Numbers({2, 3})
    [] n = "status"               -> Strings({"new", "existing"})
    [] n = "role"                 -> Strings({"engineering", "sales"})
    [] n = "stage"                -> Strings({"offer", "screening"})
    [] n = "missed_kpi_quarters"  -> Numbers({1, 2})
    [] n = "invoice_amount"       -> Numbers({3499, 3500})
    [] n = "vendor_type"          -> Strings({"software", "hardware"})
    [] n = "amount"               -> Numbers({499, 500, 2500, 2501, 10000, 10001})
    [] OTHER                      -> Booleans
=============================================================================
