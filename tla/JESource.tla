------------------------------ MODULE JESource ------------------------------
(***************************************************************************)
(* The source tag of a journal entry                                       *)
(* (src/backend/models/domain_models/je_source.py).  Every producer passes *)
(* a free-form string; create_journal_entry normalizes it before the       *)
(* duplicate guard and the unique index uq_je_source use it.  The model    *)
(* starts after strip().lower(), so a raw source is a lower-case string    *)
(* and the router's "Manual" is "manual".                                  *)
(***************************************************************************)

\* The members of the enum.
Values ==
  { "sales", "purchase", "payroll", "treasury", "manufacturing", "manual",
    "recurring", "asset", "system", "expense", "settlement", "reversal",
    "payroll_reverse", "ticket_allowance", "service_invoice",
    "service_invoice_reverse", "intercompany", "intercompany_elimination",
    "subscription", "fx_revaluation", "revenue_recognition", "impairment",
    "ecl_provision", "nrv_test", "ifrs15_revenue", "lease", "tax",
    "provision", "pos", "shipment", "delivery", "payment" }

\* _ALIASES without the entries that are already enum members.
Alias(v) ==
  CASE v \in {"pos-order", "pos-return"}                      -> "pos"
    [] v = "deliveryorder"                                    -> "delivery"
    [] v \in {"shipment_dispatch", "shipment_receive"}        -> "shipment"
    [] v \in {"treasury_account_opening", "treasury_transfer"} -> "treasury"
    [] v \in {"bad_debt_provision", "leave_provision"}        -> "provision"
    [] v \in {"tax_payment", "tax_settlement"}                -> "tax"
    [] v = "asset_transfer"                                   -> "asset"
    [] v \in {"lease_contract", "lease_payment"}              -> "lease"
    [] v = "impairment_test"                                  -> "impairment"
    [] OTHER                                                  -> "system"

\* JESource.normalize: a member is kept, an alias is translated, and every
\* other string becomes "system".
Normalize(v) == IF v \in Values THEN v ELSE Alias(v)
=============================================================================
