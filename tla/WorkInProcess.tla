--------------------------- MODULE WorkInProcess ---------------------------
(***************************************************************************)
(* Work in process: finance_modules/wip (workflows, profiles, service).    *)
(***************************************************************************)
EXTENDS PolicyPosting

---------------------------------------------------------------------------
(* Workflows. *)

MANUFACTURING_ORDER_WORKFLOW == {
  T("planned", "release", "released", "materials_available"),
  T("planned", "cancel", "cancelled", Unguarded),
  T("released", "start", "in_progress", Unguarded),
  T("released", "cancel", "cancelled", Unguarded),
  T("in_progress", "complete", "completed", "all_operations_complete"),
  T("completed", "close", "closed", "variance_calculated"),
  T("completed", "reopen", "in_progress", Unguarded)}
_wip_draft_posted == DraftPosted

---------------------------------------------------------------------------
(* Accounting policies. *)

WIP_MATERIAL_ISSUED ==
  Policy("WipMaterialIssued", "wip.material_issued", <<>>,
    <<AtMost("quantity", 0)>>, <<GL("WIP", "RAW_MATERIALS")>>)
WIP_LABOR_CHARGED ==
  Policy("WipLaborCharged", "wip.labor_charged", <<>>,
    <<AtMost("hours", 0)>>, <<GL("WIP", "LABOR_CLEARING")>>)
WIP_OVERHEAD_APPLIED ==
  Policy("WipOverheadApplied", "wip.overhead_applied", <<>>,
    <<>>, <<GL("WIP", "OVERHEAD_APPLIED")>>)
WIP_COMPLETION ==
  Policy("WipCompletion", "wip.completion", <<>>,
    <<AtMost("quantity", 0)>>, <<GL("FINISHED_GOODS", "WIP")>>)
WIP_SCRAP ==
  Policy("WipScrap", "wip.scrap", <<>>,
    <<AtMost("quantity", 0)>>, <<GL("SCRAP_EXPENSE", "WIP")>>)
WIP_REWORK ==
  Policy("WipRework", "wip.rework", <<>>,
    <<AtMost("quantity", 0)>>, <<GL("WIP", "LABOR_CLEARING")>>)
WIP_LABOR_VARIANCE ==
  Policy("WipLaborVariance", "wip.labor_variance", <<>>,
    <<>>, <<GL("LABOR_VARIANCE", "WIP")>>)
WIP_MATERIAL_VARIANCE ==
  Policy("WipMaterialVariance", "wip.material_variance", <<>>,
    <<>>, <<GL("MATERIAL_VARIANCE", "WIP")>>)
WIP_OVERHEAD_VARIANCE ==
  Policy("WipOverheadVariance", "wip.overhead_variance", <<>>,
    <<>>, <<GL("OVERHEAD_APPLIED", "OVERHEAD_VARIANCE")>>)
WIP_BYPRODUCT_RECORDED ==
  Policy("WIPByproductRecorded", "wip.byproduct", <<>>,
    <<>>, <<GL("INVENTORY", "WIP")>>)
Policies == <<WIP_MATERIAL_ISSUED, WIP_LABOR_CHARGED, WIP_OVERHEAD_APPLIED,
  WIP_COMPLETION, WIP_SCRAP, WIP_REWORK, WIP_LABOR_VARIANCE, WIP_MATERIAL_VARIANCE,
  WIP_OVERHEAD_VARIANCE, WIP_BYPRODUCT_RECORDED>>

---------------------------------------------------------------------------
(* Service methods. *)

\* Rows the methods insert, as they are when inserted.
OverheadApplication == AddNew("wip_overhead_applications", "recorded")
ByproductRecord == AddNew("wip_byproduct_records", "recorded")

WorkOrder(job) == <<"wip_work_orders", job>>
LaborEntry(c) == <<"wip_labor_entries", c>>

\* The links of an issue and a completion have a fresh end each: they are never
\* in anybody's way, and nothing reads them.
record_material_issue(quantity, cost) ==
  PostOnly("record_material_issue", _wip_draft_posted, "wip.material_issued", cost,
    [quantity |-> quantity])
record_labor_charge(c, hours, rate) ==
  PostWithRow("record_labor_charge", _wip_draft_posted, "wip.labor_charged", hours * rate,
    [hours |-> hours], Add(LaborEntry(c), "recorded"))
record_overhead_allocation(amount) ==
  PostWithRow("record_overhead_allocation", _wip_draft_posted, "wip.overhead_applied", amount,
    [quantity |-> 1], OverheadApplication)
\* The completion inserts the work order under the job's number, so a job
\* completes once.
complete_job(job, quantity, price, total) ==
  IF total = None /\ price = None THEN Call("complete_job", <<RaiseError>>)
  ELSE PostWithRow("complete_job", _wip_draft_posted, "wip.completion",
         IF total = None THEN quantity * price ELSE total, [quantity |-> quantity],
         Add(WorkOrder(job), "completed"))
record_scrap(job, quantity, cost) ==
  PostWithRow("record_scrap", _wip_draft_posted, "wip.scrap", cost, [quantity |-> quantity],
    Set(WorkOrder(job), "completed"))
record_rework(quantity, cost) ==
  PostOnly("record_rework", _wip_draft_posted, "wip.rework", cost, [quantity |-> quantity])
\* Favourable and unfavourable variances post the same way round.
record_labor_variance(standard_hours, actual_hours, rate) ==
  PostOnly("record_labor_variance", _wip_draft_posted, "wip.labor_variance",
    Abs((actual_hours - standard_hours) * rate), [quantity |-> 1])
record_material_variance(standard_quantity, actual_quantity, cost) ==
  PostOnly("record_material_variance", _wip_draft_posted, "wip.material_variance",
    Abs((actual_quantity - standard_quantity) * cost), [quantity |-> 1])
record_overhead_variance(applied, actual) ==
  PostOnly("record_overhead_variance", _wip_draft_posted, "wip.overhead_variance",
    Abs(actual - applied), [quantity |-> 1])
record_byproduct(value) ==
  PostWithRow("record_byproduct", _wip_draft_posted, "wip.byproduct", value, NoCtx,
    ByproductRecord)

Calls ==
  {record_material_issue(1, 1), record_material_issue(0, 1), record_labor_charge("c", 1, 2),
   record_overhead_allocation(1), complete_job("j", 1, 2, None), complete_job("j", 1, None, 1),
   complete_job("j", 1, None, None), record_scrap("j", 1, 1), record_rework(1, 1),
   record_labor_variance(2, 1, 1), record_material_variance(1, 2, 1), record_overhead_variance(2, 1),
   record_byproduct(1)}
============================================================================
