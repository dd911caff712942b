------------------------------ MODULE Project ------------------------------
(***************************************************************************)
(* Projects: finance_modules/project (workflows, profiles, service).       *)
(***************************************************************************)
EXTENDS PolicyPosting

---------------------------------------------------------------------------
(* Workflows. *)

_project_draft_posted == DraftPosted

---------------------------------------------------------------------------
(* Accounting policies. *)

PROJECT_COST_RECORDED ==
  Policy("ProjectCostRecorded", "project.cost_recorded", <<>>,
    <<AtMost("amount", 0)>>, <<GL("PROJECT_WIP", "DIRECT_COST")>>)
PROJECT_BILLING_MILESTONE ==
  Policy("ProjectBillingMilestone", "project.billing_milestone", <<>>,
    <<AtMost("amount", 0)>>, <<GL("CONTRACT_RECEIVABLE", "CONTRACT_REVENUE")>>)
PROJECT_BILLING_TM ==
  Policy("ProjectBillingTM", "project.billing_tm", <<>>,
    <<AtMost("amount", 0)>>, <<GL("UNBILLED_AR", "CONTRACT_REVENUE")>>)
PROJECT_REVENUE_RECOGNIZED ==
  Policy("ProjectRevenueRecognized", "project.revenue_recognized", <<>>,
    <<AtMost("amount", 0)>>, <<GL("UNBILLED_AR", "CONTRACT_REVENUE")>>)
PROJECT_BUDGET_REVISED ==
  Policy("ProjectBudgetRevised", "project.budget_revised", <<>>,
    <<AtMost("amount", 0)>>, <<GL("PROJECT_WIP", "WIP_BILLED")>>)
PROJECT_PHASE_COMPLETED ==
  Policy("ProjectPhaseCompleted", "project.phase_completed", <<>>,
    <<AtMost("amount", 0)>>, <<GL("WIP_BILLED", "PROJECT_WIP")>>)
Policies == <<PROJECT_COST_RECORDED, PROJECT_BILLING_MILESTONE, PROJECT_BILLING_TM,
  PROJECT_REVENUE_RECOGNIZED, PROJECT_BUDGET_REVISED, PROJECT_PHASE_COMPLETED>>

---------------------------------------------------------------------------
(* Service methods. *)

\* Rows the methods insert, as they are when inserted.
CostEntry == AddNew("project_cost_entries", "recorded")

Project(name) == <<"project_projects", name>>

create_project(name) == Call("create_project", <<Add(Project(name), "active"), Commit>>)
record_cost(amount) ==
  PostWithRow("record_cost", _project_draft_posted, "project.cost_recorded", amount,
    [amount |-> amount], CostEntry)
\* A milestone is not stored: billing it twice posts twice.
bill_milestone(amount) ==
  PostOnly("bill_milestone", _project_draft_posted, "project.billing_milestone", amount,
    [amount |-> amount])
bill_time_materials(amount) ==
  PostOnly("bill_time_materials", _project_draft_posted, "project.billing_tm",
    amount, [amount |-> amount])
recognize_revenue(amount) ==
  PostOnly("recognize_revenue", _project_draft_posted, "project.revenue_recognized",
    amount, [amount |-> amount])
revise_budget(amount) ==
  PostOnly("revise_budget", _project_draft_posted, "project.budget_revised", amount,
    [amount |-> amount])
complete_phase(amount) ==
  PostOnly("complete_phase", _project_draft_posted, "project.phase_completed", amount,
    [amount |-> amount])

Calls ==
  {create_project("a"), record_cost(1), record_cost(0), bill_milestone(1), bill_time_materials(1),
   recognize_revenue(1), revise_budget(1), complete_phase(1)}
============================================================================
