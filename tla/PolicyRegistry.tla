-------------------------- MODULE PolicyRegistry --------------------------
(***************************************************************************)
(* The business modules side by side, and the registry that holds all of   *)
(* their policies once register_all_modules has run.  Selection looks at   *)
(* every policy of the registry, so a policy of one module can come in the *)
(* way of another's.                                                       *)
(***************************************************************************)
EXTENDS PolicyPosting

AP == INSTANCE AccountsPayable
AR == INSTANCE AccountsReceivable
FA == INSTANCE FixedAssets
CA == INSTANCE Cash
CO == INSTANCE Contracts
EX == INSTANCE Expense
GE == INSTANCE GLEntries
IV == INSTANCE Inventory
LE == INSTANCE Lease
PA == INSTANCE Payroll
PR == INSTANCE Procurement
PJ == INSTANCE Project
RE == INSTANCE Revenue
TA == INSTANCE Tax
WI == INSTANCE WorkInProcess

\* register_all_modules: one registry for every module's policies.
Registry ==
  AP!Policies \o AR!Policies \o FA!Policies \o GE!BUDGET_PROFILES \o CA!Policies \o CO!Policies \o
  GE!CREDIT_LOSS_PROFILES \o EX!Policies \o GE!Policies \o GE!INTERCOMPANY_PROFILES \o
  IV!Policies \o LE!Policies \o
  PA!Policies \o PR!Policies \o PJ!Policies \o RE!Policies \o TA!Policies \o WI!Policies
============================================================================
