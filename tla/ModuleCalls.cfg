SPECIFICATION Spec
CONSTANTS
  None = None
  Sessions = {s1, s2}
  Modules = {"ap", "ar", "assets", "budget", "cash", "contracts", "credit_loss", "expense", "gl", "intercompany", "inventory", "lease", "payroll", "procurement", "project", "revenue", "tax", "wip"}
  MaxCalls = 2
INVARIANTS PostingHasRow AckedSurvives ControlTies ConsumedIsExpensed
CHECK_DEADLOCK FALSE
