SPECIFICATION JobSpec
CONSTANTS
  AllocationJobs <- MCAllocationJobs
  TaxJobs <- MCTaxJobs
  MatchJobs <- MCMatchJobs
  CascadeJobs <- MCCascadeJobs
  BillingJobs <- MCBillingJobs
  AgingJobs <- MCAgingJobs
  Works <- MCWorks
  FinalRates = {30, 38}
  AsOfDates = {0, 30, 60, 61, 90, 91, 136}
  MaxBillings = 3
  MaxReports = 2
INVARIANTS
  AllocationAccounted
  TaxExact
  SuggestionsSound
  BillingWithinLimits
  CascadeAgrees
  AgingForward
CHECK_DEADLOCK FALSE
