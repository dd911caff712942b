CONSTANTS
    Session = {s1, s2}
    Event = {e1}
    Intent = {x1, x2}
    LedgerCount = 2
    MaxRetries = 2
    None = None
SPECIFICATION Spec
INVARIANTS RetryLimit PostedHasEntries
