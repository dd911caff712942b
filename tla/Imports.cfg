SPECIFICATION Spec
CONSTANTS
    Session = {s1, s2}
    Batch = {b1, b2}
    Rows = 2
    Data = {0, 2}
    MaxCode = 3
    MaxCalls = 4
    None = None
INVARIANTS PromotedIsReal ImportedOnce
PROPERTIES NoOrphanEntity
CHECK_DEADLOCK FALSE
