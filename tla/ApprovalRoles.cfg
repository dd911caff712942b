CONSTANTS
    Session = {"s1", "s2"}
    Actor = {"ann", "bob", "eve"}
    Entity = {"inv", "trip"}
    Workflow <- MCWorkflow
    Role <- MCRole
    Version <- MCVersion
    Amount = {400, 3000}
    MaxRequests = 2
    MaxCalls = 4
    None = None
SPECIFICATION Spec
INVARIANT RangeRuleApproved
CHECK_DEADLOCK FALSE
