CONSTANTS
    Session = {s1, s2}
    Event = {e1}
    Payload = {d1, d2}
    Ledger = {gl, ap}
    Period = {p1}
    None = None
    MaxReversible = 2
SPECIFICATION Spec
INVARIANTS PostedAtomically OutcomePerEvent AckedIsPosted OneReversal
PROPERTIES ImplementsLedger EveryCallReturns
