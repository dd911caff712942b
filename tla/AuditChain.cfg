CONSTANTS
    Session = {s1, s2, s3}
    Content = {c1, c2}
    NoSession = NoSession
    MaxSeq = 3
SPECIFICATION Spec
INVARIANTS TypeOK ChainValid SeqMonotonic
PROPERTY ImplementsAuditLog
