CONSTANTS
    Session = {s1, s2, s3}
    Subledger = {ap, ar}
    None = None
    MaxEntries = 2
SPECIFICATION Spec
INVARIANTS TypeOK ExclusiveClose CertificateTrue OneCertificate
PROPERTIES ClosedStaysClosed CertificateCurrent
