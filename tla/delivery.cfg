SPECIFICATION Spec
CONSTANTS
    w1 = w1
    w2 = w2
    Workers = {w1, w2}
    None = None
    MaxRetries = 1
    LastEdit = 1
    MaxFiles = 2
    MaxJobs = 2
    MaxFaults = 1
SYMMETRY Interchangeable
INVARIANTS
    IssuedDocumentIsFinal
    MailIsAccountedFor
PROPERTIES
    ApprovedCopyIsFrozen
CHECK_DEADLOCK FALSE
