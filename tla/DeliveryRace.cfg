\* One message, two API threads: every interleaving of two handlers with the
\* dispatcher, a crash and a retry.
SPECIFICATION Spec
CONSTANTS
    m1 = m1
    m2 = m2
    t1 = t1
    t2 = t2
    Messages = {m1}
    Threads = {t1, t2}
    MaxRetries = 1
    BatchSize = 1
    Concurrency = 1
    MayRaise = {}
    MaxRetryCalls = 1
    MaxCrashes = 1
SYMMETRY Symmetry
INVARIANTS
    TypeOK
    DeliveredMeansAccepted
    InFlightOwned
    SnapshotFresh
    RetryBudget
    ExhaustedAccounted
    AuditTrail
PROPERTIES
    TerminalIsQuiet
