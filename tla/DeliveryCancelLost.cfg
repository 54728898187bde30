\* A cancelled message goes back to pending when its attempt fails.
SPECIFICATION Spec
CONSTANTS
    m1 = m1
    m2 = m2
    t1 = t1
    t2 = t2
    Messages = {m1}
    Threads = {t1}
    MaxRetries = 1
    BatchSize = 1
    Concurrency = 1
    MayRaise = {}
    MaxRetryCalls = 0
    MaxCrashes = 0
PROPERTIES
    CancelSticks
