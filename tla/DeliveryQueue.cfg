\* Two messages, one of which may raise, a handler, a stop: the fetch is an
\* atomic take.
SPECIFICATION Spec
CONSTANTS
    m1 = m1
    m2 = m2
    t1 = t1
    Messages = {m1, m2}
    Threads = {t1}
    MaxRetries = 1
    BatchSize = 2
    Concurrency = 1
    MayRaise = {m1}
    MaxRetryCalls = 0
    MaxCrashes = 1
INVARIANTS
    InFlightOwned
PROPERTIES
    ImplementsQueue
