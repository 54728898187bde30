\* A message with two retries, the probes, the clock and a stop, under fairness.
SPECIFICATION FairSpec
CONSTANTS
    m1 = m1
    Messages = {m1}
    MaxRetries = 2
    BatchSize = 1
    Concurrency = 1
    MaxCrashes = 1
    Threshold = 2
    RecoveryTimeout = 1
    HalfOpenRequests = 1
PROPERTIES
    AcceptedEnds
    LostOnlyToOutage
