\* Two endpoints, two handlers' calls, a restart or a reload, half-second ticks.
SPECIFICATION FairSpec
CONSTANTS
    e1 = e1
    e2 = e2
    t1 = t1
    t2 = t2
    Endpoints = {e1, e2}
    Managed = {e1}
    Threads = {t1, t2}
    Rates = {1, 2}
    DefaultRate = 2
    GlobalRates = {1, 2}
    Second = 2
    MaxCalls = 2
    MaxStarts = 1
INVARIANTS
    TypeOK
    RateAgrees
PROPERTIES
    ImplementsBuckets
    NotStarved
