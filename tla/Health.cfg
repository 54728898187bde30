\* Two attempts under way, probes, patches, the clock and a restart, under fairness.
SPECIFICATION FairSpec
CONSTANTS
    a1 = a1
    a2 = a2
    Attempts = {a1, a2}
    Threshold = 2
    RecoveryTimeout = 2
    HalfOpenRequests = 2
    MaxRestarts = 1
INVARIANTS
    TypeOK
PROPERTIES
    TripNeedsStreak
    OpenEnds
    CheckerRecovers
    SustainedFailureDisables
