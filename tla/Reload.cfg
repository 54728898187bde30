\* A batch of three tasks, two reloads by two threads, a file edited meanwhile.
SPECIFICATION FairSpec
CONSTANTS
    Tasks = {k1, k2, k3}
    Threads = {t1, t2}
    Environment <- Defaults
    Files <- Contents
    Bad = Bad
    MaxReloads = 2
INVARIANTS
    LimitsOfBatch
    OneConfiguration
PROPERTIES
    BatchEnds
