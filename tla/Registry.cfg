\* One application with a key, two threads, two subscriptions, two schemas.
SPECIFICATION Spec
CONSTANTS
    a1 = a1
    t1 = t1
    t2 = t2
    Apps = {a1}
    Pairs <- TwoTypes
    Owner <- AllOfA1
    Versions = {1}
    Threads = {t1, t2}
    None = None
    MaxKeys = 1
    MaxSubs = 2
    MaxSchemas = 2
SYMMETRY Symmetry
INVARIANTS
    VersionsFixed
PROPERTIES
    OnlyLateOrphans
