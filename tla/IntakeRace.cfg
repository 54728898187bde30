\* Two threads, two keys, two letters, one delete of each row.
SPECIFICATION Spec
CONSTANTS
    t1 = t1
    t2 = t2
    k1 = k1
    k2 = k2
    l1 = l1
    l2 = l2
    Threads = {t1, t2}
    Keys = {k1, k2}
    Letters = {l1, l2}
    MaxRemovals = 1
SYMMETRY Symmetry
INVARIANTS
    TypeOK
    AnsweredIsStored
    RouteReaches
    MarkedIffCopied
    CopiedOnce
PROPERTIES
    PurgedStaysPurged
