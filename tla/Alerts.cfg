\* Two tasks, a webhook and an e-mail configuration, a cooldown of one tick.
SPECIFICATION FairSpec
CONSTANTS
    t1 = t1
    t2 = t2
    c1 = c1
    c2 = c2
    Tasks = {t1, t2}
    Configs = {c1, c2}
    Webhooks = {c1}
    Cooldown = 1
INVARIANTS
    TypeOK
    SendsAreCovered
PROPERTIES
    RepeatsOverlap
    KeepsAlerting
