SPECIFICATION FairSpec
CONSTANTS
    t1 = t1
    t2 = t2
    Task = {t1, t2}
    Request = {{t1}, {t2}}
    Instance = {i1}
    Stopper = {}
    Clustered = TRUE
INVARIANT IdleIsShown
PROPERTY EndedIsForgotten
CHECK_DEADLOCK FALSE
