SPECIFICATION Spec
CONSTANTS
    t1 = t1
    t2 = t2
    Task = {t1, t2}
    Request = {{t1, t2}}
    Instance = {i1, i2}
    Stopper = {s1}
    Clustered = FALSE
INVARIANTS TypeOK RunningIsListed StopTakesEffect
SYMMETRY Alike
CHECK_DEADLOCK FALSE
