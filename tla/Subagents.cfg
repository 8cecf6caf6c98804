SPECIFICATION Spec
CONSTANTS
    Agent = {a, b, f}
    Background = {a, b}
    Response = {r1, r2, r3}
    Instance = {i1, i2}
    MaxAsync = 1
    MaxConcurrent = 1
    None = None
INVARIANTS TypeOK SlotsMatchWork OneFollowUp
PROPERTY IsMailbox
SYMMETRY Symmetry
CHECK_DEADLOCK FALSE
