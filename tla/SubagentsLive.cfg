SPECIFICATION FairSpec
CONSTANTS
    Agent = {a, b}
    Background = {a, b}
    Response = {r1, r2, r3}
    Instance = {i1, i2}
    MaxAsync = 1
    MaxConcurrent = 1
    None = None
PROPERTY ResultIsGiven
CHECK_DEADLOCK FALSE
