SPECIFICATION FairSpec
CONSTANTS
    Timer = {a, b}
    Listening = {a}
    Visitor = {v1, v2}
    Slot = 2
INVARIANTS TypeOK FiresOnce
PROPERTIES IsSettled
CHECK_DEADLOCK FALSE
