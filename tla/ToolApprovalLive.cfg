SPECIFICATION FairSpec
CONSTANTS
    NumCalls = 3
    AskUser = {3}
    Runner = {r1, r2}
    Stopper = {}
PROPERTIES ApprovedIsRun ModelContinues
