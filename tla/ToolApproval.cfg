SPECIFICATION Spec
CONSTANTS
    NumCalls = 3
    AskUser = {3}
    Runner = {r1, r2}
    Stopper = {s1}
SYMMETRY Runners2
INVARIANTS TypeOK AtMostOneRun ExclusiveExecution ExclusiveTurn UserIsAsked
PROPERTY ResultsKept
CONSTRAINT UpToRace
