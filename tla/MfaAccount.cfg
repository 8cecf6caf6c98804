SPECIFICATION Spec
CONSTANTS
  Request = {r1, r2}
  Password = {p1, p2}
  MaxAttempts = 2
  MaxLimit = 3
  Tries = 2
  ChallengeTicks = 1
  TicketTicks = 1
  LimitTicks = 1
  CodesPerSet = 1
  MaxSaves = 6
  MaxClock = 1
SYMMETRY Symmetry
INVARIANTS TypeOK GuessesAreLimited SessionsAreCurrent
PROPERTY ImplementsCredentials
CHECK_DEADLOCK FALSE
