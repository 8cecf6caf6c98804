SPECIFICATION FairSpec
CONSTANTS
  Editor = {e1, e2}
  Word = {w1, w2}
  Title = {t}
  Drops = 1
  Losers = 1
INVARIANTS TypeOK ShownOnce Converged
PROPERTIES ClearedIsSaved SavedInTheEnd
CHECK_DEADLOCK FALSE
