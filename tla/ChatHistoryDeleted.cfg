SPECIFICATION Spec
CONSTANTS
  Prompt = {p1}
  Reply = {r1, r2}
  Tab = {t1, t2}
  None = None
  MaxSaves = 1
INVARIANTS DeletedStays
CHECK_DEADLOCK FALSE
