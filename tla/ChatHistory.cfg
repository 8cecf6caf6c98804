SPECIFICATION Spec
CONSTANTS
  Prompt = {p1, p2}
  Reply = {r1, r2, r3}
  Tab = {t1, t2}
  None = None
  MaxSaves = 1
SYMMETRY Symmetry
INVARIANTS TypeOK RowsMatch IsTree WrittenByTask
PROPERTIES DropsOnlyDeleted
CHECK_DEADLOCK FALSE
