SPECIFICATION Spec
CONSTANTS
  Requests = {q1, q2, q3}
  Second = 2
  Limits = {1, 2}
  StampLimit = 1
  MaxTime = 4
  MaxEdits = 1
  Faults = TRUE
  Unset = Unset
SYMMETRY Symmetry
INVARIANTS
  TypeOK
  CooldownKept
  WaitIsEnough
CHECK_DEADLOCK FALSE
