SPECIFICATION FairSpec
CONSTANTS
  Instances = {old, new}
  First = old
  Recordings = {r1, r2}
  MaxStarts = 1
  MaxCrashes = 1
  PurgeModes = {TRUE, FALSE}
  Faults = TRUE
  NoOne = NoOne
  NoRow = NoRow
INVARIANT TypeOK
PROPERTIES
  FinishedStays
  EndsOnlyWithOwner
  OverGoesDark
CHECK_DEADLOCK FALSE
