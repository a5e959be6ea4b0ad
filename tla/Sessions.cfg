SPECIFICATION Spec
CONSTANTS
  Instances = {old, new}
  First = old
  Humans = {h1}
  Channels = {c1}
  AfkChannels = {}
  MaxEvents = 2
  MaxKicks = 0
  MaxStarts = 1
  MaxCrashes = 1
  Dashboard = FALSE
  JoinErrors = TRUE
  QueryErrors = FALSE
  WriteErrors = TRUE
  InspectErrors = FALSE
  Crowded = TRUE
  NoOne = NoOne
INVARIANT TypeOK
PROPERTIES
  TakeoverOnlyByRace
  HandledByOne
CHECK_DEADLOCK FALSE
