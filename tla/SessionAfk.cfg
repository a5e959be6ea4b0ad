SPECIFICATION FairSpec
CONSTANTS
  Instances = {old}
  First = old
  Humans = {h1}
  Channels = {c1, c2}
  AfkChannels = {c2}
  MaxEvents = 3
  MaxKicks = 0
  MaxStarts = 0
  MaxCrashes = 0
  Dashboard = FALSE
  JoinErrors = FALSE
  QueryErrors = FALSE
  WriteErrors = FALSE
  InspectErrors = FALSE
  Crowded = FALSE
  NoOne = NoOne
PROPERTY
  EmptyIsLeft
CHECK_DEADLOCK FALSE
