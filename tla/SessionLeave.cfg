SPECIFICATION FairSpec
CONSTANTS
  Instances = {old}
  First = old
  Humans = {h1, h2}
  Channels = {c1, c2}
  AfkChannels = {}
  MaxEvents = 3
  MaxKicks = 1
  MaxStarts = 0
  MaxCrashes = 0
  Dashboard = TRUE
  JoinErrors = FALSE
  QueryErrors = TRUE
  WriteErrors = TRUE
  InspectErrors = TRUE
  Crowded = FALSE
  NoOne = NoOne
PROPERTIES
  EmptyIsLeft
  EnteredIsJoined
CHECK_DEADLOCK FALSE
