SPECIFICATION FairSpec
CONSTANTS
  Users = {u1}
  Bots = {}
  Channels = {c1}
  NumFlags = 0
  MaxEvents = 2
  MaxAsks = 2
  Away = Away
INVARIANT TypeOK
PROPERTIES
  ViewerSeesStates
  ViewerSeesTimes
  StreamEnds
CHECK_DEADLOCK FALSE
