SPECIFICATION Spec
CONSTANTS
  Users = {u1}
  Bots = {}
  Channels = {c1, c2}
  NumFlags = 1
  MaxEvents = 3
  MaxAsks = 0
  Away = Away
INVARIANTS
  TimelineReplays
  PresenceFollows
CHECK_DEADLOCK FALSE
