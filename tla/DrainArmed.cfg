SPECIFICATION FairSpec
CONSTANTS
  Requests = {r1}
  Connects = {}
  Guilds = {}
  MaxStreams = 0
  Faults = FALSE
  NoGuild = NoGuild
PROPERTIES
  ArmedExits
CHECK_DEADLOCK FALSE
