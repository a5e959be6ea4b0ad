SPECIFICATION FairSpec
CONSTANTS
  Requests = {r1}
  Connects = {c1}
  Guilds = {g1}
  MaxStreams = 1
  Faults = TRUE
  NoGuild = NoGuild
INVARIANTS
  TypeOK
  FlagsInOrder
PROPERTIES
  DrainOnlyLosesCalls
  SignalEndsDrain
  ForceEndsDrain
  DrainIsPublished
CHECK_DEADLOCK FALSE
