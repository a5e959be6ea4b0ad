SPECIFICATION FairSpec
CONSTANTS
  Users = {u1, b1}
  Bots = {b1}
  SsrcsPerUser = 1
  RecsPerUser = 1
  Ssrcs <- MCSsrcs
  SsrcUser <- MCSsrcUser
  Recs <- MCRecs
  RecUser <- MCRecUser
  NoSsrc = NoSsrc
  NoRec = NoRec
  MaxPauses = 2
  MaxOutages = 2
  Faults = FALSE
INVARIANTS
  RecordsItsUser
  PausedHasTimeout
  NoPauseIsReplaced
  OutageHasTimeout
PROPERTIES
  PauseEndedByItsOwn
  OutageEndedByItsOwn
  PauseEnds
