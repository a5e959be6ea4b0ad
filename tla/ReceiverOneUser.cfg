SPECIFICATION Spec
CONSTANTS
  Users = {u1}
  Bots = {}
  SsrcsPerUser = 2
  RecsPerUser = 2
  Ssrcs <- MCSsrcs
  SsrcUser <- MCSsrcUser
  Recs <- MCRecs
  RecUser <- MCRecUser
  NoSsrc = NoSsrc
  NoRec = NoRec
  MaxPauses = 1
  MaxOutages = 1
  Faults = TRUE
INVARIANTS
  TypeOK
  SingleOwner
  FinalCloseLeavesNothing
PROPERTIES
  BookSpec
