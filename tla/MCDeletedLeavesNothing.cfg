CONSTANTS
  Keys = {k1}
  Sites = {s1, s2}
  Puts = {p1}
  Copies = {}
  Gets = {}
  Dels = {d1}
  None = None
  DataChunks = 2
  ParityChunks = 1
  Modes = {"Replica"}
  MaxSiteErrors = 0
  MaxKeyErrors = 0
  MaxStoreErrors = 0
  MaxCrashes = 0
  MaxTimes = 1
SPECIFICATION FairSpec
PROPERTY DeletedLeavesNothing
