\* Replica mode: overwrites, reads, deletes, lost requests and one crash.
CONSTANTS
  Keys = {k1}
  Sites = {s1, s2}
  Puts = {p1, p2}
  Copies = {}
  Gets = {g1}
  Dels = {d1}
  None = None
  DataChunks = 2
  ParityChunks = 1
  Modes = {"Replica"}
  MaxSiteErrors = 1
  MaxKeyErrors = 0
  MaxStoreErrors = 0
  MaxCrashes = 1
  MaxTimes = 1
SYMMETRY SiteSymmetry
SPECIFICATION Spec
INVARIANTS
  TypeOK
  ReadErrorExcused
  LeftoverExcused
PROPERTY ImplementsDurableStore
