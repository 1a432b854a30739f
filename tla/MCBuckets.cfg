\* Two creations, two deletions and a PUT, with two failing site requests, one
\* failing store call and one crash.
CONSTANTS
  Sites = {s1, s2}
  Creators = {c1, c2}
  Deleters = {d1, d2}
  Puts = {p1}
  None = None
  MaxSiteErrors = 2
  MaxStoreErrors = 1
  MaxCrashes = 1
SYMMETRY SafetySymmetry
SPECIFICATION Spec
INVARIANTS
  TypeOK
  RecordedIsBacked
  NothingLeftOver
  ObjectsStored
