\* Erasure coding 2+1 on three sites: a write, a copy of it and a delete of
\* either or both, with site errors, errors inside a batch delete that
\* answers 200, and errors of the metadata store.
CONSTANTS
  Keys = {k1, k2}
  Sites = {s1, s2, s3}
  Puts = {p1, c1}
  Copies = {c1}
  Gets = {}
  Dels = {d1}
  None = None
  DataChunks = 2
  ParityChunks = 1
  Modes = {"Erasure"}
  MaxSiteErrors = 1
  MaxKeyErrors = 1
  MaxStoreErrors = 1
  MaxCrashes = 0
  MaxTimes = 1
  MaxBody = 8
  MaxParity = 2
  MaxBlock = 5
SYMMETRY SiteSymmetry
SPECIFICATION Spec
INVARIANTS
  Durable
  NeverPurgesLive
  LeftoverExcused
  ReadsDecode
  BlocksDecode
  ChunkedDecodes
