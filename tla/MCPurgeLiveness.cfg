\* Two deletes, which may name the key twice, race over one version; a site
\* request fails, the process is killed.
CONSTANTS
  Keys = {k1}
  Sites = {s1, s2}
  Puts = {p1}
  Copies = {}
  Gets = {}
  Dels = {d1, d2}
  None = None
  DataChunks = 2
  ParityChunks = 1
  Modes = {"Replica"}
  MaxSiteErrors = 1
  MaxKeyErrors = 0
  MaxStoreErrors = 0
  MaxCrashes = 1
  MaxTimes = 2
SPECIFICATION FairSpec
PROPERTIES
  ImplementsPurgeQueue
  DeletedEventuallyPurged
  QueueEventuallyEmpty
