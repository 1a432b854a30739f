\* A site is removed from the configuration while a purge entry names it.
CONSTANTS
  Ids <- ids
  Sites = {s1, s2}
  Limit = 1000
  MaxSiteErrors = 0
  MaxStoreErrors = 0
  MaxRestarts = 1
SPECIFICATION FairSpec
PROPERTY NoTightLoop
