\* The reaper with a batch limit smaller than the queue, a failing sweep, a
\* failing store call and a restart that may change the set of clients.
CONSTANTS
  Ids <- ids
  Sites = {s1, s2}
  Limit = 1
  MaxSiteErrors = 1
  MaxStoreErrors = 1
  MaxRestarts = 1
SPECIFICATION FairSpec
INVARIANTS
  TypeOK
  NothingForgotten
  QueueAttended
PROPERTIES
  EntriesPurged
  ShutdownStops
  ServersAccept
  ImplementsPurgeQueue
