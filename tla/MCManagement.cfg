\* Three requests of any kind, concurrent or not, one failing store call and
\* one restart; a gateway that starts with two sites or with none.
CONSTANTS
  A = A
  B = B
  Names = {A, B}
  Users = {u1, u2}
  Requests = {r1, r2, r3}
  Slots = {1, 2}
  None = None
  Counts = {0, 1}
  Imports <- MCImports
  Saved <- MCSaved
  DefaultUploads = 1
  MaxPermits = 2
  MaxStops = 1
  MaxStoreErrors = 1
SYMMETRY Symmetry
SPECIFICATION Spec
CHECK_DEADLOCK FALSE
INVARIANTS
  TypeOK
  SitesKept
  ConfigSound
  StoredIsMemory
