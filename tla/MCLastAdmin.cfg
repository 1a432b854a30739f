\* Two admin users are made and two requests delete one each; the gateway has
\* one site and starts unconfigured.
CONSTANTS
  A = A
  B = B
  Names = {A}
  Users = {u1, u2}
  Requests = {r1, r2, r3, r4}
  Slots = {1}
  None = None
  Counts = {}
  Imports = {}
  Saved = {None}
  DefaultUploads = 1
  MaxPermits = 2
  MaxStops = 0
  MaxStoreErrors = 0
SYMMETRY Symmetry
SPECIFICATION Spec
CHECK_DEADLOCK FALSE
INVARIANT AdminRemains
