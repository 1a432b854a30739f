\* Two part uploads, for one number or for two, and two of the two completions
\* and the abort; completions list up to two parts, the same one twice included.
\* One permit, and one of: a part that fails on a site or on all of them, a failed
\* fetch or deletion, a failing store call, a hang-up, a crash.
CONSTANTS
  Sites = {s1, s2}
  Numbers = {1, 2}
  PartPuts = {w1, w2}
  Completes = {c1, c2}
  Aborts = {a1}
  None = None
  MaxListed = 2
  MaxRemovers = 2
  MaxUploads = 1
  MaxFaults = 1
SYMMETRY SafetySymmetry
VIEW NumbersView
SPECIFICATION Spec
INVARIANTS
  TypeOK
  MissingPartWasSwept
  PartsKeptUntilCommit
  NoPartForgotten
  NoneStuck
PROPERTY
  ImplementsMultipartUpload
