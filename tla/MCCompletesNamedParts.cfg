\* A part is uploaded twice; the completion lists the first ETag.
CONSTANTS
  Sites = {s1}
  Numbers = {1}
  PartPuts = {w1, w2}
  Completes = {c1}
  Aborts = {}
  None = None
  MaxListed = 1
  MaxRemovers = 1
  MaxUploads = 2
  MaxFaults = 0
SPECIFICATION Spec
INVARIANT CompletesNamedParts
