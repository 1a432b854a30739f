\* Every listing of six keys with pages of at most two, while keys are put
\* and deleted without bound and one page is not answered.
CONSTANTS
  B = B
  D = D
  KeyCount = 6
  Groups = {B, D}
  None = None
  Requests <- MCRequests
  MaxKeys = 2
  MaxErrors = 1
SPECIFICATION FairSpec
CHECK_DEADLOCK FALSE
INVARIANTS
  TypeOK
  NothingSkipped
  EntriesInOrder
  PrefixesAtMostTwice
PROPERTY PagingEnds
