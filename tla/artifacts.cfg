CONSTANTS
  u1 = u1
  part1 = part1
  w1 = w1
  w2 = w2
  None = None
  MaxBlobs = 3
  Uploads = {u1}
  Partial <- MCPartial
  Workers = {w1, w2}
  Quota = 1
  MaxUncertain = 1
SPECIFICATION FairSpec
INVARIANTS
  RowsHaveBytes
  QuotaKept
PROPERTIES
  BytesAreReclaimed
