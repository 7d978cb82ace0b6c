CONSTANTS
  r1 = r1
  r2 = r2
  p1 = p1
  p2 = p2
  None = None
  Plugins = {p1, p2}
  Versions = {1, 2}
  Readers = {r1, r2}
SPECIFICATION FairSpec
INVARIANTS
  NothingMissing
