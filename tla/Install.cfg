CONSTANTS
  k1 = k1
  k2 = k2
  ann_x = ann_x
  bob_x = bob_x
  a1 = a1
  a2 = a2
  b1 = b1
  b2 = b2
  b3 = b3
  b4 = b4
  dx = dx
  other = other
  f = f
  g = g
  v1 = v1
  v2 = v2
  Empty = Empty
  Garbage = Garbage
  Partial = Partial
  None = None
  Commands = {k1, k2}
  Plugins = {ann_x, bob_x}
  Archives = {a1, a2, b1, b2, b3, b4}
  Dirs = {dx, other}
  Paths = {f, g}
  Data = {v1, v2}
  Offers <- MCOffers
  DefaultDir <- MCDefaultDir
  FlagDirs = {other}
  Entries <- MCEntries
  Limit = 2
  MaxRuns = 3
SPECIFICATION Spec
SYMMETRY Symmetry
CHECK_DEADLOCK FALSE
INVARIANTS
  InstallTypeOK
  LockIsTrue
  LockSurvives
PROPERTIES
  ExtractsExactly
