CONSTANTS
  r1 = r1
  r2 = r2
  r3 = r3
  ann = ann
  bob = bob
  c1 = c1
  c2 = c2
  c3 = c3
  c4 = c4
  None = None
  Requests = {r1, r2}
  Users = {ann}
  Names = {"plug"}
  Contents = {c1, c3}
  Versions = {"1.0.0", "2.0.0"}
  SemVer = {"1.0.0", "2.0.0"}
  Manifest <- MCManifest
  BlobDriver = "fs"
  MetaDriver = "postgres"
  Faults = FALSE
  Dates = {0, 1}
  MaxTime = 1
SPECIFICATION FairSpec
PROPERTIES
  RetriedUntilPublished
