CONSTANTS
  r1 = r1
  r2 = r2
  r3 = r3
  ann = ann
  bob = bob
  c1 = c1
  c2 = c2
  c3 = c3
  c4 = c4
  None = None
  Requests = {r1, r2}
  Users = {ann}
  Names = {"plug"}
  Contents = {c1, c2, c3, c4}
  Versions = {"1.0.0", "2.0.0", "latest"}
  SemVer = {"1.0.0", "2.0.0"}
  Manifest <- MCManifest
  BlobDriver = "fs"
  MetaDriver = "sqlite"
  Faults = TRUE
  Dates = {0}
  MaxTime = 1
  d1 = d1
  d2 = d2
  Downloads = {d1}
  Latest = "latest"
SPECIFICATION DownloadSpec
SYMMETRY DownloadSymmetry
INVARIANTS
  DownloadTypeOK
  BlobMatchesRecord
  OneRecorder
  StoredUnderItsOwnName
  BodyMatchesHeader
  PublishedIsFound
PROPERTIES
  BlobsImmutable
  OrphansAreCutOff
  ImplementsLedger
  ImplementsReads
