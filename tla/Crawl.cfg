CONSTANTS
  r1 = r1
  r2 = r2
  mirror = mirror
  x = x
  y = y
  repo = repo
  c1 = c1
  c2 = c2
  c3 = c3
  None = None
  Requests = {r1, r2}
  Users = {mirror}
  Names = {"x", "y"}
  Contents = {c1, c2, c3}
  Versions = {"1.0.0", "2.0.0"}
  SemVer = {"1.0.0", "2.0.0"}
  Manifest <- MCManifest
  BlobDriver = "fs"
  MetaDriver = "sqlite"
  Faults = TRUE
  Dates = {0, 1, 2}
  MaxTime = 2
  List <- MCList
  Repo <- MCRepo
  History <- MCHistory
  Mirror = mirror
  Steady = r1
  Burst = 1
SPECIFICATION FairCrawl
INVARIANTS
  CrawlTypeOK
  NoOrphan
  ReportIsTrue
  DateIsUpstream
PROPERTIES
  ErrorMeansBeaten
  EventuallyMirrored
