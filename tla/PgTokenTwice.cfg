CONSTANTS
  r1 = r1
  r2 = r2
  r3 = r3
  ann = ann
  bob = bob
  e1 = e1
  e2 = e2
  p1 = p1
  p2 = p2
  t1 = t1
  t2 = t2
  t3 = t3
  None = None
  Requests = {r1, r2}
  Users = {ann}
  Emails = {e1}
  Passwords = {p1, p2}
  Tokens = {t1, t2}
  MaxFailures = 1
  FailureBound = 1
  MetaDriver = "postgres"
  LockoutDriver = "redis"
  Faults = FALSE
SPECIFICATION Spec
SYMMETRY AccountSymmetry
PROPERTIES
  ResetTokensAreOneTime
