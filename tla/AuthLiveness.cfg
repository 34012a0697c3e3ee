SPECIFICATION FairSpec
CONSTANTS
  ann = ann
  p1 = p1
  s1 = s1
  s2 = s2
  r1 = r1
  r2 = r2
  nobody = nobody
  Emails = {ann}
  Passwords = {p1}
  Sessions = {s1, s2}
  Hashes = {}
  Requests = {r1, r2}
  Seeded = {ann}
  SeedPassword = p1
  NoUserId = nobody
CHECK_DEADLOCK FALSE
PROPERTIES
  RevokedSessionFadesOut
  ImplementsLedger
