SPECIFICATION Spec
CONSTANTS
  ann = ann
  p1 = p1
  p2 = p2
  s1 = s1
  h1 = h1
  r1 = r1
  r2 = r2
  nobody = nobody
  Emails = {ann}
  Passwords = {p1, p2}
  Sessions = {s1}
  Hashes = {h1}
  Requests = {r1, r2}
  Seeded = {}
  SeedPassword = p1
  NoUserId = nobody
SYMMETRY Interchangeable
CHECK_DEADLOCK FALSE
INVARIANTS
  TypeOK
  StaleSessionExcused
  SecretsHashed
PROPERTIES
  PinIsSingleUse
  ResurrectionNeedsStaleImage
