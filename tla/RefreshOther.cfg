SPECIFICATION Spec
CONSTANTS
  ann = ann
  bob = bob
  p1 = p1
  s1 = s1
  s2 = s2
  r1 = r1
  r2 = r2
  nobody = nobody
  Emails = {ann, bob}
  Passwords = {p1}
  Sessions = {s1, s2}
  Hashes = {}
  Requests = {r1, r2}
  Seeded = {ann, bob}
  SeedPassword = p1
  NoUserId = nobody
CHECK_DEADLOCK FALSE
INVARIANT
  RefreshKeepsSession
