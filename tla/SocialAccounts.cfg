\* One person whose provider gives an address or none, a second address that
\* others register with or an administrator sets, two rows, two requests at once.
SPECIFICATION Spec
CONSTANTS
  i1 = i1
  i2 = i2
  e1 = e1
  e2 = e2
  p1 = p1
  w = w
  r1 = r1
  r2 = r2
  noEmail = noEmail
  noIdentity = noIdentity
  noId = noId
  noPassword = noPassword
  Ids = {i1, i2}
  Emails = {e1, e2}
  Identities = {p1}
  Profiles <- SomeProfiles
  Requests = {r1, r2}
  Passwords = {w}
  NoEmail = noEmail
  NoIdentity = noIdentity
  NoId = noId
  NoPassword = noPassword
SYMMETRY Interchangeable
CHECK_DEADLOCK FALSE
INVARIANTS
  TypeOK
  SpoiledPasswordExcused
  StableProfileHasOneAccount
  AnswerFitsTheProfile
PROPERTY
  RevivalNeedsStaleImage
