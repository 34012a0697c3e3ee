\* An administrator, a free id, and two requests at a time.
SPECIFICATION FairSpec
CONSTANTS
  e1 = e1
  e2 = e2
  r1 = r1
  r2 = r2
  noEmail = noEmail
  Emails = {e1, e2}
  NoEmail = noEmail
  MaxId = 2
  Requests = {r1, r2}
  Commands <- RoleCommands
  Seeded <- Alone
CHECK_DEADLOCK FALSE
INVARIANT TypeOK
PROPERTIES
  NoAdminFromNowhere
  DemotionTakesEffect
