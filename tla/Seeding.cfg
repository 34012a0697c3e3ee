SPECIFICATION Spec
INVARIANTS
  TypeOK
  ReferencesPresent
  UserSeedsRerun
  EachRoleHasAnAccount
