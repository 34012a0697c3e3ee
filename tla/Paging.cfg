\* The two lists, over five rows of which any may be there at first; a limit
\* below the cap, at it and above it.
SPECIFICATION Spec
CONSTANTS
  Rows = {1, 2, 3, 4, 5}
  Limits = {1, 2, 3}
  MaxLimit = 2
  MaxChanges = 2
CHECK_DEADLOCK FALSE
INVARIANTS
  TypeOK
  MissesOnlyWhatMoved
  RepeatsOnlyWhatMoved
  WalkIsShort
