SPECIFICATION Spec
INVARIANT
  RerunSucceeds
