SPECIFICATION Spec
CONSTANTS
  e1 = e1
  e2 = e2
  n1 = n1
  n2 = n2
  n3 = n3
  w1 = w1
  w2 = w2
  r1 = r1
  r2 = r2
  empty = empty
  Emails = {e1, e2}
  Numbers = {n1, n2, n3}
  Wallets = {w1, w2}
  Requests = {r1, r2}
  Capacity = 2
  Empty = empty
SYMMETRY Interchangeable
CHECK_DEADLOCK FALSE
INVARIANT
  WalletUnique
