\* Two requests; a wallet may be created when a half minute begins or ends.
SPECIFICATION FairSpec
CONSTANTS
  r1 = r1
  r2 = r2
  w1 = w1
  Requests = {r1, r2}
  Wallets = {w1}
  Amounts = {0, 1}
  Routes = {"topup", "onchain", "wallet"}
  Moments = {60, 89, 90, 119}
  Watched = 900
CHECK_DEADLOCK FALSE
INVARIANTS
  TypeOK
  LossNeedsOverlap
  DeployedWalletHasItsCodes
PROPERTIES
  ImplementsTransfers
  EveryRequestIsAnswered
