SPECIFICATION FairSpec
CONSTANTS
  r1 = r1
  r2 = r2
  r3 = r3
  m1 = m1
  m2 = m2
  Msgs <- OneMsg
  NonceOf <- Nonces
  Relayers <- R2
  Threshold = 2
  TxRetryLimit = 2
  BlockRetryLimit = 2
  WatchLimit = 2
  Failures = {"gas"}
  MaxErrors = 1
  MayCancel = FALSE
  MaxCrashes = 0
CHECK_DEADLOCK FALSE
PROPERTIES
  VoteEnds
