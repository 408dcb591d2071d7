SPECIFICATION Spec
CONSTANTS
  r1 = r1
  r2 = r2
  r3 = r3
  m1 = m1
  m2 = m2
  Msgs <- OneMsg
  NonceOf <- Nonces
  Relayers <- R2
  Threshold = 1
  TxRetryLimit = 1
  BlockRetryLimit = 1
  WatchLimit = 1
  Failures = {"query", "gas", "nonce", "send", "wait", "filter"}
  MaxErrors = 1
  MayCancel = TRUE
  MaxCrashes = 1
CHECK_DEADLOCK FALSE
INVARIANTS
  TypeOK
  NonceFits
  IInv
  QuietOnDuplicate
  AbandonedByGasOnly
