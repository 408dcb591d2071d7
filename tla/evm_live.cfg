SPECIFICATION PromptSpec
CONSTANTS
  r1 = r1
  r2 = r2
  r3 = r3
  m1 = m1
  m2 = m2
  Msgs <- OneMsg
  NonceOf <- Nonces
  Relayers <- R2
  Threshold = 2
  TxRetryLimit = 2
  BlockRetryLimit = 2
  WatchLimit = 4
  Failures = {"send", "wait"}
  MaxErrors = 1
  MayCancel = FALSE
  MaxCrashes = 1
CHECK_DEADLOCK FALSE
INVARIANTS
  ExecutesAfterPass
PROPERTIES
  EventuallyTransferred
  VoteEnds
