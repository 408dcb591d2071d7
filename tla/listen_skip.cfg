SPECIFICATION Spec
CONSTANTS
  k1 = k1
  k2 = k2
  u = u
  x = x
  p = p
  Payloads <- AllPayloads
  KindOf <- AllKinds
  Blocks <- AllBlocks
  Confirmations = 1
  StartBlock = 1
  RetryLimit = 2
  MaxHeight = 3
  MaxReorgs = 0
  MaxErrors = 0
  MaxCrashes = 0
CHECK_DEADLOCK FALSE
INVARIANTS
  NothingSkipped
