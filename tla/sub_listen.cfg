SPECIFICATION FairSpec
CONSTANTS
  d = d
  h = h
  s = s
  b = b
  v = v
  o = o
  p = p
  Extrinsics <- AllExtrinsics
  KindOf <- AllKinds
  AmountOf <- Amounts
  Blocks <- AllBlocks
  FixedFee = 3
  FeeRate = 4
  OneToken = 2
  Radix = 2
  StartBlock = 1
  RetryLimit = 2
  MaxHeight = 3
  MaxReorgs = 1
  MaxErrors = 2
  MaxCrashes = 1
CHECK_DEADLOCK FALSE
INVARIANTS
  TypeOK
  RoutedStaysOnChain
  RoutesOnce
  LifeWithoutGap
  MarksFollowChain
  GivesUpInTime
  CreditsMoreBelowHalfFee
  NoncesTellApart
  IInv
PROPERTIES
  ImplementsFeed
  EventuallyRouted
