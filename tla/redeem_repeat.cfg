SPECIFICATION Spec
CONSTANTS
  m1 = m1
  m2 = m2
  a1 = a1
  a2 = a2
  c1 = c1
  c2 = c2
  Msgs <- TwoMsgs
  NonceOf <- TwoNonces
  Raws = {a1}
  RawOf <- SameRaw
  Convert <- OneConvert
  Calls = {c1}
  Relayers <- N2
  Total = 2
  Threshold = 2
  LatestBlock = {}
  MaxLog = 4
  MaxCrashes = 0
INVARIANTS OneAtATime
