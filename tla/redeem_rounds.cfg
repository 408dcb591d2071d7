SPECIFICATION RoundsSpec
CONSTANTS
  m1 = m1
  m2 = m2
  a1 = a1
  a2 = a2
  c1 = c1
  c2 = c2
  Msgs <- OneMsg
  NonceOf <- OneNonce
  Raws = {a1}
  RawOf <- OneRaw
  Convert <- OneConvert
  Calls = {c1}
  Relayers <- N3
  Total = 3
  Threshold = 2
  LatestBlock = {}
  MaxLog = 5
  MaxCrashes = 0
INVARIANTS
  NoSecondPayout
  RoundsInv
