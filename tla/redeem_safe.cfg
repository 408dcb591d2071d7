SPECIFICATION Spec
CONSTANTS
  m1 = m1
  m2 = m2
  a1 = a1
  a2 = a2
  c1 = c1
  c2 = c2
  Msgs <- OneMsg
  NonceOf <- OneNonce
  Raws = {a1}
  RawOf <- OneRaw
  Convert <- OneConvert
  Calls = {c1}
  Relayers <- N2
  Total = 2
  Threshold = 2
  LatestBlock = {2}
  MaxLog = 6
  MaxCrashes = 1
INVARIANTS
  TypeOK
  IInv
  RecordsMirrorChain
  OneOpenRecord
  OpenOperationKnown
  FinishedAfterPayout
