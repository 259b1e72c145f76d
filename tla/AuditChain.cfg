SPECIFICATION Spec
CONSTANTS
  Txns = {t1, t2}
  Objects = {locked, open}
  Locked = {locked}
  Values = {0, 1}
  Initial = 0
  NoTxn = NoTxn
  NoObject = NoObject
  NoValue = NoValue
  MaxId = 4
INVARIANTS
  ChainIntact
  TrailIsFaithful
