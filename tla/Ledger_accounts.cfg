SPECIFICATION Spec
CONSTANTS
  alice = alice
  bob = bob
  id1 = id1
  ID1 = ID1
  minter = minter
  payer = payer
  wild = wild
  empty = empty
  u1 = u1
  None = None
  Text <- MCText
  EmptyText = empty
  Blank = {empty}
  Uuid = {u1}
  ParseStr <- MCParseStr
  ToText <- MCToText
  RunScript <- MCRunScript
  Key = {alice, bob}
  MaxU64 = 5
  MaxI32 = 2
  Tx <- MCTx
  MaxBatch = 2
INVARIANTS TypeOK MoneyIsConserved CoveredBatchSucceeds
