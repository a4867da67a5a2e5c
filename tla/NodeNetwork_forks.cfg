SPECIFICATION Spec
CONSTANTS
  alice = alice
  bob = bob
  minter = minter
  id1 = id1
  empty = empty
  u1 = u1
  n1 = n1
  n2 = n2
  hg = hg
  ha1 = ha1
  ha2 = ha2
  hb1 = hb1
  hgap = hgap
  None = None
  NoHash = NoHash
  Text <- MCText
  EmptyText = empty
  Blank = {empty}
  Uuid = {u1}
  ParseStr <- MCParseStr
  ToText <- MCToText
  RunScript <- MCRunScript
  Key = {alice, bob}
  MaxU64 = 3
  MaxI32 = 1
  Tx <- MCTx
  Hash = {hg, ha1, ha2, hb1, hgap}
  Block <- MCBlock
  hash_data <- MCHashData
  Node = {n1, n2}
  Genesis <- MCGenesis
  Slices = {{n1, n2}, {n1}}
  Submitted <- NoneSubmitted
  Offered <- RivalsOffered
  Nominated <- NoneNominated
  MaxUnderway = 0
INVARIANT ChainFollowsConsensus
CHECK_DEADLOCK FALSE
