SPECIFICATION LiveSpec
CONSTANTS
  n1 = n1
  n2 = n2
  n3 = n3
  Node = {n1, n2, n3}
  Proposer = {n1, n2, n3}
  Feeder = {}
  Slot = {1}
  Value = {v1}
  None = None
  MaxCrashes = 0
  quorum_set <- Mixed
INVARIANTS VotesAreBacked VotesAreSupported
PROPERTY NominatedIsExternalized
CHECK_DEADLOCK FALSE
