SPECIFICATION Spec
CONSTANTS
  n1 = n1
  n2 = n2
  n3 = n3
  Node = {n1, n2}
  Proposer = {n1, n2}
  Feeder = {}
  Slot = {1}
  Value = {v1, v2}
  None = None
  MaxCrashes = 0
  quorum_set <- TwoOfTwo
INVARIANT Agreement
CHECK_DEADLOCK FALSE
