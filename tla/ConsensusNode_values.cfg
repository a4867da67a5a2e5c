SPECIFICATION Spec
CONSTANTS
  n1 = n1
  n2 = n2
  n3 = n3
  Node = {n1, n2}
  self = n1
  Sender = {n2}
  Slot = {1}
  Value = {v1, v2}
  None = None
  quorum_set <- TwoOfTwo
INVARIANTS TypeOK VotesDetermined DecisionJustified ResultIsTruthful
PROPERTY DecisionIsFinal
