SPECIFICATION Spec
CONSTANTS
  n1 = n1
  n2 = n2
  n3 = n3
  Node = {n1, n2, n3}
  self = n1
  Sender = {n1, n2, n3}
  Slot = {1}
  Value = {v1}
  None = None
  quorum_set <- Observer
INVARIANT VotesDetermined
