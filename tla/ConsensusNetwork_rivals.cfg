SPECIFICATION Spec
CONSTANTS
  n1 = n1
  n2 = n2
  n3 = n3
  Node = {n1, n2, n3}
  Proposer = {n1, n2, n3}
  Feeder = {n1}
  Slot = {1}
  Value = {v1, v2}
  None = None
  MaxCrashes = 0
  quorum_set <- TwoOfThree
INVARIANTS TypeOK NothingPending AgreementIfNominatedOnce
PROPERTIES NeverRegresses ImplementsSlotDecision
CONSTRAINT FewNominations
SYMMETRY OthersAndValues
CHECK_DEADLOCK FALSE
