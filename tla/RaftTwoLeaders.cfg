SPECIFICATION Spec
CONSTANTS
  n1 = n1
  n2 = n2
  n3 = n3
  v1 = v1
  v2 = v2
  NoNode = NoNode
  Node <- Node3
  Order <- Cyclic
  Data = {v1}
  Caller = {}
  Bugs = {}
  BumpTerms = {}
  Faults = {}
  MaxTerm = 1
  MaxLog = 0
  MaxLate = 0
CHECK_DEADLOCK FALSE
INVARIANTS
  SingleLeaderPerTerm
