SPECIFICATION SpecReplication
CONSTANTS
  n1 = n1
  n2 = n2
  n3 = n3
  v1 = v1
  v2 = v2
  NoNode = NoNode
  Node <- Node3
  Order <- Cyclic
  Data = {v1, v2}
  Caller = {1, 2}
  Bugs = {}
  BumpTerms = {}
  Faults = {}
  MaxTerm = 2
  MaxLog = 2
  MaxLate = 0
SYMMETRY Payloads
CHECK_DEADLOCK FALSE
INVARIANTS
  LogShape
  LogMatching
  CommitBacked
  LeaderKeepsProposals
PROPERTIES
  LeaderAppendOnly
