SPECIFICATION Spec
CONSTANTS
  n1 = n1
  n2 = n2
  n3 = n3
  v1 = v1
  v2 = v2
  NoNode = NoNode
  Node <- Node3
  Order <- Cyclic
  Data = {v1}
  Caller = {}
  Bugs = {}
  BumpTerms = {}
  Faults = {"lost", "unanswered"}
  MaxTerm = 2
  MaxLog = 0
  MaxLate = 0
SYMMETRY Rotations
CHECK_DEADLOCK FALSE
INVARIANTS
  TypeOK
  VotesAccounted
  OneWinnerUnlessCleared
  LeaderHint
  NotAllStuck
PROPERTIES
  TermMonotone
  ImplementsElections
