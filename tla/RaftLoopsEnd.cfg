SPECIFICATION FairSpec
CONSTANTS
  n1 = n1
  n2 = n2
  n3 = n3
  v1 = v1
  v2 = v2
  NoNode = NoNode
  Node <- Node2
  Order <- Pair
  Data = {v1}
  Caller = {1}
  Bugs = {}
  BumpTerms = {2}
  Faults = {"lost", "late", "unanswered"}
  MaxTerm = 2
  MaxLog = 1
  MaxLate = 1
CHECK_DEADLOCK FALSE
INVARIANTS
  LeaderHint
PROPERTIES
  TermMonotone
  OutdatedBeatEnds
  LoopsEnd
