SPECIFICATION SpecLed
CONSTANTS
  n1 = n1
  n2 = n2
  n3 = n3
  v1 = v1
  NoNode = NoNode
  Node <- Node3
  Order <- Cyclic
  IDs <- InOrder
  Data = {v1}
  Caller = {1}
  Bugs = {"VoteWithoutLogCheck"}
  BumpTerms = {0, 1, 2, 3}
  Faults = {"lost"}
  MaxTerm = 3
  MaxLog = 2
  MaxLate = 0
  CfgRounds = 1
  ExpectBug = FALSE
  MaxElections = 1
  Names = {"vote_no_log_check"}
INVARIANTS
  StillPresentIsCaught
