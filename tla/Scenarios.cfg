SPECIFICATION SpecLed
CONSTANTS
  n1 = n1
  n2 = n2
  n3 = n3
  v1 = v1
  NoNode = NoNode
  Node <- Node3
  Order <- Cyclic
  IDs <- InOrder
  Data = {v1}
  Caller = {1}
  Bugs = {}
  BumpTerms = {0, 1, 2, 3, 4, 5, 6}
  Faults = {"lost"}
  MaxTerm = 6
  MaxLog = 2
  MaxLate = 0
  CfgRounds = 1
  ExpectBug = FALSE
  MaxElections = 2
  Names = {"split_vote", "stale_leader", "reorder_commit", "log_truncation", "vote_no_log_check", "vote_term_index_comparator", "append_timer_reset", "higher_term_step_down"}
INVARIANTS
  FixedVerdicts
  NoFalseAlarm
  SplitVoteStays
