SPECIFICATION FairSpec
CONSTANTS
  Projects <- EveryProject
  MaxFaults = 5
INVARIANTS TypeOK NothingLost OutcomeExact
PROPERTIES Settles
CHECK_DEADLOCK FALSE
