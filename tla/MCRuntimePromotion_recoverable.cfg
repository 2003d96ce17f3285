SPECIFICATION FairSpec
CONSTANTS
  Projects <- NewProject
  MaxFaults = 2
PROPERTIES Recoverable
CHECK_DEADLOCK FALSE
