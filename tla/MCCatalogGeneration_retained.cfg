SPECIFICATION Spec
CONSTANTS
  r1 = r1  r2 = r2  r3 = r3
  Requests = {r1, r2, r3}
  Plans <- MixedPlans
  MaxCatalogs = 3
  MaxEdits = 1
  MaxFaults = 1
  NoCatalog = NoCatalog
  NoCache = NoCache
  NoRequest = NoRequest
PROPERTIES FailureRetains
CHECK_DEADLOCK FALSE
