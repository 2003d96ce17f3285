SPECIFICATION FairSpec
CONSTANTS
  p1 = p1  p2 = p2  p3 = p3  p4 = p4
  o1 = o1  o2 = o2  o3 = o3  o4 = o4
  h1 = h1  h2 = h2  h3 = h3  h4 = h4  h5 = h5
  k1 = k1  k2 = k2  op1 = op1
  Processes = {p1, p2, p3, p4}
  NoProcess = NoProcess
  ParentOf <- ChildOfP1
  Owners = {o1, o2, o3, o4}
  ProcessOf <- ProcessEach
  Handles = {h1, h3, h4, h5}
  OwnerOf <- OwnerEach
  Keys = {k1}
  NoKey = NoKey
  User = User
  Ops = {op1}
  NoOp = NoOp
  Menu <- RecoveryMenu
  NoReader = NoReader
  NoWriter = NoWriter
  NoRequest = NoRequest
  LeftJournals <- AnyLeft
  LeftReceipts <- AnyLeft
  MaxReaders = 2
  MaxRefs = 2
  MaxWriters = 2
  MaxCalls = 1
  MaxRetried = 2
  MayCrash = {p3}
  Faulty = {}
  Hasty = {h4}
  Supervisors = {h1}
INVARIANTS RecoveryIsolated
PROPERTIES RecoveryExclusive EveryCallSettles
CHECK_DEADLOCK FALSE
