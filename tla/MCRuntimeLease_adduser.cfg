SPECIFICATION Spec
CONSTANTS
  p1 = p1  p2 = p2  p3 = p3  p4 = p4
  o1 = o1  o2 = o2  o3 = o3  o4 = o4
  h1 = h1  h2 = h2  h3 = h3  h4 = h4  h5 = h5
  k1 = k1  k2 = k2  op1 = op1
  Processes = {p1, p2, p3}
  NoProcess = NoProcess
  ParentOf <- NoParents
  Owners = {o1, o2, o3}
  ProcessOf <- ProcessEach
  Handles = {h1, h2, h4}
  OwnerOf <- OwnerEach
  Keys = {k1}
  NoKey = NoKey
  User = User
  Ops = {op1}
  NoOp = NoOp
  Menu <- AddUserMenu
  NoReader = NoReader
  NoWriter = NoWriter
  NoRequest = NoRequest
  LeftJournals <- NothingLeft
  LeftReceipts <- NothingLeft
  MaxReaders = 2
  MaxRefs = 2
  MaxWriters = 2
  MaxCalls = 2
  MaxRetried = 2
  MayCrash = {}
  Faulty = {}
  Hasty = {}
  Supervisors = {}
PROPERTIES KeepsPlace
CHECK_DEADLOCK FALSE
