SPECIFICATION Spec
CONSTANTS
  u1 = u1
  u2 = u2
  Processes = {u1, u2}
  Nobody = Nobody
  Ops = {o1, o2, o3}
  NoOp = NoOp
  Bodies = {m1, m2, m3}
  NoBody = NoBody
  Torn = Torn
  Files = {f1, f2}
  Persistent = {u1}
  Gated = {u2}
  MaxTransitions = 10
  MaxReceipts = 2
  MaxFaults = 2
  MaxRecreated = 2
PROPERTY ImplementsRemoval
