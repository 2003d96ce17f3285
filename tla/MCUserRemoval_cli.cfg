SPECIFICATION FairSpec
CONSTANTS
  u1 = u1
  u2 = u2
  Processes = {u1}
  Nobody = Nobody
  Ops = {o1, o2}
  NoOp = NoOp
  Bodies = {m1, m2, m3}
  NoBody = NoBody
  Torn = Torn
  Files = {f1}
  Persistent = {u1}
  Gated = {u1}
  MaxTransitions = 10
  MaxReceipts = 2
  MaxFaults = 1
  MaxRecreated = 0
PROPERTIES Recovers
