CONSTANTS
  a1 = a1  r1 = r1  i1 = i1  i2 = i2
  Agents = {a1}
  Conns = {c1, c2}
  Requests = {r1}
  Ids = {i1}
  IdOf <- UniqueIds
  TargetOf <- OneTarget
  None = None
  Disconnected = Disconnected
  Failed = Failed
SPECIFICATION Spec
INVARIANT OnlineWhileConnected
