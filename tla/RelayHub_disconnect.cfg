CONSTANTS
  a1 = a1  r1 = r1  i1 = i1  i2 = i2
  Agents = {a1, a2}
  Conns = {c1, c2}
  Requests = {r1, r2}
  Ids = {i1, i2}
  IdOf <- UniqueIds
  TargetOf <- OneTarget
  None = None
  Disconnected = Disconnected
  Failed = Failed
SPECIFICATION FairSpec
INVARIANTS TypeOK SendNeverBlocks AnswersOwnRequest NoOrphanedWaiter NoPendingLeak HubEntryIsLive
PROPERTIES DisconnectWakesCallers ImplementsRPC
