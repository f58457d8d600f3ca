CONSTANTS
  Procs = {g1, g2}
  MaxTx = 4
  MaxDepth = 2
  PoolSize = 3
  NoProc = NoProc
SPECIFICATION Spec
INVARIANTS
  TypeOK
  DetachedIsolated
  ActiveTxOwned
  SlotReachable
PROPERTIES
  SlotNotStolen
  OutermostDecides
  BeginReturns
