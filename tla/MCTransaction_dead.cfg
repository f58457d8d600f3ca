CONSTANTS
  Procs = {g1, g2}
  NoProc = NoProc
  MaxTx = 1
  MaxDepth = 1
  PoolSize = 1
SPECIFICATION Spec
PROPERTIES
  NoRouteToFinishedTx
