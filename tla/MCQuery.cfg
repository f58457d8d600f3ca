CONSTANTS
  g1 = g1
  g2 = g2
  Procs = {g1, g2}
  NoProc = NoProc
  MaxConns = 1
  TxProcs = {g1}
  DdlProcs = {g1}
  MaxVersion = 1
  MaxObjs = 6
  MaxExpiries = 1
  MaxCalls <- MCMaxCalls
SPECIFICATION Spec
INVARIANTS
  TypeOK
  SingleFlight
  ConnectionsReturned
PROPERTIES
  LookupsFresh
  KnownSetKept
  CallsReturn
CHECK_DEADLOCK FALSE
