CONSTANTS
  Procs = {g1, g2}
  TxProcs = {}
  Namespaces = {n1}
  Ids = {s1}
  Params = {x}
  None = None
  MaxVersion = 2
  MaxSilent = 0
SPECIFICATION Spec
INVARIANTS
  NoStaleHitAfterFlush
