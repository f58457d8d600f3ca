CONSTANTS
  Procs = {g1, g2, g3}
  TxProcs = {g1, g2}
  Namespaces = {n1}
  Ids = {s1, s2}
  Params = {x}
  None = None
  MaxVersion = 2
  MaxSilent = 1
SPECIFICATION Spec
INVARIANTS
  TypeOK
  CleanEntryFresh
