CONSTANTS
  Procs = {g1}
  Queries = {q1}
  maxPreparedStmts = 1
  MaxEntries = 2
  MaxAdmin = 1
SPECIFICATION Spec
INVARIANTS
  NoStaleStmtAfterReconnect
