CONSTANTS
  Procs = {g1, g2}
  Queries = {q1, q2}
  maxPreparedStmts = 1
  MaxEntries = 3
  MaxAdmin = 1
SPECIFICATION Spec
INVARIANTS
  TypeOK
  ChannelClosedOnce
  ClosedNeverCached
  CacheBound
  TrafficNeverPanics
PROPERTIES
  EntriesArePromises
  CallReturns
