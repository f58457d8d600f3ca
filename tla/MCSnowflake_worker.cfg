CONSTANTS
  Procs = {g1}
  d1 = d1
  d2 = d2
  d3 = d3
  DataSources <- MCDataSources
  WorkerOf <- MCWorkerOf
  None = None
  SequenceSize = 2
  WorkerSize = 4
  MaxClock = 1
  MaxStepBacks = 0
SPECIFICATION Spec
INVARIANTS
  WorkerIdOfDataSource
