CONSTANTS
  Procs = {g1, g2}
  d1 = d1
  d2 = d2
  d3 = d3
  DataSources <- MCDataSources
  WorkerOf <- MCWorkerOf
  None = None
  SequenceSize = 2
  WorkerSize = 4
  MaxClock = 3
  MaxStepBacks = 1
SPECIFICATION Spec
INVARIANTS
  TypeOK
  IdsIncrease
PROPERTIES
  CallReturns
