CONSTANTS
  Procs = {g1}
  Callers = {g1}
  NoProc = NoProc
  d = d
  o = o
  n1 = n1
  long = long
  short = short
  Names <- MCNames
  Default = d
  NoName = NoName
  Namespaces = {n1}
  NoNs = NoNs
  Patterns <- MCPatterns
  Matching <- MCMatching
  SettingsBind <- MCSettingsBind
  SettingsReplicas <- MCReplicas
  RoundRobinSize = 2
  MaxDb = 4
  MaxOps = 2
  MaxStarts = 2
SPECIFICATION Spec
INVARIANTS
  TypeOK
  BoundCallsStay
  OwnTransactionUsed
  TextMatchesConnection
  PoolsReachable
  RegisteredOpen
  NoLostLogger
CHECK_DEADLOCK FALSE
