SPECIFICATION Spec
CONSTANTS
  c1 = c1
  c2 = c2
  Procs = {c1, c2}
  Durations = {1, 2, 3}
  MaxUsages = 3
  Exprs <- MCExprs
  Conditions <- MCConditions
  Bindings <- MCBindings
  Statements <- MCStatements
  Fragments <- MCFragments
  Arguments <- MCArguments
  Templates <- MCTemplates
  TableNames <- MCTableNames
  Rewrites <- MCRewrites
  Queries <- MCQueries
  Wrappers <- MCWrappers
  Pages <- MCPages
  ResultSets <- MCResultSets
  MaxRows <- MCMaxRows
  GlobalLimits <- MCGlobalLimits
  ColumnTypes <- MCColumnTypes
  FieldTypes <- MCFieldTypes
  RowSets <- MCRowSets
  Results <- MCResults
  Models <- MCModels
  ColumnOrders <- MCColumnOrders
  Columns <- MCColumns
  Chains <- MCChains
  Finishers <- MCFinishers
  Model <- MCModel
CHECK_DEADLOCK FALSE
INVARIANTS
  IfTestsFaithful
  TreeKept
  RenderingsAgree
  PlaceholdersResolved
  NoDanglingWords
  StatementTextKept
  RowsComplete
  MaxDurationExact
