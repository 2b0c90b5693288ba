CONSTANTS
  kInvalidPageId = 3
  kMaxColumnId = 1
  Statements <- MCStatements
  Transactions <- MCTransactions
  TableRequests <- MCTableRequests
  IndexRequests = {}
  RowLists <- MCRowLists
  MaxTableId = 3
  MaxIndexId = 0
  MaxTuples = 2
SPECIFICATION Spec
INVARIANTS TypeOK RootsResolve TuplesDecode
PROPERTIES FailureAtomic StoreSpec
CHECK_DEADLOCK FALSE
