CONSTANTS
  kInvalidPageId = 3
  kMaxColumnId = 1
  Statements <- CatalogStatements
  Transactions <- CatalogTransactions
  TableRequests <- CatalogTableRequests
  IndexRequests <- CatalogIndexRequests
  RowLists = {}
  MaxTableId = 4
  MaxIndexId = 2
  MaxTuples = 0
SPECIFICATION Spec
INVARIANTS CatalogConsistent
PROPERTIES FailureAtomic
CHECK_DEADLOCK FALSE
