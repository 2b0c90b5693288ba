CONSTANTS
  Runtimes = {r1, r2}
  AbiRuntimes = {r2}
  Handles = {h1, h2, h3}
  Blocks = {b1, b2}
  Requests <- MCRequests
  null = null
  kDefaultPageSize = 8
  MaxAlign = 4
  MaxSize = 64
SPECIFICATION Spec
INVARIANTS OneOwner FreedOnce
CHECK_DEADLOCK FALSE
