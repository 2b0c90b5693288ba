CONSTANTS
  PageSize = 20
  Byte <- MCByte
  RootPageId = 1
  MaxValidPageId = 2
  Records <- MCRecords
  Cursors = {c1}
  NoId = NoId
SPECIFICATION Spec
INVARIANTS
  TypeOK
  LayoutOK
  RecordsDisjoint
  RecordCountExact
  ScanPositions
  PageIdsConsecutive
PROPERTIES StoreSpec LentBytesFrozen
CHECK_DEADLOCK FALSE
