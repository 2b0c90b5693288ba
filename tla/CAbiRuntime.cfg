CONSTANTS
  BlockSize = 2
  SizeBytes = 4
  kHostedMaxIoRequestSize = 3
  kHostedMaxIoBatchSize = 2
  kHostedMaxOutstandingIo = 3
  Buffers <- MCBuffers
  Batches <- MCBatches
  PollSizes = {0, 2, 3}
  MaxRequestId = 2
  Throws = TRUE
  garbled = garbled
  NullBuffers = {"none"}
SPECIFICATION AbiSpec
INVARIANTS MessagesIntact
PROPERTIES ContractAcrossAbi
CHECK_DEADLOCK FALSE
