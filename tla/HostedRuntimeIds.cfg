CONSTANTS
  BlockSize = 2
  SizeBytes = 4
  kHostedMaxIoRequestSize = 3
  kHostedMaxIoBatchSize = 2
  kHostedMaxOutstandingIo = 3
  Buffers <- MCBuffers
  Batches <- MCBatches
  PollSizes = {0, 2}
  MaxRequestId = 2
SPECIFICATION Spec
INVARIANTS AssignedIdsFresh
CHECK_DEADLOCK FALSE
