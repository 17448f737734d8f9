SPECIFICATION FairSpec
CONSTANTS
  Jobs <- MCWideJobs
  PduSizes <- MCWidePdu
  FlushDiscards = TRUE
  ReopenCloses = TRUE
  U16Size = 65536
  MaxBacklog = 1
INVARIANTS IInv
PROPERTIES ReadFillsBuffer
CHECK_DEADLOCK FALSE
