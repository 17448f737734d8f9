SPECIFICATION FairSpec
CONSTANTS
  Jobs <- MCJobs
  PduSizes <- MCPdu
  FlushDiscards = FALSE
  ReopenCloses = FALSE
  U16Size = 65536
  MaxBacklog = 2
INVARIANTS TypeOK OwnAnswers ConnectedIsUsable NoLeftovers
PROPERTIES CallsReturn Implements
CHECK_DEADLOCK FALSE
