SPECIFICATION FairSpec
CONSTANTS
  Addr = {a, b}
  NULL = NULL
  MAX_NEIGHBOR_QUEUES = 2
  MAX_PACKET_PER_NEIGHBOR = 2
  MAX_QUEUED_PACKETS = 3
  MAX_BACKOFF = 1
  MAX_TRANSMISSIONS = 2
  NUM_SENDS = 4
INVARIANTS
  QueuesSound
  InOrder
  FullRetries
PROPERTIES
  ReportedOnce
  AllReported
CHECK_DEADLOCK FALSE
