SPECIFICATION FairSpec
CONSTANTS
  NULL = NULL
  NUMEVENTS = 32
  NUM_ENDS = 0
  ACKED_IN_TIME = TRUE
  KEEP_ALIVE = {"long"}
CHECK_DEADLOCK FALSE
PROPERTIES
  QueueFreed
