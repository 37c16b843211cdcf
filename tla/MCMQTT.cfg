SPECIFICATION FairSpec
CONSTANTS
  NULL = NULL
  NUMEVENTS = 4
  NUM_ENDS = 3
  ACKED_IN_TIME = FALSE
  KEEP_ALIVE = {"short", "long"}
CHECK_DEADLOCK FALSE
INVARIANTS
  ConnectionSound
  
PROPERTIES
  SurvivesLoss
  
