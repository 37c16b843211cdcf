SPECIFICATION FairSpec
CONSTANTS
  Proc = {p1, p2}
  NULL = NULL
  NUMEVENTS = 1
  PostedEvents = {"USER"}
  Calls = {"post", "synch", "exit", "end"}
  Interrupting = {p1}
  ExitActive = FALSE
  MaxDepth = 4
PROPERTIES
  PollServed
  QueueDrains
  MainLoopReturns
