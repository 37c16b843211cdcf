SPECIFICATION Spec
SYMMETRY Symmetry
CONSTANTS
  Proc = {p1, p2, p3}
  NULL = NULL
  NUMEVENTS = 1
  PostedEvents = {"USER"}
  Calls = {"post", "synch", "start", "exit", "end", "context"}
  Interrupting = {p1, p2, p3}
  ExitActive = FALSE
  MaxDepth = 4
INVARIANTS
  StackSound
  ListSound
  RunningIsListed
  OthersInformed
  CurrentIsRunning
  BroadcastReachesAll
  PollNotLost
PROPERTY
  BroadcastOnce
