SPECIFICATION FairSpec
CONSTANTS
  BUFSIZE = 4
  NUMEVENTS = 2
  Lines = 2
  Longest = 4
  MaxOthers = 1
INVARIANTS
  LinesSound
  NoByteStranded
PROPERTIES
  AnnouncedIntact
  WaitEnds
