SPECIFICATION Spec
CONSTANTS
  Event = {a, b}
  NUMEVENTS = 4
  NumRange = 7
PROPERTY ImplementsFIFO
