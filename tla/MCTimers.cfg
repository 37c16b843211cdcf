SPECIFICATION Spec
CONSTANTS
  Timer = {t1, t2}
  Proc = {p1, p2}
  NULL = NULL
  Other = Other
  NUMEVENTS = 1
  TimeRange = 10
  Half = 5
  Interval = {0, 3}
  Adjustments <- Either
  Untimely = FALSE
  MaxLate = 1
SYMMETRY Symmetry
INVARIANTS
  TimersSound
  NoTimerOverlooked
PROPERTY NeverEarly
