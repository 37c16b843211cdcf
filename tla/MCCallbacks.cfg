SPECIFICATION CFairSpec
CONSTANTS
  Timer = {t1, t2}
  ctimer_process = ctimer_process
  Proc = {ctimer_process}
  NULL = NULL
  Other = Other
  NUMEVENTS = 2
  TimeRange = 4
  Half = 4
  Interval = {1}
  Adjustments = {}
  Untimely = FALSE
  MaxLate = 1
INVARIANTS
  CallbacksSound
PROPERTIES
  OnlyArmedCallBack
  OnlyRearmedEarly
  ArmedCallsBack
