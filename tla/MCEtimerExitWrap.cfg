SPECIFICATION Spec
CONSTANTS
  Timer = {t1, t2}
  Client = {p1, p2}
  NONE = NONE
  NUMEVENTS = 1
  ClockRange = 8
  Interval = {1, 3}
  Shift = {}
  AnyShift = FALSE
  Chatter = FALSE
  HandlerOps = 1
  MaxLate = 1
INVARIANT NoneOverdue
