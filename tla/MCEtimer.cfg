SPECIFICATION Spec
CONSTANTS
  Timer = {t1, t2}
  Client = {p1, p2}
  NONE = NONE
  NUMEVENTS = 1
  ClockRange = 7
  Interval = {1, 3}
  Shift = {1}
  AnyShift = FALSE
  Chatter = TRUE
  HandlerOps = 1
  MaxLate = 2
SYMMETRY Symm
INVARIANTS TypeOK ListedOwned ExpiryNoticed NextIsEarliest
PROPERTIES NeverEarly
