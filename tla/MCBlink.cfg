SPECIFICATION BlinkSpec
CONSTANTS
  Timer = {et, t1}
  Client = {blink_process, p1}
  blink_process = blink_process
  et = et
  SECOND = 2
  NONE = NONE
  NUMEVENTS = 1
  ClockRange = 6
  Interval = {1, 2}
  Shift = {}
  AnyShift = FALSE
  Chatter = FALSE
  HandlerOps = 1
  MaxLate = 1
PROPERTIES LedIsBlinker KeepsBlinking DueIsServed
