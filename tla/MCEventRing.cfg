SPECIFICATION Spec
CONSTANTS
  Event = {e1, e2}
  NUMEVENTS = 4
  NumRange = 7
INVARIANT TypeOK
PROPERTY RingIsQueue
