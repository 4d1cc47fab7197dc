SPECIFICATION Spec
CONSTANTS
  Proc = {p1, p2, p3}
  NULL = NULL
  NUMEVENTS = 1
  UserEvent = {"user"}
  HandlerOps = 1
  Calls = {"post", "synch", "start", "exit"}
  ExitActive = FALSE
SYMMETRY Symm
INVARIANTS TypeOK CurrentIsRunner CalledOnce StateListAgree ListAcyclic NoLostPoll BroadcastReachesAll ExitReachesIdle
