SPECIFICATION Spec
CONSTANTS
  Proc = {p1, p2}
  NULL = NULL
  NUMEVENTS = 1
  UserEvent = {"user", "EXIT"}
  HandlerOps = 1
  Calls = {"post", "synch", "start", "exit", "poll"}
  ExitActive = TRUE
SYMMETRY Symm
INVARIANT StateListAgree
