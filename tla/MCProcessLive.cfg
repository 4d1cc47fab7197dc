SPECIFICATION FairSpec
CONSTANTS
  Proc = {p1, p2}
  NULL = NULL
  NUMEVENTS = 1
  UserEvent = {"user", "EXIT"}
  HandlerOps = 2
  Calls = {"post", "synch", "exit", "poll"}
  ExitActive = FALSE
PROPERTIES RunReturns PollServed
