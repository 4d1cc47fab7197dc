SPECIFICATION Spec
CONSTANTS
  PageSize = 2
  Pages = 3
  Byte = {ff, b}
  Erased = ff
  MaxLen = 4
  EndOnPage = TRUE
  Apart = TRUE
INVARIANT NothingLost
