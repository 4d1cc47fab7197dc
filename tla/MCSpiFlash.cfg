SPECIFICATION Spec
CONSTANTS
  PageSize = 2
  Pages = 3
  Byte = {ff, b}
  Erased = ff
  MaxLen = 4
  EndOnPage = FALSE
  Apart = TRUE
INVARIANTS TypeOK NothingLost BufferIsPage OnePageUnsaved OthersKept
