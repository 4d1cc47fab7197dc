SPECIFICATION Spec
CONSTANTS
  PhrLen = 1
  CrcLen = 1
  Fifo = 4
  MaxPayload = 4
  First = 2
  Chunk = 1
  TxFree = 3
  RxLevel = 3
  RxFirst = 1
  RxChunk = 2
  BufMax = 5
  Length = {1, 4}
INVARIANTS TypeOK SentWhole
PROPERTIES WholeDelivered NeverDeaf
