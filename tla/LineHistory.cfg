SPECIFICATION Spec
CONSTANTS
  LastCell = 12
  Words = {Empty, l1, l2, Pointers, Thing}
  Junk = Junk
  Null = Null
  Empty = Empty
  Lines = {l1, l2}
  LongLines = {l2}
  Pointers = Pointers
  HistoryMaxLen = 2
  Thing = Thing
  ThingSizes = {0, 4, 20}
INVARIANTS HeapSound EachOwned
PROPERTY HistoryKept
CHECK_DEADLOCK FALSE
