SPECIFICATION Spec
CONSTANTS
  A = A
  B = B
  x = x
  y = y
  Names = {A, B}
  NoName = NoName
  Bytes = {x, y}
  Blank = Blank
  NoFile = NoFile
  NameLen = 2
  MaxSize = 40
  MaxFds = 2
  Wrap = 128
  CardFiles <- Card
  CardMax = 4
  BufSize = 4
  Chunks <- OneChunk
  Modes = {"r", "w"}
  SimulateMove = FALSE
  MaxOpens = 2
  MaxFormats = 1
  MaxResets = 1
  MaxCommands = 1
INVARIANTS ChainEndsErased SourceKept CommandEndsWell
PROPERTIES WriteOnce ImplementsFileSet
CHECK_DEADLOCK FALSE
