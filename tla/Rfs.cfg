SPECIFICATION Spec
CONSTANTS
  Handles = {h1, h2}
  Paths = {A, B}
  Closed = Closed
  BufSize = 2
  Lens = {1, 3}
  FileLen = 3
  FirstFd = 10
  MaxCalls = 3
  MaxLost = 2
INVARIANTS CallsHonest HandlesIssued
PROPERTY CallsReturn
CHECK_DEADLOCK FALSE
