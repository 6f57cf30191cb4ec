SPECIFICATION Spec
CONSTANTS
  MaxSize = 2
  NoData = none
  Bufs = {D0, D1}
  Sizes = {1, 2}
  Kinds = {"plain", "ESC"}
  None = None
  MaxSent = 2
  MaxRestarts = 1
INVARIANTS MuxSound Coherent
PROPERTY ImplementsBuffer
SYMMETRY MCSymmetry
CHECK_DEADLOCK FALSE
