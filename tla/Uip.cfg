SPECIFICATION LiveSpec
CONSTANTS
  ConnCount = 1
  Ports = {p1}
  Mss = 2
  MaxLen = 3
  Listens = {TRUE, FALSE}
  Talking = {0}
  NoConn = NoConn
  Nobody = Nobody
INVARIANTS FlowControlled SendHonest OneRequest
PROPERTY Returns
