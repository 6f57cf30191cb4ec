SPECIFICATION Spec
CONSTANTS
  ConnCount = 2
  Ports = {p1, p2}
  Mss = 2
  MaxLen = 3
  Listens = {TRUE}
  Talking = {}
  NoConn = NoConn
  Nobody = Nobody
INVARIANTS NoneForgotten
