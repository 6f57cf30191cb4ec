SPECIFICATION Spec
CONSTANTS
  Period = 3
  SysMax = 7
  Modulus = 9
  Delays = {1, 4}
  Latency = 1
  Horizon = 14
INVARIANTS ReadsTrueTime NeverAhead DelayNeverShort
