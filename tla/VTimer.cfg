SPECIFICATION LiveSpec
CONSTANTS
  Timers = {1, 2}
  Frequency = 2
  Second = 3
  MaxPeriod = 2
  TypeLimit = 16
  Periods = {0, 1, 2, 3, 5, 10}
  MaxCount = 2
  NoTimer = none
INVARIANTS DelayNeverShort
PROPERTIES NoEarlyInterrupt CallsReturn
