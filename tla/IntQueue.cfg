SPECIFICATION LiveSpec
CONSTANTS
  QueueSize = 3
  IntIds = {1}
  Main = main
  Coroutines = {co}
  MaxRaised = 4
INVARIANTS TypeOK Undisturbed DeliveredOnce ClosedIsClean
PROPERTIES ImplementsFifo AllDrained
