SPECIFICATION LiveSpec
CONSTANTS
  MaxSize = 4
  NoData = 0
  Channels = {1}
  Counts = {1, 2, 4}
  Lengths = {1, 2}
  MaxRequests = 2
  MaxSamples = 24
  Liberties = {"read"}
INVARIANTS WithinBlock HoldsRequested
PROPERTIES OldestFirst WaitEnds
