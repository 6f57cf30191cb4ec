SPECIFICATION LiveSpec
CONSTANTS
  File <- MixedFile
  LongSize = 2
  NumWrap = 3
  RetryLimit = 4
  InitialSize = 2
  Increment = 2
  Faults = {"noise", "drop", "reply"}
  MaxFaults = 3
  MaxSends = 10
INVARIANTS StoresPrefix SenderNotAhead SizeUnlessDropped NoiseSurvived
PROPERTY Ends
CHECK_DEADLOCK FALSE
