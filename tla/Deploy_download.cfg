SPECIFICATION FairSpec
CONSTANTS
  MaxPolls = 2
  MaxStarts = 2
  MaxFaults = 0
  ByHand = FALSE
CHECK_DEADLOCK FALSE
INVARIANTS DownloadsThenStarts
