SPECIFICATION MeasureSpec
CONSTANTS
  SupportedGroups = {32, 64, 128}
  Trials <- MCTrials
  Times = {1, 2}
  SweptShapes <- MCShapes
  SweptRows <- MCRows
  SweptGroups = {32, 128}
  Models <- MCModels
  Prompts = {1, 9}
  Forwards = 5
  Stalls = {0, 5000}
  KernelTime = 20
  Gap = 60
  LmHeadTime = 2800
CHECK_DEADLOCK FALSE
INVARIANTS WinnerIsBest WinnerIsExact TotalsWhole SeqWithinStep CutIsOneStep RegionIsDecode
