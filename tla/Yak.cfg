SPECIFICATION FairSpec
CONSTANTS
  Letters = {4, 5, 6}
  Input <- MCInput
  Path <- MCPath
  Before <- MCBefore
  MergedPath <- MCMergedPath
  ResultPath <- MCResultPath
  BATCH = 3
  MayFail = TRUE
  Budget = 2
INVARIANTS TypeOK NoFileGoesUnseen HandedOnOnce BatchesAreFed
PROPERTY ShutdownEnds
CHECK_DEADLOCK FALSE
