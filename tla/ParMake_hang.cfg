SPECIFICATION FairSpec
CONSTANTS
  a = a
  b = b
  c = c
  d = d
  w1 = w1
  w2 = w2
  Target <- MC3
  Worker <- MCTwo
  Graphs <- MCChain
  GoalLists <- MCGoalA
  FailSets <- MCNoneFails
  Times <- MCNoFiles
  Starts = {1}
  Makes <- MCNoMakes
  Reloads = FALSE
  MaxPending = 2
  MaxQueue = 3
  NULL = NULL
  Garbage = Garbage
PROPERTY Terminates
CHECK_DEADLOCK FALSE
