SPECIFICATION Spec
CONSTANTS
  a = a
  b = b
  c = c
  d = d
  w1 = w1
  w2 = w2
  Target <- MC4
  Worker <- MCTwo
  Graphs <- MCDiamond
  GoalLists <- MCGoalA
  FailSets <- MCBottomFails
  Times <- MCNoFiles
  Starts = {1}
  Makes <- MCNoMakes
  Reloads = TRUE
  MaxPending = 3
  MaxQueue = 5
  NULL = NULL
  Garbage = Garbage
INVARIANT FailureStops
SYMMETRY MCWorkers
CHECK_DEADLOCK FALSE
