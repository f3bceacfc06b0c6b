SPECIFICATION Spec
CONSTANTS
  a = a
  b = b
  c = c
  d = d
  w1 = w1
  w2 = w2
  Target <- MC3
  Worker <- MCTwo
  Graphs <- MCThree
  GoalLists <- MCGoalIsDependency
  FailSets <- MCMiddleOrLeafFails
  Times <- MCNoneOrAll
  Starts = {1}
  Makes <- MCAllMake
  Reloads = FALSE
  MaxPending = 3
  MaxQueue = 5
  NULL = NULL
  Garbage = Garbage
INVARIANTS DependenciesFirst FailureStops ExitMeansDone
VIEW MCView
SYMMETRY MCWorkers
CHECK_DEADLOCK FALSE
