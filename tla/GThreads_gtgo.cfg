SPECIFICATION Spec
CONSTANTS
  j1 = j1
  j2 = j2
  j3 = j3
  Job <- MCJobs
  Second = 2
  NULL = NULL
  MAIN = MAIN
  Scripts <- MCStartFirst
  Infos <- MCOneInfo
  Work = 1
  MaxTime = 2
INVARIANT StartsAfterGtgo
CHECK_DEADLOCK FALSE
