SPECIFICATION FairSpec
CONSTANTS
  j1 = j1
  j2 = j2
  j3 = j3
  Job <- MCJobs
  Second = 2
  NULL = NULL
  MAIN = MAIN
  Scripts <- MCScripts
  Infos <- MCInfos
  Work = 1
  MaxTime = 3
INVARIANTS TypeOK OnePlace Preemptible ExitMeansFinished StatisticsMakeSense
PROPERTIES SchemeObeyed Finishes
CHECK_DEADLOCK FALSE
