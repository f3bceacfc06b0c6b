SPECIFICATION ToolsSpec
CONSTANTS
  a = a
  b = b
  c = c
  d = d
  x = x
  y = y
  w1 = w1
  w2 = w2
  Target <- MC4
  Worker <- MCOne
  Graphs <- MCShared
  GoalLists <- MCArgv
  FailSets <- MCSomeFail
  Times <- MCOldFiles
  Starts = {1}
  Makes <- MCFiles
  Reloads = TRUE
  MaxPending = 4
  MaxQueue = 6
  NULL = NULL
  Garbage = Garbage
  Sources <- MCSources
  TAB = TAB
  COLON = COLON
  HASH = HASH
  QUOTE = QUOTE
  BACKSLASH = BACKSLASH
  Commands <- MCCommands
  Stores <- MCStores
  Block <- MCBlock
  Buffer = 2
  Missing = Missing
  Width = 4
  Elements = {1, 2, 5}
  Lengths = {0, 1, 2, 3, 4, 5}
  Threads = {0, 1, 2, 3}
  Letters = {"a", "b"}
  MaxPathname = 6
  MaxDepth = 2
INVARIANTS RunsOnce FreshWhenDone MakefileUnderstood RejectsExactlyCycles TellsTheTruth StoredIsReported ReducesEverything RealPathIsNormal
PROPERTIES Terminates ClientEnds
CHECK_DEADLOCK FALSE
