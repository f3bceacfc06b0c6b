SPECIFICATION FairSpec
CONSTANTS
  c1 = c1
  c2 = c2
  c3 = c3
  n1 = n1
  n2 = n2
  f1 = f1
  f2 = f2
  NULL = NULL
  Client <- MCClient
  Name <- MCName
  Fd <- MCFd
  Requests <- MCRequests
  Cuts <- MCCuts
  Resets <- MCResets
  Deaf <- MCDeaf
  Overlaps = FALSE
INVARIANTS TypeOK ListMatchesDisk FilesAreWhole
PROPERTIES ImplementsStore Served
CHECK_DEADLOCK FALSE
