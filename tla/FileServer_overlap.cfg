SPECIFICATION Spec
CONSTANTS
  c1 = c1
  c2 = c2
  c3 = c3
  n1 = n1
  n2 = n2
  f1 = f1
  f2 = f2
  NULL = NULL
  Client <- MCTwo
  Name <- MCOneName
  Fd <- MCFd
  Requests <- MCUploads
  Cuts <- MCAnyCut
  Resets = {}
  Deaf = {}
  Overlaps = TRUE
INVARIANT ListMatchesDisk
CHECK_DEADLOCK FALSE
