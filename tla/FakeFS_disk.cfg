SPECIFICATION Spec
CONSTANTS
  NumBlocks = 5
  MaxInodes = 3
  NumDirect = 2
  NumIndirect = 3
  BlockSize = 2
  Paths <- MCPaths
  Buffers <- MCBuffers
  Offsets = {0, 3}
  Grown <- MCGrown
  FakePaths <- MCFakePaths
  FakeBuffers <- MCFakeBuffers
  FakeOffsets = {0, 4}
  FakeCounts = {1}
  Dirs <- MCDirs
  Names <- MCNames
  Perms <- MCPerms
  Owners = {1}
  Copies <- MCCopies
  MaxFd = 4
  Orders <- MCOrders
  MaxCalls <- MCCalls
INVARIANTS TypeOK BlocksAccountedFor  EntriesExact DanglesOnlyWhenShared
PROPERTIES KilledForAReason
CHECK_DEADLOCK FALSE
