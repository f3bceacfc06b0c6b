SPECIFICATION KeepSpec
CONSTANTS
  Process <- MCProcess
  Page <- MCEdges
  v1 = v1
  Value <- MCValue
  NumFrames = 7
  NumEntries = 1024
  MaxNodes = 2
  Resizable <- MCTesting
  MaxShrink = 1
  NULL = NULL
  RESERVED = RESERVED
  Zero = Zero
  NoFile = NoFile
  SEGV = SEGV
INVARIANT DirtyCoversWrites
PROPERTY ImplementsMemory
VIEW MCView
