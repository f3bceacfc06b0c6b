SPECIFICATION Spec
CONSTANTS
  Process <- MCProcess
  Page <- MCLast
  v1 = v1
  Value <- MCValue
  NumFrames = 5
  NumEntries = 1024
  MaxNodes = 3
  Resizable <- MCNone
  MaxShrink = 0
  NULL = NULL
  RESERVED = RESERVED
  Zero = Zero
  NoFile = NoFile
  SEGV = SEGV
INVARIANT PageIsolation
VIEW MCView
