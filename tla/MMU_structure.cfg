SPECIFICATION Spec
CONSTANTS
  Process <- MCProcess
  Page <- MCPages
  v1 = v1
  Value <- MCNone
  NumFrames = 6
  NumEntries = 1024
  MaxNodes = 2
  Resizable <- MCNone
  MaxShrink = 0
  NULL = NULL
  RESERVED = RESERVED
  Zero = Zero
  NoFile = NoFile
  SEGV = SEGV
INVARIANTS TypeOK TablesAreReserved OwnersAgree NoFrameLeak TLBCoherent TLBIsACache CrashOnlyWhenExhausted
CHECK_DEADLOCK FALSE
VIEW MCStructure
