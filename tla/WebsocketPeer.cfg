CONSTANTS
  MaxMessages = 3
  MaxFrames = 3
SPECIFICATION FairSpec
INVARIANTS
  TypeOK
  DeliversWholeMessages
  BufferIsCurrent
PROPERTY StreamSpec
CHECK_DEADLOCK FALSE
