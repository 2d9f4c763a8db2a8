SPECIFICATION FairSpec
CONSTANTS
  MaxFrames = 4
  Chunks = 3
INVARIANTS
  TypeOK
  OneLink
  BufferPinned
PROPERTIES
  FifoSpec
  EverythingSent
CHECK_DEADLOCK FALSE
