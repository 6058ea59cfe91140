\* The program logs while the thread is copying.
SPECIFICATION Spec
CONSTANTS
  BufferSize = 3
  MaxMessages = 3
INVARIANTS
  NothingLost
