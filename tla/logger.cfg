\* Program and thread in every interleaving, with a buffer for two messages.
SPECIFICATION FairSpec
CONSTANTS
  BufferSize = 2
  MaxMessages = 3
INVARIANTS
  TypeOK
  InOrderOnce
  StopSavesAll
PROPERTIES
  EverySaved
