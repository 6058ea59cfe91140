CONSTANTS
  Lengths <- ShortLengths
  BufferSize = 11
  Messages <- PacketsOfEachType
  Flips <- Damages
  MaxDamaged = 1
SPECIFICATION Spec
INVARIANTS
  TypeOK
  IntactIsAccepted
  RemainderIsBitwise
  BurstIsNoticed
  KnownAnswers
