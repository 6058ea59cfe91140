\* Names without a directory, and numbers enough for all of them.
SPECIFICATION Spec
CONSTANTS
  Stems = {a, b}
  Directories = {"none"}
  NumberLimit = 5
  OldNumbers = 2
  MaxSyncs = 3
INVARIANTS
  NumbersInOrder
PROPERTIES
  KeepsFiles
