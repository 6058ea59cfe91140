\* Command lines of up to four arguments.
SPECIFICATION Spec
CONSTANTS
  Texts <- SomeTexts
  Numerals <- SomeNumerals
  MaxArguments = 4
INVARIANTS
  LastOneCounts
  RunsComplete
