SPECIFICATION Spec
CONSTANTS
  Files <- SmallFiles
  Paths <- AskedFor
  Number <- Numerals
  ShortWidth = 4
INVARIANTS ReadsAsWritten FailsOnMalformed
PROPERTIES FieldsKept
CHECK_DEADLOCK FALSE
