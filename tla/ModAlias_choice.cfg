SPECIFICATION Spec
CONSTANTS
  x = x
  y = y
  vfioPci = vfioPci
  nvgrace = nvgrace
  other = other
  Wild = wild
  VfioPci = vfioPci
  NoDriver = none
  MaxLines = 3
  Digits <- SomeDigits
  Ids <- SomeIds
  Texts <- DeviceTexts
  Patterns <- PatternTexts
  Files <- SomeFiles
INVARIANTS
  TypeOK
  BestSoFar
  MostSpecific
  ParsesWhatIsWritten
CHECK_DEADLOCK FALSE
