SPECIFICATION Spec
CONSTANTS
  Capacity = 3
  Rows = 4
  Cols = 4
  PokeCols = {3}
  BufferSize = 9
  WordSize = 7
  NameSize = 2
  Cracks = 2
  Percents = 2
  Typed <- Lines0
  Trees <- Expressions
  Spoken <- Texts
  IntHalf = 64
  Height = 4
  Lengths = {4, 5}
  Speeds = {1, 2}
INVARIANTS
  CalcAsPromised
CHECK_DEADLOCK FALSE
