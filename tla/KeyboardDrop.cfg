SPECIFICATION FairSpec
CONSTANTS
  KB_BUF_SIZE = 4
  Keys = {a, b}
  ShiftKeys = {left, right}
  NoChar = NoChar
PROPERTIES
  NeverDropped
