SPECIFICATION Spec
CONSTANTS
  Width = 3
  Height = 3
  SNAKE_MAX = 5
  InitLen = 3
  Start <- MCStart
INVARIANTS
  InOnePiece
  NeverTurnsBack
  NoGhosts
  FoodClear
CHECK_DEADLOCK FALSE
