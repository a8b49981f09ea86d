SPECIFICATION Spec
CONSTANTS
  MAX_ROWS = 3
  MAX_COLS = 1
  SCROLL_HISTORY_LINES = 2
  Shell = s
  Tasks = {t1}
  Chars = {a}
  Marks = {a}
  PokeCols = {0}
  Blank = b
  Outside = x
  MaxLines = 3
INVARIANTS
  ShellSeesEveryLine
  TasksReadNotBeyond
  OneStaleRowPerThread
PROPERTIES
  ImplementsScrollback
