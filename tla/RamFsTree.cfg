SPECIFICATION TameSpec
CONSTANTS
  MAX_FILES = 4
  STACK = 2
  NameMax = 4
  Names = {"a", "b"}
  Texts = {"", "t"}
  Args <- MCArgs
  InitFs <- MCInitFs
  Commands = {"touch", "write", "mkdir", "cd", "cp", "mv", "rm"}
INVARIANTS
  TypeOK
  LsShowsAll
  NamesUnique
  ParentsExist
PROPERTIES
  MovesTogether
  ImplementsFileTree
VIEW MCView
CHECK_DEADLOCK FALSE
