SPECIFICATION Spec
CONSTANTS
  Width = 4
  Height = 3
  KeyBytes = {3, 30, 42}
  Packets <- Moves
  ConfigByte = 69
  Lines = 1
  None = None
INVARIANTS
  TypeOK
  InStep
  OnePointer
PROPERTIES
  FollowsMouse
  InitEnds
  PortDrains
CHECK_DEADLOCK FALSE
