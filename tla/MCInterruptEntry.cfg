SPECIFICATION Spec
CONSTANTS
  Tasks = 2
  SLICE = 3
  StackWords = 60
  MaxNesting = 2
  MaxPending = 3
  InSwitch = FALSE
INVARIANTS
  HandlerSeesInterrupt
  ReturnsWhereInterrupted
  SwitchesOffIst
CHECK_DEADLOCK FALSE
