SPECIFICATION Spec
CONSTANTS
  a = a
  b = b
  wasm = wasm
  Idle = idle
  NoTask = none
  Worker = {wasm}
  Workers <- OneWorker
  Allocating = {wasm}
  SLICE = 3
  MaxNesting = 3
  PREEMPTION = "any"
INVARIANTS
  TypeOK
  TimerLockFree
  OneEndOfInterrupt
  PanicOnlyBeforeInit
  HltWakes
CHECK_DEADLOCK FALSE
