SPECIFICATION FairSpec
CONSTANTS
  a = a
  b = b
  wasm = wasm
  Idle = idle
  NoTask = none
  Worker = {a, b, wasm}
  Workers <- ThreeWorkers
  Allocating = {wasm}
  SLICE = 3
  MaxNesting = 4
  PREEMPTION = "benign"
INVARIANTS
  SpinsEnd
  RunningTaskAgrees
  SavedContextsIntact
PROPERTIES
  ImplementsRoundRobin
  BootCompletes
  EveryTaskRuns
