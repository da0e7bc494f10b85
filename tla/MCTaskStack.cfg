SPECIFICATION StackSpec
CONSTANTS
  MAX = 1000000000
  Heaps <- TestHeaps
  Layouts <- TestLayouts
  KERNEL_STACK_SIZE = 16384
  WORD = 8
  PAGE = 4096
  ARC = 168
  BootLayouts <- TestBoot
  TaskLayouts <- TestTaskLayouts
  MaxTasks = 4
INVARIANTS
  StacksDisjoint
  BootLeavesStacksAlone
CHECK_DEADLOCK FALSE
