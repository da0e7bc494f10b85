SPECIFICATION Spec
CONSTANTS
  MAX = 15
  Heaps <- TestHeaps
  Layouts <- TestLayouts
INVARIANTS
  TypeOK
  BlocksDisjoint
  BlocksFit
  
PROPERTIES
  AllocTakesLowest
  FullStaysFull
  ImplementsHeap
CHECK_DEADLOCK FALSE
