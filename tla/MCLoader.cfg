SPECIFICATION Spec
CONSTANTS
  Pages = 11
  PAGE_SIZE = 2
  FirstMap <- TestMap
  Kernels <- TestKernels
  Tables = 1
  StackPages = 1
  HeapPages = 2
  MAX_MEMORY_REGION_LEN = 5
  MaxActs = 2
INVARIANTS
  CopiesOntoKernelPages
  KernelSeesImage
  SpareDescriptorsSuffice
  ExitFailsOnlyIfMapMoved
  RegionsComplete
