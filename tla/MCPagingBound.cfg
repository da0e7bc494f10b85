SPECIFICATION Spec
CONSTANTS
  F = 3
  PAGE = 2
  LINER_MAPPING_BASE_VADDR = 54
  KERNEL_CODE_BASE_VADDR = 126
  APIC_IO_START_ADDR = 20
  HEAP = 24
  Images <- TestImages
  MaxTables = 3
INVARIANT
  VirtToPhysOnlyMapped
CHECK_DEADLOCK FALSE
