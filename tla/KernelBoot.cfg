CONSTANTS
  TotalPages <- MCTotalPages
  BITS = 4
  SIZE_MOD = 128
  PAGE_SIZE = 4
  FAN = 8
  KernelAddr = 2
  KernelPages = 3
  KERNEL_START = 3584
  Maps <- MCMaps
  Hardware <- MCHardware
SPECIFICATION Spec
INVARIANTS
  OwnersDisjoint
  HandedMemory
  FreeExact
  
