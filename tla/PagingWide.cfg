CONSTANTS
  TotalPages = 10
  BITS = 4
  SIZE_MOD = 16
  FAN = 2
  PHYS_MOD = 32
  SHIFT_MOD = 16
  VirStarts = {0, 7}
  PhysStarts = {5, 15}
  MaxCnt = 2
  Reserved = {1}
  NONE = NONE
SPECIFICATION Spec
INVARIANT
  VirToPhys52
