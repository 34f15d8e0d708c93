CONSTANTS
  TotalPages = 2
  BITS = 2
  SIZE_MOD = 6
  MaxCnt = 2
SPECIFICATION Spec
INVARIANTS
  TypeOK
  Conservation
  Accounting
  HeldMarked
  RangeEffect
PROPERTIES
  ExclusiveAlloc
