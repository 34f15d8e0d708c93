CONSTANTS
  Lines = {0, 1, 7, 11}
  MaxRaise = 2
  OldBase = 8
SPECIFICATION Spec
INVARIANT
  PicsMasked
