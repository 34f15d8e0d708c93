CONSTANTS
  Lines = {0, 1, 7, 11}
  MaxRaise = 2
  OldBase = 8
SPECIFICATION Spec
INVARIANTS
  VectorsRemapped
  Pic1Released
  ProgrammedUndisturbed
PROPERTIES
  OnlyPic2SpuriousFaults
  Pic1Served
