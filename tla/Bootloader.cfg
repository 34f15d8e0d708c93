CONSTANTS
  NModes = 2
  NDisks = 2
  NParts = 2
  GROUP = 3
  PERBLOCK = 2
  DIRECT = 2
  MaxBlocks = 3
  MaxDir = 2
  Scans = 2
  NSegs = 2
  CHK = 2
SPECIFICATION Spec
INVARIANTS
  BuffersLive
  InodeFresh
  OneDisk
  ImageExact
  HandOver
  XsdtSound
PROPERTIES
  ScanFinds
