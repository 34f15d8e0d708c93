CONSTANTS
  WORD = 1024
  OFFS = 3
  asq = 264
  acq = 272
  PriorCC <- MCPriorCC
  PriorAQA <- MCPriorAQA
  PriorWords = {0, 5, 1023}
  Strides = {0, 10, 11}
  Signatures = {"APIC", "MCFG", "FACP"}
  Xsdts <- MCXsdts
  Names = {"APIC", "MCFG"}
  Rates = {5, 100}
  Reloads = {0, 65535}
  Mcfgs <- MCMcfgs
  DEVS = 2
  FUNCS = 2
  INDEX = 4
  LIST = 6
  M = 1024
  D = 4
  HEXD = 3
  PPS = 5
  WIDTH = 4
  HEIGHT = 4
  FONT_WIDTH = 2
  FONT_HEIGHT = 2
  Calls <- MCCalls
  MaxY = 2
  Bytes <- MCBytes
  MaxLen = 2
  Priors = {{}, {8, 10, 11}, {0, 9, 31, 32, 36, 50, 63}}
  Flags = {{1}, {1, 9}}
  Numbers = {"1", "12"}
  Allocations <- MCAllocations
  MaxCalls = 2
SPECIFICATION ServicesSpec
INVARIANT
  PitWaited
