CONSTANTS
  N = 3
  CID_MOD = 2
  TAGS = 7
SPECIFICATION Spec
INVARIANTS
  TypeOK
  CompletionFresh
  InStep
  PhaseMarksLap
PROPERTIES
  IdentifyReturns
  ImplementsChannel
