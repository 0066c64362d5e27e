CONSTANTS
  WIDTH = 3
  PSIZE = 2
  VBITS = 1
  PowerUp = 0
  FifoDepth = 2
  MaxTraces = 4
  Inputs <- MCInputs
SPECIFICATION Spec
INVARIANTS TypeOK NothingLost Lossless DecoderInStep
PROPERTY EverythingComesOut
