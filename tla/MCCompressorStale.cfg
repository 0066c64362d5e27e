CONSTANTS
  WIDTH = 3
  PSIZE = 2
  VBITS = 1
  PowerUp = 0
  FifoDepth = 2
  MaxTraces = 5
  Inputs <- MCInputs
SPECIFICATION Spec
INVARIANT MispredictedIsSentBack
