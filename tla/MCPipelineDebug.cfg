CONSTANTS
  Size = 6
  Code <- Program
  Reset = 0
  Entry = 3
  Trapping = {0, 2}
  DebugInstructions <- HostCode
  DebugOperand = 1
  NumRegs = 2
  Epochs = 4
  RenameRegs = 2
  FifoSize = 1
  NoAddress = NoAddress
  Predictions = {4}
  FlushCycles = 2
  OnlySettled = FALSE
SPECIFICATION Spec
PROPERTY DelaySlotsFinish
