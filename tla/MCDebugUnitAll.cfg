CONSTANTS
  p1 = p1
  p2 = p2
  i1 = i1
  i2 = i2
  PCs = {p1}
  NoPC = NoPC
  Insts = {i1}
  Null = Null
  Commands <- AllCommands
  Period = 2
  ExecuteTimeout = 4
  StreamTimeout = 2
  TraceSize = 3
  AlmostFullGap = 2
  PipeDepth = 1
  MaxCommands = 3
SPECIFICATION Spec
INVARIANTS TypeOK OneReplyPerCommand ReportsNotLost StopsAtOnce OneInstructionPerStep
