CONSTANTS
  p1 = p1
  p2 = p2
  i1 = i1
  i2 = i2
  PCs = {p1}
  NoPC = NoPC
  Insts = {i1, i2}
  Null = Null
  Commands <- RunCommands
  Period = 3
  ExecuteTimeout = 4
  StreamTimeout = 2
  TraceSize = 3
  AlmostFullGap = 2
  PipeDepth = 2
  MaxCommands = 3
SPECIFICATION Spec
PROPERTY StepsAreAnswered
