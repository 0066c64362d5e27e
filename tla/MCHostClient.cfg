SPECIFICATION Spec
CONSTANTS
  NRegs = 2
  NC0Regs = 1
  NCapRegs = 1
  NCacheLines = 1
  NDeviceRegs = 2
  Outstanding = 1
  FileWords = 2
  FileTail = 1
  Batches = 2
  Rings = {0, 3}
  Unsupported = {66}
  MaxUnread = 20
INVARIANTS
  TypeOK
  ReplyIsOfCommand
  NothingLeftBehind
  PausedWhenAssumed
  StateRestored
PROPERTY CommandsReturn
