CONSTANTS
  Drams = {"ram", "rom"}
  ReadOnly = {"rom"}
  Lanes = {"b0", "b1"}
  Bytes = {"zero", "one"}
  Zero = "zero"
  Words = {"zero", "one"}
  Blocks = 1
  ArgRange = 6
  Delay = 1
  PISM_FIFO_DEPTH = 2
  MaxConns = 2
  MaxTyped = 2
  MaxSent = 2
  MaxReplies = 3
  Configs <- MCConfigs
  Requests <- MCRequests
SPECIFICATION FairSpec
INVARIANTS TypeOK InputInOrder SessionsInOrder
PROPERTIES ActsInOrder CommandReported EverythingComesOut HostIsServed
