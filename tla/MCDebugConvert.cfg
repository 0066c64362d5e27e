CONSTANTS
  Bytes = {0, 1, 2, 3}
  Unwritten = Unwritten
  MaxLength = 2
  Requests <- MCRequests
  Replies <- MCReplies
  InDepth = 3
  OutDepth = 2
  MaxRequests = 3
  MaxReplies = 2
SPECIFICATION Spec
INVARIANTS TypeOK RequestsArrive BytesAreFramed RepliesArrive
PROPERTY EverythingDelivered
CHECK_DEADLOCK FALSE
