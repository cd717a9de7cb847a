SPECIFICATION CoordSpec
CONSTANTS
  a = a
  b = b
  r1 = r1
  r2 = r2
  m = m
  Chats <- MCChats
  Requests <- MCRequests
  Messages <- MCMessages
  Source <- MCSource
  Target <- MCTarget
  Concurrent <- OnlyA
  Closable <- OnlyB
  Cautious <- OnlyA
  Typed <- MCTyped
  MaxSubmitted = 2
  MaxUpsets = 1
  None = None
INVARIANTS
  RetryAdmitted
CHECK_DEADLOCK FALSE
