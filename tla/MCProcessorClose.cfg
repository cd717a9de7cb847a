SPECIFICATION ProcSpec
CONSTANTS
  e1 = e1
  ch1 = ch1
  dev = dev
  no = no
  NumCommands = 3
  MaxGen = 1
  Executions <- NoExecutions
  Chats <- MCChats
  Device = dev
  Kind <- RecycleSendStop
  ExecOf <- AllDevice
  ChatOf <- MCChatOf
  None = no
  Resembles <- NoneAlike
  CompactAbove = 1
INVARIANTS
  InOnePlace
  ControlFinishesFirst
PROPERTIES
  JournalGoesForward
