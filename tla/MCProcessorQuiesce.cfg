SPECIFICATION ProcSpec
CONSTANTS
  e1 = e1
  ch1 = ch1
  dev = dev
  no = no
  NumCommands = 2
  MaxGen = 2
  Executions <- MCExecutions
  Chats <- MCChats
  Device = dev
  Kind <- SendQuiesce
  ExecOf <- MCExecOf
  ChatOf <- MCChatOf
  None = no
  Resembles <- NoneAlike
  CompactAbove = 1
INVARIANTS
  ProcTypeOK
  DeliveredWasApplied
PROPERTIES
  JournalSpec
