SPECIFICATION HomeSpec
CONSTANTS
  e1 = e1
  ch1 = ch1
  dev = dev
  NumCommands = 4
  MaxGen = 3
  Executions <- MCExecutions
  Chats <- MCChats
  Device = dev
  Kind <- MCKind
  ExecOf <- MCExecOf
  ChatOf <- MCChatOf
  AgentSends <- MCAgentSends
INVARIANTS
  HomeTypeOK
  NumbersContiguous
  UndeliveredRunsFinished
  RetiredLeavesNothingOpen
PROPERTY FinalStaysFinal
