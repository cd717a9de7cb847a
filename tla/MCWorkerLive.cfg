SPECIFICATION LiveSpec
CONSTANTS
  e1 = e1
  ch1 = ch1
  dev = dev
  NumCommands = 2
  MaxGen = 3
  Executions <- MCExecutions
  Chats <- MCChats
  Device = dev
  Kind <- SendQuiesce
  ExecOf <- MCExecOf
  ChatOf <- MCChatOf
  AgentSends <- NoAgents
  Resembles <- NoneAlike
  CompactAbove = 1
PROPERTIES
  SentIsSettled
