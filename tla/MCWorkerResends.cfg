SPECIFICATION Spec
CONSTANTS
  e1 = e1
  ch1 = ch1
  dev = dev
  NumCommands = 3
  MaxGen = 2
  Executions <- MCExecutions
  Chats <- MCChats
  Device = dev
  Kind <- PrepareQuiesceSend
  ExecOf <- MCExecOf
  ChatOf <- MCChatOf
  AgentSends <- NoAgents
  Resembles <- NoneAlike
  CompactAbove = 1
INVARIANTS
  CursorSafe
  NothingSkipped
  ForgottenNeverResent
  NeverTwice
  ShownAsItWas
  StreamTypeOK
  ReleasedNeverCurrent
