--------------------------- MODULE MCHomeCommands ---------------------------
EXTENDS HomeCommands
CONSTANTS e1, ch1, dev

MCExecutions == {e1}
MCChats == {ch1}
MCKind == <<"send", "quiesce", "send", "other">>
MCExecOf == <<e1, e1, dev, e1>>
MCChatOf == <<ch1, ch1, ch1, ch1>>
MCAgentSends == {3}
=============================================================================
