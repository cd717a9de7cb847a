-------------------------- MODULE MCWorkerCommands --------------------------
(***************************************************************************)
(* A message to one execution before the quiesce a transfer stops it with, *)
(* or after that and the preparation a transfer brings it with.            *)
(***************************************************************************)
EXTENDS WorkerCommands
CONSTANTS e1, ch1, dev

MCExecutions == {e1}
MCChats == {ch1}
MCExecOf == [c \in 1..NumCommands |-> e1]
MCChatOf == [c \in 1..NumCommands |-> ch1]
NoneAlike == {}
NoAgents == {}
FirstHeld == {1}

SendQuiesce == <<"send", "quiesce">>
PrepareQuiesceSend == <<"other", "quiesce", "send">>
=============================================================================
