------------------------- MODULE MCCommandProcessor -------------------------
(***************************************************************************)
(* Two or three commands, in the mixes the runs choose. They are for one   *)
(* execution, or for the device, as all are of a chat that has none.       *)
(***************************************************************************)
EXTENDS CommandProcessor
CONSTANTS e1, ch1, dev, no

MCExecutions == {e1}
MCChats == {ch1}
MCChatOf == [c \in 1..NumCommands |-> ch1]
NoneAlike == {}

SendStop == <<"send", "stop">>
ScriptControl == <<"run_script", "control">>
SendQuiesce == <<"send", "quiesce">>
RecycleSendStop == <<"recycle", "send", "stop">>

MCExecOf == [c \in 1..NumCommands |-> e1]

(* A chat that has no execution: nothing is fenced. *)
NoExecutions == {}
AllDevice == [c \in 1..NumCommands |-> dev]
=============================================================================
