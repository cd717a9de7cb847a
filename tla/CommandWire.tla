---------------------------- MODULE CommandWire ----------------------------
(***************************************************************************)
(* What the home and a worker both see of a command: its kind, the chat    *)
(* and execution it is for, and, once the home fixed them, its placement   *)
(* generation and its number on the device's stream.                       *)
(* A command is named by its place in the order the home queued it (its    *)
(* uuidv7 id), so Commands is 1..NumCommands.                              *)
(***************************************************************************)
EXTENDS Naturals, FiniteSets, Functions

CONSTANTS
  NumCommands,  \* how many commands the home queues for this device
  Executions,   \* the executions commands are for
  Chats,        \* the chats commands are for
  Device,       \* the target of a command that has no execution
  Kind,         \* [Commands -> Kinds]
  ExecOf,       \* [Commands -> Executions \cup {Device}]
  ChatOf,       \* [Commands -> Chats]
  MaxGen        \* the bound on placement generations

Commands == 1..NumCommands

(* `control' is any of the live controls interrupt, stop_task and           *)
(* answer_pending_input; `other' the repeatable prepare, git, set_title and *)
(* generate_title.                                                          *)
Kinds == {"send", "run_script", "recycle", "stop", "quiesce", "control", "other"}

Sends == {c \in Commands : Kind[c] = "send"}

ASSUME WireAssumption ==
  /\ NumCommands \in Nat
  /\ MaxGen \in Nat \ {0}
  /\ Device \notin Executions
  /\ Kind \in [Commands -> Kinds]
  /\ ExecOf \in [Commands -> Executions \cup {Device}]
  /\ ChatOf \in [Commands -> Chats]

VARIABLES
  seq,        \* a command's number on the device's stream; 0 until streamed
  generation  \* the placement generation it was queued at; 0 without one

wire == <<seq, generation>>

Generations == 1..MaxGen

WireTypeOK ==
  /\ seq \in [Commands -> 0..NumCommands]
  /\ generation \in [Commands -> 0..MaxGen]
=============================================================================
