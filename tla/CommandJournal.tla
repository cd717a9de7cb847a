---------------------------- MODULE CommandJournal ----------------------------
(***************************************************************************)
(* A worker's durable record of its home's commands (lib/worker/           *)
(* command-journal.ts), and what a worker that keeps it promises: an       *)
(* effect is made only after `started' is on disk, one that is not safe to *)
(* repeat is made once, and a command's outcome is journaled once.         *)
(* CommandProcessor implements JournalSpec; WorkerCommands relies on it.   *)
(***************************************************************************)
EXTENDS CommandWire

CONSTANTS
  Resembles,     \* pairs <<d, c>>: d's message equals, or ends with, c's
  CompactAbove   \* how many confirmed commands are kept uncompacted

ASSUME JournalAssumption ==
  /\ Resembles \subseteq Commands \X Commands
  /\ CompactAbove \in Nat

VARIABLES
  stage,     \* how far the journal says each command has come
  outcome,   \* the acknowledgement it journaled; "none" before it finished
  released,  \* per execution, the newest generation the home released
  applied    \* how often each command's effect was made, as Counted

journal == <<stage, outcome, released>>
journalVars == <<stage, outcome, released, applied>>

(* `dropped' stands for a command compaction removed. *)
Stages == {"none", "received", "started", "finished", "confirmed", "dropped"}
Outcomes == {"delivered", "failed", "stale", "uncertain"}
EffectCap == 2

(* A message and a project script are not safe to repeat. *)
OnceOnly == {c \in Commands : Kind[c] \in {"send", "run_script"}}

(* Effects are counted as far as a second one matters. *)
Counted(c, n) ==
  LET most == IF c \in OnceOnly THEN EffectCap ELSE 1 IN IF n < most THEN n ELSE most

JournalTypeOK ==
  /\ stage \in [Commands -> Stages]
  /\ outcome \in [Commands -> Outcomes \cup {"none"}]
  /\ released \in [Executions -> 0..MaxGen]
  /\ applied \in [Commands -> 0..EffectCap]

JournalInit ==
  /\ stage = [c \in Commands |-> "none"]
  /\ outcome = [c \in Commands |-> "none"]
  /\ released = [e \in Executions |-> 0]
  /\ applied = [c \in Commands |-> 0]

----------------------------------------------------------------------------
(* What it is asked *)

InStage(S) == {c \in Commands : stage[c] \in S}
Journaled == Commands \ InStage({"none", "dropped"})
Interrupted == InStage({"received", "started"})
Unconfirmed == InStage({"finished"})

(* cursor: the highest number with every number before it received, counted *)
(* from the lowest one in the journal.                                      *)
CursorOf(entries) ==
  LET numbers == {seq[c] : c \in entries} IN
  IF numbers = {} THEN 0
  ELSE CHOOSE n \in numbers :
         /\ n + 1 \notin numbers
         /\ \A m \in numbers : m < n => (m..n) \subseteq numbers

Cursor == CursorOf(Journaled)

(* fenced: a newer placement has reached this device, or the home released  *)
(* this one.                                                                *)
Fenced(c) ==
  /\ ExecOf[c] # Device
  /\ \/ generation[c] <= released[ExecOf[c]]
     \/ \E d \in Journaled : ExecOf[d] = ExecOf[c] /\ generation[d] > generation[c]

(* The first command journaled of an execution's newest generation, which   *)
(* compaction keeps for the fence.                                          *)
NewestOfExecution(c) ==
  /\ ExecOf[c] # Device
  /\ \A d \in Journaled : ExecOf[d] = ExecOf[c] =>
       \/ generation[d] < generation[c]
       \/ generation[d] = generation[c] /\ seq[c] <= seq[d]

NewestOf(entries, c) ==
  c \in entries /\ \A d \in entries : ChatOf[d] = ChatOf[c] => seq[d] <= seq[c]

(* Mutant: nothing is kept for the fence. *)
KeptForCursor ==
  LET confirmed == InStage({"confirmed"}) IN
  {c \in confirmed : \A d \in confirmed : seq[d] <= seq[c]}

(* compact, as the journal is opened: confirmed commands go, save those the *)
(* cursor, the fence, a chat's events, its native identity or its open turn *)
(* need. Which ones noted a native identity or have an open turn is data.   *)
Kept ==
  LET confirmed == InStage({"confirmed"})
      placed == {c \in Journaled : ExecOf[c] # Device}
      recycles == {c \in Journaled : Kind[c] = "recycle"} IN
  {c \in confirmed :
     \/ \A d \in confirmed : seq[d] <= seq[c]
     \/ NewestOfExecution(c)
     \/ NewestOf(placed, c) \/ NewestOf(recycles, c)}

Compacted ==
  LET confirmed == InStage({"confirmed"}) IN
  IF Cardinality(confirmed) <= CompactAbove THEN {stage}
  ELSE {[c \in Commands |-> IF c \in confirmed \ (Kept \cup more) THEN "dropped" ELSE stage[c]] :
          more \in SUBSET {c \in confirmed : Kind[c] \in {"send", "recycle"}}}

----------------------------------------------------------------------------
(* What is written to it, and the effects in between *)

received(c) ==
  /\ stage[c] = "none"
  /\ stage' = [stage EXCEPT ![c] = "received"]
  /\ UNCHANGED <<outcome, released, applied>>

started(c) ==
  /\ stage[c] = "received"
  /\ stage' = [stage EXCEPT ![c] = "started"]
  /\ UNCHANGED <<outcome, released, applied>>

Effect(c) ==
  /\ stage[c] = "started"
  /\ c \in OnceOnly => applied[c] = 0
  /\ applied' = [applied EXCEPT ![c] = Counted(c, @ + 1)]
  /\ UNCHANGED <<stage, outcome, released>>

(* Whether its effect was made, or a message that reads like it went in. *)
SeemsApplied(c) ==
  \E d \in Commands : applied[d] > 0 /\ (d = c \/ <<d, c>> \in Resembles)

(* A close finishes the messages it fails together. A command is stale only *)
(* when fenced, or when what it was to control is gone.                     *)
finished(S, result) ==
  /\ S # {} /\ S \subseteq Interrupted
  /\ \A c \in S :
       /\ result = "delivered" => SeemsApplied(c)
       /\ result = "uncertain" => stage[c] = "started"
       /\ result = "stale" => Fenced(c) \/ Kind[c] = "control"
  /\ stage' = [c \in Commands |-> IF c \in S THEN "finished" ELSE stage[c]]
  /\ outcome' = [c \in Commands |-> IF c \in S THEN result ELSE outcome[c]]
  /\ UNCHANGED <<released, applied>>

confirmed(c) ==
  /\ stage[c] = "finished"
  /\ stage' = [stage EXCEPT ![c] = "confirmed"]
  /\ UNCHANGED <<outcome, released, applied>>

(* The home no longer places these executions here up to these generations. *)
release(gens) ==
  /\ released' = [e \in Executions |-> IF gens[e] > released[e] THEN gens[e] ELSE released[e]]
  /\ UNCHANGED <<stage, outcome, applied>>

compact ==
  /\ stage' \in Compacted
  /\ UNCHANGED <<outcome, released, applied>>

JournalNext ==
  \/ \E c \in Commands : received(c) \/ started(c) \/ Effect(c) \/ confirmed(c)
  \/ \E S \in SUBSET Commands, result \in Outcomes : finished(S, result)
  \/ \E gens \in [Executions -> 0..MaxGen] : release(gens)
  \/ compact

JournalSpec == JournalInit /\ [][JournalNext]_journalVars

(* The worker without its home: numbers and generations are given, and      *)
(* commands arrive in the order of their numbers.                           *)
Numbers ==
  /\ seq = [c \in Commands |-> c]
  /\ generation \in [Commands -> 0..MaxGen]
  /\ \A c \in Commands : generation[c] = 0 <=> ExecOf[c] = Device

StreamOrder(c) == \A d \in Commands : seq[d] < seq[c] => stage[d] # "none"

----------------------------------------------------------------------------
(* Properties *)

(* A message goes into its harness, and a project script runs, at most once *)
(* -- whatever crashes, resends, deferrals, recovery and compaction happen  *)
(* between a command's receipt and its outcome (commands.ts, "an effect     *)
(* that isn't safe to repeat never runs twice").                            *)
AtMostOnce == \A c \in OnceOnly : applied[c] <= 1

(* An outcome is journaled once: it is never replaced by another, and the   *)
(* journal's stages only go forward.                                        *)
Rank(s) == CASE s = "none" -> 0 [] s = "received" -> 1 [] s = "started" -> 2
             [] s = "finished" -> 3 [] s = "confirmed" -> 4 [] s = "dropped" -> 5

JournalGoesForward ==
  [][\A c \in Commands :
       /\ Rank(stage'[c]) >= Rank(stage[c])
       /\ outcome[c] # "none" => outcome'[c] = outcome[c]]_journalVars

(* A command reported delivered had its effect, when no two messages of the *)
(* chat read alike (findInClaudeHistory compares only their text).          *)
DeliveredWasApplied ==
  \A c \in Commands : outcome[c] = "delivered" => applied[c] > 0

(* Once a command would be refused as for an earlier placement, it would be *)
(* refused from then on, across restarts and whatever compaction removes    *)
(* (fenced, compact).                                                       *)
FenceHolds ==
  [][\A c \in Commands : Fenced(c) => Fenced(c)']_<<journalVars, wire>>
================================================================================
