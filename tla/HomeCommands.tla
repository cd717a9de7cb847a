---------------------------- MODULE HomeCommands ----------------------------
(***************************************************************************)
(* The home's table of one device's commands, and the runs their sends     *)
(* carry (lib/db/queries.ts, lib/workers/undelivered.ts, retire.ts,        *)
(* enroll.ts). Every action is one SQLite transaction. Which of them       *)
(* happens is up to the rest of the home and to the worker; WorkerCommands *)
(* composes this table with a stream and a worker.                         *)
(***************************************************************************)
EXTENDS CommandWire

CONSTANT AgentSends  \* sends whose actor is not a person: they may be held

ASSUME HomeAssumption == AgentSends \subseteq Sends

VARIABLES
  state,      \* each command's state in the table; "none" before it is queued
  run,        \* the run each send carries: "none", "open" or "finished"
  placement,  \* per execution: is it placed here, and at which generation
  reserved,   \* the generation an active transfer prepares here; 0 without one
  lastGen,    \* the highest generation any placement or attempt has used
  enrolled    \* whether the device has an active worker key

homeVars == <<state, seq, generation, run, placement, reserved, lastGen, enrolled>>

AckStates == {"delivered", "failed", "stale", "uncertain"}
FinalStates == {"delivered", "failed", "stale", "cancelled"}
Unsettled == {"queued", "sent"}
States == {"none", "queued", "sent", "uncertain"} \cup FinalStates

HomeTypeOK ==
  /\ WireTypeOK
  /\ state \in [Commands -> States]
  /\ run \in [Commands -> {"none", "open", "finished"}]
  /\ placement \in [Executions -> [here : BOOLEAN, gen : Generations]]
  /\ reserved \in [Executions -> 0..MaxGen]
  /\ lastGen \in [Executions -> Generations]
  /\ enrolled \in BOOLEAN

HomeInit ==
  /\ state = [c \in Commands |-> "none"]
  /\ seq = [c \in Commands |-> 0]
  /\ generation = [c \in Commands |-> 0]
  /\ run = [c \in Commands |-> "none"]
  /\ placement \in [Executions -> [here : BOOLEAN, gen : {1}]]
  /\ reserved = [e \in Executions |-> 0]
  /\ lastGen = [e \in Executions |-> 1]
  /\ enrolled = TRUE

----------------------------------------------------------------------------
(* Queries *)

InState(S) == {c \in Commands : state[c] \in S}

Numbered == {c \in Commands : seq[c] # 0}

(* Mutant: one more than the highest. *)
HighestSeqOffByOne == Cardinality(Numbered) + 1

(* select max(seq): the numbers given so far are 1..Cardinality(Numbered). *)
HighestSeq == CHOOSE n \in 0..NumCommands :
                 /\ n = 0 \/ \E c \in Commands : seq[c] = n
                 /\ \A c \in Commands : seq[c] <= n

(* Whether a command is still for a placement this device holds or prepares. *)
Current(c) ==
  ExecOf[c] # Device =>
    \/ placement[ExecOf[c]] = [here |-> TRUE, gen |-> generation[c]]
    \/ reserved[ExecOf[c]] = generation[c] /\ generation[c] # 0

(* What settleUndelivered makes of the runs of commands that will not run. *)
RunsOver(S) == [c \in Commands |->
                  IF c \in S /\ run[c] = "open" THEN "finished" ELSE run[c]]

Moved(S, s) == [c \in Commands |-> IF c \in S THEN s ELSE state[c]]

----------------------------------------------------------------------------
(* Commands *)

UnchangedPlacement == UNCHANGED <<placement, reserved, lastGen>>

(* The next command is queued for a placement held or prepared here. A send *)
(* brings its run, and goes only where its execution is placed.             *)
Queue(c) ==
  /\ state[c] = "none"
  /\ \A d \in Commands : d < c => state[d] # "none"
  /\ \E g \in 0..MaxGen :
       /\ IF ExecOf[c] = Device THEN g = 0
          ELSE LET e == ExecOf[c] IN
                 \/ placement[e] = [here |-> TRUE, gen |-> g]
                 \/ reserved[e] = g /\ g # 0 /\ c \notin Sends
       /\ generation' = [generation EXCEPT ![c] = g]
  /\ state' = [state EXCEPT ![c] = "queued"]
  /\ run' = [run EXCEPT ![c] = IF c \in Sends THEN "open" ELSE "none"]
  /\ UNCHANGED <<seq, enrolled>> /\ UnchangedPlacement

(* Mutant: a command that left may still be withdrawn. *)
WithdrawLate(c) ==
  /\ state[c] \in Unsettled
  /\ state' = Moved({c}, "cancelled")
  /\ run' = RunsOver({c})
  /\ UNCHANGED <<seq, generation, enrolled>> /\ UnchangedPlacement

(* cancelWorkerCommand, and for a send withdrawQueuedSend. *)
Withdraw(c) ==
  /\ state[c] = "queued"
  /\ state' = Moved({c}, "cancelled")
  /\ run' = RunsOver({c})
  /\ UNCHANGED <<seq, generation, enrolled>> /\ UnchangedPlacement

(* staleQueuedCommands and the settling of what it returns. Where a chat    *)
(* that has no execution is placed is data.                                 *)
SettleStale ==
  /\ enrolled
  /\ \E elsewhere \in SUBSET {c \in Commands : ExecOf[c] = Device} :
       LET stale == {c \in InState(Unsettled) : ~Current(c) \/ c \in elsewhere} IN
       /\ state' = Moved(stale, "stale")
       /\ run' = RunsOver(stale)
  /\ UNCHANGED <<seq, generation, enrolled>> /\ UnchangedPlacement

(* Mutant: numbers on from the commands still unacknowledged. *)
InOrderFromSent(taken) ==
  LET last == Cardinality(InState({"sent"})) IN
  {number \in Bijection(taken, (last + 1)..(last + Cardinality(taken))) :
     \A c, d \in taken : c < d => number[c] < number[d]}

(* takeCommandsForStream's update: all that is queued and not held is       *)
(* numbered on from the highest number given, in the order it was queued.   *)
(* Only a stream does it, and a device turned off has none.                 *)
InQueueOrder(taken) ==
  {number \in Bijection(taken, (HighestSeq + 1)..(HighestSeq + Cardinality(taken))) :
     \A c, d \in taken : c < d => number[c] < number[d]}

Number ==
  /\ enrolled
  /\ \E held \in SUBSET (AgentSends \cap InState({"queued"})) :
       LET taken == InState({"queued"}) \ held IN
       \E number \in InQueueOrder(taken) :
         /\ seq' = [c \in Commands |-> IF c \in taken THEN number[c] ELSE seq[c]]
         /\ state' = Moved(taken, "sent")
  /\ UNCHANGED <<generation, run, enrolled>> /\ UnchangedPlacement

(* Mutant: a later acknowledgement replaces a final state. *)
AckOverwrites(c, s) ==
  /\ enrolled /\ state[c] \notin {"none", "queued"}
  /\ state' = Moved({c}, s)
  /\ run' = IF s = "delivered" THEN run ELSE RunsOver({c})
  /\ UNCHANGED <<seq, generation, enrolled>> /\ UnchangedPlacement

(* ackWorkerCommand, and what the ack route settles with it. *)
Ack(c, s) ==
  /\ enrolled /\ state[c] # "none"
  /\ IF state[c] \in FinalStates \cup {"queued", s}
       THEN UNCHANGED <<state, run>>
       ELSE /\ state' = Moved({c}, s)
            /\ run' = IF s = "delivered" THEN run ELSE RunsOver({c})
  /\ UNCHANGED <<seq, generation, enrolled>> /\ UnchangedPlacement

(* A turn result from the worker finishes the run of its send. *)
TurnResult(c) ==
  /\ enrolled /\ c \in Sends /\ seq[c] # 0
  /\ run' = RunsOver({c})
  /\ UNCHANGED <<state, seq, generation, enrolled>> /\ UnchangedPlacement

(* Mutant: only the key is revoked. *)
RetireKeyOnly ==
  /\ enrolled
  /\ enrolled' = FALSE
  /\ UNCHANGED <<state, run, seq, generation>> /\ UnchangedPlacement

(* retireWorker: the key is revoked and nothing is left waiting on it. *)
Retire ==
  /\ enrolled
  /\ enrolled' = FALSE
  /\ state' = [c \in Commands |-> CASE state[c] = "queued" -> "cancelled"
                                    [] state[c] = "sent" -> "uncertain"
                                    [] OTHER -> state[c]]
  /\ run' = RunsOver(InState({"queued", "sent", "delivered"}))
  /\ UNCHANGED <<seq, generation>> /\ UnchangedPlacement

(* Mutant: the runs of what became uncertain are left open. *)
ReenrollKeepsRuns ==
  /\ enrolled' = TRUE
  /\ state' = Moved(InState({"sent"}), "uncertain")
  /\ UNCHANGED <<run, seq, generation>> /\ UnchangedPlacement

(* Mutant: what was sent stays sent, for the new worker. *)
ReenrollResends ==
  /\ enrolled' = TRUE
  /\ UNCHANGED <<state, run, seq, generation>> /\ UnchangedPlacement

(* redeemEnrollGrant, in enrollWorker: a new key replaces the device's. *)
Reenroll ==
  /\ enrolled' = TRUE
  /\ state' = Moved(InState({"sent"}), "uncertain")
  /\ run' = RunsOver(InState({"sent"}))
  /\ UNCHANGED <<seq, generation>> /\ UnchangedPlacement

----------------------------------------------------------------------------
(* Moves, as far as this device's commands can tell: transferReservation,   *)
(* continueOwnership and createPlacement. A generation is never used twice. *)

UnchangedCommands == UNCHANGED <<state, seq, generation, run, enrolled>>

NewGen(e) == {g \in Generations : g > lastGen[e]}

Reserve(e) ==
  /\ ~placement[e].here /\ reserved[e] = 0
  /\ \E g \in NewGen(e) : /\ reserved' = [reserved EXCEPT ![e] = g]
                          /\ lastGen' = [lastGen EXCEPT ![e] = g]
  /\ UNCHANGED placement /\ UnchangedCommands

GiveUp(e) ==
  /\ reserved[e] # 0
  /\ reserved' = [reserved EXCEPT ![e] = 0]
  /\ UNCHANGED <<placement, lastGen>> /\ UnchangedCommands

Arrive(e) ==
  /\ reserved[e] # 0
  /\ placement' = [placement EXCEPT ![e] = [here |-> TRUE, gen |-> reserved[e]]]
  /\ reserved' = [reserved EXCEPT ![e] = 0]
  /\ UNCHANGED lastGen /\ UnchangedCommands

(* A move stops the source first (stopSource): its last word there is a     *)
(* quiesce that was delivered, and messages sent since then are held.       *)
Quiesced(e) ==
  \E q \in Commands :
    /\ Kind[q] = "quiesce" /\ ExecOf[q] = e
    /\ state[q] = "delivered" /\ generation[q] = placement[e].gen
    /\ \A c \in Sends : c > q /\ ExecOf[c] = e => state[c] = "none"

Leave(e) ==
  /\ placement[e].here /\ Quiesced(e)
  /\ \E g \in NewGen(e) :
       /\ placement' = [placement EXCEPT ![e] = [here |-> FALSE, gen |-> g]]
       /\ lastGen' = [lastGen EXCEPT ![e] = g]
  /\ UNCHANGED reserved /\ UnchangedCommands

Moves == \E e \in Executions : Reserve(e) \/ GiveUp(e) \/ Arrive(e) \/ Leave(e)

HomeNext ==
  \/ \E c \in Commands : Queue(c) \/ Withdraw(c) \/ TurnResult(c)
  \/ \E c \in Commands, s \in AckStates : Ack(c, s)
  \/ SettleStale \/ Number \/ Retire \/ Reenroll
  \/ Moves

HomeSpec == HomeInit /\ [][HomeNext]_homeVars

----------------------------------------------------------------------------
(* Properties *)

(* The numbers a device's commands get are 1, 2, 3 ... in some order, with  *)
(* no number given twice and none skipped: the worker's contiguous receipt  *)
(* cursor relies on it (takeCommandsForStream).                             *)
NumbersContiguous ==
  /\ \A c, d \in Numbered : seq[c] = seq[d] => c = d
  /\ {seq[c] : c \in Numbered} = 1..Cardinality(Numbered)

(* A command has a number exactly when it may have left the home: one that  *)
(* was withdrawn never left, one acknowledged or uncertain did.             *)
NumberedIffStreamed ==
  \A c \in Commands :
    /\ state[c] \in {"none", "queued", "cancelled"} => seq[c] = 0
    /\ state[c] \in {"sent", "delivered", "failed", "uncertain"} => seq[c] # 0

(* No send that will not be delivered leaves its run open, whichever of the *)
(* six ways it ended (settleUndelivered).                                   *)
UndeliveredRunsFinished ==
  \A c \in Sends :
    state[c] \in {"failed", "stale", "cancelled", "uncertain"} => run[c] = "finished"

(* With the worker turned off nothing waits for it: no command is sent and  *)
(* unacknowledged, and no delivered send's run is open (retireWorker).      *)
RetiredLeavesNothingOpen ==
  ~enrolled => \A c \in Commands :
    /\ state[c] # "sent"
    /\ state[c] = "delivered" => run[c] # "open"

(* A final state stays final, and an uncertain command is only ever         *)
(* resolved by an acknowledgement, never queued or sent again.              *)
FinalStaysFinal ==
  [][\A c \in Commands :
       /\ state[c] \in FinalStates => state'[c] = state[c]
       /\ state[c] = "uncertain" => state'[c] \in AckStates]_homeVars
=============================================================================
