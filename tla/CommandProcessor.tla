-------------------------- MODULE CommandProcessor --------------------------
(***************************************************************************)
(* A worker carrying out its home's commands (lib/worker/commands.ts,      *)
(* handlers.ts), over its durable command journal (command-journal.ts).    *)
(*                                                                         *)
(* The journal is on disk. The rest of the worker is lost when its process *)
(* ends, which it may at any step. Every action runs from one await to the *)
(* next. What the stream hands over and what becomes of a posted           *)
(* acknowledgement are up to the environment, as WorkerCommands models it. *)
(***************************************************************************)
EXTENDS CommandJournal, InOrder, Sequences, SequencesExt

CONSTANT None

ASSUME ProcAssumption == None \notin Commands

VARIABLES
  phase,      \* "down", "up" (started, not yet recovering) or "running"
  paused,     \* a safe update holds new effects
  pending,    \* per queue key, the commands waiting their turn
  active,     \* per queue key, the command being carried out
  control,    \* per queue key, the control passing an idle wait
  step,       \* how far each command's handler has come
  recovering, \* commands queued by recoverAll whose recovery is under way
  cancelled,  \* active sends a passing close cancelled
  deferred,   \* commands waiting on a retry timer
  posting     \* commands whose acknowledgement is being posted

slots == <<pending, active, control>>
procVars == <<seq, generation, stage, outcome, released, applied, phase, paused,
              pending, active, control, step, recovering, cancelled, deferred, posting>>

Steps == {"idle", "ready", "waiting", "begun", "applied", "looking", "acking", "closing", "done"}

(* enqueue's key: commands with one key run one after another. *)
Keys == Executions \cup Chats
Key(c) == IF ExecOf[c] = Device THEN ChatOf[c] ELSE ExecOf[c]

ProcTypeOK ==
  /\ WireTypeOK
  /\ JournalTypeOK
  /\ phase \in {"down", "up", "running"}
  /\ paused \in BOOLEAN
  /\ pending \in [Keys -> Seq(Commands)]
  /\ active \in [Keys -> Commands \cup {None}]
  /\ control \in [Keys -> Commands \cup {None}]
  /\ step \in [Commands -> Steps]
  /\ recovering \subseteq Commands
  /\ cancelled \subseteq Commands
  /\ deferred \subseteq Commands
  /\ posting \subseteq Commands

NoSlots ==
  /\ pending = [k \in Keys |-> <<>>]
  /\ active = [k \in Keys |-> None]
  /\ control = [k \in Keys |-> None]

WorkerInit ==
  /\ JournalInit
  /\ phase = "down"
  /\ paused = FALSE
  /\ NoSlots
  /\ step = [c \in Commands |-> "idle"]
  /\ recovering = {} /\ cancelled = {} /\ deferred = {} /\ posting = {}

----------------------------------------------------------------------------
(* The process *)

(* It starts, compacting its journal; nothing runs until it has recovered. *)
Start ==
  /\ phase = "down"
  /\ phase' = "up"
  /\ stage' \in Compacted
  /\ UNCHANGED <<wire, outcome, released, paused, slots, step, recovering,
                 cancelled, deferred, posting, applied>>

Crash ==
  /\ phase # "down"
  /\ phase' = "down"
  /\ paused' = FALSE
  /\ pending' = [k \in Keys |-> <<>>]
  /\ active' = [k \in Keys |-> None]
  /\ control' = [k \in Keys |-> None]
  /\ step' = [c \in Commands |-> "idle"]
  /\ recovering' = {} /\ cancelled' = {} /\ deferred' = {} /\ posting' = {}
  /\ UNCHANGED <<wire, journal, applied>>

Pause ==
  /\ phase # "down"
  /\ paused' = ~paused
  /\ UNCHANGED <<wire, journal, phase, slots, step, recovering, cancelled,
                 deferred, posting, applied>>

(* A heartbeat's reply: placements the home released, up to these           *)
(* generations. The first one after a start lets recovery begin.            *)
Heartbeat(gens) ==
  /\ phase # "down"
  /\ release(gens)
  /\ UNCHANGED <<wire, phase, paused, slots, step, recovering, cancelled,
                 deferred, posting>>

InReceiptOrder(S) == SortedBy(S, seq)

(* recoverAll, once, after the first heartbeat's reply: what a restart      *)
(* interrupted is queued before any new command is admitted.                *)
Recover ==
  /\ phase = "up"
  /\ phase' = "running"
  /\ pending' = [k \in Keys |-> InReceiptOrder({c \in Interrupted : Key(c) = k})]
  /\ recovering' = Interrupted
  /\ posting' = posting \cup Unconfirmed
  /\ UNCHANGED <<wire, journal, paused, active, control, step, cancelled, deferred, applied>>

(* The connection's hello, after recovery has begun, resends outcomes. *)
ResendAcks ==
  /\ phase = "running"
  /\ posting' = posting \cup Unconfirmed
  /\ UNCHANGED <<wire, journal, phase, paused, slots, step, recovering,
                 cancelled, deferred, applied>>

(* recoverAll again, when all it queued has been through its handler. *)
Recovered ==
  /\ recovering # {}
  /\ \A c \in recovering : step[c] = "idle" /\ \A i \in DOMAIN pending[Key(c)] : pending[Key(c)][i] # c
  /\ recovering' = {}
  /\ posting' = posting \cup Unconfirmed
  /\ UNCHANGED <<wire, journal, phase, paused, slots, step, cancelled, deferred, applied>>

(* Mutant: only a finished command is known again. *)
ReceiveForgetful(c) ==
  /\ phase = "running"
  /\ stage[c] \in {"none", "received", "started"}
  /\ stage' = [stage EXCEPT ![c] = IF @ = "none" THEN "received" ELSE @]
  /\ pending' = [pending EXCEPT ![Key(c)] = Append(@, c)]
  /\ UNCHANGED <<wire, outcome, released, phase, paused, active, control, step,
                 recovering, cancelled, deferred, posting, applied>>

(* receive: a command journaled before is never queued again. *)
Receive(c) ==
  /\ phase = "running"
  /\ IF c \in Journaled
       THEN /\ posting' = posting \cup ({c} \cap Unconfirmed)
            /\ UNCHANGED <<stage, pending>>
       ELSE /\ stage' = [stage EXCEPT ![c] = "received"]
            /\ pending' = [pending EXCEPT ![Key(c)] = Append(@, c)]
            /\ UNCHANGED posting
  /\ UNCHANGED <<wire, outcome, released, phase, paused, active, control, step,
                 recovering, cancelled, deferred, applied>>

----------------------------------------------------------------------------
(* Outcomes of a handler's synchronous steps *)

(* settle: the outcome is journaled, then posted. *)
Settle(c, s) ==
  /\ stage' = [stage EXCEPT ![c] = "finished"]
  /\ outcome' = [outcome EXCEPT ![c] = s]
  /\ posting' = posting \cup {c}
  /\ step' = [step EXCEPT ![c] = "acking"]
  /\ UNCHANGED deferred

(* retryDeferred: a timer will queue it again. *)
Defer(c) ==
  /\ deferred' = deferred \cup {c}
  /\ step' = [step EXCEPT ![c] = "done"]
  /\ UNCHANGED <<stage, outcome, posting>>

Await(c, s) ==
  /\ step' = [step EXCEPT ![c] = s]
  /\ UNCHANGED <<stage, outcome, posting, deferred>>

(* Mutant: `started' is not journaled before the effect. *)
MarkStartedLate(c) == IF paused THEN Defer(c) ELSE Await(c, "begun")

(* markStarted, which a paused worker refuses. *)
MarkStarted(c) ==
  IF paused THEN Defer(c)
  ELSE /\ stage' = [stage EXCEPT ![c] = "started"]
       /\ step' = [step EXCEPT ![c] = "begun"]
       /\ UNCHANGED <<outcome, posting, deferred>>

(* Each kind's run, past its fence check, up to its first await. *)
Admit(c) ==
  \/ /\ Kind[c] = "send" /\ stage[c] = "started"
     /\ Await(c, "looking")
  \/ /\ Kind[c] = "send" /\ stage[c] = "received"
     /\ Await(c, "ready") \/ Await(c, "waiting")
  \/ Kind[c] = "recycle" /\ Await(c, "waiting")
  \/ Kind[c] \in {"run_script", "stop", "quiesce", "control", "other"} /\ MarkStarted(c)
  \/ Kind[c] = "other" /\ Settle(c, "failed")

(* Mutant: a script left started runs again. *)
HandleRepeating(c) ==
  IF c \notin recovering /\ paused THEN Defer(c)
  ELSE IF Fenced(c) THEN Settle(c, "stale")
  ELSE Admit(c)

(* execute, or recoverOne for what recoverAll queued: only the first looks  *)
(* at the pause, and a script left started is never run again.              *)
Handle(c) ==
  IF c \notin recovering /\ paused THEN Defer(c)
  ELSE IF Kind[c] = "run_script" /\ stage[c] = "started" THEN Settle(c, "uncertain")
  ELSE IF Fenced(c) THEN Settle(c, "stale")
  ELSE Admit(c)

----------------------------------------------------------------------------
(* The queues *)

UnchangedRest == UNCHANGED <<wire, released, phase, paused>>

(* drain: an idle key takes its next command. *)
Begin(k) ==
  /\ phase = "running"
  /\ active[k] = None /\ control[k] = None /\ pending[k] # <<>>
  /\ active' = [active EXCEPT ![k] = Head(pending[k])]
  /\ pending' = [pending EXCEPT ![k] = Tail(@)]
  /\ Handle(Head(pending[k]))
  /\ UNCHANGED <<control, recovering, cancelled, applied>> /\ UnchangedRest

(* The chats a delivered stop or quiesce closed. *)
ClosedBy(c) ==
  CASE Kind[c] = "stop" -> {ChatOf[c]}
    [] Kind[c] = "quiesce" -> {ChatOf[d] : d \in {x \in Commands : ExecOf[x] = ExecOf[c]}}
    [] OTHER -> {}

(* canPassRecycle, with the chats that have live work to control. *)
CanPass(c, chat, live) ==
  \/ Kind[c] = "quiesce" /\ chat \in ClosedBy(c)
  \/ Kind[c] \in {"stop", "control"} /\ (ChatOf[c] = chat \/ ChatOf[c] \in live)

(* drain, while the active command waits for a turn to end: the first       *)
(* control that can service that turn passes it.                            *)
Pass(k) ==
  /\ active[k] # None /\ control[k] = None
  /\ step[active[k]] = "waiting"
  /\ \E live \in SUBSET Chats, i \in DOMAIN pending[k] :
       LET passes(j) == CanPass(pending[k][j], ChatOf[active[k]], live) IN
       /\ passes(i) /\ \A j \in 1..(i - 1) : ~passes(j)
       /\ control' = [control EXCEPT ![k] = pending[k][i]]
       /\ pending' = [pending EXCEPT ![k] = RemoveAt(@, i)]
       /\ Handle(pending[k][i])
  /\ UNCHANGED <<active, recovering, cancelled, applied>> /\ UnchangedRest

(* The entry is done: its slot is free and the key drains on. *)
Free(k, c) ==
  /\ step[c] = "done"
  /\ \/ /\ active[k] = c /\ active' = [active EXCEPT ![k] = None]
        /\ UNCHANGED control
     \/ /\ control[k] = c /\ control' = [control EXCEPT ![k] = None]
        /\ UNCHANGED active
  /\ step' = [step EXCEPT ![c] = "idle"]
  /\ UNCHANGED <<journal, pending, recovering, cancelled, deferred, posting, applied>>
  /\ UNCHANGED <<wire, phase, paused>>

(* A retry timer: the command goes to the back of its queue, if it has not  *)
(* begun.                                                                   *)
Retry(c) ==
  /\ c \in deferred /\ step[c] = "idle"
  /\ deferred' = deferred \ {c}
  /\ recovering' = recovering \ {c}
  /\ pending' = IF stage[c] = "received"
                  THEN [pending EXCEPT ![Key(c)] = Append(@, c)] ELSE pending
  /\ UNCHANGED <<stage, outcome, active, control, step, cancelled, posting, applied>>
  /\ UnchangedRest

----------------------------------------------------------------------------
(* Handlers, from one await to the next *)

UnchangedSlots == UNCHANGED <<slots, recovering, cancelled, applied>> /\ UnchangedRest

(* Mutant: the wait ends while a control is still under way. *)
EndWaitAtOnce(c) ==
  /\ step[c] = "waiting"
  /\ Kind[c] = "recycle" /\ MarkStarted(c)
  /\ UnchangedSlots

(* Mutant: a cancelled send is reported in a state of the home's own. *)
EndWaitCancelled(c) ==
  /\ step[c] = "waiting" /\ c \in cancelled
  /\ Settle(c, "cancelled")
  /\ UnchangedSlots

(* The awaited turn is over, or the placement moved on; a control under way *)
(* is finished first.                                                       *)
EndWait(c) ==
  /\ step[c] = "waiting" /\ control[Key(c)] = None
  /\ IF c \in cancelled THEN Settle(c, "failed")
     ELSE IF Fenced(c) THEN Settle(c, "stale")
     ELSE \/ Kind[c] = "recycle" /\ MarkStarted(c)
          \/ Kind[c] = "send" /\ (Await(c, "ready") \/ Settle(c, "failed"))
  /\ UnchangedSlots

(* A send whose files, session or admission are still awaited. *)
Prepare(c) ==
  /\ step[c] = "ready"
  /\ Defer(c) \/ Settle(c, "failed") \/ MarkStarted(c)
  /\ UnchangedSlots

(* The effect itself: the message goes in, the script or the close runs. *)
Apply(c) ==
  /\ step[c] = "begun"
  /\ applied' = [applied EXCEPT ![c] = Counted(c, @ + 1)]
  /\ Await(c, "applied")
  /\ UNCHANGED <<slots, recovering, cancelled>> /\ UnchangedRest

(* The handler returns, or throws. Any effect may fail, before or after it  *)
(* was made; a recovery that throws leaves the outcome unknown.             *)
Finish(c) ==
  /\ \/ step[c] = "applied" /\ Settle(c, "delivered")
     \/ /\ step[c] \in {"begun", "applied"}
        /\ \/ Kind[c] # "run_script" /\ Settle(c, "failed")
           \/ Settle(c, IF c \in recovering THEN "uncertain" ELSE "failed")
     \/ step[c] = "begun" /\ Kind[c] = "control" /\ Settle(c, "stale")
  /\ UnchangedSlots

(* Mutant: a message that cannot be told is taken as found. *)
LookHopeful(c) ==
  /\ step[c] = "looking"
  /\ Settle(c, "delivered")
  /\ UnchangedSlots

(* findInHistory for a send left started: its own message, or one that      *)
(* reads the same, is found; or nothing is, or it cannot be told.           *)
Look(c) ==
  /\ step[c] = "looking"
  /\ \/ SeemsApplied(c) /\ Settle(c, "delivered")
     \/ Settle(c, "uncertain")
  /\ UnchangedSlots

----------------------------------------------------------------------------
(* After the acknowledgement was posted *)

Earlier(c) ==
  {d \in Sends : seq[d] < seq[c] /\ ChatOf[d] \in ClosedBy(c)}

(* Mutant: the active send is settled at once, though its handler goes on. *)
AckedSettlesActive(c) ==
  /\ step[c] = "acking" /\ c \notin posting
  /\ LET k == Key(c)
         retired == {d \in ToSet(pending[k]) \cup {active[k]} : d \in Earlier(c)} IN
     /\ step' = [step EXCEPT ![c] = "done"]
     /\ pending' = [pending EXCEPT ![k] = Without(@, retired)]
     /\ stage' = [d \in Commands |-> IF d \in retired THEN "finished" ELSE stage[d]]
     /\ outcome' = [d \in Commands |-> IF d \in retired THEN "failed" ELSE outcome[d]]
     /\ posting' = posting \cup retired
  /\ UNCHANGED <<active, control, recovering, cancelled, deferred, applied>> /\ UnchangedRest

(* runEntry: a delivered close also fails the earlier sends that wait       *)
(* behind it in its queue, and cancels one waiting for its turn.            *)
Acked(c) ==
  /\ step[c] = "acking" /\ c \notin posting
  /\ LET k == Key(c)
         closes == outcome[c] = "delivered" /\ Kind[c] \in {"stop", "quiesce"}
         retired == {d \in ToSet(pending[k]) : closes /\ d \in Earlier(c)} IN
     /\ step' = [step EXCEPT ![c] = IF closes THEN "closing" ELSE "done"]
     /\ cancelled' = cancelled \cup {d \in {active[k]} : closes /\ d \in Earlier(c)}
     /\ pending' = [pending EXCEPT ![k] = Without(@, retired)]
     /\ stage' = [d \in Commands |-> IF d \in retired THEN "finished" ELSE stage[d]]
     /\ outcome' = [d \in Commands |-> IF d \in retired THEN "failed" ELSE outcome[d]]
     /\ posting' = posting \cup retired
  /\ UNCHANGED <<active, control, recovering, deferred, applied>> /\ UnchangedRest

(* Then the deferred ones, each acknowledged before the next.               *)
RetireDeferred(c) ==
  /\ step[c] = "closing"
  /\ IF deferred \cap Earlier(c) = {}
       THEN Await(c, "done")
       ELSE \E d \in deferred \cap Earlier(c) :
              /\ deferred' = deferred \ {d}
              /\ stage' = [stage EXCEPT ![d] = "finished"]
              /\ outcome' = [outcome EXCEPT ![d] = "failed"]
              /\ posting' = posting \cup {d}
              /\ UNCHANGED step
  /\ UnchangedSlots

(* sendAck's answer: recorded, or the home has no such command. *)
Confirm(c) ==
  /\ c \in posting
  /\ posting' = posting \ {c}
  /\ stage' = [stage EXCEPT ![c] = "confirmed"]
  /\ UNCHANGED <<outcome, slots, step, recovering, cancelled, deferred, applied>>
  /\ UnchangedRest

(* No answer: it stays finished, and is resent after a reconnect. *)
Unanswered(c) ==
  /\ c \in posting
  /\ posting' = posting \ {c}
  /\ UNCHANGED <<stage, outcome, slots, step, recovering, cancelled, deferred, applied>>
  /\ UnchangedRest

HandlerStep(c) ==
  \/ EndWait(c) \/ Prepare(c) \/ Apply(c) \/ Finish(c) \/ Look(c)
  \/ Acked(c) \/ RetireDeferred(c) \/ Retry(c)

WorkerStep ==
  \/ \E k \in Keys : Begin(k) \/ Pass(k)
  \/ \E k \in Keys, c \in Commands : Free(k, c)
  \/ \E c \in Commands : HandlerStep(c)
  \/ Recovered

----------------------------------------------------------------------------
(* The worker on its own: commands arrive in the order of their numbers,    *)
(* which are given, and any may arrive again until it is confirmed.         *)

ProcInit == WorkerInit /\ Numbers

Hand(c) ==
  /\ stage[c] \notin {"confirmed", "dropped"}
  /\ StreamOrder(c)
  /\ Receive(c)

ProcNext ==
  \/ WorkerStep
  \/ Start \/ Crash \/ Pause \/ Recover \/ ResendAcks
  \/ \E gens \in [Executions -> 0..MaxGen] : Heartbeat(gens)
  \/ \E c \in Commands : Hand(c) \/ Confirm(c) \/ Unanswered(c)

ProcSpec == ProcInit /\ [][ProcNext]_procVars

----------------------------------------------------------------------------
(* Properties *)

(* A command is in one place of the processor at most: queued once, being   *)
(* carried out, or waiting on its timer; and a journaled outcome is never   *)
(* carried out again.                                                       *)
Places(c) ==
  Cardinality({p \in Keys \X (1..NumCommands) :
                 p[2] \in DOMAIN pending[p[1]] /\ pending[p[1]][p[2]] = c})
  + Cardinality({k \in Keys : active[k] = c}) + Cardinality({k \in Keys : control[k] = c})

InOnePlace ==
  \A c \in Commands :
    /\ Places(c) <= 1
    /\ c \in deferred => (Places(c) = 1 <=> step[c] = "done")
    /\ stage[c] \in {"finished", "confirmed", "dropped"} =>
         step[c] \in {"idle", "acking", "closing", "done"} /\ c \notin ToSet(pending[Key(c)])

(* While a control passes an idle wait, the one waiting does not go on: a   *)
(* stop under way finishes before a recycle closes the session or a send is *)
(* admitted (waitForTurnEnd).                                               *)
ControlFinishesFirst ==
  \A k \in Keys : control[k] # None => active[k] # None /\ step[active[k]] = "waiting"

----------------------------------------------------------------------------
(* What the repository says, and the code does not do *)

Begins(c) == stage[c] = "received" /\ stage'[c] = "started"

(* A close "cancels the earlier sends ... Otherwise they would start a new  *)
(* process after the close." One whose timer fires while another is being   *)
(* retired, or that a restart finds received, is not cancelled.             *)
ClosedStaysClosed ==
  [][\A c \in Sends, d \in Commands :
       Begins(c) /\ outcome[d] = "delivered" => c \notin Earlier(d)]_procVars
=============================================================================
