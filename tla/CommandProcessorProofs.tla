----------------------- MODULE CommandProcessorProofs -----------------------
(***************************************************************************)
(* A worker carrying out its commands keeps its journal as JournalSpec     *)
(* says, and its queues in order, for any commands, executions and chats.  *)
(***************************************************************************)
EXTENDS CommandProcessor, CommandJournalProofs, InOrderProofs

Queued(c) == c \in ToSet(pending[Key(c)])
CarriedOut(c) == active[Key(c)] = c \/ control[Key(c)] = c

(* Each key's slots hold its own commands, each once.                       *)
SlotsInOrder ==
  \A k \in Keys :
    /\ IsInjective(pending[k]) /\ \A c \in ToSet(pending[k]) : Key(c) = k
    /\ active[k] # None => Key(active[k]) = k
    /\ control[k] # None => Key(control[k]) = k /\ control[k] # active[k]

(* How far a command's handler has come goes with where the command is and  *)
(* with what the journal says of it.                                        *)
Placed(c) ==
  /\ CarriedOut(c) <=> step[c] # "idle"
  /\ Queued(c) => ~CarriedOut(c) /\ c \notin deferred /\ stage[c] \in {"received", "started"}
  /\ c \in deferred => step[c] \in {"idle", "done"} /\ stage[c] \in {"received", "started"}
  /\ c \in posting => stage[c] = "finished"

Journals(c) ==
  /\ stage[c] \in {"none", "received"} => applied[c] = 0
  /\ step[c] = "ready" => Kind[c] = "send" /\ stage[c] = "received"
  /\ step[c] = "waiting" => \/ Kind[c] = "send" /\ stage[c] = "received"
                            \/ Kind[c] = "recycle" /\ stage[c] \in {"received", "started"}
  /\ step[c] = "begun" => stage[c] = "started" /\ (c \in OnceOnly => applied[c] = 0)
  /\ step[c] = "applied" => stage[c] = "started" /\ applied[c] > 0
  /\ step[c] = "looking" => stage[c] = "started"
  /\ step[c] \in {"acking", "closing"} => stage[c] \in {"finished", "confirmed"}
  /\ step[c] = "done" => c \in deferred \/ stage[c] \in {"finished", "confirmed"}

(* Before it recovers a worker does nothing, and holds nothing.             *)
QuietUntilRecovered ==
  phase # "running" =>
    /\ NoSlots
    /\ step = [c \in Commands |-> "idle"]
    /\ recovering = {} /\ cancelled = {} /\ deferred = {} /\ posting = {}

ProcInv ==
  /\ ProcTypeOK
  /\ seq = [c \in Commands |-> c]
  /\ SlotsInOrder
  /\ ControlFinishesFirst
  /\ \A c \in Commands : Placed(c)
  /\ \A c \in Commands : Journals(c)
  /\ QuietUntilRecovered

----------------------------------------------------------------------------
(* What an action of one command leaves of the others. *)

OthersKept(c) ==
  \A d \in Commands \ {c} :
    /\ step'[d] = step[d] /\ stage'[d] = stage[d] /\ applied'[d] = applied[d]
    /\ d \in deferred' <=> d \in deferred
    /\ d \in posting' <=> d \in posting

OthersStay(c) ==
  \A d \in Commands \ {c} :
    /\ Queued(d)' <=> Queued(d)
    /\ CarriedOut(d)' <=> CarriedOut(d)

LEMMA OneCommandMoves ==
  ASSUME ProcInv, NEW c \in Commands, OthersKept(c), OthersStay(c), Placed(c)', Journals(c)'
  PROVE  (\A d \in Commands : Placed(d)') /\ (\A d \in Commands : Journals(d)')
<1>1. ASSUME NEW d \in Commands, d # c PROVE Placed(d)' /\ Journals(d)'
  <2>1. Placed(d) /\ Journals(d)
    BY DEF ProcInv
  <2>2. /\ step'[d] = step[d] /\ stage'[d] = stage[d] /\ applied'[d] = applied[d]
        /\ d \in deferred' <=> d \in deferred
        /\ d \in posting' <=> d \in posting
    BY <1>1 DEF OthersKept
  <2>3. /\ Queued(d)' <=> Queued(d)
        /\ CarriedOut(d)' <=> CarriedOut(d)
    BY <1>1 DEF OthersStay
  <2>4. Placed(d)'
    BY <2>1, <2>2, <2>3 DEF Placed
  <2>5. Journals(d)'
    BY <2>1, <2>2 DEF Journals
  <2>6. QED
    BY <2>4, <2>5
<1>2. QED
  BY <1>1

LEMMA KeyInKeys == \A c \in Commands : Key(c) \in Keys
BY WireAssumption DEF Key, Keys

LEMMA NoneIsNoCommand == \A c \in Commands : c # None
BY ProcAssumption

(* Nothing moves in a worker that has not recovered.                        *)
LEMMA BusyIsRunning ==
  ASSUME ProcInv, NEW c \in Commands,
         step[c] # "idle" \/ c \in deferred \/ c \in posting
  PROVE  phase = "running"
BY DEF ProcInv, QuietUntilRecovered

----------------------------------------------------------------------------
(* The outcomes of a handler's step *)

OwnTypeOK ==
  /\ stage \in [Commands -> Stages]
  /\ outcome \in [Commands -> Outcomes \cup {"none"}]
  /\ applied \in [Commands -> 0..EffectCap]
  /\ step \in [Commands -> Steps]
  /\ deferred \in SUBSET Commands
  /\ posting \in SUBSET Commands

(* What the outcome left: all of the invariant but for the slots.           *)
Handled(c) == OwnTypeOK' /\ OthersKept(c) /\ Placed(c)' /\ Journals(c)' /\ step'[c] # "idle"

(* What a handler's step must find, in either of the places it starts from. *)
InHand(c) ==
  /\ OwnTypeOK
  /\ Journals(c)
  /\ c \notin deferred /\ CarriedOut(c)' /\ ~Queued(c)'
  /\ c \notin posting
  /\ stage[c] \in {"received", "started"}

LEMMA SettleHandled ==
  ASSUME NEW c \in Commands, InHand(c), NEW s \in Outcomes, Settle(c, s), applied' = applied
  PROVE  Handled(c)
<1> USE DEF InHand, OwnTypeOK, Settle
<1>1. OwnTypeOK'
  BY DEF Stages, Steps
<1>2. OthersKept(c)
  BY DEF OthersKept
<1>3. stage'[c] = "finished" /\ step'[c] = "acking"
  OBVIOUS
<1>4. Placed(c)'
  BY <1>3 DEF Placed
<1>5. Journals(c)'
  BY <1>3 DEF Journals
<1>6. QED
  BY <1>1, <1>2, <1>3, <1>4, <1>5 DEF Handled

LEMMA DeferHandled ==
  ASSUME NEW c \in Commands, InHand(c), Defer(c), applied' = applied
  PROVE  Handled(c)
<1> USE DEF InHand, OwnTypeOK, Defer
<1>1. OwnTypeOK'
  BY DEF Steps
<1>2. OthersKept(c)
  BY DEF OthersKept
<1>3. stage'[c] = stage[c] /\ step'[c] = "done" /\ c \in deferred'
  OBVIOUS
<1>4. Placed(c)'
  BY <1>3 DEF Placed
<1>5. Journals(c)'
  BY <1>3 DEF Journals
<1>6. QED
  BY <1>1, <1>2, <1>3, <1>4, <1>5 DEF Handled

LEMMA AwaitHandled ==
  ASSUME NEW c \in Commands, InHand(c), NEW s \in Steps \ {"idle"}, Await(c, s), applied' = applied,
         \/ s = "ready" /\ Kind[c] = "send" /\ stage[c] = "received"
         \/ s = "waiting" /\ Kind[c] = "send" /\ stage[c] = "received"
         \/ s = "waiting" /\ Kind[c] = "recycle"
         \/ s = "looking" /\ stage[c] = "started"
  PROVE  Handled(c)
<1> USE DEF InHand, OwnTypeOK, Await
<1>1. OwnTypeOK'
  OBVIOUS
<1>2. OthersKept(c)
  BY DEF OthersKept
<1>3. stage'[c] = stage[c] /\ step'[c] = s
  OBVIOUS
<1>4. Placed(c)'
  BY <1>3 DEF Placed
<1>5. Journals(c)'
  BY <1>3 DEF Journals
<1>6. QED
  BY <1>1, <1>2, <1>3, <1>4, <1>5 DEF Handled

LEMMA MarkStartedHandled ==
  ASSUME NEW c \in Commands, InHand(c), MarkStarted(c), applied' = applied,
         c \in OnceOnly => stage[c] = "received"
  PROVE  Handled(c)
<1>1. CASE paused
  BY <1>1, DeferHandled DEF MarkStarted
<1>2. CASE ~paused
  <2> USE <1>2 DEF InHand, OwnTypeOK, MarkStarted
  <2>1. OwnTypeOK'
    BY DEF Steps, Stages
  <2>2. OthersKept(c)
    BY DEF OthersKept
  <2>3. stage'[c] = "started" /\ step'[c] = "begun" /\ (c \in OnceOnly => applied[c] = 0)
    BY DEF Journals
  <2>4. Placed(c)'
    BY <2>3 DEF Placed
  <2>5. Journals(c)'
    BY <2>3 DEF Journals
  <2>6. QED
    BY <2>1, <2>2, <2>3, <2>4, <2>5 DEF Handled
<1>3. QED
  BY <1>1, <1>2

LEMMA HandleHandled ==
  ASSUME NEW c \in Commands, InHand(c), Handle(c), applied' = applied
  PROVE  Handled(c)
<1>1. CASE c \notin recovering /\ paused
  BY <1>1, DeferHandled DEF Handle
<1>2. CASE ~(c \notin recovering /\ paused) /\ Kind[c] = "run_script" /\ stage[c] = "started"
  BY <1>2, SettleHandled DEF Handle, Outcomes
<1>3. CASE ~(c \notin recovering /\ paused) /\ ~(Kind[c] = "run_script" /\ stage[c] = "started")
  <2>1. CASE Settle(c, "stale") \/ Settle(c, "failed")
    BY <2>1, SettleHandled DEF Outcomes
  <2>2. CASE Await(c, "looking") /\ stage[c] = "started"
    BY <2>2, AwaitHandled DEF Steps
  <2>3. CASE (Await(c, "ready") \/ Await(c, "waiting")) /\ Kind[c] = "send" /\ stage[c] = "received"
    BY <2>3, AwaitHandled DEF Steps
  <2>4. CASE Await(c, "waiting") /\ Kind[c] = "recycle"
    BY <2>4, AwaitHandled DEF Steps
  <2>5. CASE MarkStarted(c) /\ Kind[c] \in {"run_script", "stop", "quiesce", "control", "other"}
    <3>1. c \in OnceOnly => stage[c] = "received"
      BY <1>3, <2>5 DEF OnceOnly, InHand
    <3>2. QED
      BY <2>5, <3>1, MarkStartedHandled
  <2>6. QED
    BY <1>3, <2>1, <2>2, <2>3, <2>4, <2>5 DEF Handle, Admit
<1>4. QED
  BY <1>1, <1>2, <1>3

----------------------------------------------------------------------------
(* What the slots promise *)

SlotsTyped ==
  /\ pending \in [Keys -> Seq(Commands)]
  /\ active \in [Keys -> Commands \cup {None}]
  /\ control \in [Keys -> Commands \cup {None}]

(* A step of a command under way keeps the slots: only one that waits behind *)
(* a control must not go on, and none of those does.                         *)
LEMMA SlotsUnmoved ==
  ASSUME ProcInv, NEW c \in Commands, UNCHANGED slots, OthersKept(c),
         step[c] # "waiting" \/ control[Key(c)] = None
  PROVE  SlotsTyped' /\ SlotsInOrder' /\ ControlFinishesFirst' /\ OthersStay(c)
<1>1. pending' = pending /\ active' = active /\ control' = control
  BY DEF slots
<1>2. SlotsTyped' /\ SlotsInOrder'
  BY <1>1 DEF ProcInv, ProcTypeOK, SlotsTyped, SlotsInOrder
<1>3. OthersStay(c)
  BY <1>1 DEF OthersStay, Queued, CarriedOut
<1>4. ControlFinishesFirst'
  <2>1. SUFFICES ASSUME NEW k \in Keys, control[k] # None
                 PROVE  active[k] # None /\ step'[active[k]] = "waiting"
    BY <1>1 DEF ControlFinishesFirst
  <2>2. active[k] # None /\ step[active[k]] = "waiting" /\ active[k] \in Commands
    BY <2>1 DEF ProcInv, ControlFinishesFirst, ProcTypeOK
  <2>3. Key(active[k]) = k
    BY <2>2 DEF ProcInv, SlotsInOrder
  <2>4. active[k] # c
    BY <2>1, <2>2, <2>3
  <2>5. QED
    BY <2>2, <2>4 DEF OthersKept
<1>5. QED
  BY <1>2, <1>3, <1>4

(* The parts of the invariant, put together again.                          *)
LEMMA Together ==
  ASSUME ProcInv, NEW c \in Commands, OwnTypeOK', SlotsTyped', SlotsInOrder', ControlFinishesFirst',
         OthersKept(c), OthersStay(c), Placed(c)', Journals(c)',
         phase = "running", UNCHANGED <<wire, released, phase, paused>>,
         recovering' \in SUBSET Commands, cancelled' \in SUBSET Commands
  PROVE  ProcInv'
<1>1. ProcTypeOK'
  <2>1. WireTypeOK' /\ JournalTypeOK'
    BY DEF ProcInv, ProcTypeOK, OwnTypeOK, WireTypeOK, JournalTypeOK, wire
  <2>2. phase' \in {"down", "up", "running"} /\ paused' \in BOOLEAN
    BY DEF ProcInv, ProcTypeOK
  <2>3. QED
    BY <2>1, <2>2 DEF ProcTypeOK, OwnTypeOK, SlotsTyped
<1>2. (\A d \in Commands : Placed(d)') /\ (\A d \in Commands : Journals(d)')
  BY OneCommandMoves
<1>3. QuietUntilRecovered'
  BY DEF QuietUntilRecovered
<1>4. seq' = [d \in Commands |-> d]
  BY DEF ProcInv, wire
<1>5. QED
  BY <1>1, <1>2, <1>3, <1>4 DEF ProcInv

(* A handler's step on a command under way.                                 *)
LEMMA HandlerKept ==
  ASSUME ProcInv, NEW c \in Commands, Handled(c), UNCHANGED slots, UNCHANGED recovering,
         cancelled' \in SUBSET Commands, UnchangedRest, phase = "running",
         step[c] # "waiting" \/ control[Key(c)] = None
  PROVE  ProcInv'
<1>1. SlotsTyped' /\ SlotsInOrder' /\ ControlFinishesFirst' /\ OthersStay(c)
  BY SlotsUnmoved DEF Handled
<1>2. recovering' \in SUBSET Commands
  BY DEF ProcInv, ProcTypeOK
<1>3. QED
  BY <1>1, <1>2, Together DEF Handled, UnchangedRest

(* Where the steps of a handler find their command.                         *)
LEMMA UnderWay ==
  ASSUME ProcInv, NEW c \in Commands, UNCHANGED slots,
         step[c] \in {"ready", "waiting", "begun", "applied", "looking"}
  PROVE  InHand(c) /\ phase = "running"
<1>1. Placed(c) /\ Journals(c)
  BY DEF ProcInv
<1>2. OwnTypeOK
  BY DEF ProcInv, ProcTypeOK, OwnTypeOK, JournalTypeOK
<1>3. pending' = pending /\ active' = active /\ control' = control
  BY DEF slots
<1>4. (CarriedOut(c)' <=> CarriedOut(c)) /\ (Queued(c)' <=> Queued(c))
  BY <1>3 DEF CarriedOut, Queued
<1>5. CarriedOut(c) /\ ~Queued(c) /\ c \notin deferred
  BY <1>1 DEF Placed
<1>6. stage[c] \in {"received", "started"}
  BY <1>1 DEF Journals
<1>7. c \notin posting
  BY <1>1, <1>6 DEF Placed
<1>8. phase = "running"
  BY BusyIsRunning
<1>9. QED
  BY <1>1, <1>2, <1>4, <1>5, <1>6, <1>7, <1>8 DEF InHand

----------------------------------------------------------------------------
(* The steps of the handlers *)

LEMMA EndWaitKept ==
  ASSUME ProcInv, NEW c \in Commands, EndWait(c)
  PROVE  ProcInv'
<1>1. /\ step[c] = "waiting" /\ control[Key(c)] = None
      /\ UNCHANGED slots /\ UNCHANGED recovering /\ cancelled' = cancelled
      /\ applied' = applied /\ UnchangedRest
  BY DEF EndWait, UnchangedSlots
<1>2. InHand(c) /\ phase = "running"
  BY <1>1, UnderWay
<1>3. Kind[c] = "send" => stage[c] = "received"
  BY <1>1 DEF ProcInv, Journals
<1>4. Handled(c)
  <2>1. CASE Settle(c, "failed") \/ Settle(c, "stale")
    BY <1>1, <1>2, <2>1, SettleHandled DEF Outcomes
  <2>2. CASE Kind[c] = "recycle" /\ MarkStarted(c)
    BY <1>1, <1>2, <2>2, MarkStartedHandled DEF OnceOnly
  <2>3. CASE Kind[c] = "send" /\ Await(c, "ready")
    BY <1>1, <1>2, <1>3, <2>3, AwaitHandled DEF Steps
  <2>4. QED
    BY <2>1, <2>2, <2>3 DEF EndWait
<1>5. cancelled' \in SUBSET Commands
  BY <1>1 DEF ProcInv, ProcTypeOK
<1>6. QED
  BY <1>1, <1>2, <1>4, <1>5, HandlerKept

LEMMA PrepareKept ==
  ASSUME ProcInv, NEW c \in Commands, Prepare(c)
  PROVE  ProcInv'
<1>1. /\ step[c] = "ready"
      /\ UNCHANGED slots /\ UNCHANGED recovering /\ cancelled' = cancelled
      /\ applied' = applied /\ UnchangedRest
  BY DEF Prepare, UnchangedSlots
<1>2. InHand(c) /\ phase = "running"
  BY <1>1, UnderWay
<1>3. stage[c] = "received"
  BY <1>1 DEF ProcInv, Journals
<1>4. Handled(c)
  <2>1. CASE Settle(c, "failed")
    BY <1>1, <1>2, <2>1, SettleHandled DEF Outcomes
  <2>2. CASE Defer(c)
    BY <1>1, <1>2, <2>2, DeferHandled
  <2>3. CASE MarkStarted(c)
    BY <1>1, <1>2, <1>3, <2>3, MarkStartedHandled
  <2>4. QED
    BY <2>1, <2>2, <2>3 DEF Prepare
<1>5. cancelled' \in SUBSET Commands
  BY <1>1 DEF ProcInv, ProcTypeOK
<1>6. QED
  BY <1>1, <1>2, <1>4, <1>5, HandlerKept

LEMMA ApplyKept ==
  ASSUME ProcInv, NEW c \in Commands, Apply(c)
  PROVE  ProcInv'
<1>1. /\ step[c] = "begun" /\ UNCHANGED slots /\ UNCHANGED recovering /\ cancelled' = cancelled
      /\ UnchangedRest
      /\ applied' = [applied EXCEPT ![c] = Counted(c, @ + 1)]
      /\ step' = [step EXCEPT ![c] = "applied"]
      /\ stage' = stage /\ outcome' = outcome /\ posting' = posting /\ deferred' = deferred
  BY DEF Apply, Await
<1>2. InHand(c) /\ phase = "running"
  BY <1>1, UnderWay
<1>3. stage[c] = "started" /\ applied[c] \in 0..EffectCap
  BY <1>1, <1>2 DEF ProcInv, Journals, InHand, OwnTypeOK
<1>4. Handled(c)
  <2>1. OwnTypeOK'
    BY <1>1, <1>2, <1>3 DEF InHand, OwnTypeOK, Counted, EffectCap, Steps
  <2>2. OthersKept(c)
    BY <1>1, <1>2 DEF OthersKept, InHand, OwnTypeOK
  <2>3. step'[c] = "applied" /\ stage'[c] = "started" /\ applied'[c] > 0
    BY <1>1, <1>2, <1>3 DEF InHand, OwnTypeOK, Counted, EffectCap
  <2>4. Placed(c)'
    BY <1>1, <1>2, <2>3 DEF Placed, InHand
  <2>5. Journals(c)'
    BY <2>3 DEF Journals
  <2>6. QED
    BY <2>1, <2>2, <2>3, <2>4, <2>5 DEF Handled
<1>5. cancelled' \in SUBSET Commands
  BY <1>1 DEF ProcInv, ProcTypeOK
<1>6. QED
  BY <1>1, <1>2, <1>4, <1>5, HandlerKept

(* What Finish and Look do: settle a command whose effect is made or known. *)
LEMMA FinishKept ==
  ASSUME ProcInv, NEW c \in Commands, Finish(c) \/ Look(c)
  PROVE  ProcInv'
<1>1. /\ step[c] \in {"begun", "applied", "looking"}
      /\ UNCHANGED slots /\ UNCHANGED recovering /\ cancelled' = cancelled
      /\ applied' = applied /\ UnchangedRest
  BY DEF Finish, Look, UnchangedSlots
<1>2. InHand(c) /\ phase = "running"
  BY <1>1, UnderWay
<1>3. PICK s \in Outcomes : Settle(c, s)
  BY DEF Finish, Look, Outcomes
<1>4. Handled(c)
  BY <1>1, <1>2, <1>3, SettleHandled
<1>5. cancelled' \in SUBSET Commands
  BY <1>1 DEF ProcInv, ProcTypeOK
<1>6. QED
  BY <1>1, <1>2, <1>4, <1>5, HandlerKept

(* A close fails the deferred sends before it, one at a time.               *)
LEMMA RetireDeferredKept ==
  ASSUME ProcInv, NEW c \in Commands, RetireDeferred(c)
  PROVE  ProcInv'
<1>1. /\ step[c] = "closing" /\ UNCHANGED slots /\ UNCHANGED recovering /\ cancelled' = cancelled
      /\ applied' = applied /\ UnchangedRest
  BY DEF RetireDeferred, UnchangedSlots
<1>2. Placed(c) /\ Journals(c) /\ OwnTypeOK /\ phase = "running"
  BY <1>1, BusyIsRunning DEF ProcInv, ProcTypeOK, JournalTypeOK, OwnTypeOK
<1>3. pending' = pending /\ active' = active /\ control' = control
  BY <1>1 DEF slots
<1>4. \A d \in Commands : (CarriedOut(d)' <=> CarriedOut(d)) /\ (Queued(d)' <=> Queued(d))
  BY <1>3 DEF CarriedOut, Queued
<1>5. recovering' \in SUBSET Commands /\ cancelled' \in SUBSET Commands
  BY <1>1 DEF ProcInv, ProcTypeOK
<1>6. CASE Await(c, "done")
  <2> USE <1>1, <1>6 DEF Await
  <2>1. OwnTypeOK'
    BY <1>2 DEF OwnTypeOK, Steps
  <2>2. OthersKept(c)
    BY <1>2 DEF OthersKept, OwnTypeOK
  <2>3. step'[c] = "done" /\ stage'[c] = stage[c] /\ stage[c] \in {"finished", "confirmed"}
    BY <1>2 DEF OwnTypeOK, Journals
  <2>4. Placed(c)'
    BY <1>2, <1>4, <2>3 DEF Placed
  <2>5. Journals(c)'
    BY <2>3 DEF Journals
  <2>6. SlotsTyped' /\ SlotsInOrder' /\ ControlFinishesFirst' /\ OthersStay(c)
    BY <2>2, SlotsUnmoved
  <2>7. QED
    BY <1>2, <1>5, <2>1, <2>2, <2>4, <2>5, <2>6, Together DEF UnchangedRest
<1>7. CASE \E d \in deferred \cap Earlier(c) :
              /\ deferred' = deferred \ {d}
              /\ stage' = [stage EXCEPT ![d] = "finished"]
              /\ outcome' = [outcome EXCEPT ![d] = "failed"]
              /\ posting' = posting \cup {d}
              /\ UNCHANGED step
  <2>1. PICK d \in deferred \cap Earlier(c) :
              /\ deferred' = deferred \ {d}
              /\ stage' = [stage EXCEPT ![d] = "finished"]
              /\ outcome' = [outcome EXCEPT ![d] = "failed"]
              /\ posting' = posting \cup {d}
              /\ UNCHANGED step
    BY <1>7
  <2> USE <1>1, <2>1
  <2>2. d \in Commands /\ d \in deferred /\ Placed(d) /\ Journals(d)
    BY DEF ProcInv, ProcTypeOK
  <2>3. OwnTypeOK'
    BY <1>2, <2>2 DEF OwnTypeOK, Stages, Outcomes
  <2>4. OthersKept(d)
    BY <1>2, <2>2 DEF OthersKept, OwnTypeOK
  <2>5. step'[d] = step[d] /\ step[d] \in {"idle", "done"} /\ stage'[d] = "finished"
    BY <1>2, <2>2 DEF OwnTypeOK, Placed
  <2>6. d \notin deferred' /\ ~Queued(d)
    BY <2>2 DEF Placed
  <2>7. Placed(d)'
    BY <1>4, <2>2, <2>5, <2>6 DEF Placed
  <2>8. Journals(d)'
    BY <2>5 DEF Journals
  <2>9. SlotsTyped' /\ SlotsInOrder' /\ ControlFinishesFirst' /\ OthersStay(d)
    BY <2>2, <2>4, <2>5, SlotsUnmoved
  <2>10. QED
    BY <1>2, <1>5, <2>2, <2>3, <2>4, <2>7, <2>8, <2>9, Together DEF UnchangedRest
<1>8. QED
  BY <1>6, <1>7 DEF RetireDeferred

----------------------------------------------------------------------------
(* The queues *)

(* A queue of one key is replaced by one that holds fewer or more.          *)
LEMMA QueueReplaced ==
  ASSUME ProcInv, NEW k \in Keys, NEW q, NEW S,
         pending' = [pending EXCEPT ![k] = q], Once(q, S, Commands), \A c \in S : Key(c) = k
  PROVE  /\ pending' \in [Keys -> Seq(Commands)]
         /\ \A j \in Keys : IsInjective(pending'[j]) /\ \A c \in ToSet(pending'[j]) : Key(c) = j
         /\ \A d \in Commands : Queued(d)' <=> (IF Key(d) = k THEN d \in S ELSE Queued(d))
<1>1. /\ pending \in [Keys -> Seq(Commands)]
      /\ \A j \in Keys : IsInjective(pending[j]) /\ \A c \in ToSet(pending[j]) : Key(c) = j
  BY DEF ProcInv, ProcTypeOK, SlotsInOrder
<1>2. q \in Seq(Commands) /\ IsInjective(q) /\ ToSet(q) = S
  BY DEF Once
<1>3. \A j \in Keys : pending'[j] = IF j = k THEN q ELSE pending[j]
  BY <1>1
<1>4. pending' \in [Keys -> Seq(Commands)]
  BY <1>1, <1>2
<1>5. \A j \in Keys : IsInjective(pending'[j]) /\ \A c \in ToSet(pending'[j]) : Key(c) = j
  BY <1>1, <1>2, <1>3
<1>6. \A d \in Commands : Queued(d)' <=> (IF Key(d) = k THEN d \in S ELSE Queued(d))
  BY <1>2, <1>3, KeyInKeys DEF Queued
<1>7. QED
  BY <1>4, <1>5, <1>6

(* Which commands a key's queue holds.                                      *)
LEMMA QueueHolds ==
  ASSUME ProcInv, NEW k \in Keys
  PROVE  /\ pending[k] \in Seq(Commands) /\ IsInjective(pending[k])
         /\ \A c \in ToSet(pending[k]) : c \in Commands /\ Key(c) = k /\ Queued(c)
<1>1. pending[k] \in Seq(Commands)
  BY DEF ProcInv, ProcTypeOK
<1>2. \A i \in DOMAIN pending[k] : pending[k][i] \in Commands
  BY <1>1, LenProperties, ElementOfSeq
<1>3. IsInjective(pending[k]) /\ \A c \in ToSet(pending[k]) : Key(c) = k
  BY DEF ProcInv, SlotsInOrder
<1>4. \A c \in ToSet(pending[k]) : c \in Commands
  BY <1>2 DEF ToSet
<1>5. QED
  BY <1>1, <1>3, <1>4 DEF Queued

(* What was queued and is now taken up is in hand.                          *)
LEMMA TakenInHand ==
  ASSUME ProcInv, NEW c \in Commands, Queued(c), CarriedOut(c)', ~Queued(c)'
  PROVE  InHand(c) /\ phase = "running"
<1>1. Placed(c) /\ Journals(c)
  BY DEF ProcInv
<1>2. OwnTypeOK
  BY DEF ProcInv, ProcTypeOK, OwnTypeOK, JournalTypeOK
<1>3. stage[c] \in {"received", "started"} /\ c \notin deferred /\ c \notin posting
  BY <1>1 DEF Placed
<1>4. phase = "running"
  <2>1. SUFFICES ASSUME phase # "running" PROVE FALSE
    OBVIOUS
  <2>2. pending[Key(c)] = <<>>
    BY <2>1, KeyInKeys DEF ProcInv, QuietUntilRecovered, NoSlots
  <2>3. ToSet(pending[Key(c)]) = {}
    BY <2>2, OnceEmpty DEF Once
  <2>4. QED
    BY <2>3 DEF Queued
<1>5. QED
  BY <1>1, <1>2, <1>3, <1>4 DEF InHand

LEMMA BeginKept ==
  ASSUME ProcInv, NEW k \in Keys, Begin(k)
  PROVE  ProcInv'
<1>0. /\ pending[k] \in Seq(Commands) /\ IsInjective(pending[k])
      /\ \A d \in ToSet(pending[k]) : d \in Commands /\ Key(d) = k /\ Queued(d)
  BY QueueHolds
<1>1a. pending[k] # <<>>
  BY DEF Begin
<1>1b. /\ Head(pending[k]) \in ToSet(pending[k])
       /\ Once(Tail(pending[k]), ToSet(pending[k]) \ {Head(pending[k])}, Commands)
  BY <1>0, <1>1a, OnceHead
<1>1c. PICK c \in Commands : c = Head(pending[k])
  BY <1>0, <1>1b
<1>1d. PICK left : left = ToSet(pending[k]) \ {c}
  OBVIOUS
<1>1. /\ active[k] = None /\ control[k] = None /\ pending[k] # <<>>
      /\ active' = [active EXCEPT ![k] = c]
      /\ pending' = [pending EXCEPT ![k] = Tail(pending[k])]
      /\ Handle(c)
      /\ control' = control /\ recovering' = recovering /\ cancelled' = cancelled
      /\ applied' = applied /\ UnchangedRest
  BY <1>1c DEF Begin
<1>3. Once(Tail(pending[k]), left, Commands) /\ \A d \in left : Key(d) = k
  BY <1>0, <1>1b, <1>1c, <1>1d
<1>4. c \in Commands /\ Key(c) = k /\ Queued(c) /\ c \in ToSet(pending[k])
  BY <1>0, <1>1b, <1>1c
<1>5. /\ pending' \in [Keys -> Seq(Commands)]
      /\ \A j \in Keys : IsInjective(pending'[j]) /\ \A d \in ToSet(pending'[j]) : Key(d) = j
      /\ \A d \in Commands : Queued(d)' <=> (IF Key(d) = k THEN d \in left ELSE Queued(d))
  BY <1>1, <1>3, QueueReplaced
<1>6. active \in [Keys -> Commands \cup {None}] /\ control \in [Keys -> Commands \cup {None}]
  BY DEF ProcInv, ProcTypeOK
<1>7. \A j \in Keys : active'[j] = IF j = k THEN c ELSE active[j]
  BY <1>1, <1>6
<1>8. SlotsTyped'
  BY <1>1, <1>4, <1>5, <1>6 DEF SlotsTyped
<1>9. SlotsInOrder'
  BY <1>1, <1>4, <1>5, <1>7 DEF ProcInv, SlotsInOrder
<1>10. CarriedOut(c)' /\ ~Queued(c)'
  BY <1>1d, <1>4, <1>5, <1>7 DEF CarriedOut
<1>11. OthersStay(c)
  <2>1. ASSUME NEW d \in Commands, d # c PROVE Queued(d)' <=> Queued(d)
    BY <1>1d, <1>5, <2>1 DEF Queued
  <2>2. ASSUME NEW d \in Commands, d # c PROVE CarriedOut(d)' <=> CarriedOut(d)
    BY <1>1, <1>7, <2>2, KeyInKeys, NoneIsNoCommand DEF CarriedOut
  <2>3. QED
    BY <2>1, <2>2 DEF OthersStay
<1>12. InHand(c) /\ phase = "running"
  BY <1>4, <1>10, TakenInHand
<1>13. Handled(c)
  BY <1>1, <1>4, <1>12, HandleHandled
<1>14. ControlFinishesFirst'
  <2>1. SUFFICES ASSUME NEW j \in Keys, control[j] # None
                 PROVE  active'[j] # None /\ step'[active'[j]] = "waiting"
    BY <1>1 DEF ControlFinishesFirst
  <2>2. active'[j] = active[j]
    BY <1>1, <1>7, <2>1
  <2>3. active[j] # None /\ step[active[j]] = "waiting" /\ active[j] \in Commands
    BY <1>6, <2>1 DEF ProcInv, ControlFinishesFirst
  <2>4. active[j] # c
    BY <1>1, <1>4, <2>1, <2>3 DEF ProcInv, SlotsInOrder
  <2>5. QED
    BY <1>13, <2>2, <2>3, <2>4 DEF Handled, OthersKept
<1>15. recovering' \in SUBSET Commands /\ cancelled' \in SUBSET Commands
  BY <1>1 DEF ProcInv, ProcTypeOK
<1>16. QED
  BY <1>1, <1>4, <1>8, <1>9, <1>11, <1>12, <1>13, <1>14, <1>15, Together DEF Handled, UnchangedRest

LEMMA PassKept ==
  ASSUME ProcInv, NEW k \in Keys, Pass(k)
  PROVE  ProcInv'
<1>0. /\ pending[k] \in Seq(Commands) /\ IsInjective(pending[k])
      /\ \A d \in ToSet(pending[k]) : d \in Commands /\ Key(d) = k /\ Queued(d)
  BY QueueHolds
<1>1. PICK i \in DOMAIN pending[k] :
        /\ control' = [control EXCEPT ![k] = pending[k][i]]
        /\ pending' = [pending EXCEPT ![k] = RemoveAt(pending[k], i)]
        /\ Handle(pending[k][i])
  BY DEF Pass
<1>1a. /\ pending[k][i] \in ToSet(pending[k])
       /\ Once(RemoveAt(pending[k], i), ToSet(pending[k]) \ {pending[k][i]}, Commands)
  BY <1>0, OnceAt
<1>1b. PICK c \in Commands : c = pending[k][i]
  BY <1>0, <1>1a
<1>1c. PICK left : left = ToSet(pending[k]) \ {c}
  OBVIOUS
<1>2. /\ active[k] # None /\ control[k] = None /\ step[active[k]] = "waiting"
      /\ active' = active /\ recovering' = recovering /\ cancelled' = cancelled
      /\ applied' = applied /\ UnchangedRest
  BY DEF Pass
<1>4. Once(RemoveAt(pending[k], i), left, Commands) /\ \A d \in left : Key(d) = k
  BY <1>0, <1>1a, <1>1b, <1>1c
<1>5. c \in Commands /\ Key(c) = k /\ Queued(c) /\ c \in ToSet(pending[k])
  BY <1>0, <1>1a, <1>1b
<1>6. Handle(c) /\ control' = [control EXCEPT ![k] = c]
  BY <1>1, <1>1b
<1>7. /\ pending' \in [Keys -> Seq(Commands)]
      /\ \A j \in Keys : IsInjective(pending'[j]) /\ \A d \in ToSet(pending'[j]) : Key(d) = j
      /\ \A d \in Commands : Queued(d)' <=> (IF Key(d) = k THEN d \in left ELSE Queued(d))
  BY <1>1, <1>4, QueueReplaced
<1>8. active \in [Keys -> Commands \cup {None}] /\ control \in [Keys -> Commands \cup {None}]
  BY DEF ProcInv, ProcTypeOK
<1>9. \A j \in Keys : control'[j] = IF j = k THEN c ELSE control[j]
  BY <1>6, <1>8
<1>10. SlotsTyped'
  BY <1>2, <1>5, <1>6, <1>7, <1>8 DEF SlotsTyped
<1>11. Placed(c) /\ ~CarriedOut(c) /\ step[c] = "idle"
  BY <1>5 DEF ProcInv, Placed
<1>12. SlotsInOrder'
  BY <1>2, <1>5, <1>7, <1>9, <1>11 DEF ProcInv, SlotsInOrder, CarriedOut
<1>13. CarriedOut(c)' /\ ~Queued(c)'
  BY <1>1c, <1>5, <1>7, <1>9 DEF CarriedOut
<1>14. OthersStay(c)
  <2>1. ASSUME NEW d \in Commands, d # c PROVE Queued(d)' <=> Queued(d)
    BY <1>1c, <1>7, <2>1 DEF Queued
  <2>2. ASSUME NEW d \in Commands, d # c PROVE CarriedOut(d)' <=> CarriedOut(d)
    BY <1>2, <1>9, <2>2, KeyInKeys, NoneIsNoCommand DEF CarriedOut
  <2>3. QED
    BY <2>1, <2>2 DEF OthersStay
<1>15. InHand(c) /\ phase = "running"
  BY <1>5, <1>13, TakenInHand
<1>16. Handled(c)
  BY <1>2, <1>5, <1>6, <1>15, HandleHandled
<1>17. ControlFinishesFirst'
  <2>1. SUFFICES ASSUME NEW j \in Keys, control'[j] # None
                 PROVE  active[j] # None /\ step'[active[j]] = "waiting"
    BY <1>2 DEF ControlFinishesFirst
  <2>2. active[j] # None /\ step[active[j]] = "waiting" /\ active[j] \in Commands
    BY <1>2, <1>8, <1>9, <2>1 DEF ProcInv, ControlFinishesFirst
  <2>3. active[j] # c
    BY <1>11, <2>2
  <2>4. QED
    BY <1>16, <2>2, <2>3 DEF Handled, OthersKept
<1>18. recovering' \in SUBSET Commands /\ cancelled' \in SUBSET Commands
  BY <1>2 DEF ProcInv, ProcTypeOK
<1>19. QED
  BY <1>2, <1>5, <1>10, <1>12, <1>14, <1>15, <1>16, <1>17, <1>18, Together DEF Handled, UnchangedRest

LEMMA FreeKept ==
  ASSUME ProcInv, NEW k \in Keys, NEW c \in Commands, Free(k, c)
  PROVE  ProcInv'
<1>1. /\ step[c] = "done" /\ step' = [step EXCEPT ![c] = "idle"]
      /\ stage' = stage /\ outcome' = outcome /\ released' = released /\ pending' = pending
      /\ recovering' = recovering /\ cancelled' = cancelled /\ deferred' = deferred
      /\ posting' = posting /\ applied' = applied /\ UNCHANGED <<wire, phase, paused>>
  BY DEF Free, journal
<1>2. Placed(c) /\ Journals(c) /\ OwnTypeOK /\ phase = "running"
  BY <1>1, BusyIsRunning DEF ProcInv, ProcTypeOK, JournalTypeOK, OwnTypeOK
<1>3. active \in [Keys -> Commands \cup {None}] /\ control \in [Keys -> Commands \cup {None}]
  BY DEF ProcInv, ProcTypeOK
<1>4. /\ \A j \in Keys : /\ active[j] # None => Key(active[j]) = j
                         /\ control[j] # None => Key(control[j]) = j /\ control[j] # active[j]
      /\ \A j \in Keys : control[j] # None => active[j] # None /\ step[active[j]] = "waiting"
  BY DEF ProcInv, SlotsInOrder, ControlFinishesFirst
<1>5. c # None /\ Key(c) \in Keys
  BY NoneIsNoCommand, KeyInKeys
<1>6. k = Key(c) /\ \/ /\ active[k] = c /\ active' = [active EXCEPT ![k] = None] /\ control' = control
                    \/ /\ control[k] = c /\ control' = [control EXCEPT ![k] = None] /\ active' = active
  BY <1>4, <1>5 DEF Free
<1>7. SlotsTyped'
  BY <1>1, <1>3, <1>6 DEF ProcInv, ProcTypeOK, SlotsTyped
<1>8. active[k] = c => control[k] = None
  BY <1>1, <1>4
<1>9. /\ active[k] = c => /\ \A j \in Keys : active'[j] = IF j = k THEN None ELSE active[j]
                          /\ control' = control
      /\ active[k] # c => /\ \A j \in Keys : control'[j] = IF j = k THEN None ELSE control[j]
                          /\ active' = active
  BY <1>3, <1>4, <1>5, <1>6
<1>10. /\ \A j \in Keys : active'[j] = active[j] \/ (j = k /\ active[j] = c /\ active'[j] = None)
       /\ \A j \in Keys : control'[j] = control[j] \/ (j = k /\ control[j] = c /\ control'[j] = None)
  BY <1>9, <1>6, <1>3
<1>11. SlotsInOrder'
  BY <1>1, <1>4, <1>5, <1>8, <1>10 DEF ProcInv, SlotsInOrder
<1>12. OthersStay(c)
  <2>1. ASSUME NEW d \in Commands, d # c PROVE Queued(d)' <=> Queued(d)
    BY <1>1 DEF Queued
  <2>2. ASSUME NEW d \in Commands, d # c PROVE CarriedOut(d)' <=> CarriedOut(d)
    BY <1>10, <2>2, KeyInKeys, NoneIsNoCommand DEF CarriedOut
  <2>3. QED
    BY <2>1, <2>2 DEF OthersStay
<1>13. OthersKept(c)
  BY <1>1, <1>2 DEF OthersKept, OwnTypeOK
<1>14. ~CarriedOut(c)'
  BY <1>4, <1>5, <1>6, <1>8, <1>9 DEF CarriedOut
<1>15. step'[c] = "idle" /\ (Queued(c)' <=> Queued(c)) /\ CarriedOut(c)
  BY <1>1, <1>2 DEF OwnTypeOK, Queued, Placed
<1>16. Placed(c)'
  BY <1>1, <1>2, <1>14, <1>15 DEF Placed
<1>17. Journals(c)'
  BY <1>1, <1>2, <1>15 DEF Journals
<1>18. OwnTypeOK'
  BY <1>1, <1>2 DEF OwnTypeOK, Steps
<1>19. ControlFinishesFirst'
  <2>1. SUFFICES ASSUME NEW j \in Keys, control'[j] # None
                 PROVE  active'[j] # None /\ step'[active'[j]] = "waiting"
    BY DEF ControlFinishesFirst
  <2>2. control[j] # None /\ active[j] # None /\ step[active[j]] = "waiting"
    BY <1>4, <1>10, <2>1
  <2>3. active[j] # c /\ active'[j] = active[j] /\ active[j] \in Commands
    BY <1>1, <1>3, <1>10, <2>2
  <2>4. QED
    BY <1>13, <2>2, <2>3 DEF OthersKept
<1>20. recovering' \in SUBSET Commands /\ cancelled' \in SUBSET Commands
  BY <1>1 DEF ProcInv, ProcTypeOK
<1>21. QED
  BY <1>1, <1>2, <1>7, <1>11, <1>12, <1>13, <1>16, <1>17, <1>18, <1>19, <1>20, Together DEF OwnTypeOK

(* A command is put at the end of its queue, and not carried out yet.       *)
LEMMA Enqueued ==
  ASSUME ProcInv, NEW c \in Commands, ~Queued(c),
         pending' = [pending EXCEPT ![Key(c)] = Append(pending[Key(c)], c)],
         active' = active, control' = control, step' = step
  PROVE  SlotsTyped' /\ SlotsInOrder' /\ ControlFinishesFirst' /\ OthersStay(c)
         /\ Queued(c)' /\ (CarriedOut(c)' <=> CarriedOut(c))
<1>1. /\ pending[Key(c)] \in Seq(Commands) /\ IsInjective(pending[Key(c)])
      /\ \A d \in ToSet(pending[Key(c)]) : d \in Commands /\ Key(d) = Key(c) /\ Queued(d)
  BY QueueHolds, KeyInKeys
<1>2. PICK S : S = ToSet(pending[Key(c)]) \cup {c}
  OBVIOUS
<1>3. PICK q : q = Append(pending[Key(c)], c)
  OBVIOUS
<1>4. Once(q, S, Commands)
  BY <1>1, <1>2, <1>3, OnceAppend DEF Queued
<1>5. PICK k \in Keys : k = Key(c)
  BY KeyInKeys
<1>6. \A d \in S : Key(d) = k
  BY <1>1, <1>2, <1>5
<1>7. pending' = [pending EXCEPT ![k] = q]
  BY <1>3, <1>5
<1>8. /\ pending' \in [Keys -> Seq(Commands)]
      /\ \A j \in Keys : IsInjective(pending'[j]) /\ \A d \in ToSet(pending'[j]) : Key(d) = j
      /\ \A d \in Commands : Queued(d)' <=> (IF Key(d) = k THEN d \in S ELSE Queued(d))
  BY <1>4, <1>6, <1>7, QueueReplaced
<1>9. SlotsTyped'
  BY <1>8 DEF ProcInv, ProcTypeOK, SlotsTyped
<1>10. SlotsInOrder'
  BY <1>8 DEF ProcInv, SlotsInOrder
<1>11. ControlFinishesFirst'
  BY DEF ProcInv, ControlFinishesFirst
<1>12. Queued(c)'
  BY <1>2, <1>5, <1>8
<1>13. OthersStay(c)
  <2>1. ASSUME NEW d \in Commands, d # c PROVE Queued(d)' <=> Queued(d)
    BY <1>2, <1>5, <1>8, <2>1 DEF Queued
  <2>2. ASSUME NEW d \in Commands PROVE CarriedOut(d)' <=> CarriedOut(d)
    BY DEF CarriedOut
  <2>3. QED
    BY <2>1, <2>2 DEF OthersStay
<1>14. CarriedOut(c)' <=> CarriedOut(c)
  BY DEF CarriedOut
<1>15. QED
  BY <1>9, <1>10, <1>11, <1>12, <1>13, <1>14

LEMMA RetryKept ==
  ASSUME ProcInv, NEW c \in Commands, Retry(c)
  PROVE  ProcInv'
<1>1. /\ c \in deferred /\ step[c] = "idle" /\ deferred' = deferred \ {c}
      /\ recovering' = recovering \ {c}
      /\ stage' = stage /\ outcome' = outcome /\ active' = active /\ control' = control
      /\ step' = step /\ cancelled' = cancelled /\ posting' = posting /\ applied' = applied
      /\ UnchangedRest
  BY DEF Retry
<1>2. Placed(c) /\ Journals(c) /\ OwnTypeOK /\ phase = "running"
  BY <1>1, BusyIsRunning DEF ProcInv, ProcTypeOK, JournalTypeOK, OwnTypeOK
<1>3. ~Queued(c) /\ ~CarriedOut(c) /\ stage[c] \in {"received", "started"}
  BY <1>1, <1>2 DEF Placed
<1>4. OwnTypeOK' /\ OthersKept(c)
  BY <1>1, <1>2 DEF OwnTypeOK, OthersKept
<1>5. Journals(c)'
  BY <1>1, <1>2 DEF Journals
<1>6. recovering' \in SUBSET Commands /\ cancelled' \in SUBSET Commands
  BY <1>1 DEF ProcInv, ProcTypeOK
<1>7. CASE stage[c] = "received"
  <2>1. pending' = [pending EXCEPT ![Key(c)] = Append(pending[Key(c)], c)]
    BY <1>7 DEF Retry
  <2>2. /\ SlotsTyped' /\ SlotsInOrder' /\ ControlFinishesFirst' /\ OthersStay(c)
        /\ Queued(c)' /\ (CarriedOut(c)' <=> CarriedOut(c))
    BY <1>1, <1>3, <2>1, Enqueued
  <2>3. Placed(c)'
    BY <1>1, <1>2, <1>3, <2>2 DEF Placed
  <2>4. QED
    BY <1>1, <1>2, <1>4, <1>5, <1>6, <2>2, <2>3, Together DEF UnchangedRest
<1>8. CASE stage[c] # "received"
  <2>1. UNCHANGED slots
    BY <1>1, <1>8 DEF Retry, slots
  <2>2. SlotsTyped' /\ SlotsInOrder' /\ ControlFinishesFirst' /\ OthersStay(c)
    BY <1>1, <1>4, <2>1, SlotsUnmoved
  <2>3. (CarriedOut(c)' <=> CarriedOut(c)) /\ (Queued(c)' <=> Queued(c))
    BY <2>1 DEF slots, CarriedOut, Queued
  <2>4. Placed(c)'
    BY <1>1, <1>2, <1>3, <2>3 DEF Placed
  <2>5. QED
    BY <1>1, <1>2, <1>4, <1>5, <1>6, <2>2, <2>4, Together DEF UnchangedRest
<1>9. QED
  BY <1>7, <1>8

(* A command that arrives, for the first time or again.                     *)
LEMMA HandKept ==
  ASSUME ProcInv, NEW c \in Commands, Hand(c)
  PROVE  ProcInv'
<1>1. /\ phase = "running" /\ stage[c] \notin {"confirmed", "dropped"}
      /\ outcome' = outcome /\ active' = active /\ control' = control
      /\ step' = step /\ recovering' = recovering /\ cancelled' = cancelled
      /\ deferred' = deferred /\ applied' = applied /\ UnchangedRest
  BY DEF Hand, Receive, UnchangedRest
<1>2. Placed(c) /\ Journals(c) /\ OwnTypeOK
  BY DEF ProcInv, ProcTypeOK, JournalTypeOK, OwnTypeOK
<1>3. recovering' \in SUBSET Commands /\ cancelled' \in SUBSET Commands
  BY <1>1 DEF ProcInv, ProcTypeOK
<1>4. CASE c \in Journaled
  <2>1. stage' = stage /\ pending' = pending /\ posting' = posting \cup ({c} \cap Unconfirmed)
    BY <1>4 DEF Hand, Receive
  <2>2. OwnTypeOK' /\ OthersKept(c)
    BY <1>1, <1>2, <2>1 DEF OwnTypeOK, OthersKept
  <2>3. UNCHANGED slots
    BY <1>1, <2>1 DEF slots
  <2>4. Journals(c)'
    BY <1>1, <1>2, <2>1 DEF Journals
  <2>5. (CarriedOut(c)' <=> CarriedOut(c)) /\ (Queued(c)' <=> Queued(c))
    BY <2>3 DEF slots, CarriedOut, Queued
  <2>6. c \in posting' => stage[c] = "finished"
    BY <1>2, <2>1 DEF Placed, Unconfirmed, InStage
  <2>7. Placed(c)'
    BY <1>1, <1>2, <2>1, <2>5, <2>6 DEF Placed
  <2>8. SlotsTyped' /\ SlotsInOrder' /\ ControlFinishesFirst' /\ OthersStay(c)
    <3>1. OthersStay(c) /\ SlotsTyped' /\ SlotsInOrder' /\ ControlFinishesFirst'
      BY <1>1, <2>1 DEF OthersStay, Queued, CarriedOut, ProcInv, ProcTypeOK, SlotsTyped,
                        SlotsInOrder, ControlFinishesFirst
    <3>2. QED
      BY <3>1
  <2>9. QED
    BY <1>1, <1>2, <1>3, <2>2, <2>4, <2>7, <2>8, Together DEF UnchangedRest
<1>5. CASE c \notin Journaled
  <2>1. /\ stage' = [stage EXCEPT ![c] = "received"] /\ posting' = posting
        /\ pending' = [pending EXCEPT ![Key(c)] = Append(pending[Key(c)], c)]
    BY <1>5 DEF Hand, Receive
  <2>2. stage[c] = "none"
    BY <1>1, <1>5 DEF Journaled, InStage
  <2>3. ~Queued(c) /\ step[c] = "idle" /\ ~CarriedOut(c) /\ c \notin deferred /\ c \notin posting
        /\ applied[c] = 0
    BY <1>2, <2>2 DEF Placed, Journals, OwnTypeOK, Steps
  <2>4. OwnTypeOK' /\ OthersKept(c)
    BY <1>1, <1>2, <2>1 DEF OwnTypeOK, OthersKept, Stages
  <2>5. /\ SlotsTyped' /\ SlotsInOrder' /\ ControlFinishesFirst' /\ OthersStay(c)
        /\ Queued(c)' /\ (CarriedOut(c)' <=> CarriedOut(c))
    BY <1>1, <2>1, <2>3, Enqueued
  <2>6. stage'[c] = "received"
    BY <1>2, <2>1 DEF OwnTypeOK
  <2>7. Placed(c)'
    BY <1>1, <2>1, <2>3, <2>5, <2>6 DEF Placed
  <2>8. Journals(c)'
    BY <1>1, <2>3, <2>6 DEF Journals
  <2>9. QED
    BY <1>1, <1>2, <1>3, <2>4, <2>5, <2>7, <2>8, Together DEF UnchangedRest
<1>6. QED
  BY <1>4, <1>5

LEMMA AnsweredKept ==
  ASSUME ProcInv, NEW c \in Commands, Confirm(c) \/ Unanswered(c)
  PROVE  ProcInv'
<1>1. /\ c \in posting /\ posting' = posting \ {c} /\ outcome' = outcome /\ UNCHANGED slots
      /\ step' = step /\ recovering' = recovering /\ cancelled' = cancelled
      /\ deferred' = deferred /\ applied' = applied /\ UnchangedRest
  BY DEF Confirm, Unanswered
<1>2. Placed(c) /\ Journals(c) /\ OwnTypeOK /\ phase = "running"
  BY <1>1, BusyIsRunning DEF ProcInv, ProcTypeOK, JournalTypeOK, OwnTypeOK
<1>3. /\ stage[c] = "finished" /\ stage'[c] \in {"finished", "confirmed"}
      /\ stage' = [stage EXCEPT ![c] = stage'[c]]
  BY <1>1, <1>2 DEF Confirm, Unanswered, Placed, OwnTypeOK
<1>4. recovering' \in SUBSET Commands /\ cancelled' \in SUBSET Commands
  BY <1>1 DEF ProcInv, ProcTypeOK
<1>5. OwnTypeOK' /\ OthersKept(c)
  <2>1. PICK t \in {"finished", "confirmed"} : stage' = [stage EXCEPT ![c] = t]
    BY <1>3
  <2>2. QED
    BY <1>1, <1>2, <2>1 DEF OwnTypeOK, OthersKept, Stages
<1>6. (CarriedOut(c)' <=> CarriedOut(c)) /\ (Queued(c)' <=> Queued(c))
  BY <1>1 DEF slots, CarriedOut, Queued
<1>7. Placed(c)'
  BY <1>1, <1>2, <1>3, <1>6 DEF Placed
<1>8. Journals(c)'
  BY <1>1, <1>2, <1>3 DEF Journals
<1>9. SlotsTyped' /\ SlotsInOrder' /\ ControlFinishesFirst' /\ OthersStay(c)
  BY <1>1 DEF slots, OthersStay, Queued, CarriedOut, ProcInv, ProcTypeOK, SlotsTyped,
              SlotsInOrder, ControlFinishesFirst
<1>10. QED
  BY <1>1, <1>2, <1>4, <1>5, <1>7, <1>8, <1>9, Together DEF UnchangedRest

----------------------------------------------------------------------------
(* A close, once acknowledged, fails the sends that wait behind it. *)

LEMMA AckedKept ==
  ASSUME ProcInv, NEW c \in Commands, Acked(c)
  PROVE  ProcInv'
<1>1. PICK closes \in BOOLEAN :
        closes = (outcome[c] = "delivered" /\ Kind[c] \in {"stop", "quiesce"})
  OBVIOUS
<1>2. PICK k \in Keys : k = Key(c)
  BY KeyInKeys
<1>3. PICK retired : retired = {d \in ToSet(pending[k]) : closes /\ d \in Earlier(c)}
  OBVIOUS
<1>4. /\ step[c] = "acking" /\ c \notin posting
      /\ step' = [step EXCEPT ![c] = IF closes THEN "closing" ELSE "done"]
      /\ cancelled' = cancelled \cup {d \in {active[k]} : closes /\ d \in Earlier(c)}
      /\ pending' = [pending EXCEPT ![k] = Without(pending[k], retired)]
      /\ stage' = [d \in Commands |-> IF d \in retired THEN "finished" ELSE stage[d]]
      /\ outcome' = [d \in Commands |-> IF d \in retired THEN "failed" ELSE outcome[d]]
      /\ posting' = posting \cup retired
      /\ active' = active /\ control' = control /\ recovering' = recovering
      /\ deferred' = deferred /\ applied' = applied /\ UnchangedRest
  BY <1>1, <1>2, <1>3 DEF Acked
<1>5. /\ pending[k] \in Seq(Commands) /\ IsInjective(pending[k])
      /\ \A d \in ToSet(pending[k]) : d \in Commands /\ Key(d) = k /\ Queued(d)
  BY QueueHolds
<1>6. /\ OwnTypeOK /\ phase = "running"
      /\ \A d \in Commands : Placed(d)
      /\ \A d \in Commands : Journals(d)
  BY <1>4, BusyIsRunning DEF ProcInv, ProcTypeOK, JournalTypeOK, OwnTypeOK
<1>7. \A d \in retired : d \in Commands /\ Queued(d) /\ Key(d) = k
  BY <1>3, <1>5
<1>8. \A d \in retired : /\ ~CarriedOut(d) /\ d \notin deferred /\ step[d] = "idle" /\ d # c
                         /\ stage[d] \in {"received", "started"}
  BY <1>4, <1>6, <1>7 DEF Placed
<1>9. PICK S : S = ToSet(pending[k]) \ retired
  OBVIOUS
<1>10. Once(Without(pending[k], retired), S, Commands) /\ \A d \in S : Key(d) = k
  BY <1>5, <1>9, OnceWithout
<1>11. /\ pending' \in [Keys -> Seq(Commands)]
       /\ \A j \in Keys : IsInjective(pending'[j]) /\ \A d \in ToSet(pending'[j]) : Key(d) = j
       /\ \A d \in Commands : Queued(d)' <=> (IF Key(d) = k THEN d \in S ELSE Queued(d))
  BY <1>4, <1>10, QueueReplaced
<1>12. SlotsInOrder'
  BY <1>4, <1>11 DEF ProcInv, SlotsInOrder
<1>13. /\ ProcTypeOK'
  <2>1. cancelled' \in SUBSET Commands
    <3>1. \A d \in Earlier(c) : d \in Commands
      BY DEF Earlier, Sends
    <3>2. QED
      BY <1>4, <3>1 DEF ProcInv, ProcTypeOK
  <2>2. /\ step' \in [Commands -> Steps] /\ stage' \in [Commands -> Stages]
        /\ outcome' \in [Commands -> Outcomes \cup {"none"}] /\ posting' \in SUBSET Commands
    BY <1>4, <1>6, <1>7 DEF OwnTypeOK, Steps, Stages, Outcomes
  <2>3. WireTypeOK'
    BY <1>4 DEF ProcInv, ProcTypeOK, WireTypeOK, UnchangedRest, wire
  <2>4. JournalTypeOK'
    BY <1>4, <2>2 DEF ProcInv, ProcTypeOK, JournalTypeOK, UnchangedRest
  <2>5. QED
    BY <1>4, <1>11, <2>1, <2>2, <2>3, <2>4 DEF ProcInv, ProcTypeOK, UnchangedRest
<1>14. ControlFinishesFirst'
  <2>1. SUFFICES ASSUME NEW j \in Keys, control[j] # None
                 PROVE  active[j] # None /\ step'[active[j]] = "waiting"
    BY <1>4 DEF ControlFinishesFirst
  <2>2. active[j] # None /\ step[active[j]] = "waiting" /\ active[j] \in Commands
    BY <2>1 DEF ProcInv, ControlFinishesFirst, ProcTypeOK
  <2>3. QED
    BY <1>4, <1>6, <2>2 DEF OwnTypeOK
<1>15. ASSUME NEW d \in Commands PROVE Placed(d)' /\ Journals(d)'
  <2>1. Placed(d) /\ Journals(d)
    BY <1>6
  <2>2. CarriedOut(d)' <=> CarriedOut(d)
    BY <1>4 DEF CarriedOut
  <2>3. applied'[d] = applied[d] /\ (d \in deferred' <=> d \in deferred)
    BY <1>4
  <2>4. CASE d \in retired
    <3>1. stage'[d] = "finished" /\ step'[d] = "idle" /\ d \in posting'
      BY <1>4, <1>6, <1>8, <2>4 DEF OwnTypeOK
    <3>2. ~Queued(d)'
      BY <1>7, <1>9, <1>11, <2>4
    <3>3. Placed(d)'
      BY <1>8, <2>2, <2>3, <2>4, <3>1, <3>2 DEF Placed
    <3>4. Journals(d)'
      BY <3>1 DEF Journals
    <3>5. QED
      BY <3>3, <3>4
  <2>5. CASE d \notin retired
    <3>1. stage'[d] = stage[d] /\ (d \in posting' <=> d \in posting)
      BY <1>4, <2>5
    <3>2. Queued(d)' <=> Queued(d)
      BY <1>9, <1>11, <2>5 DEF Queued
    <3>3. CASE d # c
      <4>1. step'[d] = step[d]
        BY <1>4, <1>6, <3>3 DEF OwnTypeOK
      <4>2. Placed(d)'
        BY <2>1, <2>2, <2>3, <3>1, <3>2, <4>1 DEF Placed
      <4>3. Journals(d)'
        BY <2>1, <2>3, <3>1, <4>1 DEF Journals
      <4>4. QED
        BY <4>2, <4>3
    <3>4. CASE d = c
      <4>1. step'[d] \in {"closing", "done"} /\ stage[d] \in {"finished", "confirmed"} /\ step[d] = "acking"
        BY <1>4, <1>6, <2>1, <3>4 DEF OwnTypeOK, Journals
      <4>2. Placed(d)'
        BY <2>1, <2>2, <2>3, <3>1, <3>2, <4>1 DEF Placed
      <4>3. Journals(d)'
        BY <2>1, <2>3, <3>1, <4>1 DEF Journals
      <4>4. QED
        BY <4>2, <4>3
    <3>5. QED
      BY <3>3, <3>4
  <2>6. QED
    BY <2>4, <2>5
<1>16. QuietUntilRecovered' /\ seq' = [d \in Commands |-> d]
  BY <1>4, <1>6 DEF ProcInv, QuietUntilRecovered, UnchangedRest, wire
<1>17. QED
  BY <1>12, <1>13, <1>14, <1>15, <1>16 DEF ProcInv

----------------------------------------------------------------------------
(* The process *)

LEMMA EmptySlots ==
  ASSUME NoSlots
  PROVE  /\ SlotsTyped /\ SlotsInOrder /\ ControlFinishesFirst
         /\ \A c \in Commands : ~Queued(c) /\ ~CarriedOut(c)
<1>1. <<>> \in Seq(Commands) /\ IsInjective(<<>>) /\ ToSet(<<>>) = {}
  BY OnceEmpty DEF Once
<1>2. /\ \A k \in Keys : pending[k] = <<>> /\ active[k] = None /\ control[k] = None
      /\ SlotsTyped
  BY <1>1 DEF NoSlots, SlotsTyped
<1>3. SlotsInOrder /\ ControlFinishesFirst
  BY <1>1, <1>2 DEF SlotsInOrder, ControlFinishesFirst
<1>4. \A c \in Commands : ~Queued(c) /\ ~CarriedOut(c)
  BY <1>1, <1>2, KeyInKeys, NoneIsNoCommand DEF Queued, CarriedOut
<1>5. QED
  BY <1>2, <1>3, <1>4

Quiet ==
  /\ WireTypeOK /\ JournalTypeOK /\ seq = [c \in Commands |-> c] /\ paused \in BOOLEAN
  /\ phase \in {"down", "up"} /\ NoSlots /\ step = [c \in Commands |-> "idle"]
  /\ recovering = {} /\ cancelled = {} /\ deferred = {} /\ posting = {}
  /\ \A c \in Commands : stage[c] \in {"none", "received"} => applied[c] = 0

(* A worker that holds nothing is in order, whatever its journal says.      *)
LEMMA QuietInv == Quiet => ProcInv
<1> SUFFICES ASSUME Quiet PROVE ProcInv
  OBVIOUS
<1> USE DEF Quiet
<1>1. /\ SlotsTyped /\ SlotsInOrder /\ ControlFinishesFirst
      /\ \A c \in Commands : ~Queued(c) /\ ~CarriedOut(c)
  BY EmptySlots
<1>2. ProcTypeOK
  BY <1>1 DEF ProcTypeOK, SlotsTyped, Steps
<1>3. \A c \in Commands : Placed(c)
  BY <1>1 DEF Placed
<1>4. \A c \in Commands : Journals(c)
  BY DEF Journals
<1>5. QuietUntilRecovered
  BY DEF QuietUntilRecovered
<1>6. QED
  BY <1>1, <1>2, <1>3, <1>4, <1>5 DEF ProcInv

LEMMA QuietNext == Quiet' => ProcInv'
BY QuietInv, PTL

LEMMA ProcInitInv == ProcInit => ProcInv
<1>1. SUFFICES ASSUME ProcInit PROVE ProcInv
  OBVIOUS
<1>2. /\ WireTypeOK /\ seq = [c \in Commands |-> c]
  BY <1>1, WireAssumption DEF ProcInit, Numbers, WireTypeOK, Commands
<1>3. JournalTypeOK /\ \A c \in Commands : stage[c] \in {"none", "received"} => applied[c] = 0
  BY <1>1, WireAssumption DEF ProcInit, WorkerInit, JournalInit, JournalTypeOK, Stages, EffectCap, Outcomes
<1>4. /\ NoSlots /\ step = [c \in Commands |-> "idle"] /\ phase \in {"down", "up"} /\ paused \in BOOLEAN
      /\ recovering = {} /\ cancelled = {} /\ deferred = {} /\ posting = {}
  BY <1>1 DEF ProcInit, WorkerInit
<1>5. QED
  BY <1>2, <1>3, <1>4, QuietInv DEF Quiet

LEMMA NotAppliedBefore ==
  ASSUME ProcInv
  PROVE  \A c \in Commands : stage[c] \in {"none", "received"} => applied[c] = 0
BY DEF ProcInv, Journals

LEMMA StartKept ==
  ASSUME ProcInv, Start
  PROVE  ProcInv'
<1>1. /\ phase = "down" /\ phase' = "up" /\ stage' \in Compacted
      /\ seq' = seq /\ generation' = generation /\ outcome' = outcome /\ released' = released
      /\ paused' = paused /\ pending' = pending /\ active' = active /\ control' = control
      /\ step' = step /\ recovering' = recovering /\ cancelled' = cancelled
      /\ deferred' = deferred /\ posting' = posting /\ applied' = applied
  BY DEF Start, wire, slots
<1>2. ProcTypeOK /\ JournalTypeOK /\ WireTypeOK
  BY DEF ProcInv, ProcTypeOK
<1>3. /\ stage' \in [Commands -> Stages]
      /\ \A c \in Commands : stage'[c] = stage[c] \/ (stage[c] = "confirmed" /\ stage'[c] = "dropped")
  BY <1>1, <1>2, CompactedOnlyDrops
<1>4. WireTypeOK' /\ JournalTypeOK'
  BY <1>1, <1>2, <1>3 DEF WireTypeOK, JournalTypeOK
<1>5. /\ NoSlots /\ step = [c \in Commands |-> "idle"]
      /\ recovering = {} /\ cancelled = {} /\ deferred = {} /\ posting = {}
  BY <1>1 DEF ProcInv, QuietUntilRecovered
<1>6. NoSlots'
  BY <1>1, <1>5 DEF NoSlots
<1>7. \A c \in Commands : stage'[c] \in {"none", "received"} => applied'[c] = 0
  BY <1>1, <1>3, NotAppliedBefore
<1>8. seq' = [c \in Commands |-> c] /\ paused' \in BOOLEAN
  BY <1>1, <1>2 DEF ProcInv, ProcTypeOK
<1>9. QED
  BY <1>1, <1>4, <1>5, <1>6, <1>7, <1>8, QuietNext DEF Quiet

LEMMA CrashKept ==
  ASSUME ProcInv, Crash
  PROVE  ProcInv'
<1>1. /\ phase' = "down" /\ paused' = FALSE /\ NoSlots' /\ step' = [c \in Commands |-> "idle"]
      /\ recovering' = {} /\ cancelled' = {} /\ deferred' = {} /\ posting' = {}
      /\ seq' = seq /\ generation' = generation /\ stage' = stage /\ outcome' = outcome
      /\ released' = released /\ applied' = applied
  BY DEF Crash, NoSlots, wire, journal
<1>2. WireTypeOK' /\ JournalTypeOK'
  BY <1>1 DEF ProcInv, ProcTypeOK, WireTypeOK, JournalTypeOK
<1>3. \A c \in Commands : stage'[c] \in {"none", "received"} => applied'[c] = 0
  BY <1>1, NotAppliedBefore
<1>4. seq' = [c \in Commands |-> c]
  BY <1>1 DEF ProcInv
<1>5. QED
  BY <1>1, <1>2, <1>3, <1>4, QuietNext DEF Quiet

(* What a step that leaves the commands alone keeps.                        *)
LEMMA CommandsKept ==
  ASSUME ProcInv, ProcTypeOK', seq' = seq, UNCHANGED <<slots, step, stage, applied, deferred>>,
         \A c \in Commands : c \in posting' => stage[c] = "finished",
         QuietUntilRecovered'
  PROVE  ProcInv'
<1>1. pending' = pending /\ active' = active /\ control' = control
  BY DEF slots
<1>2. SlotsInOrder' /\ ControlFinishesFirst'
  BY <1>1 DEF ProcInv, SlotsInOrder, ControlFinishesFirst
<1>3. ASSUME NEW c \in Commands PROVE Placed(c)' /\ Journals(c)'
  <2>1. (CarriedOut(c)' <=> CarriedOut(c)) /\ (Queued(c)' <=> Queued(c))
    BY <1>1 DEF CarriedOut, Queued
  <2>2. Placed(c) /\ Journals(c)
    BY DEF ProcInv
  <2>3. Placed(c)'
    BY <2>1, <2>2 DEF Placed
  <2>4. Journals(c)'
    BY <2>2 DEF Journals
  <2>5. QED
    BY <2>3, <2>4
<1>4. seq' = [c \in Commands |-> c]
  BY DEF ProcInv
<1>5. QED
  BY <1>2, <1>3, <1>4 DEF ProcInv

LEMMA UnconfirmedFinished ==
  ASSUME ProcInv
  PROVE  /\ Unconfirmed \in SUBSET Commands
         /\ \A c \in Commands : c \in posting \cup Unconfirmed => stage[c] = "finished"
BY DEF Unconfirmed, InStage, ProcInv, Placed

LEMMA PauseKept ==
  ASSUME ProcInv, Pause
  PROVE  ProcInv'
<1>1. /\ paused' = ~paused /\ seq' = seq /\ generation' = generation
      /\ UNCHANGED <<journal, applied, phase, slots, step, recovering, cancelled, deferred, posting>>
  BY DEF Pause, wire
<1>2. ProcTypeOK'
  BY <1>1 DEF ProcInv, ProcTypeOK, WireTypeOK, JournalTypeOK, journal, slots
<1>3. QuietUntilRecovered'
  BY <1>1 DEF ProcInv, QuietUntilRecovered, NoSlots, slots
<1>4. \A c \in Commands : c \in posting' => stage[c] = "finished"
  BY <1>1, UnconfirmedFinished
<1>5. QED
  BY <1>1, <1>2, <1>3, <1>4, CommandsKept DEF journal

LEMMA HeartbeatKept ==
  ASSUME ProcInv, NEW gens \in [Executions -> 0..MaxGen], Heartbeat(gens)
  PROVE  ProcInv'
<1>1. /\ seq' = seq /\ generation' = generation
      /\ released' = [e \in Executions |-> IF gens[e] > released[e] THEN gens[e] ELSE released[e]]
      /\ UNCHANGED <<stage, outcome, applied, phase, paused, slots, step, recovering,
                     cancelled, deferred, posting>>
  BY DEF Heartbeat, release, wire
<1>2. ProcTypeOK'
  <2>1. released' \in [Executions -> 0..MaxGen]
    BY <1>1 DEF ProcInv, ProcTypeOK, JournalTypeOK
  <2>2. QED
    BY <1>1, <2>1 DEF ProcInv, ProcTypeOK, WireTypeOK, JournalTypeOK, slots
<1>3. QuietUntilRecovered'
  BY <1>1 DEF ProcInv, QuietUntilRecovered, NoSlots, slots
<1>4. \A c \in Commands : c \in posting' => stage[c] = "finished"
  BY <1>1, UnconfirmedFinished
<1>5. QED
  BY <1>1, <1>2, <1>3, <1>4, CommandsKept

LEMMA ResendKept ==
  ASSUME ProcInv, ResendAcks \/ Recovered
  PROVE  ProcInv'
<1>1. /\ phase = "running" /\ posting' = posting \cup Unconfirmed
      /\ seq' = seq /\ generation' = generation /\ recovering' \in SUBSET Commands
      /\ UNCHANGED <<journal, applied, phase, paused, slots, step, cancelled, deferred>>
  <2>1. CASE ResendAcks
    BY <2>1 DEF ResendAcks, ProcInv, ProcTypeOK, wire
  <2>2. CASE Recovered
    BY <2>2 DEF Recovered, ProcInv, QuietUntilRecovered, wire
  <2>3. QED
    BY <2>1, <2>2
<1>2. ProcTypeOK'
  BY <1>1, UnconfirmedFinished DEF ProcInv, ProcTypeOK, WireTypeOK, JournalTypeOK, journal, slots
<1>3. QuietUntilRecovered'
  BY <1>1 DEF QuietUntilRecovered
<1>4. \A c \in Commands : c \in posting' => stage[c] = "finished"
  BY <1>1, UnconfirmedFinished
<1>5. QED
  BY <1>1, <1>2, <1>3, <1>4, CommandsKept DEF journal

(* What a restart interrupted is queued by the order it was received in.    *)
LEMMA RecoverKept ==
  ASSUME ProcInv, Recover
  PROVE  ProcInv'
<1>1. /\ phase = "up" /\ phase' = "running"
      /\ pending' = [k \in Keys |-> InReceiptOrder({c \in Interrupted : Key(c) = k})]
      /\ recovering' = Interrupted /\ posting' = posting \cup Unconfirmed
      /\ seq' = seq /\ generation' = generation /\ stage' = stage /\ outcome' = outcome
      /\ released' = released /\ paused' = paused /\ active' = active /\ control' = control
      /\ step' = step /\ cancelled' = cancelled /\ deferred' = deferred /\ applied' = applied
  BY DEF Recover, wire, journal
<1>2. /\ NoSlots /\ step = [c \in Commands |-> "idle"] /\ deferred = {} /\ posting = {}
  BY <1>1 DEF ProcInv, QuietUntilRecovered
<1>3. ASSUME NEW k \in Keys
      PROVE  Once(pending'[k], {c \in Interrupted : Key(c) = k}, Commands)
  <2>1. PICK S \in SUBSET Commands : S = {c \in Interrupted : Key(c) = k}
    BY DEF Interrupted, InStage
  <2>2. IsFiniteSet(S)
    <3>1. IsFiniteSet(1..NumCommands)
      BY WireAssumption, FS_Interval
    <3>2. QED
      BY <2>1, <3>1, FS_Subset DEF Commands
  <2>3. Sortable(S, seq)
    BY <2>2 DEF Sortable, ProcInv, Commands
  <2>4. Once(SortedBy(S, seq), S, Commands)
    BY <2>3, OnceSorted
  <2>5. QED
    BY <1>1, <2>1, <2>4 DEF InReceiptOrder
<1>4. /\ pending' \in [Keys -> Seq(Commands)]
      /\ \A k \in Keys : /\ IsInjective(pending'[k])
                         /\ ToSet(pending'[k]) = {c \in Interrupted : Key(c) = k}
  BY <1>1, <1>3 DEF Once
<1>5. \A k \in Keys : active[k] = None /\ control[k] = None
  BY <1>2 DEF NoSlots
<1>6. SlotsInOrder' /\ ControlFinishesFirst'
  BY <1>1, <1>4, <1>5 DEF SlotsInOrder, ControlFinishesFirst
<1>7. ProcTypeOK'
  <2>1. Interrupted \in SUBSET Commands
    BY DEF Interrupted, InStage
  <2>2. QED
    BY <1>1, <1>4, <2>1, UnconfirmedFinished DEF ProcInv, ProcTypeOK, WireTypeOK, JournalTypeOK
<1>8. ASSUME NEW c \in Commands PROVE Placed(c)' /\ Journals(c)'
  <2>1. Journals(c)
    BY DEF ProcInv
  <2>2. ~CarriedOut(c)'
    BY <1>1, <1>5, KeyInKeys, NoneIsNoCommand DEF CarriedOut
  <2>3. Queued(c)' => stage[c] \in {"received", "started"}
    BY <1>4, KeyInKeys DEF Queued, Interrupted, InStage
  <2>4. step'[c] = "idle" /\ c \notin deferred'
    BY <1>1, <1>2
  <2>5. Placed(c)'
    BY <1>1, <2>2, <2>3, <2>4, UnconfirmedFinished DEF Placed
  <2>6. Journals(c)'
    BY <1>1, <2>1 DEF Journals
  <2>7. QED
    BY <2>5, <2>6
<1>9. QuietUntilRecovered' /\ seq' = [c \in Commands |-> c]
  BY <1>1 DEF QuietUntilRecovered, ProcInv
<1>10. QED
  BY <1>6, <1>7, <1>8, <1>9 DEF ProcInv

LEMMA ProcStepInv ==
  ASSUME ProcInv, [ProcNext]_procVars
  PROVE  ProcInv'
<1>1. ASSUME NEW k \in Keys, Begin(k) \/ Pass(k) PROVE ProcInv'
  BY <1>1, BeginKept, PassKept
<1>2. ASSUME NEW k \in Keys, NEW c \in Commands, Free(k, c) PROVE ProcInv'
  BY <1>2, FreeKept
<1>3. ASSUME NEW c \in Commands, HandlerStep(c) PROVE ProcInv'
  BY <1>3, EndWaitKept, PrepareKept, ApplyKept, FinishKept, AckedKept, RetireDeferredKept, RetryKept
     DEF HandlerStep
<1>4. CASE Recovered \/ ResendAcks
  BY <1>4, ResendKept
<1>5. CASE WorkerStep
  BY <1>1, <1>2, <1>3, <1>4, <1>5 DEF WorkerStep
<1>6. CASE Start \/ Crash \/ Pause \/ Recover
  BY <1>6, StartKept, CrashKept, PauseKept, RecoverKept
<1>7. ASSUME NEW gens \in [Executions -> 0..MaxGen], Heartbeat(gens) PROVE ProcInv'
  BY <1>7, HeartbeatKept
<1>8. ASSUME NEW c \in Commands, Hand(c) \/ Confirm(c) \/ Unanswered(c) PROVE ProcInv'
  BY <1>8, HandKept, AnsweredKept
<1>9. CASE UNCHANGED procVars
  <2>1. /\ seq' = seq /\ UNCHANGED <<slots, step, stage, applied, deferred>> /\ posting' = posting
        /\ ProcTypeOK' /\ QuietUntilRecovered'
    BY <1>9 DEF procVars, slots, ProcInv, ProcTypeOK, WireTypeOK, JournalTypeOK,
                QuietUntilRecovered, NoSlots
  <2>2. QED
    BY <2>1, CommandsKept, UnconfirmedFinished
<1>10. QED
  BY <1>4, <1>5, <1>6, <1>7, <1>8, <1>9 DEF ProcNext

(* What a worker keeps, at every step.                                      *)
THEOREM ProcessorInvariant == ProcSpec => []ProcInv
BY ProcInitInv, ProcStepInv, PTL DEF ProcSpec

(* The worker's state is of its types.                                      *)
THEOREM ProcessorTyped == ProcSpec => []ProcTypeOK
<1>1. ProcInv => ProcTypeOK
  BY DEF ProcInv
<1>2. QED
  BY <1>1, ProcessorInvariant, PTL

(* While a control passes an idle wait, the one waiting does not go on.     *)
THEOREM ControlsFinishFirst == ProcSpec => []ControlFinishesFirst
<1>1. ProcInv => ControlFinishesFirst
  BY DEF ProcInv
<1>2. QED
  BY <1>1, ProcessorInvariant, PTL

(* A command is in one place of the processor at most, and one with an      *)
(* outcome is not carried out again.                                        *)
LEMMA PlacesCounted ==
  ASSUME ProcInv, NEW c \in Commands
  PROVE  /\ Places(c) \in {0, 1}
         /\ ~Queued(c) => (Places(c) = 1 <=> CarriedOut(c))
<1> DEFINE inQueue == {p \in Keys \X (1..NumCommands) :
                         p[2] \in DOMAIN pending[p[1]] /\ pending[p[1]][p[2]] = c}
           asActive == {k \in Keys : active[k] = c}
           asControl == {k \in Keys : control[k] = c}
<1>1. c # None /\ Key(c) \in Keys /\ Placed(c)
  BY NoneIsNoCommand, KeyInKeys DEF ProcInv
<1>2. asActive = IF active[Key(c)] = c THEN {Key(c)} ELSE {}
  BY <1>1 DEF ProcInv, SlotsInOrder
<1>3. asControl = IF control[Key(c)] = c THEN {Key(c)} ELSE {}
  BY <1>1 DEF ProcInv, SlotsInOrder
<1>4. \A p, q \in inQueue : p = q
  <2>1. TAKE p, q \in inQueue
  <2>2. /\ p[1] \in Keys /\ p[2] \in DOMAIN pending[p[1]] /\ pending[p[1]][p[2]] = c /\ p = <<p[1], p[2]>>
        /\ q[1] \in Keys /\ q[2] \in DOMAIN pending[q[1]] /\ pending[q[1]][q[2]] = c /\ q = <<q[1], q[2]>>
    OBVIOUS
  <2>3. c \in ToSet(pending[p[1]]) /\ c \in ToSet(pending[q[1]])
    BY <2>2 DEF ToSet
  <2>4. p[1] = Key(c) /\ q[1] = Key(c)
    BY <2>2, <2>3 DEF ProcInv, SlotsInOrder
  <2>5. p[2] = q[2]
    BY <1>1, <2>2, <2>4 DEF ProcInv, SlotsInOrder, IsInjective
  <2>6. QED
    BY <2>2, <2>4, <2>5
<1>5. inQueue # {} => Queued(c)
  <2>1. SUFFICES ASSUME NEW p \in inQueue PROVE Queued(c)
    OBVIOUS
  <2>2. p[1] \in Keys /\ p[2] \in DOMAIN pending[p[1]] /\ pending[p[1]][p[2]] = c
    OBVIOUS
  <2>3. c \in ToSet(pending[p[1]])
    BY <2>2 DEF ToSet
  <2>4. p[1] = Key(c)
    BY <2>2, <2>3 DEF ProcInv, SlotsInOrder
  <2>5. QED
    BY <2>3, <2>4 DEF Queued
<1>6. Cardinality(inQueue) = IF inQueue = {} THEN 0 ELSE 1
  BY <1>4, AtMostOneOf
<1>7. Cardinality(asActive) = IF active[Key(c)] = c THEN 1 ELSE 0
  BY <1>2, FS_EmptySet, FS_Singleton
<1>8. Cardinality(asControl) = IF control[Key(c)] = c THEN 1 ELSE 0
  BY <1>3, FS_EmptySet, FS_Singleton
<1>9. Places(c) = Cardinality(inQueue) + Cardinality(asActive) + Cardinality(asControl)
  BY DEF Places
<1>10. ~(active[Key(c)] = c /\ control[Key(c)] = c)
  BY <1>1 DEF ProcInv, SlotsInOrder
<1> HIDE DEF inQueue, asActive, asControl
<1>11. Queued(c) => ~CarriedOut(c)
  BY <1>1 DEF Placed
<1>12. QED
  BY <1>5, <1>6, <1>7, <1>8, <1>9, <1>10, <1>11 DEF CarriedOut

LEMMA InvInOnePlace == ProcInv => InOnePlace
<1>1. SUFFICES ASSUME ProcInv, NEW c \in Commands
               PROVE  /\ Places(c) <= 1
                      /\ c \in deferred => (Places(c) = 1 <=> step[c] = "done")
                      /\ stage[c] \in {"finished", "confirmed", "dropped"} =>
                           step[c] \in {"idle", "acking", "closing", "done"} /\ c \notin ToSet(pending[Key(c)])
  BY DEF InOnePlace
<1>2. Placed(c) /\ Journals(c) /\ step[c] \in Steps
  BY <1>1 DEF ProcInv, ProcTypeOK
<1>3. Places(c) \in {0, 1} /\ (~Queued(c) => (Places(c) = 1 <=> CarriedOut(c)))
  BY <1>1, PlacesCounted
<1>4. Places(c) <= 1
  BY <1>3
<1>5. ASSUME c \in deferred PROVE Places(c) = 1 <=> step[c] = "done"
  <2>1. ~Queued(c) /\ step[c] \in {"idle", "done"} /\ (CarriedOut(c) <=> step[c] # "idle")
    BY <1>2, <1>5 DEF Placed
  <2>2. QED
    BY <1>3, <2>1
<1>6. ASSUME stage[c] \in {"finished", "confirmed", "dropped"}
      PROVE  step[c] \in {"idle", "acking", "closing", "done"} /\ ~Queued(c)
  BY <1>2, <1>6 DEF Placed, Journals, Steps
<1>7. QED
  BY <1>4, <1>5, <1>6 DEF Queued

(* A command is in one queue, active or passing, and one whose outcome is    *)
(* journaled is queued nowhere.                                              *)
THEOREM ProcessorInOnePlace == ProcSpec => []InOnePlace
BY InvInOnePlace, ProcessorInvariant, PTL

----------------------------------------------------------------------------
(* Every step is one of the journal's, or leaves it alone *)

LEMMA SettleFinishes ==
  ASSUME JournalTypeOK, NEW c \in Commands, NEW s \in Outcomes, Settle(c, s),
         released' = released, applied' = applied,
         stage[c] \in {"received", "started"},
         s = "delivered" => SeemsApplied(c),
         s = "uncertain" => stage[c] = "started",
         s = "stale" => Fenced(c) \/ Kind[c] = "control"
  PROVE  JournalNext
<1>1. finished({c}, s)
  <2>1. {c} # {} /\ {c} \subseteq Interrupted
    BY DEF Interrupted, InStage
  <2>2. /\ stage' = [d \in Commands |-> IF d \in {c} THEN "finished" ELSE stage[d]]
        /\ outcome' = [d \in Commands |-> IF d \in {c} THEN s ELSE outcome[d]]
    BY DEF Settle, JournalTypeOK
  <2>3. QED
    BY <2>1, <2>2 DEF finished
<1>2. QED
  BY <1>1 DEF JournalNext

LEMMA MarkStartedStarts ==
  ASSUME JournalTypeOK, NEW c \in Commands, MarkStarted(c), released' = released, applied' = applied,
         stage[c] \in {"received", "started"}
  PROVE  [JournalNext]_journalVars
<1>1. CASE stage[c] = "received" /\ ~paused
  <2>1. started(c)
    BY <1>1 DEF MarkStarted, started
  <2>2. QED
    BY <2>1 DEF JournalNext
<1>2. CASE stage[c] = "started" \/ paused
  BY <1>2 DEF MarkStarted, Defer, JournalTypeOK, journalVars
<1>3. QED
  BY <1>1, <1>2

LEMMA HandleJournals ==
  ASSUME ProcInv, NEW c \in Commands, Queued(c), Handle(c), released' = released, applied' = applied
  PROVE  [JournalNext]_journalVars
<1>1. stage[c] \in {"received", "started"} /\ JournalTypeOK
  BY DEF ProcInv, Placed, ProcTypeOK
<1>2. CASE Settle(c, "uncertain") /\ stage[c] = "started"
  BY <1>1, <1>2, SettleFinishes DEF Outcomes
<1>3. CASE Settle(c, "stale") /\ Fenced(c)
  BY <1>1, <1>3, SettleFinishes DEF Outcomes
<1>4. CASE Settle(c, "failed")
  BY <1>1, <1>4, SettleFinishes DEF Outcomes
<1>5. CASE MarkStarted(c)
  BY <1>1, <1>5, MarkStartedStarts
<1>6. CASE Defer(c) \/ Await(c, "looking") \/ Await(c, "ready") \/ Await(c, "waiting")
  BY <1>6 DEF Defer, Await, journalVars
<1>7. QED
  BY <1>2, <1>3, <1>4, <1>5, <1>6 DEF Handle, Admit

LEMMA HandlerJournals ==
  ASSUME ProcInv, NEW c \in Commands, HandlerStep(c)
  PROVE  [JournalNext]_journalVars
<1>1. Placed(c) /\ Journals(c) /\ JournalTypeOK
  BY DEF ProcInv, ProcTypeOK
<1>2. CASE EndWait(c)
  <2>1. stage[c] \in {"received", "started"} /\ released' = released /\ applied' = applied
    BY <1>1, <1>2 DEF EndWait, Journals, UnchangedSlots, UnchangedRest
  <2>2. CASE Settle(c, "failed")
    BY <1>1, <2>1, <2>2, SettleFinishes DEF Outcomes
  <2>3. CASE Settle(c, "stale") /\ Fenced(c)
    BY <1>1, <2>1, <2>3, SettleFinishes DEF Outcomes
  <2>4. CASE MarkStarted(c)
    BY <1>1, <2>1, <2>4, MarkStartedStarts
  <2>5. CASE Await(c, "ready")
    BY <2>1, <2>5 DEF Await, journalVars
  <2>6. QED
    BY <1>2, <2>2, <2>3, <2>4, <2>5 DEF EndWait
<1>3. CASE Prepare(c)
  <2>1. stage[c] \in {"received", "started"} /\ released' = released /\ applied' = applied
    BY <1>1, <1>3 DEF Prepare, Journals, UnchangedSlots, UnchangedRest
  <2>2. CASE Settle(c, "failed")
    BY <1>1, <2>1, <2>2, SettleFinishes DEF Outcomes
  <2>3. CASE MarkStarted(c)
    BY <1>1, <2>1, <2>3, MarkStartedStarts
  <2>4. CASE Defer(c)
    BY <2>1, <2>4 DEF Defer, journalVars
  <2>5. QED
    BY <1>3, <2>2, <2>3, <2>4 DEF Prepare
<1>4. CASE Apply(c)
  <2>1. Effect(c)
    BY <1>1, <1>4 DEF Apply, Await, Effect, Journals, UnchangedRest
  <2>2. QED
    BY <2>1 DEF JournalNext
<1>5. CASE Finish(c) \/ Look(c)
  <2>1. stage[c] = "started" /\ released' = released /\ applied' = applied
    BY <1>1, <1>5 DEF Finish, Look, Journals, UnchangedSlots, UnchangedRest
  <2>2. step[c] = "applied" => SeemsApplied(c)
    BY <1>1 DEF Journals, SeemsApplied
  <2>3. CASE Settle(c, "delivered") /\ SeemsApplied(c)
    BY <1>1, <2>1, <2>3, SettleFinishes DEF Outcomes
  <2>4. CASE Settle(c, "failed") \/ Settle(c, "uncertain")
    BY <1>1, <2>1, <2>4, SettleFinishes DEF Outcomes
  <2>5. CASE Settle(c, "stale") /\ Kind[c] = "control"
    BY <1>1, <2>1, <2>5, SettleFinishes DEF Outcomes
  <2>6. QED
    BY <1>5, <2>2, <2>3, <2>4, <2>5 DEF Finish, Look
<1>6. CASE Acked(c)
  <2>1. PICK closes \in BOOLEAN :
          closes = (outcome[c] = "delivered" /\ Kind[c] \in {"stop", "quiesce"})
    OBVIOUS
  <2>2. PICK retired : retired = {d \in ToSet(pending[Key(c)]) : closes /\ d \in Earlier(c)}
    OBVIOUS
  <2>3. /\ stage' = [d \in Commands |-> IF d \in retired THEN "finished" ELSE stage[d]]
        /\ outcome' = [d \in Commands |-> IF d \in retired THEN "failed" ELSE outcome[d]]
        /\ released' = released /\ applied' = applied
    BY <1>6, <2>1, <2>2 DEF Acked, UnchangedRest
  <2>4. \A d \in retired : d \in Commands /\ Queued(d)
    BY <2>2, QueueHolds, KeyInKeys
  <2>5. \A d \in retired : d \in Commands /\ stage[d] \in {"received", "started"}
    BY <2>4 DEF ProcInv, Placed
  <2>6. CASE retired = {}
    BY <1>1, <2>3, <2>6 DEF JournalTypeOK, journalVars
  <2>7. CASE retired # {}
    <3>1. retired \in SUBSET Commands /\ retired \subseteq Interrupted
      BY <2>5 DEF Interrupted, InStage
    <3>2. finished(retired, "failed")
      BY <2>3, <2>7, <3>1 DEF finished
    <3>3. QED
      BY <3>1, <3>2 DEF JournalNext, Outcomes
  <2>8. QED
    BY <2>6, <2>7
<1>7. CASE RetireDeferred(c)
  <2>1. released' = released /\ applied' = applied
    BY <1>7 DEF RetireDeferred, UnchangedSlots, UnchangedRest
  <2>2. CASE Await(c, "done")
    BY <2>1, <2>2 DEF Await, journalVars
  <2>3. CASE \E d \in deferred : /\ stage' = [stage EXCEPT ![d] = "finished"]
                                 /\ outcome' = [outcome EXCEPT ![d] = "failed"]
    <3>1. PICK d \in deferred : /\ stage' = [stage EXCEPT ![d] = "finished"]
                                /\ outcome' = [outcome EXCEPT ![d] = "failed"]
      BY <2>3
    <3>2. d \in Commands /\ stage[d] \in {"received", "started"}
      BY DEF ProcInv, ProcTypeOK, Placed
    <3>3. {d} \in SUBSET Commands /\ {d} # {} /\ {d} \subseteq Interrupted
      BY <3>2 DEF Interrupted, InStage
    <3>4. /\ stage' = [x \in Commands |-> IF x \in {d} THEN "finished" ELSE stage[x]]
          /\ outcome' = [x \in Commands |-> IF x \in {d} THEN "failed" ELSE outcome[x]]
      BY <1>1, <3>1 DEF JournalTypeOK
    <3>5. finished({d}, "failed")
      BY <2>1, <3>3, <3>4 DEF finished
    <3>6. QED
      BY <3>3, <3>5 DEF JournalNext, Outcomes
  <2>4. QED
    BY <1>7, <2>2, <2>3 DEF RetireDeferred
<1>8. CASE Retry(c)
  BY <1>8 DEF Retry, UnchangedRest, journalVars
<1>9. QED
  BY <1>2, <1>3, <1>4, <1>5, <1>6, <1>7, <1>8 DEF HandlerStep

LEMMA StepJournals ==
  ASSUME ProcInv, [ProcNext]_procVars
  PROVE  [JournalNext]_journalVars
<1>1. ASSUME NEW k \in Keys, Begin(k) PROVE [JournalNext]_journalVars
  <2>1. /\ pending[k] # <<>> /\ Handle(Head(pending[k])) /\ released' = released /\ applied' = applied
    BY <1>1 DEF Begin, UnchangedRest
  <2>2. Head(pending[k]) \in Commands /\ Queued(Head(pending[k]))
    BY <2>1, QueueHolds, OnceHead
  <2>3. QED
    BY <2>1, <2>2, HandleJournals
<1>2. ASSUME NEW k \in Keys, Pass(k) PROVE [JournalNext]_journalVars
  <2>1. PICK i \in DOMAIN pending[k] : Handle(pending[k][i])
    BY <1>2 DEF Pass
  <2>2. released' = released /\ applied' = applied
    BY <1>2 DEF Pass, UnchangedRest
  <2>3. pending[k][i] \in Commands /\ Queued(pending[k][i])
    BY QueueHolds, OnceAt
  <2>4. QED
    BY <2>1, <2>2, <2>3, HandleJournals
<1>3. ASSUME NEW k \in Keys, NEW c \in Commands, Free(k, c) PROVE [JournalNext]_journalVars
  BY <1>3 DEF Free, journal, journalVars
<1>4. ASSUME NEW c \in Commands, HandlerStep(c) PROVE [JournalNext]_journalVars
  BY <1>4, HandlerJournals
<1>5. CASE Recovered \/ ResendAcks \/ Recover \/ Crash \/ Pause
  BY <1>5 DEF Recovered, ResendAcks, Recover, Crash, Pause, journal, journalVars
<1>6. CASE Start
  <2>1. compact
    BY <1>6 DEF Start, compact
  <2>2. QED
    BY <2>1 DEF JournalNext
<1>7. ASSUME NEW gens \in [Executions -> 0..MaxGen], Heartbeat(gens) PROVE [JournalNext]_journalVars
  BY <1>7 DEF Heartbeat, JournalNext
<1>8. ASSUME NEW c \in Commands, Hand(c) PROVE [JournalNext]_journalVars
  <2>1. CASE c \in Journaled
    BY <1>8, <2>1 DEF Hand, Receive, journalVars
  <2>2. CASE c \notin Journaled
    <3>1. received(c)
      BY <1>8, <2>2 DEF Hand, Receive, Journaled, InStage, received
    <3>2. QED
      BY <3>1 DEF JournalNext
  <2>3. QED
    BY <2>1, <2>2
<1>9. ASSUME NEW c \in Commands, Confirm(c) PROVE [JournalNext]_journalVars
  <2>1. stage[c] = "finished"
    BY <1>9 DEF Confirm, ProcInv, Placed
  <2>2. confirmed(c)
    BY <1>9, <2>1 DEF Confirm, confirmed, UnchangedRest
  <2>3. QED
    BY <2>2 DEF JournalNext
<1>10. ASSUME NEW c \in Commands, Unanswered(c) PROVE [JournalNext]_journalVars
  BY <1>10 DEF Unanswered, UnchangedRest, journalVars
<1>11. CASE UNCHANGED procVars
  BY <1>11 DEF procVars, journalVars
<1>12. QED
  BY <1>1, <1>2, <1>3, <1>4, <1>5, <1>6, <1>7, <1>8, <1>9, <1>10, <1>11 DEF ProcNext, WorkerStep

LEMMA WireConstant == [ProcNext]_procVars => UNCHANGED <<seq, generation>>
<1>1. SUFFICES ASSUME [ProcNext]_procVars PROVE UNCHANGED <<seq, generation>>
  OBVIOUS
<1>2. ASSUME WorkerStep PROVE UNCHANGED <<seq, generation>>
  BY <1>2 DEF WorkerStep, HandlerStep, Begin, Pass, Free, EndWait, Prepare, Apply, Finish, Look,
              Acked, RetireDeferred, Retry, Recovered, UnchangedSlots, UnchangedRest, wire
<1>3. ASSUME Start \/ Crash \/ Pause \/ Recover \/ ResendAcks PROVE UNCHANGED <<seq, generation>>
  BY <1>3 DEF Start, Crash, Pause, Recover, ResendAcks, wire
<1>4. ASSUME NEW gens, Heartbeat(gens) PROVE UNCHANGED <<seq, generation>>
  BY <1>4 DEF Heartbeat, wire
<1>5. ASSUME NEW c \in Commands, Hand(c) \/ Confirm(c) \/ Unanswered(c)
      PROVE  UNCHANGED <<seq, generation>>
  BY <1>5 DEF Hand, Receive, Confirm, Unanswered, UnchangedRest, wire
<1>6. QED
  BY <1>1, <1>2, <1>3, <1>4, <1>5 DEF ProcNext, procVars

(* A worker keeps its journal as JournalSpec says: each of its steps is one *)
(* of the journal's or leaves it as it is.                                  *)
THEOREM ProcessorKeepsJournal == ProcSpec => JournalSpec
<1>1. ProcInit => JournalInit
  BY DEF ProcInit, WorkerInit
<1>2. ProcInv /\ [ProcNext]_procVars => [JournalNext]_journalVars
  BY StepJournals
<1>3. QED
  BY <1>1, <1>2, ProcessorInvariant, PTL DEF ProcSpec, JournalSpec

(* A message goes in, and a project script runs, at most once.              *)
THEOREM ProcessorAppliesOnce == ProcSpec => []AtMostOnce
BY ProcessorKeepsJournal, JournalAppliesOnce, PTL

(* What is reported delivered had its effect, when no two messages read     *)
(* alike.                                                                   *)
THEOREM ProcessorDeliversWhatItApplied ==
  ASSUME Resembles = {}
  PROVE  ProcSpec => []DeliveredWasApplied
<1>1. JournalSpec => []DeliveredWasApplied
  BY JournalDeliveredWasApplied
<1>2. QED
  BY <1>1, ProcessorKeepsJournal, PTL

(* The journal of a worker goes forward.                                    *)
THEOREM ProcessorGoesForward == ProcSpec => JournalGoesForward
BY ProcessorKeepsJournal, JournalForward, PTL

(* What would be refused as for an earlier placement is refused from then   *)
(* on.                                                                      *)
THEOREM ProcessorFenceHolds == ProcSpec => FenceHolds
<1>1. ProcInit => JournalInit /\ WireTypeOK
  BY ProcInitInv DEF ProcInit, WorkerInit, ProcInv, ProcTypeOK
<1>2. ProcInv /\ [ProcNext]_procVars => [JournalNext /\ UNCHANGED wire]_<<journalVars, wire>>
  BY StepJournals, WireConstant DEF wire
<1>3. QED
  BY <1>1, <1>2, ProcessorInvariant, JournalFenceHolds, PTL DEF ProcSpec

===============================================================================
