------------------------------- MODULE Transfer -------------------------------
(***************************************************************************)
(* One execution moving between devices (lib/transfer/continue.ts), the    *)
(* boundary its messages and changes pass (lib/transfer/moving.ts and      *)
(* lib/executor/adapter.ts), and the messages a move holds, delivered in   *)
(* order where the work ends up. Steps time out, sends fail, the home      *)
(* restarts at any step, and the person resumes, finishes or tries again.  *)
(***************************************************************************)
EXTENDS Integers, Sequences, FiniteSets, SequencesExt

CONSTANTS
  Devices,       \* the devices the agent is set up on
  Home,          \* the home's own, where messages go straight to a harness
  NumMessages,   \* how many messages are sent; one is named by its place
  OneAtATime,    \* whether a harness here takes the next message only after a turn
  MaxTransfers,  \* bound on the moves started
  MaxRestarts    \* bound on how often the home restarts

Messages == 1..NumMessages

ASSUME TransferAssumption ==
  /\ NumMessages \in Nat /\ MaxTransfers \in Nat /\ MaxRestarts \in Nat
  /\ OneAtATime \in BOOLEAN

VARIABLES
  placement,  \* [device, gen]: the open placement
  transfers,  \* the execution_transfers rows, oldest first
  step,       \* what runTransfer awaits: "none", "draining", "stopping", "saving",
              \* "setting_up", or "continuing" while it delivers what was held
  phase,      \* deliverHeld, of the latest transfer: "off", "next" message, "waiting"
              \* for another attempt at it, "trying" it, "accepted"
  kicked,     \* a continueHeldDelivery is on its way
  attempt,    \* the dispatch that reserved a message
  log,        \* what harnesses and queues were given, in order
  said,       \* how many messages were sent
  answered,   \* those with a turn's end or a refusal after them
  changes,    \* changes to the execution admitted and under way
  restarts,   \* how often the home restarted
  ahead,      \* ghost: what was held when a message was sent
  heldEver    \* ghost: the messages any transfer held

moves == <<placement, transfers, step>>
delivery == <<phase, kicked>>
sends == <<attempt, log, said, answered>>
ghosts == <<ahead, heldEver>>
vars == <<moves, delivery, sends, changes, restarts, ghosts>>

----------------------------------------------------------------------------
(* Rows and what they imply *)

latest == Len(transfers)
Latest == transfers[latest]
Held == IF latest = 0 THEN <<>> ELSE Latest.held
Is(states) == latest # 0 /\ Latest.state \in states
Settled == Is({"cancelled", "succeeded"})

(* Mutant: an attempt that stopped is forgotten.                            *)
TargetNext(n) == transfers[n].fromGen + 1

(* One past the source's, and past every earlier attempt from it.           *)
Target(n) ==
  LET earlier == {k \in 1..n - 1 : transfers[k].fromGen = transfers[n].fromGen}
  IN  transfers[n].fromGen + 1 + Cardinality(earlier)

(* A move under way whose source still has the work.                        *)
Moving == Is({"active"}) /\ Latest.toGen = 0

(* Mutant: nothing waits behind messages still going out.                   *)
HoldingUnlessSettled == Moving \/ Is({"failed"})

(* New messages wait while it moves, while a move that stopped waits for a  *)
(* decision, and behind messages still going out.                           *)
Holding == Moving \/ Is({"failed"}) \/ Held # <<>>

None == [stage |-> "none", by |-> "user", at |-> placement]
Reserved(by) == [stage |-> "building", by |-> by, at |-> placement]

IsAt(m, stages) == attempt[m].stage \in stages

(* The move stops where it is, and says why.                                *)
Failed == [transfers EXCEPT ![latest].state = "failed", ![latest].error = TRUE]

(* A row of the command table carries it: getSendForEvent.                  *)
InQueue(m) == \E i \in DOMAIN log : log[i].msg = m /\ log[i].device # Home

Init ==
  /\ placement \in [device : Devices, gen : {1}] /\ transfers = <<>> /\ step = "none"
  /\ phase = "off" /\ kicked = FALSE
  /\ attempt = [m \in Messages |-> [stage |-> "none", by |-> "user", at |-> placement]]
  /\ log = <<>> /\ said = 0 /\ answered = {}
  /\ changes = 0 /\ restarts = 0
  /\ ahead = [m \in Messages |-> {}] /\ heldEver = {}

----------------------------------------------------------------------------
(* Messages *)

(* It joins the line, once; a delivery of a settled move is woken for it.   *)
Hold(m) ==
  /\ transfers' = [transfers EXCEPT ![latest].held = IF m \in ToSet(@) THEN @ ELSE Append(@, m)]
  /\ heldEver' = heldEver \cup {m}
  /\ kicked' = (kicked \/ Settled)
  /\ UNCHANGED <<placement, step>>

(* The dispatch of a message starts: its reservation, unless the queue of a *)
(* connected device has it.                                                 *)
Begun(m, by) == IF placement.device # Home /\ InQueue(m) THEN None ELSE Reserved(by)

(* dispatch, of a message just sent, or of the newest one again because     *)
(* nothing came after it and its harness isn't known to be at work.         *)
Dispatch(m) ==
  /\ \/ m = said + 1
     \/ m = said /\ m \notin answered /\ ~(IsAt(m, {"turn"}) /\ attempt[m].at.device = Home)
  /\ said' = m
  /\ ahead' = [ahead EXCEPT ![m] = IF m > said THEN ToSet(Held) ELSE @]
  /\ IF Holding
     THEN Hold(m) /\ UNCHANGED attempt
     ELSE /\ attempt' = [attempt EXCEPT ![m] = IF @.stage = "none" THEN Begun(m, "user") ELSE @]
          /\ UNCHANGED <<moves, kicked, heldEver>>
  /\ UNCHANGED <<phase, log, answered, changes, restarts>>

(* Whoever waits for this attempt starts over, goes on, or fails with it.   *)
Wake(m, next) == IF phase = "waiting" /\ Head(Held) = m THEN next ELSE phase

(* The send boundary. A move holds the message, but for its own delivery;   *)
(* work that changed hands starts it over; else it is counted as sending.   *)
Boundary(m) ==
  /\ IsAt(m, {"building"})
  /\ IF Holding /\ attempt[m].by = "user"
     THEN /\ Hold(m)
          /\ attempt' = [attempt EXCEPT ![m] = None]
          /\ phase' = Wake(m, "next")
     ELSE /\ attempt' = [attempt EXCEPT ![m] =
               IF @.at = placement THEN [@ EXCEPT !.stage = "sending"] ELSE Begun(m, @.by)]
          /\ UNCHANGED <<moves, delivery, heldEver>>
  /\ UNCHANGED <<log, said, answered, changes, restarts, ahead>>

(* The device's queue has it, which takes a message once, or the harness    *)
(* here, whose turn begins.                                                 *)
Sent(m) ==
  /\ IsAt(m, {"sending"})
  /\ LET a == attempt[m] IN
       /\ a.at.device # Home => ~InQueue(m)
       /\ log' = Append(log, [msg |-> m, device |-> a.at.device, gen |-> a.at.gen])
       /\ phase' = IF a.by = "user" THEN Wake(m, "accepted")
                   ELSE IF OneAtATime /\ a.at.device = Home THEN phase ELSE "accepted"
  /\ attempt' = [attempt EXCEPT ![m].stage = "turn"]
  /\ UNCHANGED <<moves, kicked, said, answered, changes, restarts, ghosts>>

(* Refused or failed before anything took it. A delivery stops there.       *)
SendFails(m) ==
  /\ IsAt(m, {"building", "sending"})
  /\ LET stops == attempt[m].by = "delivery" \/ (phase = "waiting" /\ Head(Held) = m) IN
       /\ phase' = IF stops THEN "off" ELSE phase
       /\ transfers' = IF stops THEN [transfers EXCEPT ![latest].error = TRUE] ELSE transfers
  /\ attempt' = [attempt EXCEPT ![m] = None]
  /\ answered' = answered \cup {m}
  /\ UNCHANGED <<placement, step, kicked, log, said, changes, restarts, ghosts>>

(* Its turn ends, and the dispatch with it.                                 *)
TurnOver(m) ==
  /\ IsAt(m, {"turn"})
  /\ phase' = IF attempt[m].by = "delivery" /\ phase = "trying" /\ Head(Held) = m
              THEN "accepted" ELSE phase
  /\ attempt' = [attempt EXCEPT ![m] = None]
  /\ answered' = answered \cup {m}
  /\ UNCHANGED <<moves, kicked, log, said, changes, restarts, ghosts>>

----------------------------------------------------------------------------
(* deliverHeld *)

(* The first in line: accepted already by another path, waited for, or      *)
(* dispatched.                                                              *)
DeliverNext ==
  /\ phase = "next"
  /\ IF Held = <<>> THEN phase' = "off" /\ UNCHANGED attempt
     ELSE LET m == Head(Held)
              queued == IsAt(m, {"none"}) /\ placement.device # Home /\ InQueue(m) IN
          \/ (queued \/ IsAt(m, {"turn"})) /\ phase' = "accepted" /\ UNCHANGED attempt
          \/ IsAt(m, {"building", "sending"}) /\ phase' = "waiting" /\ UNCHANGED attempt
          \/ /\ IsAt(m, {"none"}) /\ ~queued /\ phase' = "trying"
             /\ attempt' = [attempt EXCEPT ![m] = Reserved("delivery")]
  /\ UNCHANGED <<moves, kicked, log, said, answered, changes, restarts, ghosts>>

(* Only what was accepted is taken off the line.                            *)
Take ==
  /\ phase = "accepted"
  /\ phase' = "next" /\ transfers' = [transfers EXCEPT ![latest].held = Tail(Held)]
  /\ UNCHANGED <<placement, step, kicked, sends, changes, restarts, ghosts>>

(* continueHeldDelivery, on its way since a message joined the line.        *)
Continue ==
  /\ kicked /\ kicked' = FALSE
  /\ phase' = IF Settled /\ Held # <<>> /\ ~Latest.error /\ phase = "off" THEN "next" ELSE phase
  /\ UNCHANGED <<moves, sends, changes, restarts, ghosts>>

----------------------------------------------------------------------------
(* A move *)

(* Mutant: a change under way is no reason to wait.                         *)
FreeOfMoves == phase = "off" /\ ~Is({"active"})

(* Not under a change, nor a move, nor while held messages go out.          *)
Free == phase = "off" /\ changes = 0 /\ ~Is({"active"})

(* Mutant: a move that stopped is left for a decision.                      *)
SupersededLater == transfers

(* A move that stopped is superseded, and what the latest held goes on with *)
(* the next.                                                                *)
Superseded ==
  [n \in DOMAIN transfers |->
     IF n < latest THEN transfers[n]
     ELSE [transfers[n] EXCEPT !.held = <<>>, !.state = IF @ = "failed" THEN "cancelled" ELSE @]]

(* Mutant: nothing comes along.                                             *)
RowEmpty(to) ==
  [from |-> placement.device, fromGen |-> placement.gen, to |-> to, toGen |-> 0,
   state |-> "active", held |-> <<>>, error |-> FALSE, stopped |-> FALSE]

Row(to) ==
  [from |-> placement.device, fromGen |-> placement.gen, to |-> to, toGen |-> 0,
   state |-> "active", held |-> Held, error |-> FALSE, stopped |-> FALSE]

(* startTransfer, and the lock it takes with createTransfer.                *)
Start(to) ==
  /\ Free /\ to # placement.device /\ latest < MaxTransfers
  /\ transfers' = Append(Superseded, Row(to))
  /\ step' = "draining" /\ kicked' = FALSE
  /\ UNCHANGED <<placement, phase, sends, changes, restarts, ghosts>>

(* Mutant: the source is stopped with a message still on its way there.     *)
StopAtOnce ==
  /\ step = "draining" /\ step' = "stopping"
  /\ transfers' = [transfers EXCEPT ![latest].stopped = TRUE]
  /\ UNCHANGED <<placement, delivery, sends, changes, restarts, ghosts>>

(* Every message admitted before the move has reached the source, and its   *)
(* stop follows.                                                            *)
Drained ==
  /\ step = "draining" /\ \A m \in Messages : ~IsAt(m, {"sending"})
  /\ step' = "stopping" /\ transfers' = [transfers EXCEPT ![latest].stopped = TRUE]
  /\ UNCHANGED <<placement, delivery, sends, changes, restarts, ghosts>>

(* The quiesce was delivered, or every session here closed.                 *)
Stopped ==
  /\ step = "stopping"
  /\ \A m \in Messages : ~(IsAt(m, {"turn"}) /\ attempt[m].at.device = Home)
  /\ step' = "saving"
  /\ UNCHANGED <<placement, transfers, delivery, sends, changes, restarts, ghosts>>

Saved ==
  /\ step = "saving" /\ step' = "setting_up"
  /\ UNCHANGED <<placement, transfers, delivery, sends, changes, restarts, ghosts>>

(* The destination is prepared and owns the work: then what was held goes   *)
(* out there, unless recording it in the chat fails.                        *)
Arrive ==
  /\ step = "setting_up" /\ Moving /\ placement.gen = Latest.fromGen
  /\ placement' = [device |-> Latest.to, gen |-> Target(latest)]
  /\ \/ /\ step' = "continuing" /\ phase' = "next"
        /\ transfers' = [transfers EXCEPT ![latest].toGen = Target(latest)]
     \/ /\ step' = "none" /\ UNCHANGED phase
        /\ transfers' = [Failed EXCEPT ![latest].toGen = Target(latest)]
  /\ UNCHANGED <<kicked, sends, changes, restarts, ghosts>>

Succeed ==
  /\ step = "continuing" /\ phase = "off"
  /\ step' = "none" /\ kicked' = TRUE
  /\ transfers' = [transfers EXCEPT ![latest].state = "succeeded"]
  /\ UNCHANGED <<placement, phase, sends, changes, restarts, ghosts>>

(* A step fails or times out.                                               *)
StepFails ==
  /\ step \in {"draining", "stopping", "saving", "setting_up"}
  /\ step' = "none" /\ transfers' = Failed
  /\ UNCHANGED <<placement, delivery, sends, changes, restarts, ghosts>>

(* resumeOnSource, finishOnDestination *)
Settle ==
  /\ Is({"failed"})
  /\ transfers' = [transfers EXCEPT ![latest].error = FALSE,
       ![latest].state = IF Latest.toGen = 0 THEN "cancelled" ELSE "succeeded"]
  /\ phase' = "next"
  /\ UNCHANGED <<placement, step, kicked, sends, changes, restarts, ghosts>>

(* Send them again.                                                         *)
Retry ==
  /\ Settled /\ Held # <<>> /\ phase = "off"
  /\ transfers' = [transfers EXCEPT ![latest].error = FALSE] /\ phase' = "next"
  /\ UNCHANGED <<placement, step, kicked, sends, changes, restarts, ghosts>>

----------------------------------------------------------------------------

BeginChange ==
  /\ ~Moving /\ changes = 0 /\ changes' = 1
  /\ UNCHANGED <<moves, delivery, sends, restarts, ghosts>>

EndChange ==
  /\ changes > 0 /\ changes' = changes - 1
  /\ UNCHANGED <<moves, delivery, sends, restarts, ghosts>>

(* Mutant: a settled move's messages are not looked for.                    *)
RestartForgets ==
  /\ restarts < MaxRestarts /\ restarts' = restarts + 1
  /\ step' = "none" /\ phase' = "off" /\ kicked' = FALSE /\ changes' = 0
  /\ attempt' = [m \in Messages |-> None]
  /\ transfers' = IF Is({"active"}) THEN Failed ELSE transfers
  /\ UNCHANGED <<placement, log, said, answered, ghosts>>

(* The home restarts: a move under way stops where it was, a settled one    *)
(* goes on delivering.                                                      *)
Restart ==
  /\ restarts < MaxRestarts /\ restarts' = restarts + 1
  /\ step' = "none" /\ kicked' = FALSE /\ changes' = 0
  /\ attempt' = [m \in Messages |-> None]
  /\ IF Settled /\ Held # <<>>
     THEN transfers' = [transfers EXCEPT ![latest].error = FALSE] /\ phase' = "next"
     ELSE /\ phase' = "off"
          /\ transfers' = IF Is({"active"}) THEN Failed ELSE transfers
  /\ UNCHANGED <<placement, log, said, answered, ghosts>>

RunStep == Drained \/ Stopped \/ Saved \/ Arrive \/ Succeed \/ StepFails

Next ==
  \/ \E m \in Messages : Dispatch(m) \/ Boundary(m) \/ Sent(m) \/ SendFails(m) \/ TurnOver(m)
  \/ DeliverNext \/ Take \/ Continue
  \/ \E to \in Devices : Start(to)
  \/ RunStep \/ Settle \/ Retry
  \/ BeginChange \/ EndChange \/ Restart

Spec == Init /\ [][Next]_vars

(* Whatever the home's process awaits, something of it ends: a step of a    *)
(* move by its timeout at the latest, a dispatch by being accepted or by    *)
(* failing, and a turn at some time. Nothing is assumed of what people do.  *)
Awaited ==
  \/ RunStep \/ DeliverNext \/ Take
  \/ \E m \in Messages : Boundary(m) \/ Sent(m) \/ SendFails(m) \/ TurnOver(m)

Fairness == WF_vars(Awaited) /\ WF_vars(Continue)

LiveSpec == Spec /\ Fairness

----------------------------------------------------------------------------
(* Properties *)

Stages == {"none", "building", "sending", "turn"}

(* Types; only the latest transfer holds messages or is under way, and only *)
(* with one under way does a run of it await something.                     *)
TransferTypeOK ==
  /\ placement \in [device : Devices, gen : Nat \ {0}]
  /\ \A n \in DOMAIN transfers :
       /\ transfers[n].state \in {"active", "failed", "cancelled", "succeeded"}
       /\ transfers[n].held \in Seq(Messages)
       /\ n < latest => transfers[n].held = <<>> /\ transfers[n].state \notin {"active", "failed"}
  /\ step # "none" <=> Is({"active"})
  /\ phase \in {"off", "next", "waiting", "trying", "accepted"}
  /\ phase \in {"waiting", "trying", "accepted"} => Held # <<>>
  /\ \A m \in Messages : attempt[m].stage \in Stages /\ attempt[m].by \in {"user", "delivery"}
  /\ \A m \in Messages :
       attempt[m].by = "delivery" /\ IsAt(m, {"building", "sending"}) =>
         phase = "trying" /\ m = Head(Held)

(* A message a move held is held until a harness or a queue was given it:   *)
(* by no failure, restart, Resume or Try again, nor by another attempt at   *)
(* it, is it lost.                                                          *)
HeldNotLost ==
  \A m \in heldEver : m \in ToSet(Held) \/ \E i \in DOMAIN log : log[i].msg = m

(* Nothing overtakes a held message: what was sent while it was held is     *)
(* given to nobody before it.                                               *)
NothingOvertakes ==
  \A i \in DOMAIN log : \A m \in ahead[log[i].msg] : \E j \in 1..i - 1 : log[j].msg = m

(* No generation is prepared twice, whatever became of the move it was for, *)
(* and none is below the one the work has.                                  *)
GenerationsGrow ==
  /\ \A n, k \in DOMAIN transfers : k < n => Target(k) < Target(n)
  /\ \A n \in DOMAIN transfers : transfers[n].toGen \in {0, Target(n)}
  /\ Moving => placement.gen < Target(latest)

(* No change to the execution is under way while its source is stopped and  *)
(* saved.                                                                   *)
ChangesKeepOut == Moving => changes = 0

StoppedNow == Is({"active", "failed"}) /\ Latest.toGen = 0 /\ Latest.stopped

(* The moves, messages and stops implement MovingWork.                      *)
Work == INSTANCE MovingWork WITH owner <- placement, given <- log, stopped <- StoppedNow

WorkSpec == Work!Spec

(* Every move ends and what it held goes out, unless the person is asked to *)
(* decide: it stopped, or its delivery said why it stopped short.           *)
MovesSettle == []<>(~Is({"active"}) /\ (Held = <<>> \/ Is({"failed"}) \/ Latest.error))
===============================================================================
