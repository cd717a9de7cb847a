--------------------------- MODULE WorkerCommands ---------------------------
(***************************************************************************)
(* The home's command table and a worker's journal, joined by the device's *)
(* stream, acknowledgements and heartbeats (api/workers/me, lib/workers/   *)
(* stream-pump.ts and hub.ts, lib/worker/run.ts). Connections drop with    *)
(* what they carry, answers are lost, the worker restarts, its device is   *)
(* turned off and enrolled again, and executions move, at any step. An     *)
(* enrollment only revokes the earlier worker's key: that worker goes on   *)
(* until it is refused or its stream is cut off.                           *)
(***************************************************************************)
EXTENDS HomeCommands, CommandJournal, InOrder, Sequences, SequencesExt

VARIABLES
  link,      \* the worker's stream: "none", "open", "revoked" while it is still
             \* open but its key is not, or "closed" by the home
  checking,  \* a delivery pass awaits its check of the sends about to leave
  streamed,  \* the highest number this stream sent, or was opened after
  channel,   \* the commands on their way down it
  stuck,     \* commands a pause deferred at their recovery, not tried again
  ghost,     \* whether an earlier worker still reads a stream of its own
  elsewhere, \* effects made by workers of earlier enrollments
  overlapped \* what an earlier worker was sent after a newer enrollment, and made

linkVars == <<link, checking, streamed, channel, stuck>>
earlierVars == <<elsewhere, overlapped>>
streamVars == <<linkVars, ghost, earlierVars>>
vars == <<homeVars, journalVars, streamVars>>

UnchangedHome == UNCHANGED homeVars
UnchangedJournal == UNCHANGED journalVars
UnchangedStream == UNCHANGED streamVars
UnchangedEarlier == UNCHANGED earlierVars

StreamTypeOK ==
  /\ HomeTypeOK /\ JournalTypeOK
  /\ link \in {"none", "open", "revoked", "closed"}
  /\ checking \in BOOLEAN
  /\ streamed \in 0..NumCommands
  /\ channel \in Seq(Commands)
  /\ stuck \in SUBSET Commands
  /\ ghost \in BOOLEAN
  /\ elsewhere \in [Commands -> 0..EffectCap]
  /\ overlapped \in SUBSET Commands

StreamInit ==
  /\ HomeInit /\ JournalInit
  /\ link = "none" /\ checking = FALSE /\ streamed = 0 /\ channel = <<>>
  /\ stuck = {} /\ ghost = FALSE
  /\ elsewhere = [c \in Commands |-> 0] /\ overlapped = {}

(* The home runs its passes until it closes the stream, or a ping finds its *)
(* key revoked: an enrollment does not close it.                            *)
Streaming == link \in {"open", "revoked"}
Keyed == link # "revoked"

(* Whatever earlier workers have in hand they carry out, or not, at once:   *)
(* nobody hears of it, so when they do makes no difference.                 *)
MadeElsewhere(S) ==
  elsewhere' = [c \in Commands |->
                  IF c \in S THEN Counted(c, elsewhere[c] + 1) ELSE elsewhere[c]]

----------------------------------------------------------------------------
(* The home's side of the stream *)

(* It is opened after what the worker has received, and its first pass      *)
(* settles what is stale before it awaits its check.                        *)
Open ==
  /\ link = "none" /\ enrolled
  /\ link' = "open" /\ checking' = TRUE /\ streamed' = Cursor /\ channel' = <<>>
  /\ SettleStale
  /\ UNCHANGED <<stuck, ghost>> /\ UnchangedEarlier /\ UnchangedJournal

(* A wake, for a command queued or a ping: the next pass. *)
Wake ==
  /\ Streaming /\ ~checking
  /\ checking' = TRUE
  /\ SettleStale
  /\ UNCHANGED <<link, streamed, channel, stuck, ghost>>
  /\ UnchangedEarlier /\ UnchangedJournal

(* Mutant: only what was numbered just now is sent, and nothing again. *)
DeliverNewOnly ==
  /\ Streaming /\ checking
  /\ Number
  /\ LET out == {c \in InState({"queued"}) : state'[c] = "sent"} IN
       /\ channel' = channel \o SortedBy(out, seq')
       /\ streamed' = Max({streamed} \cup {seq'[c] : c \in out})
  /\ checking' = FALSE
  /\ UNCHANGED <<link, stuck, ghost>> /\ UnchangedEarlier /\ UnchangedJournal

(* Mutant: the stream's cursor is left one past what it sent. *)
DeliverPast ==
  /\ Streaming /\ checking
  /\ Number
  /\ LET out == {c \in Commands : state'[c] = "sent" /\ seq'[c] > streamed} IN
       /\ channel' = channel \o SortedBy(out, seq')
       /\ streamed' = Max({streamed} \cup {seq'[c] + 1 : c \in out})
  /\ checking' = FALSE
  /\ UNCHANGED <<link, stuck, ghost>> /\ UnchangedEarlier /\ UnchangedJournal

(* The check is over: what is queued is numbered, and all that is sent and  *)
(* unacknowledged past this stream's cursor goes down it.                   *)
Deliver ==
  /\ Streaming /\ checking
  /\ Number
  /\ LET out == {c \in Commands : state'[c] = "sent" /\ seq'[c] > streamed} IN
       /\ channel' = channel \o SortedBy(out, seq')
       /\ streamed' = Max({streamed} \cup {seq'[c] : c \in out})
  /\ checking' = FALSE
  /\ UNCHANGED <<link, stuck, ghost>> /\ UnchangedEarlier /\ UnchangedJournal

(* A stream the home has not noticed is gone still runs its passes: at any  *)
(* time, as far as the newer one can tell. Nobody reads it, unless it is of *)
(* an earlier worker's, until a ping finds its key revoked: that one may    *)
(* carry out what the newer worker is sent too.                             *)
GhostPass ==
  /\ Number
  /\ \E made \in SUBSET ({c \in OnceOnly : ghost /\ state'[c] = "sent"} \ overlapped) :
       /\ MadeElsewhere(made)
       /\ overlapped' = overlapped \cup made
  /\ UNCHANGED <<ghost, linkVars>> /\ UnchangedJournal

----------------------------------------------------------------------------
(* The worker's side *)

(* Mutant: a paused worker reads on past a command it does not take. *)
ReceiveSkips ==
  /\ channel # <<>>
  /\ channel' = Tail(channel)
  /\ \/ UnchangedJournal
     \/ /\ stage' = [stage EXCEPT ![Head(channel)] = "received"]
        /\ UNCHANGED <<outcome, released, applied>>
  /\ UNCHANGED <<link, checking, streamed, stuck, ghost>>
  /\ UnchangedEarlier /\ UnchangedHome

(* processor.receive, for the next command of the stream. *)
Receive ==
  /\ channel # <<>>
  /\ channel' = Tail(channel)
  /\ LET c == Head(channel) IN
       IF c \in Journaled THEN UnchangedJournal
       ELSE /\ stage' = [stage EXCEPT ![c] = "received"]
            /\ outcome' = [outcome EXCEPT ![c] = "none"]
            /\ UNCHANGED <<released, applied>>
  /\ UNCHANGED <<link, checking, streamed, stuck, ghost>>
  /\ UnchangedEarlier /\ UnchangedHome

(* What is said of a command that is carried out, save one left started and *)
(* deferred at its recovery: a timer runs only received ones again, and a   *)
(* command sent again is ignored.                                           *)
Work(c) ==
  /\ c \notin stuck
  /\ started(c) \/ Effect(c) \/ \E result \in Outcomes : finished({c}, result)
  /\ UnchangedHome /\ UnchangedStream

(* The connection is lost, with what was on its way. *)
Lose ==
  /\ link' = "none" /\ checking' = FALSE /\ streamed' = 0 /\ channel' = <<>>
  /\ UNCHANGED ghost /\ UnchangedEarlier

(* One whose key is revoked is not opened again: its worker ends with it.   *)
Drop ==
  /\ link # "none" /\ Keyed
  /\ Lose
  /\ UNCHANGED stuck /\ UnchangedHome /\ UnchangedJournal

(* The worker's process ends, if only because its key was refused, and      *)
(* another starts, with the newest key, compacting the journal. Recovering  *)
(* what was started and is safe to repeat asks to start it again, which an  *)
(* update's pause defers; a message or a script is not started again.       *)
Restarted ==
  /\ Lose
  /\ compact
  /\ stuck' \in SUBSET {c \in InStage({"started"}) \ OnceOnly : ~Fenced(c)}

Restart == Restarted /\ UnchangedHome

----------------------------------------------------------------------------
(* Requests the worker makes *)

(* Mutant: it is confirmed whether or not the home answered. *)
HomeAckUnread(c) ==
  /\ Keyed /\ stage[c] = "finished"
  /\ Ack(c, outcome[c]) \/ UnchangedHome
  /\ stage' = [stage EXCEPT ![c] = "confirmed"]
  /\ UNCHANGED <<outcome, released, applied>> /\ UnchangedStream

(* An acknowledgement reaches the home. Its answer may be lost. Under a     *)
(* revoked key it is refused, and the worker stops (Restart).               *)
HomeAck(c) ==
  /\ Keyed /\ stage[c] = "finished"
  /\ Ack(c, outcome[c])
  /\ stage' \in {stage, [stage EXCEPT ![c] = "confirmed"]}
  /\ UNCHANGED <<outcome, released, applied>> /\ UnchangedStream

(* A heartbeat reports the placements the journal shows, and is answered    *)
(* with those this device does not hold or prepare. A late answer releases  *)
(* the same generations, so asking and answering are one step.              *)
HeldAt(e) == {generation[c] : c \in {d \in Journaled : ExecOf[d] = e}}

(* Mutant: what an active transfer prepares is released too. *)
BeatIgnoresMoves ==
  /\ enrolled /\ Keyed
  /\ release([e \in Executions |->
       LET held == Max({0} \cup HeldAt(e)) IN
       IF placement[e] = [here |-> TRUE, gen |-> held] THEN 0 ELSE held])
  /\ UnchangedHome /\ UnchangedStream

Beat ==
  /\ enrolled /\ Keyed
  /\ release([e \in Executions |->
       LET held == Max({0} \cup HeldAt(e)) IN
       IF reserved[e] = held \/ placement[e] = [here |-> TRUE, gen |-> held] THEN 0 ELSE held])
  /\ UnchangedHome /\ UnchangedStream

(* A turn result, from a turn a send started. *)
Result(c) ==
  /\ Keyed /\ applied[c] > 0
  /\ TurnResult(c)
  /\ UnchangedJournal /\ UnchangedStream

----------------------------------------------------------------------------
(* Enrollment *)

(* Turned off: every stream is told so and closed. *)
TurnOff ==
  /\ Retire
  /\ link' = IF Streaming THEN "closed" ELSE link
  /\ checking' = FALSE
  /\ ghost' = FALSE
  /\ UNCHANGED <<streamed, channel, stuck>> /\ UnchangedEarlier /\ UnchangedJournal

(* Enrolled again on the same computer. A worker that has a stream keeps    *)
(* it, its journal and its old key; one that has none is refused as it next *)
(* asks, and is run again.                                                  *)
EnrollSame ==
  \/ /\ Streaming
     /\ link' = "revoked"
     /\ UNCHANGED <<checking, streamed, channel, stuck, ghost>>
     /\ UnchangedEarlier /\ UnchangedJournal
  \/ ~Streaming /\ Restarted

(* What a worker may yet carry out, of what is not safe to repeat: what it  *)
(* has begun, and what it reads.                                            *)
InHand ==
  {c \in OnceOnly : c \in Interrupted \cup (ToSet(channel) \ Journaled) /\ applied[c] = 0}

(* Enrolled on another, whose journal is new. The earlier worker goes on    *)
(* with what it has in hand, and reads its stream until that is cut off;    *)
(* what it says of either is refused.                                       *)
EnrollOther ==
  /\ stuck' = {}
  /\ link' = "none" /\ checking' = FALSE /\ streamed' = 0 /\ channel' = <<>>
  /\ ghost' = (ghost \/ Streaming)
  /\ stage' = [c \in Commands |-> "none"]
  /\ outcome' = [c \in Commands |-> "none"]
  /\ released' = [e \in Executions |-> 0]
  /\ applied' = [c \in Commands |-> 0]
  /\ \E made \in SUBSET InHand :
       elsewhere' = [c \in Commands |->
         Counted(c, elsewhere[c] + IF c \in made THEN 1 ELSE applied[c])]
  /\ UNCHANGED overlapped

EnrollAgain == Reenroll /\ (EnrollSame \/ EnrollOther)

HomeStep ==
  /\ Moves \/ \E c \in Commands : Queue(c) \/ Withdraw(c)
  /\ UnchangedJournal /\ UnchangedStream

Next ==
  \/ HomeStep
  \/ Open \/ Wake \/ Deliver \/ GhostPass
  \/ Receive \/ Drop \/ Restart \/ Beat
  \/ \E c \in Commands : Work(c) \/ HomeAck(c) \/ Result(c)
  \/ TurnOff \/ EnrollAgain

Spec == StreamInit /\ [][Next]_vars

(* What the rest relies on: the stream is opened again and woken (a ping at *)
(* least), it lasts now and then long enough to deliver and be read, a      *)
(* handler that is called returns, pauses end, an acknowledgement is        *)
(* answered now and then, and a worker whose key is revoked is run again.   *)
Fairness ==
  /\ WF_vars(Open) /\ WF_vars(Wake) /\ WF_vars(link = "closed" /\ Drop)
  /\ WF_vars(~Keyed /\ Restart)
  /\ SF_vars(Deliver) /\ SF_vars(Receive)
  /\ \A c \in Commands :
       /\ WF_vars((\E result \in Outcomes : finished({c}, result)) /\ Work(c))
       /\ SF_vars(HomeAck(c))

LiveSpec == Spec /\ Fairness

----------------------------------------------------------------------------
(* Properties *)

(* The stream is resumed after the journal's cursor, and what was sent up   *)
(* to there is never sent again: so none of it may be missing from the      *)
(* journal, whatever was lost, compacted or enrolled again in between.      *)
CursorSafe ==
  \A c \in InState({"sent"}) : seq[c] <= Cursor => c \in Journaled

(* A command the home holds as sent is in the journal, on its way down the  *)
(* live stream, or still ahead of that stream's cursor.                     *)
NothingSkipped ==
  Streaming => \A c \in InState({"sent"}) :
    c \in Journaled \/ c \in ToSet(channel) \/ seq[c] > streamed

(* A command whose acknowledgement the worker holds confirmed is not one    *)
(* the home would send again, so compaction may forget it: one forgotten is *)
(* on no stream, though one resent just before it was confirmed may be.     *)
ForgottenNeverResent ==
  /\ \A c \in InStage({"confirmed", "dropped"}) : state[c] \notin Unsettled
  /\ InStage({"dropped"}) \cap ToSet(channel) = {}

(* However often it is connected, restarted and enrolled, the device puts a *)
(* message in its harness, and runs a project script, at most once -- with  *)
(* a journal that knows nothing of what earlier ones did, and an earlier    *)
(* worker still carrying out what it had in hand. Excepted is what a stream *)
(* under a revoked key carried before a ping cut it off: an enrollment only *)
(* revokes the key, so that may be sent to the newer worker as well.        *)
Made(c) == applied[c] + elsewhere[c]

NeverTwice == \A c \in OnceOnly \ overlapped : Made(c) <= 1

(* What the home shows as delivered had its effect, and what it shows as    *)
(* withdrawn never left it.                                                 *)
ShownAsItWas ==
  \A c \in Commands :
    /\ state[c] = "delivered" => Made(c) > 0
    /\ state[c] = "cancelled" => Made(c) = 0 /\ stage[c] = "none"

(* No heartbeat's answer, however its placements were read, releases the    *)
(* generation this device holds or is preparing: the fence never closes on  *)
(* current work.                                                            *)
ReleasedNeverCurrent ==
  \A e \in Executions :
    /\ placement[e].here => released[e] < placement[e].gen
    /\ reserved[e] # 0 => released[e] < reserved[e]

(* A command sent does not stay unacknowledged: whatever is lost, it is     *)
(* sent again until it is settled -- unless a crash left it started and a   *)
(* pause deferred its recovery: it then waits for the next restart.         *)
SentIsSettled ==
  \A c \in Commands : (state[c] = "sent") ~> (state[c] # "sent" \/ c \in stuck)
===============================================================================
