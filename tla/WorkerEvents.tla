---------------------------- MODULE WorkerEvents ----------------------------
(***************************************************************************)
(* What a worker reports: its event journal (lib/worker/event-journal.ts), *)
(* the poster that sends it in batches (poster.ts), the turns whose        *)
(* results go through it (sink.ts, run.ts), and the home that takes each   *)
(* event once (api/workers/me/events, lib/executor/apply.ts). Posts time   *)
(* out and are still handled, a handler dies in the middle of a batch, the *)
(* worker crashes between any two writes, its journal is cleared, and the  *)
(* home is restored from an older backup.                                  *)
(***************************************************************************)
EXTENDS Integers, Sequences, FiniteSets, SequencesExt

CONSTANTS
  Turns,         \* the turns of sends this worker was given
  NoTurn,        \* what an event that is no turn's result has for one
  Batch,         \* how many events a post carries at most
  CompactAbove,  \* how many acknowledged events the file keeps
  MaxEvents,     \* bound on the events made, but for the results of turns
  MaxRestores,   \* bound on how often the home is restored
  MaxClears      \* bound on how often the journal is cleared

ASSUME EventsAssumption ==
  /\ NoTurn \notin Turns
  /\ Batch \in Nat \ {0} /\ CompactAbove \in Nat \ {0}
  /\ MaxEvents \in Nat /\ MaxRestores \in Nat /\ MaxClears \in Nat

(* An event is named by its place in the order they were made. Of what it   *)
(* carries only a turn's result matters here.                               *)
Text == [turn |-> NoTurn, ok |-> TRUE]
Result(t, ok) == [turn |-> t, ok |-> ok]

None == [state |-> "none"]

VARIABLES
  made,      \* the events made, in order
  file,      \* the journal on disk: [pos, id] of each event on it
  acked,     \* the acknowledged position, on disk and in memory
  last,      \* the last position given, in memory
  pending,   \* what is on file and not acknowledged, in memory
  up,        \* the worker's process: "down", "starting", or "ready" once recovered
  turn,      \* what the command journal says of a turn: "none", "open", "ended", or "lost" with it
  running,   \* the turns this process has under way
  cutOff,    \* the open turns found at the process's start and not yet reported
  hello,     \* the hello on its way down the stream, until it is read
  posting,   \* the post the poster awaits
  late,      \* a post it gave up on, still on its way
  home,      \* [acked, taken, run]: the position stored, the events, the runs
  backup,    \* the home as it was when last backed up
  excused,   \* ghost: events a restore undid or a clearing dropped
  restores,  \* how often the home was restored
  clears     \* how often the journal was cleared

journal == <<file, acked, last, pending>>
process == <<up, turn, running, cutOff>>
net == <<hello, posting, late>>
bounds == <<restores, clears>>
vars == <<made, journal, process, net, home, backup, excused, bounds>>

OnFile == [pos : Nat \ {0}, id : Nat \ {0}]
Posts == [batch : SUBSET OnFile, gone : Nat]
Homes == [acked : Nat, taken : Seq(Nat \ {0}), run : [Turns -> {"open", "completed", "failed"}]]

Init ==
  /\ made = <<>> /\ file = {} /\ acked = 0 /\ last = 0 /\ pending = {}
  /\ up = "starting" /\ turn = [t \in Turns |-> "none"] /\ running = {} /\ cutOff = {}
  /\ hello = None /\ posting = None /\ late = None
  /\ home = [acked |-> 0, taken |-> <<>>, run |-> [t \in Turns |-> "open"]]
  /\ backup = home /\ excused = {} /\ restores = 0 /\ clears = 0

----------------------------------------------------------------------------
(* The journal *)

Beyond(records, position) == {r \in records : r.pos > position}

LastOf(records, position) == Max({position} \cup {r.pos : r \in records})

(* Journal an event at the next position.                                   *)
append(what) ==
  LET r == [pos |-> last + 1, id |-> Len(made) + 1]
  IN  /\ made' = Append(made, what)
      /\ file' = file \cup {r} /\ pending' = pending \cup {r}
      /\ last' = r.pos
      /\ UNCHANGED acked

(* Mutant: what the home holds is not written beside the journal.           *)
rebaseUnsaved(homeAcked) ==
  /\ IF homeAcked > last THEN last' = homeAcked ELSE UNCHANGED last
  /\ UNCHANGED <<made, file, acked, pending>>

(* Number on from what the home holds, when that is past the journal.       *)
rebase(homeAcked) ==
  /\ IF homeAcked > last
     THEN last' = homeAcked /\ acked' = homeAcked
     ELSE UNCHANGED <<last, acked>>
  /\ UNCHANGED <<made, file, pending>>

(* The file without what is acknowledged, once that is large.               *)
Compacted(left) ==
  IF Cardinality(file) - Cardinality(left) >= CompactAbove THEN left ELSE file

(* The home holds everything up to a position; a lower one asks for a       *)
(* resend.                                                                  *)
ack(position) ==
  \/ /\ position = acked
     /\ UNCHANGED <<file, acked, pending>>
  \/ /\ position < acked
     /\ acked' = position /\ pending' = Beyond(file, position)
     /\ UNCHANGED file
  \/ /\ position > acked
     /\ acked' = Min({position, last})
     /\ pending' = Beyond(pending, acked')
     /\ file' = Compacted(pending')

----------------------------------------------------------------------------
(* The worker *)

(* A post is given up, and may be on its way still or not.                  *)
AbandonPost ==
  /\ posting' = None
  /\ \/ late' = late
     \/ posting # None /\ posting.state = "sent" /\ late = None /\ late' = posting

Crash ==
  /\ up # "down" /\ up' = "down"
  /\ running' = {} /\ cutOff' = {} /\ hello' = None /\ AbandonPost
  /\ UNCHANGED <<made, journal, turn, home, backup, excused, bounds>>

(* Mutant: it does not look for the turns its predecessor left open.        *)
StartForgetful ==
  /\ up = "down" /\ up' = "starting"
  /\ last' = LastOf(file, acked) /\ pending' = Beyond(file, acked)
  /\ cutOff' = {}
  /\ UNCHANGED <<made, file, acked, turn, running, net, home, backup, excused, bounds>>

(* A new process reads the journals.                                        *)
Start ==
  /\ up = "down" /\ up' = "starting"
  /\ last' = LastOf(file, acked) /\ pending' = Beyond(file, acked)
  /\ cutOff' = {t \in Turns : turn[t] = "open"}
  /\ UNCHANGED <<made, file, acked, turn, running, net, home, backup, excused, bounds>>

(* The work folder is cleared while the worker is down, and no post of the  *)
(* earlier process is still on its way by then.                             *)
Clear ==
  /\ up = "down" /\ late = None /\ clears < MaxClears
  /\ file' = {} /\ acked' = 0 /\ last' = 0 /\ pending' = {}
  /\ turn' = [t \in Turns |-> IF turn[t] = "open" THEN "lost" ELSE turn[t]]
  /\ excused' = excused \cup ({r.id : r \in file} \ ToSet(home.taken))
  /\ clears' = clears + 1
  /\ UNCHANGED <<made, up, running, cutOff, net, home, backup, restores>>

(* Something the runner reports on the way.                                 *)
Report ==
  /\ up = "ready" /\ Len(made) < MaxEvents
  /\ append(Text)
  /\ UNCHANGED <<process, net, home, backup, excused, bounds>>

(* A send is delivered: its turn is under way.                              *)
StartTurn(t) ==
  /\ up = "ready" /\ turn[t] = "none"
  /\ turn' = [turn EXCEPT ![t] = "open"] /\ running' = running \cup {t}
  /\ UNCHANGED <<made, journal, up, cutOff, net, home, backup, excused, bounds>>

(* A turn's result is journaled, and then that it ended. The process may    *)
(* die between the two.                                                     *)
JournalResult(t, ok) ==
  /\ append(Result(t, ok))
  /\ \/ /\ turn' = [turn EXCEPT ![t] = "ended"]
        /\ running' = running \ {t} /\ cutOff' = cutOff \ {t}
        /\ UNCHANGED <<up, net>>
     \/ /\ Len(made) < MaxEvents
        /\ up' = "down" /\ running' = {} /\ cutOff' = {} /\ hello' = None /\ AbandonPost
        /\ UNCHANGED turn
  /\ UNCHANGED <<home, backup, excused, bounds>>

EndTurn(t) == up = "ready" /\ t \in running /\ JournalResult(t, TRUE)

(* A turn an earlier process left open did not end; it is reported once the *)
(* home was reached.                                                        *)
ReportCutOff(t) == up = "ready" /\ t \in cutOff /\ JournalResult(t, FALSE)

(* The stream opens, or opens again after the connection was lost: the home *)
(* says hello with the position it holds by then.                           *)
OpenStream ==
  /\ up # "down"
  /\ hello' = [state |-> "sent", acked |-> home.acked]
  /\ UNCHANGED <<made, journal, process, posting, late, home, backup, excused, bounds>>

(* The worker numbers on from there before it reports anything.             *)
ReceiveHello ==
  /\ hello # None
  /\ rebase(hello.acked)
  /\ hello' = None /\ up' = "ready"
  /\ UNCHANGED <<turn, running, cutOff, posting, late, home, backup, excused, bounds>>

(* Mutant: a post does not say what is gone.                                *)
PostPlain ==
  /\ up # "down" /\ posting = None /\ pending # {}
  /\ LET batch == {r \in pending : Cardinality({q \in pending : q.pos < r.pos}) < Batch}
     IN  posting' = [state |-> "sent", batch |-> batch, gone |-> 0]
  /\ UNCHANGED <<made, journal, process, hello, late, home, backup, excused, bounds>>

(* The oldest pending events, and up to where the journal has nothing       *)
(* older: on an append, a hello or the timer.                               *)
Post ==
  /\ up # "down" /\ posting = None /\ pending # {}
  /\ LET first == Min({r.pos : r \in pending})
         batch == {r \in pending : Cardinality({q \in pending : q.pos < r.pos}) < Batch}
     IN  posting' = [state |-> "sent", batch |-> batch, gone |-> first - 1]
  /\ UNCHANGED <<made, journal, process, hello, late, home, backup, excused, bounds>>

(* It timed out or failed; the next kick posts again.                       *)
GiveUpPost ==
  /\ posting # None /\ AbandonPost
  /\ UNCHANGED <<made, journal, process, hello, home, backup, excused, bounds>>

ReceiveAnswer ==
  /\ posting # None /\ posting.state = "answered"
  /\ ack(posting.acked)
  /\ posting' = None
  /\ UNCHANGED <<made, last, process, hello, late, home, backup, excused, bounds>>

----------------------------------------------------------------------------
(* The home *)

(* Mutant: a run takes the last result it is told.                          *)
FinishedLatest(run, ids) ==
  [t \in Turns |->
     LET results == {i \in ids : made[i].turn = t}
     IN  IF results = {} THEN run[t]
         ELSE IF made[Max(results)].ok THEN "completed" ELSE "failed"]

(* A run finishes once: with the first result of its turn to be taken.      *)
Finished(run, ids) ==
  [t \in Turns |->
     LET results == {i \in ids : made[i].turn = t}
     IN  IF run[t] # "open" \/ results = {} THEN run[t]
         ELSE IF made[Min(results)].ok THEN "completed" ELSE "failed"]

(* Events that follow the position without a gap.                           *)
InSequence(batch, position) ==
  {r \in Beyond(batch, position) : \A p \in position + 1..r.pos : \E q \in batch : q.pos = p}

(* Mutant: the position moves past the whole batch before it is applied.    *)
TakingAhead(post, n) ==
  LET from == Max({home.acked, post.gone})
      next == [k \in 1..n |-> (CHOOSE r \in post.batch : r.pos = from + k).id]
  IN  [acked |-> from + Cardinality(InSequence(post.batch, from)),
       taken |-> home.taken \o next, run |-> Finished(home.run, ToSet(next))]

(* Mutant: what the home has already is taken again.                        *)
TakingReplays(post, n) ==
  LET fresh == {r.pos : r \in InSequence(post.batch, post.gone)}
      next == [k \in 1..Cardinality(fresh) |-> (CHOOSE r \in post.batch : r.pos = post.gone + k).id]
  IN  [acked |-> Max({home.acked} \cup fresh), taken |-> home.taken \o next,
       run |-> Finished(home.run, ToSet(next))]

(* What the home holds after the first n events of a batch that it does not *)
(* have yet, having moved past what the journal no longer has.              *)
Taking(post, n) ==
  LET from == Max({home.acked, post.gone})
      next == [k \in 1..n |-> (CHOOSE r \in post.batch : r.pos = from + k).id]
  IN  [acked |-> from + n, taken |-> home.taken \o next, run |-> Finished(home.run, ToSet(next))]

Fresh(post) == Cardinality(InSequence(post.batch, Max({home.acked, post.gone})))

HandlePost ==
  /\ posting # None /\ posting.state = "sent"
  /\ home' = Taking(posting, Fresh(posting))
  /\ posting' = [state |-> "answered", acked |-> home'.acked]
  /\ UNCHANGED <<made, journal, process, hello, late, backup, excused, bounds>>

(* The handler fails, or the home stops, after n of its transactions.       *)
FailPost ==
  /\ posting # None /\ posting.state = "sent"
  /\ \E n \in 0..Fresh(posting) : home' = Taking(posting, n)
  /\ posting' = None
  /\ UNCHANGED <<made, journal, process, hello, late, backup, excused, bounds>>

(* A post the worker no longer awaits is handled, in part or whole, or lost. *)
HandleLate ==
  /\ late # None /\ late' = None
  /\ \/ \E n \in 0..Fresh(late) : home' = Taking(late, n)
     \/ UNCHANGED home
  /\ UNCHANGED <<made, journal, process, hello, posting, backup, excused, bounds>>

HomeBackup ==
  /\ restores < MaxRestores /\ backup # home
  /\ backup' = home
  /\ UNCHANGED <<made, journal, process, net, home, excused, bounds>>

(* Every connection dies with the home that is replaced.                    *)
HomeRestore ==
  /\ restores < MaxRestores /\ backup # home
  /\ home' = backup /\ restores' = restores + 1
  /\ excused' = excused \cup (ToSet(home.taken) \ ToSet(backup.taken))
  /\ hello' = None /\ posting' = None /\ late' = None
  /\ UNCHANGED <<made, journal, process, backup, clears>>

Next ==
  \/ Crash \/ Start \/ Clear \/ Report
  \/ \E t \in Turns : StartTurn(t) \/ EndTurn(t) \/ ReportCutOff(t)
  \/ OpenStream \/ ReceiveHello
  \/ Post \/ GiveUpPost \/ ReceiveAnswer
  \/ HandlePost \/ FailPost \/ HandleLate
  \/ HomeBackup \/ HomeRestore

Spec == Init /\ [][Next]_vars

(* The process is started again, the connection loop reconnects, what is    *)
(* pending is posted again every few seconds, and the faults end: the       *)
(* process and the home stay up and requests get through.                   *)
Faults ==
  \/ up # "down" /\ up' = "down"
  \/ posting # None /\ posting' = None /\ ~ReceiveAnswer

Fairness ==
  /\ WF_vars(Start) /\ WF_vars(OpenStream) /\ WF_vars(ReceiveHello)
  /\ WF_vars(Post) /\ WF_vars(HandlePost) /\ WF_vars(ReceiveAnswer)
  /\ \A t \in Turns : WF_vars(ReportCutOff(t)) /\ WF_vars(EndTurn(t))
  /\ <>[][~Faults]_vars

LiveSpec == Spec /\ Fairness

----------------------------------------------------------------------------
(* Properties *)

(* Types, and that a restart finds in the files what the memory holds.      *)
EventsTypeOK ==
  /\ made \in Seq([turn : Turns \cup {NoTurn}, ok : BOOLEAN])
  /\ file \subseteq OnFile /\ acked \in Nat
  /\ up # "down" => last = LastOf(file, acked) /\ pending = Beyond(file, acked)
  /\ up \in {"down", "starting", "ready"}
  /\ turn \in [Turns -> {"none", "open", "ended", "lost"}] /\ running \cup cutOff \subseteq Turns
  /\ home \in Homes /\ backup \in Homes

(* No event is lost between a journal that forgets what was acknowledged    *)
(* and a home that skips what it takes for a replay or for gone: each is    *)
(* held by the home, or still to be posted past the home's position, or     *)
(* excused.                                                                 *)
NothingLost ==
  \A e \in 1..Len(made) :
    \/ e \in ToSet(home.taken) \cup excused
    \/ \E r \in Beyond(file, acked) : r.id = e /\ r.pos > home.acked

(* A run shows the turn's own end: it failed only when no result of the     *)
(* turn said otherwise, however often it was reported, unless that result   *)
(* was undone or dropped.                                                   *)
RunsTrue ==
  \A t \in Turns : home.run[t] = "failed" =>
    \A e \in 1..Len(made) : made[e] = Result(t, TRUE) => e \in excused

(* What a post says is gone is gone: an event the home does not have is not *)
(* on file at a position the post tells it to skip (poster.ts:44-46).       *)
GoneIsGone ==
  posting # None /\ posting.state = "sent" =>
    \A r \in file : r.pos <= posting.gone => r.pos <= home.acked

(* The log the two keep together implements EventLog.                       *)
Log == INSTANCE EventLog WITH made <- Len(made), taken <- home.taken, excused <- excused

LogSpec == Log!Spec

(* The home catches up with the worker's journal, again and again.          *)
EventsArrive == Log!Arrives

(* Every turn begun has its run finished, again and again, unless its       *)
(* result was undone or it was dropped with the journal.                    *)
RunsSettle ==
  []<>\A t \in Turns :
    turn[t] \in {"open", "ended"} =>
      home.run[t] # "open" \/ \E e \in excused : made[e].turn = t
=============================================================================
