# The home and its workers: TLA+ models

Ri keeps a person's work on a *home* (a Next.js server over SQLite) and runs coding
agents on *devices*: the home's own computer, and workers enrolled from other
computers. This directory models the parts where losing or repeating a step does
harm: how a command reaches a worker, is carried out at most once and is accounted
for at the home; how what the worker reports comes back, each event once and in order;
how an execution moves between devices with the messages sent meanwhile; and how
agents that ask each other get their answers. All of it through dropped connections, restarts, timeouts, failing steps, enrollment and restores.
Paths below are relative to the repository root; `lib/` is `src/lib/`.

## 1. The system's parts

| Part | State it keeps | Operations | Hard behaviour |
|---|---|---|---|
| Home command table (`lib/db/queries.ts`, `lib/workers/{undelivered,retire,enroll}.ts`) | a row per command: state, number, generation; the run of each send | queue, withdraw, mark stale, number and take, acknowledge, turn off, enroll again | six ways for a send to end undelivered; numbers given by several streams |
| Stream and hub (`lib/workers/{stream-pump,hub}.ts`, `app/api/workers/me/stream`) | per connection: cursor, a pass under way | open, wake, pass (settle, await a check, deliver), ping, close | old connections the home has not noticed are gone; the await inside a pass |
| Worker connection loop (`lib/worker/run.ts`) | the connection, whether recovery began | connect after the cursor, heartbeat, recover, reconnect, stop | first heartbeat before recovery before new commands |
| Command journal (`lib/worker/command-journal.ts`) | stage and outcome of each command, releases, on disk | received, started, note, finished, confirmed, release, compact | compaction must not move the cursor or lower the fence |
| Command processor (`lib/worker/commands.ts`) | a queue per target, one active, one passing control, retry timers | receive, drain, settle, retry, recover, resend | controls that pass a wait, closes that retire messages, crashes anywhere |
| Handlers (`lib/worker/handlers.ts`) | none of their own | one per kind: run and recover | the fence is read before awaits; an effect is marked before it is made |
| Event journal, poster, sink (`lib/worker/`) | numbered events, the acknowledged position | append, post, acknowledge, rebase | lost answers, a cleared journal, a restored home |
| Transfers (`lib/transfer/`) | a transfer's stage, held messages | stop, save, prepare, continue, deliver held, recover | ownership changes in one transaction amid commands in flight |
| Send boundary (`lib/executor/adapter.ts`, `lib/transfer/moving.ts`) | reservations, sends and changes in flight, in memory | reserve, hold, admit, start over, accept | a dispatch awaits for long before the boundary, and the work may move meanwhile |
| Runs (`lib/runs/`), scheduler, triggers | runs, the rate lease, a lock file | dispatch, observe, finish | budgets and locks across processes |
| Coordination (`lib/coordination/`, `lib/db/coordination-queries.ts`) | requests, deliveries, the runs reserved for them, chats on hold | ask, tell, approve, answer, cancel, hold, close, a pass every two seconds | one pass awaits its sends while people type, hold and stop in the same chats; an input belongs to a batch, a continuation or a person |
| Runner and executor (`lib/runner/`, `lib/executor/`) | live turns, pending inputs | send, answer, interrupt, close | turn bookkeeping over callbacks |
| Realtime, terminals, client savers | replay buffers, input queues, a save in flight | append, replay, resume | hand-over from replay to live |

`PROJECT.json` lists every component with its status. The parts interact thus: the
rest of the home *queues* commands; the hub *wakes* the device's stream, which numbers
and sends them; the worker *journals* each, runs it, journals the outcome and
*acknowledges* it by a request of its own; *heartbeats* report the placements the
journal shows and are answered with those to release; results of turns come back as
events. Everything on the home is one SQLite transaction per operation; everything on
the worker runs from one `await` to the next.

## 2. Modules and how they correspond to the code

- **`CommandWire`**: what both sides know of a command (kind, chat, execution,
  generation, number). A command is named by its place in the order it was queued.
- **`HomeCommands`**: the table. One action per query: `Queue`, `Withdraw`
  (`cancelWorkerCommand`), `SettleStale` (`staleQueuedCommands` with
  `settleUndelivered`), `Number` (the update in `takeCommandsForStream`), `Ack`,
  `TurnResult`, `Retire` (`retireWorker`), `Reenroll` (`redeemEnrollGrant`). `Reserve`,
  `GiveUp`, `Arrive` and `Leave` are what a device's commands see of a move. `Leave`
  needs a delivered `quiesce` with no message of the execution queued after it, which is
  what `stopSource` and the hold on later messages establish.
- **`CommandJournal`**: the journal on disk, and `JournalSpec`, the abstract
  specification of a worker: an effect only after `started`, one that may not be
  repeated only once, an outcome journaled once. `Compacted` is a set of results,
  because which commands noted a native session or have an open turn is data.
- **`CommandProcessor`**: the processor and the handlers over that journal. `step` says
  how far a command's handler has come, one value per `await`. `Handle` is `execute`,
  or `recoverOne` for what `recoverAll` queued; `Pass` is `drain` for a control; `Acked`
  and `RetireDeferred` are the end of `runEntry`. `Crash` may happen at any step and
  keeps only the journal and the effects. It is checked to implement `JournalSpec`.
- **`WorkerCommands`**: `HomeCommands` and `CommandJournal` joined by a stream
  (`channel`, `streamed`), acknowledgements and heartbeats. The worker's inside is
  represented by the journal's actions, which the processor implements.
- **`EventLog`**: what home and worker promise together of events, in four actions:
  they are made, taken once and in order with none left out that is not excused, undone
  by a restore, forgotten by a clearing.
- **`WorkerEvents`**: how they keep it. `append`, `rebase`, `ack` are the methods of
  `EventJournal`; `Post`, `GiveUpPost` and `ReceiveAnswer` are `drain` between its
  awaits; `JournalResult` is the sink's `signal` (or a cut-off report) with the crash
  its comment speaks of between the two writes; `HandlePost`, `FailPost` and `HandleLate`
  are the route with `applyWorkerEvents`, a transaction per event. `LogSpec` says that it
  implements `EventLog` (`made` is mapped to its length).
- **`MovingWork`**: what moving work promises: one owner, messages only to it and never
  once it was stopped, a change of owner only then, to a greater generation; a queue of a
  connected device takes a message once.
- **`Transfer`**: the rows of `execution_transfers` and `runTransfer` between its awaits
  (`Start`, `Drained`, `Stopped`, `Saved`, `Arrive`, `Succeed`, `StepFails`); a dispatch
  from its reservation over the send boundary to its acceptance and its turn's end
  (`Dispatch`, `Boundary`, `Sent`, `SendFails`, `TurnOver`); `deliverHeld` (`DeliverNext`,
  `Take`) with its callers `Continue`, `Settle`, `Retry` and `Restart`; changes that keep a
  move out. `WorkSpec` says that it implements `MovingWork`.
- **`Coordination`**: a request, its outcome or a message is a *delivery*
  (`agent_coordination_deliveries`); `req` is `agent_coordination_requests`, `run` the runs
  reserved for them with the batch saved in `triggerPayload`. `submitAgentRequest`, `Reply`,
  `Cancel`, `EndTurn` are what an agent does; `Allow`, `Deny`, `Hold`, `Release`, `Stop`,
  `Archive`, `Delete`, `Type` what a person does. The pass of `drainAgentCoordination` is
  `Reconcile`, `Persist`, `Abandon` and `Activate`, none of them while it awaits a send
  (`sending`); the send is `Boundary` (the run starts), `Give` (the second admission, in the
  same tick as the harness gets it), `Accepted`, or `HeldBack`, `SendRetry`, `SendFails`.
- **`InOrder`**: what the machines need of sequences (sorting a set, taking members out), written
  without recursion so that it can be reasoned about.
- **Proofs**: `InOrderProofs` about those helpers, `HomeCommandsProofs`, `CommandJournalProofs`
  (about `JournalSpec`), `CommandProcessorProofs`, `WorkerCommandsProofs`, `WorkerEventsProofs`,
  `TransferProofs` and `CoordinationProofs`, each about the module it extends.
- **`MC*`**: constants for TLC. Operators commented `Mutant:` are deliberate mistakes
  that the properties are known to catch; nothing of the specifications uses them.

Choices a reader should know:

- A heartbeat and its answer are one step: a late answer carries the same generations
  `release` only ever raises, and no generation is reserved twice (`lastGen`), so one that
  is not current when the home answers never is later: a delay adds nothing but a lower
  fence meanwhile.
- `Beat` may happen at any time and so covers an answer computed before a move.
- Turning a device off closes its streams, but frames already written may still be
  read: `link = "closed"` keeps the channel.
- A stream that nobody reads still runs passes until the home notices (`GhostPass`, at any
  time): commands it numbers reach nobody.
- Enrolling again only revokes the earlier worker's key (`redeemEnrollGrant`): that worker goes
  on until a request of its own is refused or a ping ends its stream. On the same computer
  (`EnrollSame`) its stream is `"revoked"`: it takes commands into the same journal, asks for
  nothing, and is run again with the new key. On another (`EnrollOther`) the journal is new; the
  earlier worker may still carry out what it had in hand (`InHand`), and with `ghost` whatever its
  stream, not cut off yet, is sent beside the newer one's (`GhostPass`). An earlier stream that is
  cut off is one that makes nothing. `elsewhere` keeps what earlier workers did, so that
  `NeverTwice` counts a device's effects and not one journal's; `overlapped` is what an earlier
  worker made of what it was sent after the enrollment.
- A restart is a lost connection and a compaction; recovery is the processor's. What it defers
  though it was left started (`stuck`) is not tried again before the next one.
- Commands of a chat with no execution carry no generation and are never fenced on the
  worker; where such a chat is placed is left open in `SettleStale`.
- Effects of messages and scripts are counted up to `EffectCap` (2), enough to tell once from more
  than once; those that may be repeated up to one (`Counted`).
- In `WorkerEvents` an event is its place in the order of making; of its content only the
  result of a turn is kept. An event refused for its chat, or one of an earlier
  placement, takes its position like any other. A turn that recovery found in the
  harness's history is reported like one cut off. Compaction rewrites the file or does
  not: a crash between the two writes of `ack` is an acknowledgement below the threshold.
  The journal is cleared while the worker is down and no post of it is on its way (`Clear`).
- In `Transfer` messages are sent in order and each by one path at a time, plus the
  repeats the code makes: a re-fire of the newest, the delivery of a held one, a dispatch
  that starts over. `Dispatch`'s third start-over, which fails, is not bounded: `SendFails`
  may end any attempt. Commands of a step that timed out stay queued: what the device
  then does with them is `HomeCommands` (`Withdraw`, the fence). What is saved, prepared
  and handed over is data. `ahead` and `heldEver` are ghosts.
- In `Coordination` a run is named by the event it is for, as `stableCoordinationId` names it, so a
  second reservation for the same inputs is the same run. `later` are the deliveries whose
  `nextAttemptAt` has not come; `TimePasses` lets it. A person's message is given and accepted in
  one step, since only its claims matter between; one that fails, or that a restart cuts off, may
  have been given all the same (`MayHave`). A chat is archived after its harness was
  closed, so only when it is quiet. After a restart `reapStaleRunningRuns` and
  `recoverAgentCoordination` run before the first pass; an assignment whose run they fail is
  settled by `Reconcile`, before which no chat is activated (`Interrupted`). `given`, `lost` and
  `heldOnce` are ghosts: `given` counts an input when the harness gets it (`Give`, before `Accepted`
  records it), `lost` what was given and not recorded, as the send failed first or the home restarted;
  the last stands for a transcript that is not empty.
- A message found in the history may be another that reads alike: `Resembles` says which.

## 3. Properties and hazards

The hazards in `PROJECT.json` name the lines where this code can go wrong and the
properties that would show it. The main ones: `AtMostOnce` (a message or a script never
runs twice for one journal, `NeverTwice` for all journals a device ever had and an earlier worker beside,
save what a revoked stream carried, section 4), `JournalSpec` (the processor keeps the abstract promise), `CursorSafe`,
`NothingSkipped` and `ForgottenNeverResent` (nothing is lost between two journals that
each forget), `FenceHolds` and `ReleasedNeverCurrent` (the fence neither opens again nor
closes on current work), `UndeliveredRunsFinished` and `RetiredLeavesNothingOpen` (no run
waits for a message that will not be delivered), `InOnePlace` and `ControlFinishesFirst`
(the processor's queues), `SentIsSettled` (liveness). Of events: `NothingLost` (between a
journal that forgets and a home that skips), `LogSpec`, `RunsTrue` (a turn reported twice shows its true end), and the
liveness properties `EventsArrive` and `RunsSettle`. Of moves: `WorkSpec`, `HeldNotLost`,
`NothingOvertakes`, `GenerationsGrow`, `ChangesKeepOut`, and `MovesSettle` (liveness). Of agents:
`OneRunEach` (no two runs work on one request, through retries, holds and restarts), `GivenOnce`
(no turn has an input another had, unless it was given up meanwhile or its handover was not recorded, section 4) and `PersonNotRefused`
(a person's message is never refused for what it took along), both but for what a deleted chat left
unreserved (`Unreserved`, section 4),
`HeardAll` (an assignment is not answered while its own questions are open
or their answers unread), and `RequestsSettle` (liveness).

## 4. Runs

| Run | Bounds | What it shows |
|---|---|---|
| `home_table` | 4 commands, one of them held at will and one of a chat with no execution; generations to 3 | every invariant of the table, under any interleaving of its transactions |
| `processor_implements_journal` | a message and a quiesce, generations to 2 | `CommandProcessor` implements `JournalSpec`; outcomes are true |
| `processor_script` | a script and a control, generations to 2 | scripts run once through every crash and pause; the fence survives compaction |
| `processor_close` | recycle, message, stop of a chat with no execution | passing close, cancelled wait, retirement of queued and deferred messages |
| `worker_resends` | prepare, quiesce, message; generations to 2 | the stream, resends, restarts, abandoned streams, enrollment beside an earlier worker, once over all of them; what the home shows happened; what heartbeats release |
| `worker_settles` | message, quiesce; generations to 3; fairness | a sent command is eventually settled, or deferred at its recovery until the next restart; the execution arrives, leaves, comes back, the device is turned off and enrolled again |
| `worker_events` | one turn and two other events, posts of two, compaction above two, one restore, one clearing; fairness | the home keeps the log of `EventLog` and catches up; runs end as their turns did |
| `transfer` | two devices, two messages, two moves, one restart, a harness that takes one message at a time; fairness | `Transfer` implements `MovingWork`; held messages keep their order and are not lost; every move settles |
| `coordination_settles` | two chats, a request each way and a message, two of them sent; a person writes twice; one hold, stop, cancel, closed chat, failure, retry or restart; fairness | the six properties of agents above, with approval before one chat's sends and input during its turns |

The bounds: two commands of one queue are enough for overtaking, three for a close that
passes one and retires another; `MaxGen` 2 gives a placement and its successor, 3 a
return. `CompactAbove` is 1 instead of 500, so that compaction happens with two confirmed
commands. Three events in posts of two give a batch applied in part, a journal that has
compacted its beginning and a position that falls into the middle of a batch; two moves give a move
superseded, tried again, and the way back; two messages give one held behind another
while it goes out. One execution and one chat suffice for the queue rules, since different keys
share nothing in the processor. Two chats and two sends give an assignment that asks back, an
answer that comes beside a message, and one read by a person; each upset (`MaxUpsets`) meets every
state of these. `CHECK_DEADLOCK` is on but for coordination, where everything may be answered
and nothing be left to do.

### What the repository says and the code does not do

Three runs are expected to find a violation; each checks a sentence of the repository
(quoted under `findings`):

- `closed_stays_closed`: a delivered close cancels the earlier messages, but one whose retry
  timer fires while another is being retired, or that a crash leaves received, begins after it.
- `events_gone`: the poster calls gone every position before its first *unacknowledged* event,
  but acknowledged ones stay on file until there are a thousand. A home restored from an older
  backup is told to skip events the worker could still send. For the same reason the branch of
  `ack` that goes back for a resend is never taken by a home's answer.
- `retry_admitted`: an answer and a message that came together are saved as one batch of the
  answer's run. When that send waits for the budget or a hold and the chat is busy next, the pass
  steers the message in alone, under a run of its own; the saved batch is then refused, and with it
  the answer, which nobody has read.

Differences met while modelling that have no run of their own:

- `app/api/workers/me/stream/route.ts:80-81` says a command for a placement the device no longer
  holds is never sent. A delivery pass settles what is stale, awaits a check and then sends; an
  execution may leave meanwhile, and its commands go out.
- `docs/agent-coordination.md:44` says that the outcome of a required answer returns
  automatically. When an empty target chat is deleted (`settleCoordinationForDeletedChat`), the
  outcome that ending the request has just queued is cancelled in the same transaction, since its
  source is the deleted chat: who asked is never told, and an assignment that asked nothing else
  waits for good. `RequestsSettle` excepts it by name (`Deaf`).
- `lib/db/coordination-queries.ts:80` says that a durable send reserves its complete batch; it does
  so only while the delivery that the batch's run is named for is still `delivered`. The same deletion cancels an outcome
  that was delivered already. If a batch was named for it, `reservedCoordinationInputs` (lines 87-95)
  finds no name any more, and the rest of the batch, which a turn of the harness may have by then, is
  free: a person's message takes it along and is refused, or it is given a second time. It takes three
  chats (a chat asks two others, both requests are denied, the two outcomes become one batch that is
  given to the harness, and the chat of the request the batch is named for is deleted before the
  harness accepts). `GivenOnce` and `PersonNotRefused` except it by name (`Unreserved`).
- `lib/coordination/service.ts:363` gives up an input whose own run failed, and records that it did not
  reach its harness. The input may also be in the batch that was saved for another delivery's run
  (an answer's, whose time to try again has not come when the pass reads what is due), and a saved
  batch is sent whole (`coordinationDeliveriesForRun`, `lib/db/coordination-queries.ts:270-273`, keeps
  what has failed): the turn shows it after all, and if two batches have it, each does. `GivenOnce`
  excepts what was given up; that it must was found in the attempt to prove it.
- A request that is cancelled, or whose send fails, before its turn began leaves its reserved run
  `queued` with reason `coordination_wait`, which neither a pass nor a restart clears.
- `lib/worker/handlers.ts:11-12` says nothing happens for an older generation; a message is
  checked against the fence once (line 413), before its files, a recycle and its admission are
  awaited, and one released or replaced meanwhile begins.
- `lib/db/queries.ts:5319-5321` says that what was sent before an enrollment is uncertain rather
  than sent again. The transaction (lines 5319-5357) revokes the earlier worker's key and leaves its
  stream registered until a ping finds the key revoked (`stream/route.ts:111-116`). Until then it
  takes commands, which it carries out and cannot acknowledge; they stay sent, and the new worker is
  sent them again: a message may be put in twice. `NeverTwice` excepts what such a stream carried and
  the earlier worker made, by name (`overlapped`), and nothing else: TLC refutes it without that.
- `lib/worker/commands.ts:319` tries a deferred command again only if it is journaled received, and
  `receive` ignores one sent again (lines 91-98). One that a crash left started, and whose recovery
  meets an update's pause (a repeatable one asks to start again, `handlers.ts:338-349`), is not tried
  again by that process: the home shows it sent until the next restart. `SentIsSettled` excepts it by
  name (`stuck`): TLC refutes it without that.
- A harness has its input at `handle.send`, and that it does is recorded after that
  (`local-runner.ts:608-616`). When the home restarts between, or the send fails after it, the pass
  gives up the delivery the run is named for (`coordination/service.ts:363`), but what rode along in
  its batch is still `delivered`, as if nobody had seen it, and is given to a later turn once more.
  `GivenOnce` counts at the harness and allows one more for each such handover (`lost`), no other.
- `lib/db/schema.ts:1080` says held messages are delivered once. A harness of the home that takes
  one message at a time is recorded to have accepted one only when the turn is over
  (`adapter.ts:673`): when the home restarts before, the message goes out again. In a
  connected device's queue the unique index on its event prevents it, as `MovingWork` says.
- `EventJournal.rebase` leaves `pendingEvents` alone and `ack` of the current position does
  nothing. Were a rebase to find pending events, `drain` would post them, be answered with the
  rebased position and post them again at once, without end. It takes a worker's disk that was
  itself rolled back, since a journal never falls behind the home otherwise (`EventsTypeOK`).

- `lib/worker/commands.ts:7-8` says commands of one chat run in the order they came; a
  deferred one goes to the back of its queue (line 319).
- `lib/db/queries.ts:7124-7128` says a command found stale was never received; one whose
  acknowledgement was lost may have been. Such a command, if it was lost, also leaves a hole
  in the numbers that `docs/homes-build.md:191` says have none, and the receipt cursor waits
  there: what follows it is resent at each reconnect and known again.
- `docs/homes-build.md:215` says acknowledgements are resent until the recorded state
  matches; any answer confirms (`commands.ts:333`).
- `lib/worker/handlers.ts:187-188` says a history line must be exactly the message; one that
  ends with it is accepted (line 225). `Resembles` models it, and the runs take no two
  messages to read alike.
- `lib/worker/command-journal.ts:75-77` says the cursor keeps its place through compaction;
  when an early command is kept for the fence, it falls back to it. `CursorSafe` and
  `NothingSkipped` do not need it to.

### Fairness

`LiveSpec` assumes what `run.ts` and the stream route provide: the connection loop always
reconnects (`WF` of `Open` and of dropping a closed stream), pings wake the pump (`WF` of
`Wake`), a connection lasts long enough now and then for a pass and for its frames to be
read (`SF` of `Deliver` and `Receive`), a handler that is called returns and a pause ends, so that
what is deferred as received is tried again (`WF` of finishing, which `stuck` disables), an
acknowledgement is answered now and then (`SF` of `HomeAck`; it is resent at every hello), and a
worker that stopped because its key is revoked is run again with the new one (`WF` of `Restart` then:
`worker run` is what `enroll` asks for). Nothing is assumed of the order of these, of moves, of
enrollment, or of a restart otherwise.

`WorkerEvents.LiveSpec` assumes that the process is started again, reconnects, posts what is
pending (the poster is kicked by every event, hello and a timer), that turns end, and that the
faults end: from some time on the process stays up and requests get through. It does not
assume that the home is no longer restored; `MaxRestores` bounds that.
`Transfer.LiveSpec` assumes that whatever the home's process awaits ends (`Awaited`): every
step of a move has a timeout (`STEP_TIMEOUTS_MS`), a dispatch is accepted or throws, a turn
ends. `Continue` is started with `void` and runs. Nothing is assumed of people: Resume, Finish,
Try again and Send them again may never come, and `MovesSettle` says what waits for them then.

`CoordLive` assumes that the pass goes on (its timer fires every two seconds and restarts a pass
that threw), that it gets round to each chat that is free now and then (`SF` of `Activate`: people
and turns may make it busy in between), that a send it awaits ends, that turns end and that what a
person sent is taken or refused. Nothing is assumed of what agents ask, or of people: a chat
may stay on hold and an approval may never come, and then `RequestsSettle` promises nothing.

## 5. Proofs

TLAPS checks the theorems for every value of the constants, under the assumptions the modules
name. These say only what the constants are: commands are numbered from 1 and kinds, executions and
chats are functions of them (`WireAssumption`, `HomeAssumption`, `JournalAssumption`); batches and the
bound of compaction are positive (`EventsAssumption`); requests and messages are distinct and go
from one chat to another (`CoordAssumption`); `None` and `NoTurn` name nothing else
(`ProcAssumption`, `NoneAssumption`, `EventsAssumption`). One theorem each of the journal, the
processor and the whole assumes further, in its statement, that no two messages read alike
(`Resembles = {}`), without which the code makes the promise for nobody (section 4). The bounds in the
actions (`MaxGen`, `EffectCap`, `MaxUpsets` and so on) stay, but may be any numbers.

In each module a step of the main lemma stands for an action of `Next`, and the invariant it keeps
is written as named parts; what follows says which parts were needed and why.

- **The table** (`TableInv`) strengthens the checked invariants with `SendsCarryRuns`: a run
  exists for exactly the queued sends, without which "its run is finished" could not follow
  from finishing the open ones. The conjuncts need each other: `Number` may only number
  what has no number, which `NumberedIffStreamed` says of queued commands, and numbers stay
  within `NumCommands` (`HomeTypeOK`) only because they are contiguous. The counting is in
  `HighestSeqIsCount` (the `max(seq)` of the query is how many numbers were given) and
  `NumberedOn` (numbering on from it gives each number once and skips none).
- **The journal** (`JournalInv`) adds `OutcomeWhenFinished` to types and `AtMostOnce`: only what
  finished has an outcome, and what is delivered seemed applied. `JournalFenceHolds` is the proof
  that compaction is safe for the fence: an execution with any command in the journal has one of the
  newest generation and, among those, the lowest number (`NewestExists`), compaction keeps it
  (`CompactionKeepsNewest`), and it fences whatever the dropped ones did. It assumes that numbers and
  generations do not change once given, which the home's table guarantees.
- **The processor** (`ProcInv`) implements the journal's specification (`ProcessorKeepsJournal`), and
  `AtMostOnce`, `DeliveredWasApplied`, `JournalGoesForward` and `FenceHolds` carry over. A handler's
  step must agree with the journal's stage (`Journals`: what has `begun` is journaled started and had
  no effect before), and that in turn needs a command to be in one place only (`SlotsInOrder`, `Placed`;
  `InOnePlace` follows): a command carried out twice at once would apply twice from one `started`.
  `QuietUntilRecovered` says that nothing of an earlier process is left before recovery.
- **The whole way of a command** (`WorkerInv`) adds to the table's invariant what joins it to the
  journal. `CursorSafe` rests on `FrontInv`: what was sent and is not on the worker comes, in the order
  of numbers, after all that is; the worker's cursor is a number it has, so it passes nothing. `FrontInv`
  is kept because numbers are given upwards and a command once sent is never queued again
  (`TableGoesOn`, of the table), and a stream carries them in order (`StreamedInv`). `HeldInv` ties
  effects to the numbers of an earlier journal (`elsewhere`), which gives `NeverTwice` over
  enrollments: what an earlier worker had in hand was sent, so the enrollment made it uncertain and it
  is not sent again; what it is sent later is `overlapped`; `PlacesInv` says that a placement has the newest generation, which gives
  `ReleasedNeverCurrent`. `WorkerUsesTable` says that the home's table takes only steps of
  `HomeSpec`, so that the table's theorems hold of the whole; `ShownTruly` has an invariant of its own
  (`ShownInv`: what is journaled or shown delivered had its effect, on this journal or an earlier one).
- **Events** (`EventsInv`) implement `EventLog` (`EventsKeepLog`). The two ends are compared through every
  record still on its way (`Records`: the file and posts, also late ones): positions are given once and
  in the order of making (`Ordered`), and what lies past the home's position is newer than all the home
  took (`TakenInOrder`), which must be said of its backup too, since a restore brings that back.
  `GoneWasTaken` is about a post's claim that earlier positions are gone: the home took those events or
  they are excused. `TurnsOnce` and `RunsOnce` order a turn's own result before the one that recovery
  makes up for it; `RunsTrue` follows.
- **Moves** (`TransferInv`) implement `MovingWork` (`MovesImplementWork`). Only the latest row is open and
  it agrees with what is awaited (`ControlInv`); what crosses the send boundary goes to the placement the
  work has, and not while it is stopped (`SendsInv`); `GenerationsGrow` needs `MovesInv`, that a
  source generation never falls and rises past what every earlier move prepared; `NothingOvertakes`
  needs `LineInv`, that whatever was held when a message was sent was given or stands before it.
- **Agents** (`CoordInv`). `OneRunEach` is `ItsOwnRun`: a run of a request that is under way is the one
  the request names. It is kept only because the request's status agrees with its run's
  (`RunFits`: no request is queued anew while its run goes on) and with what the pass waits for
  (`WorkedOnceAccepted`). `HeardAll` adds `AnswersRead`: the run that reads an answer is a run of the
  assignment that asked, and either ended, or it is the run whose end answers the assignment. The
  proof of a turn's end then shows that the run which ends is the newest, that no question is open
  (`Children`) and that no answer waits to be read.
- **What agents' turns and people take** (`ReservedInv`, on top of `CoordInv`). That a message
  of a person claims nothing of a turn (`PersonNotRefused`) says nothing of what the next step may
  reserve, so the invariant says who has what: nothing is reserved before it was delivered
  (`NotYetReserved`); a batch is saved with its run, has something and is of the run's chat
  (`Batches`, `InItsChat`); the answers an assignment is continued with are those its
  run has (`Updating`); the send the pass waits for takes the saved batch (`SendsBatch`); and what a
  batch under way, a reserved run or a continued assignment holds, nobody types along (`Unclaimed`).
  Most steps only use up, withdraw or give up what is reserved: `GoesOnKeeps` proves the invariant for
  all of them at once, from what they may do (`GoesOn`, `Wanes`). `Persist`, `Type`, `TypedTaken`,
  `Accepted` and `Activate` do more and have lemmas of their own.

- **How often agents' turns are shown what was sent** (`ShownInv` of `CoordinationProofs`, on top of
  both). `GivenOnce` bounds a count; what bounds it is who had the input and who may still have it. Nothing on the home
  tells of a handover that was not recorded, so the invariant is about the others: `recorded`, which is
  `given` without `lost` and without what a harness has at the moment (`AtHarness`). `RecordedNot` says
  that a handover, a failure or a restart leaves it alone, `RecordedMore` that acceptance adds to it;
  `ShownNow` then bounds it for what a harness has at the moment, and `GivenOnce` follows.
  What was not taken was not shown (`NotShownYet`), and nothing is in a saved batch before it was
  delivered (`BatchesDelivered`). What is taken has a taker that has begun, is sent no more and, if it
  is a run of the agents, has the input in its batch (`TakenBy`); since a run's batch is its own
  (`OwnBatches`; `BatchOf`: a request is only in the run named for it, an answer to an assignment
  only in the run it continues), no second run of the agents gets past `agentMessageAdmission` with
  it. A person's message may take such an input first. It is then shown at most once more
  (`ShownTwice`), which is kept because it was shown once only as long as the run it is for is
  queued or is being sent (`ShownLater`), and while the harness has the send (`ShownNow`).
  Steps that show nothing are proved at once (`ShowsNothingKeeps`); `Give`, `TypedTaken`, `Accepted`
  and the reservation of a run (`BeginsShown`) have lemmas of their own.

Every safety invariant and action property of the runs that pass is proved. Only model-checked is
liveness (`SentIsSettled`, `EventsArrive`, `RunsSettle`, `MovesSettle`, `RequestsSettle`), which is
beyond what the prover can show. The three runs that expect a violation have nothing to prove.

## 6. Not modelled

Of coordination: delegated and forwarded work (which makes its chat first), related steering,
blocked updates, check-ins, context-only material, chats on connected devices, background tasks
and the levels of policy (a chat's sends need approval or do not). Run admission and the scheduler, the runner's sessions, terminals, realtime feeds
and client savers are listed in `PROJECT.json` with status `not_modelled` or `partly`. The user
interface, the built-in apps, packaging and integrations, which are most of the repository, hold
no protocol state. What git, file and title commands do is data: only whether and how often an
effect is made is modelled. Of a transfer the checkpoint, the destination's worktree and the
handoff are data too.

## 7. Plan

In this order, the most consequential first:

1. *Done*: `CommandWire`, `HomeCommands`, `CommandJournal`, `CommandProcessor`,
   `WorkerCommands`.
2. *Done*: `EventLog` and `WorkerEvents`; `MovingWork` and `Transfer`; `Coordination`.
3. *Done*: the proofs of section 5, of every safety invariant and action property that is checked.
4. Liveness of `CommandProcessor` (what was received is settled unless the process stays
   paused, or it was left started and deferred), and an abstract `CommandOutcome` specification that `WorkerCommands` implements.
5. `RunDispatch` (dispatch, budget, lease, scheduler lock); coordination with chats on connected
   devices.
6. Smaller machines: terminal replay and input queue, realtime resume, client savers.
