------------------------ MODULE WorkerCommandsProofs ------------------------
(***************************************************************************)
(* What the home's table and a worker's journal promise together, for any  *)
(* commands and executions, whatever is lost, restarted or enrolled again. *)
(***************************************************************************)
EXTENDS WorkerCommands, HomeCommandsProofs, CommandJournalProofs

(* A placement held or prepared here is the execution's newest generation,  *)
(* and no release has reached it.                                           *)
PlacesInv ==
  /\ \A e \in Executions :
       /\ placement[e].here => reserved[e] = 0 /\ placement[e].gen = lastGen[e]
       /\ reserved[e] # 0 => reserved[e] = lastGen[e]
       /\ released[e] <= lastGen[e]
  /\ \A c \in Commands : ExecOf[c] # Device => generation[c] <= lastGen[ExecOf[c]]
  /\ ReleasedNeverCurrent

(* What the journal holds was streamed, and what an earlier worker did, and *)
(* was not sent on a revoked stream, comes to this one no more.             *)
ElsewhereOnly(c) == elsewhere[c] > 0 /\ c \notin overlapped

HeldInv ==
  /\ \A c \in Commands :
       /\ outcome[c] # "none" <=> stage[c] \in {"finished", "confirmed", "dropped"}
       /\ applied[c] > 0 => stage[c] \in {"started", "finished", "confirmed", "dropped"}
       /\ stage[c] # "none" => seq[c] # 0
       /\ elsewhere[c] > 0 \/ c \in overlapped => seq[c] # 0
       /\ ElsewhereOnly(c) => state[c] # "sent" /\ stage[c] = "none" /\ c \notin ToSet(channel)
  /\ NeverTwice
  /\ ForgottenNeverResent

(* What is on the stream is in the order of its numbers and not past the    *)
(* stream's cursor.                                                         *)
StreamedInv ==
  /\ Streaming => enrolled
  /\ link = "closed" => ~enrolled
  /\ link = "none" => channel = <<>>
  /\ streamed = 0 \/ \E c \in Commands : seq[c] = streamed
  /\ \A i \in DOMAIN channel : seq[channel[i]] # 0 /\ seq[channel[i]] <= streamed
  /\ \A i, j \in DOMAIN channel : i < j => seq[channel[i]] < seq[channel[j]]
  /\ NothingSkipped

(* What was sent and not received comes after all that was.                 *)
FrontInv ==
  \A c \in InState({"sent"}), d \in Commands :
    c \notin Journaled /\ stage[d] # "none" => seq[d] < seq[c]

WorkerInv == TableInv /\ StreamTypeOK /\ PlacesInv /\ HeldInv /\ StreamedInv /\ FrontInv

----------------------------------------------------------------------------
(* The home's table under a worker *)

(* What a number is given to keeps it, numbers are given upwards, and what  *)
(* was sent or settled is not queued or sent again.                         *)
TableGoesOn ==
  \A c \in Commands :
    /\ seq[c] # 0 => seq'[c] = seq[c]
    /\ seq[c] = 0 /\ seq'[c] # 0 => \A d \in Commands : seq[d] < seq'[c]
    /\ state'[c] = "sent" => state[c] = "sent" \/ seq[c] = 0
    /\ state'[c] = "queued" => state[c] \in {"none", "queued"}

LEMMA NumbersGoUp ==
  ASSUME TableInv, Number
  PROVE  TableGoesOn
<1>1. PICK held \in SUBSET (AgentSends \cap InState({"queued"})) :
        \E number \in InQueueOrder(InState({"queued"}) \ held) :
          /\ seq' = [c \in Commands |-> IF c \in InState({"queued"}) \ held THEN number[c] ELSE seq[c]]
          /\ state' = Moved(InState({"queued"}) \ held, "sent")
  BY DEF Number
<1> DEFINE taken == InState({"queued"}) \ held
<1>2. taken \in SUBSET Commands /\ \A c \in taken : state[c] = "queued"
  BY DEF InState
<1>3. PICK number \in InQueueOrder(taken) :
        /\ seq' = [c \in Commands |-> IF c \in taken THEN number[c] ELSE seq[c]]
        /\ state' = Moved(taken, "sent")
  BY <1>1
<1> HIDE DEF taken
<1>4. HighestSeq \in Nat /\ \A c \in Commands : seq[c] <= HighestSeq
  <2>1. HighestSeq = Cardinality(Numbered) /\ Cardinality(Numbered) \in Nat
    BY HighestSeqIsCount, CountOf, WireAssumption DEF TableInv, Numbered
  <2>2. \A c \in Commands : seq[c] # 0 => seq[c] \in 1..Cardinality(Numbered)
    BY DEF TableInv, NumbersContiguous, Numbered
  <2>3. QED
    BY <2>1, <2>2
<1>5. \A c \in taken : number[c] \in Nat /\ HighestSeq < number[c]
  <2>1. number \in [taken -> (HighestSeq + 1)..(HighestSeq + Cardinality(taken))]
    BY <1>3 DEF InQueueOrder, Bijection, Injection
  <2>2. \A c \in taken : number[c] \in (HighestSeq + 1)..(HighestSeq + Cardinality(taken))
    BY <2>1
  <2>3. Cardinality(taken) \in Nat
    BY <1>2, CountOf, WireAssumption
  <2>4. QED
    BY <1>4, <2>2, <2>3
<1>6. \A c \in Commands : seq[c] \in Nat /\ seq'[c] = IF c \in taken THEN number[c] ELSE seq[c]
  BY <1>3 DEF TableInv, HomeTypeOK, WireTypeOK
<1>7. \A c \in Commands : state'[c] = IF c \in taken THEN "sent" ELSE state[c]
  BY <1>3 DEF Moved
<1>8. \A c \in taken : seq[c] = 0
  BY <1>2 DEF TableInv, NumberedIffStreamed
<1>9. ASSUME NEW c \in Commands, seq[c] = 0, seq'[c] # 0, NEW d \in Commands PROVE seq[d] < seq'[c]
  BY <1>4, <1>5, <1>6, <1>9
<1>10. QED
  BY <1>6, <1>7, <1>8, <1>9 DEF TableGoesOn

LEMMA TableStep ==
  ASSUME TableInv, [HomeNext]_homeVars
  PROVE  TableInv' /\ TableGoesOn
<1>1. \A c \in Commands : state[c] = "queued" => seq[c] = 0
  BY DEF TableInv, NumberedIffStreamed
<1> DEFINE Stays(c) == state'[c] = state[c] \/ (state[c] = "none" /\ state'[c] = "queued")
                       \/ state'[c] \notin {"queued", "sent"}
<1>2. (seq' = seq /\ \A c \in Commands : Stays(c)) => TableGoesOn
  BY DEF TableGoesOn
<1>3. TableGoesOn
  <2>0. DOMAIN state = Commands
    BY DEF TableInv, HomeTypeOK
  <2>1. ASSUME NEW c \in Commands, Queue(c) \/ Withdraw(c) \/ TurnResult(c) PROVE TableGoesOn
    <3>1. seq' = seq
      BY <2>1 DEF Queue, Withdraw, TurnResult
    <3>2. ASSUME NEW d \in Commands PROVE Stays(d)
      BY <2>0, <2>1 DEF Queue, Withdraw, TurnResult, Moved
    <3>3. QED
      BY <3>1, <3>2, <1>2
  <2>2. ASSUME NEW c \in Commands, NEW s \in AckStates, Ack(c, s) PROVE TableGoesOn
    <3>1. seq' = seq /\ \A d \in Commands : Stays(d)
      BY <2>2 DEF Ack, Moved, AckStates
    <3>2. QED
      BY <3>1, <1>2
  <2>3. CASE SettleStale
    <3>1. seq' = seq /\ \A d \in Commands : Stays(d)
      BY <2>3 DEF SettleStale, Moved
    <3>2. QED
      BY <3>1, <1>2
  <2>4. CASE Number
    BY <2>4, NumbersGoUp
  <2>5. CASE Retire \/ Reenroll
    <3>1. seq' = seq
      BY <2>5 DEF Retire, Reenroll
    <3>2. ASSUME NEW d \in Commands PROVE Stays(d)
      BY <2>5 DEF Retire, Reenroll, Moved, InState
    <3>3. QED
      BY <3>1, <3>2, <1>2
  <2>6. CASE Moves
    <3>1. seq' = seq /\ state' = state
      BY <2>6 DEF Moves, Reserve, GiveUp, Arrive, Leave, UnchangedCommands
    <3>2. QED
      BY <3>1, <1>2
  <2>7. CASE UNCHANGED homeVars
    <3>1. seq' = seq /\ state' = state
      BY <2>7 DEF homeVars
    <3>2. QED
      BY <3>1, <1>2
  <2>8. QED
    BY <2>1, <2>2, <2>3, <2>4, <2>5, <2>6, <2>7 DEF HomeNext
<1>4. QED
  BY <1>3, TableStepInv

(* A step of the whole is one of the home's table, or leaves it alone.      *)
LEMMA WorkerStepsTable ==
  ASSUME WorkerInv, [Next]_vars
  PROVE  [HomeNext]_homeVars
<1>1. CASE HomeStep
  BY <1>1 DEF HomeStep, HomeNext
<1>2. CASE Open \/ Wake \/ Deliver \/ GhostPass
  BY <1>2 DEF Open, Wake, Deliver, GhostPass, HomeNext, UnchangedHome
<1>3. CASE Receive \/ Drop \/ Restart \/ Beat
  BY <1>3 DEF Receive, Drop, Restart, Beat, UnchangedHome
<1>4. ASSUME NEW c \in Commands, Work(c) \/ Result(c) PROVE [HomeNext]_homeVars
  BY <1>4 DEF Work, Result, HomeNext, UnchangedHome
<1>5. ASSUME NEW c \in Commands, HomeAck(c) PROVE [HomeNext]_homeVars
  <2>1. outcome[c] \in AckStates
    BY <1>5 DEF HomeAck, WorkerInv, HeldInv, StreamTypeOK, JournalTypeOK, Outcomes, AckStates
  <2>2. QED
    BY <1>5, <2>1 DEF HomeAck, HomeNext
<1>6. CASE TurnOff \/ EnrollAgain
  BY <1>6 DEF TurnOff, EnrollAgain, HomeNext
<1>7. CASE UNCHANGED vars
  BY <1>7 DEF vars
<1>8. QED
  BY <1>1, <1>2, <1>3, <1>4, <1>5, <1>6, <1>7 DEF Next

----------------------------------------------------------------------------
(* What a step that changes only part leaves true of the rest               *)

(* The numbers and stages of a typed state. *)
LEMMA Plain ==
  ASSUME TableInv
  PROVE  \A c \in Commands : seq[c] \in Nat /\ seq[c] <= NumCommands
BY WireAssumption DEF TableInv, HomeTypeOK, WireTypeOK

(* What an earlier worker did counts on, unless it was sent on a revoked    *)
(* stream.                                                                  *)
EarlierGoesOn ==
  \A c \in Commands :
    /\ c \in overlapped => c \in overlapped'
    /\ c \in overlapped' => c \in overlapped \/ state'[c] = "sent"
    /\ c \notin overlapped' => elsewhere'[c] = elsewhere[c]

LEMMA HeldKept ==
  ASSUME WorkerInv, TableInv', TableGoesOn, UNCHANGED journalVars, EarlierGoesOn,
         \A c \in Commands : c \in ToSet(channel') => c \in ToSet(channel) \/ state'[c] = "sent"
  PROVE  HeldInv'
<1> USE DEF journalVars, InStage
<1>1. \A c \in Commands : stage[c] # "none" => seq[c] # 0 /\ state[c] \notin {"none", "queued"}
  BY DEF WorkerInv, HeldInv, TableInv, NumberedIffStreamed
<1>2. \A c \in Commands : seq[c] # 0 /\ state[c] # "sent" => seq'[c] # 0 /\ state'[c] # "sent"
  BY DEF TableGoesOn
<1>3. \A c \in Commands : stage[c] \in {"confirmed", "dropped"} => state'[c] \notin Unsettled
  BY <1>1 DEF TableGoesOn, WorkerInv, HeldInv, ForgottenNeverResent, Unsettled
<1>4. ForgottenNeverResent'
  BY <1>3 DEF WorkerInv, HeldInv, ForgottenNeverResent, Unsettled
<1>5. NeverTwice'
  BY DEF WorkerInv, HeldInv, NeverTwice, Made, EarlierGoesOn, OnceOnly
<1>6. ASSUME NEW c \in Commands
      PROVE  /\ (outcome[c] # "none" <=> stage[c] \in {"finished", "confirmed", "dropped"})'
             /\ (applied[c] > 0 => stage[c] \in {"started", "finished", "confirmed", "dropped"})'
             /\ (stage[c] # "none" => seq[c] # 0)'
  BY <1>1 DEF WorkerInv, HeldInv, TableGoesOn
<1>7. ASSUME NEW c \in Commands, c \notin overlapped', elsewhere'[c] > 0
      PROVE  seq'[c] # 0 /\ state'[c] # "sent" /\ stage'[c] = "none" /\ c \notin ToSet(channel')
  <2>1. ElsewhereOnly(c)
    BY <1>7 DEF EarlierGoesOn, ElsewhereOnly
  <2>2. seq[c] # 0 /\ state[c] # "sent" /\ stage[c] = "none" /\ c \notin ToSet(channel)
    BY <2>1 DEF WorkerInv, HeldInv, ElsewhereOnly
  <2>3. QED
    BY <1>2, <2>2
<1>8. ASSUME NEW c \in Commands, c \in overlapped' PROVE seq'[c] # 0
  <2>1. CASE c \in overlapped
    BY <2>1 DEF WorkerInv, HeldInv, TableGoesOn
  <2>2. CASE state'[c] = "sent"
    BY <2>2 DEF TableInv, NumberedIffStreamed
  <2>3. QED
    BY <1>8, <2>1, <2>2 DEF EarlierGoesOn
<1>9. QED
  BY <1>4, <1>5, <1>6, <1>7, <1>8 DEF HeldInv, ElsewhereOnly

LEMMA FrontKept ==
  ASSUME WorkerInv, TableInv', TableGoesOn,
         \A c \in Commands : stage'[c] # "none" => stage[c] # "none",
         \A c \in Commands : state'[c] = "sent" /\ c \in Journaled => c \in Journaled'
  PROVE  FrontInv'
<1>1. SUFFICES ASSUME NEW c \in Commands, NEW d \in Commands, state'[c] = "sent",
                      c \notin Journaled', stage'[d] # "none"
               PROVE  seq'[d] < seq'[c]
  BY DEF FrontInv, InState
<1>2. stage[d] # "none" /\ seq[d] # 0 /\ seq'[d] = seq[d] /\ c \notin Journaled
  BY <1>1 DEF WorkerInv, HeldInv, TableGoesOn
<1>3. CASE seq[c] = 0
  <2>1. seq'[c] # 0
    BY <1>1 DEF TableInv, NumberedIffStreamed
  <2>2. QED
    BY <1>2, <1>3, <2>1 DEF TableGoesOn
<1>4. CASE seq[c] # 0
  <2>1. state[c] = "sent" /\ seq'[c] = seq[c]
    BY <1>1, <1>4 DEF TableGoesOn
  <2>2. QED
    BY <1>2, <2>1 DEF WorkerInv, FrontInv, InState
<1>5. QED
  BY <1>3, <1>4

LinkGoesOn ==
  /\ Streaming' => Streaming
  /\ link' = "closed" => link = "closed"
  /\ link' = "none" => link = "none"

LEMMA StreamedKept ==
  ASSUME WorkerInv, TableInv', TableGoesOn, enrolled' = enrolled, LinkGoesOn, UNCHANGED <<streamed, channel>>,
         \A c \in Commands : state'[c] = "sent" /\ c \in Journaled => c \in Journaled'
  PROVE  StreamedInv'
<1> USE DEF WorkerInv, StreamedInv
<1>1. \A i \in DOMAIN channel : channel[i] \in Commands /\ seq'[channel[i]] = seq[channel[i]]
  BY LenProperties, ElementOfSeq DEF StreamTypeOK, TableGoesOn
<1>2. streamed = 0 \/ \E c \in Commands : seq[c] = streamed /\ seq'[c] = streamed
  BY DEF TableGoesOn
<1>3. NothingSkipped'
  <2>1. SUFFICES ASSUME NEW c \in Commands, state'[c] = "sent", Streaming,
                        c \notin Journaled', c \notin ToSet(channel)
                 PROVE  seq'[c] > streamed
    BY DEF NothingSkipped, InState, LinkGoesOn
  <2>2. c \notin Journaled
    BY <2>1
  <2>3. CASE seq[c] = 0
    <3>1. seq'[c] # 0 /\ seq'[c] \in Nat
      BY <2>1 DEF TableInv, NumberedIffStreamed, HomeTypeOK, WireTypeOK
    <3>2. CASE streamed = 0
      BY <3>1, <3>2
    <3>3. CASE streamed # 0
      BY <2>3, <3>1, <3>3, <1>2, Plain DEF TableGoesOn
    <3>4. QED
      BY <3>2, <3>3
  <2>4. CASE seq[c] # 0
    <3>1. state[c] = "sent" /\ seq'[c] = seq[c]
      BY <2>1, <2>4 DEF TableGoesOn
    <3>2. QED
      BY <2>1, <2>2, <3>1 DEF NothingSkipped, InState
  <2>5. QED
    BY <2>3, <2>4
<1>4. QED
  BY <1>1, <1>2, <1>3 DEF LinkGoesOn

(* Placements move only to new generations, and commands are queued for     *)
(* those there are.                                                         *)
LEMMA PlacesKept ==
  ASSUME WorkerInv, TableInv', [HomeNext]_homeVars, released' = released
  PROVE  PlacesInv'
<1>0. /\ \A e \in Executions : /\ placement[e] \in [here : BOOLEAN, gen : Generations]
                               /\ reserved[e] \in Nat /\ lastGen[e] \in Nat \ {0}
                               /\ released[e] \in Nat
      /\ DOMAIN placement = Executions /\ DOMAIN reserved = Executions /\ DOMAIN lastGen = Executions
      /\ \A c \in Commands : generation[c] \in Nat
      /\ DOMAIN generation = Commands
  BY WireAssumption DEF WorkerInv, TableInv, HomeTypeOK, WireTypeOK, Generations, StreamTypeOK, JournalTypeOK
<1> DEFINE Placed(e) == /\ placement[e].here => reserved[e] = 0 /\ placement[e].gen = lastGen[e]
                        /\ reserved[e] # 0 => reserved[e] = lastGen[e]
                        /\ released[e] <= lastGen[e]
                        /\ placement[e].here => released[e] < placement[e].gen
                        /\ reserved[e] # 0 => released[e] < reserved[e]
           Aimed(c) == ExecOf[c] # Device => generation[c] <= lastGen[ExecOf[c]]
<1>1. (\A e \in Executions : Placed(e)) /\ (\A c \in Commands : Aimed(c))
  BY DEF WorkerInv, PlacesInv, ReleasedNeverCurrent
<1>2. SUFFICES (\A e \in Executions : Placed(e)') /\ (\A c \in Commands : Aimed(c)')
  BY DEF PlacesInv, ReleasedNeverCurrent
<1>3. \A c \in Commands : ExecOf[c] # Device => ExecOf[c] \in Executions
  BY WireAssumption
<1>4. ASSUME NEW c \in Commands, Queue(c)
      PROVE  (\A e \in Executions : Placed(e)') /\ (\A d \in Commands : Aimed(d)')
  <2>1. UNCHANGED <<placement, reserved, lastGen>>
    BY <1>4 DEF Queue, UnchangedPlacement
  <2>2. \A e \in Executions : Placed(e)'
    BY <1>1, <2>1
  <2>3. PICK g \in 0..MaxGen :
          /\ IF ExecOf[c] = Device THEN g = 0
             ELSE LET e == ExecOf[c] IN
                    \/ placement[e] = [here |-> TRUE, gen |-> g]
                    \/ reserved[e] = g /\ g # 0 /\ c \notin Sends
          /\ generation' = [generation EXCEPT ![c] = g]
    BY <1>4 DEF Queue
  <2>4. ExecOf[c] # Device => g <= lastGen[ExecOf[c]]
    <3>1. SUFFICES ASSUME ExecOf[c] # Device PROVE g <= lastGen[ExecOf[c]]
      OBVIOUS
    <3>2. PICK e \in Executions : e = ExecOf[c]
      BY <3>1, <1>3
    <3>3. g = lastGen[e]
      BY <1>1, <2>3, <3>1, <3>2
    <3>4. QED
      BY <1>0, <3>2, <3>3
  <2>5. \A d \in Commands : generation'[d] = IF d = c THEN g ELSE generation[d]
    BY <1>0, <2>3
  <2>6. \A d \in Commands : Aimed(d)'
    BY <1>1, <2>1, <2>4, <2>5
  <2>7. QED
    BY <2>2, <2>6
<1>5. ASSUME UNCHANGED <<placement, reserved, lastGen, generation>>
      PROVE  (\A e \in Executions : Placed(e)') /\ (\A d \in Commands : Aimed(d)')
  BY <1>1, <1>5
<1>6. ASSUME NEW x \in Executions, Reserve(x) \/ GiveUp(x) \/ Arrive(x) \/ Leave(x)
      PROVE  (\A e \in Executions : Placed(e)') /\ (\A d \in Commands : Aimed(d)')
  <2>0. generation' = generation
    BY <1>6 DEF Reserve, GiveUp, Arrive, Leave, UnchangedCommands
  <2>1. \A e \in Executions : lastGen[e] <= lastGen'[e]
    BY <1>0, <1>6 DEF Reserve, GiveUp, Arrive, Leave, NewGen, Generations
  <2>2. \A d \in Commands : Aimed(d)'
    <3>1. ASSUME NEW d \in Commands, ExecOf[d] # Device PROVE generation[d] <= lastGen'[ExecOf[d]]
      <4>1. PICK e \in Executions : e = ExecOf[d]
        BY <3>1, <1>3
      <4>2. lastGen'[e] \in Nat
        BY WireAssumption DEF TableInv, HomeTypeOK, Generations
      <4>3. generation[d] <= lastGen[e] /\ lastGen[e] <= lastGen'[e]
        BY <1>1, <2>1, <3>1, <4>1
      <4>4. QED
        BY <1>0, <4>1, <4>2, <4>3
    <3>2. QED
      BY <2>0, <3>1
  <2>3. ASSUME NEW e \in Executions PROVE Placed(e)'
    <3>1. CASE Reserve(x)
      BY <1>0, <1>1, <3>1 DEF Reserve, NewGen, Generations
    <3>2. CASE GiveUp(x)
      BY <1>0, <1>1, <3>2 DEF GiveUp
    <3>3. CASE Arrive(x)
      BY <1>0, <1>1, <3>3 DEF Arrive
    <3>4. CASE Leave(x)
      BY <1>0, <1>1, <3>4 DEF Leave, NewGen, Generations
    <3>5. QED
      BY <1>6, <3>1, <3>2, <3>3, <3>4
  <2>4. QED
    BY <2>2, <2>3
<1>7. CASE Moves
  BY <1>7, <1>6 DEF Moves
<1>8. ASSUME NEW c \in Commands, Withdraw(c) \/ TurnResult(c)
      PROVE  UNCHANGED <<placement, reserved, lastGen, generation>>
  BY <1>8 DEF Withdraw, TurnResult, UnchangedPlacement
<1>9. ASSUME NEW c \in Commands, NEW s \in AckStates, Ack(c, s)
      PROVE  UNCHANGED <<placement, reserved, lastGen, generation>>
  BY <1>9 DEF Ack, UnchangedPlacement
<1>10. SettleStale \/ Number \/ Retire \/ Reenroll \/ UNCHANGED homeVars
         => UNCHANGED <<placement, reserved, lastGen, generation>>
  BY DEF SettleStale, Number, Retire, Reenroll, UnchangedPlacement, homeVars
<1> HIDE DEF Placed, Aimed
<1>11. QED
  BY <1>4, <1>5, <1>7, <1>8, <1>9, <1>10 DEF HomeNext

----------------------------------------------------------------------------
(* The stream's cursor *)

(* The journal's cursor is the number of a command in it. *)
LEMMA CursorIsReceived ==
  ASSUME TableInv
  PROVE  Cursor \in 0..NumCommands /\ (Cursor = 0 \/ \E c \in Journaled : seq[c] = Cursor)
<1> DEFINE numbers == {seq[c] : c \in Journaled}
           goes(n) == /\ n + 1 \notin numbers
                      /\ \A m \in numbers : m < n => (m..n) \subseteq numbers
<1>1. NumCommands \in Nat /\ numbers \in SUBSET (0..NumCommands) /\ numbers \in SUBSET Nat
  BY WireAssumption DEF TableInv, HomeTypeOK, WireTypeOK, Journaled
<1>2. CASE numbers = {}
  <2>1. Cursor = 0
    BY <1>2 DEF Cursor, CursorOf
  <2>2. QED
    BY <1>1, <2>1
<1>3. CASE numbers # {}
  <2>1. Cursor = CHOOSE n \in numbers : goes(n)
    BY <1>3 DEF Cursor, CursorOf
  <2> HIDE DEF numbers
  <2>2. PICK low \in numbers : \A m \in numbers : low <= m
    BY <1>1, <1>3, LeastOf
  <2> DEFINE runs == {n \in 0..NumCommands : low <= n /\ (low..n) \subseteq numbers}
  <2>3. low \in runs
    BY <1>1, <2>2
  <2>4. PICK n \in runs : \A m \in runs : m <= n
    BY <1>1, <2>3, GreatestOf
  <2>5. n \in Nat /\ low \in Nat /\ low <= n /\ n \in numbers
    BY <1>1, <2>2, <2>4
  <2>6. n + 1 \notin numbers
    <3>1. SUFFICES ASSUME n + 1 \in numbers PROVE FALSE
      OBVIOUS
    <3>2. \A k \in low..(n + 1) : k \in low..n \/ k = n + 1
      BY <2>5
    <3>3. n + 1 \in runs
      BY <1>1, <2>4, <2>5, <3>1, <3>2
    <3>4. QED
      BY <2>4, <2>5, <3>3
  <2>7. \A m \in numbers : m < n => (m..n) \subseteq numbers
    BY <1>1, <2>2, <2>4, <2>5
  <2>8. goes(n)
    BY <2>6, <2>7
  <2> HIDE DEF goes
  <2>9. Cursor \in numbers
    BY <2>1, <2>5, <2>8
  <2>10. QED
    BY <1>1, <2>9 DEF numbers
<1>4. QED
  BY <1>2, <1>3

(* What was sent up to the cursor is in the journal. *)
LEMMA CursorNeverPasses ==
  ASSUME WorkerInv
  PROVE  CursorSafe
<1>1. SUFFICES ASSUME NEW c \in Commands, state[c] = "sent", seq[c] <= Cursor, c \notin Journaled
               PROVE  FALSE
  BY DEF CursorSafe, InState
<1>2. seq[c] \in Nat /\ seq[c] # 0 /\ Cursor \in Nat
  BY <1>1, CursorIsReceived, Plain DEF WorkerInv, TableInv, NumberedIffStreamed
<1>3. PICK d \in Journaled : seq[d] = Cursor
  BY <1>1, <1>2, CursorIsReceived DEF WorkerInv
<1>4. d \in Commands /\ stage[d] # "none"
  BY <1>3 DEF Journaled, InStage
<1>5. seq[d] < seq[c]
  BY <1>1, <1>4 DEF WorkerInv, FrontInv, InState
<1>6. QED
  BY <1>1, <1>2, <1>3, <1>5

(* It is opened where the journal leaves off. *)
LEMMA OpenedWhereItLeftOff ==
  ASSUME WorkerInv, TableInv', TableGoesOn, Open
  PROVE  StreamedInv' /\ streamed' \in 0..NumCommands /\ channel' \in Seq(Commands)
<1>1. /\ link' = "open" /\ enrolled' = TRUE /\ channel' = <<>> /\ streamed' = Cursor
      /\ seq' = seq /\ stage' = stage
  BY DEF Open, SettleStale, UnchangedJournal, journalVars, WorkerInv, TableInv, HomeTypeOK
<1>2. Cursor \in 0..NumCommands /\ (Cursor = 0 \/ \E c \in Commands : seq[c] = Cursor)
  BY CursorIsReceived DEF WorkerInv, Journaled
<1>3. channel' \in Seq(Commands) /\ DOMAIN channel' = {}
  BY <1>1, EmptySeq
<1>4. NothingSkipped'
  <2>1. SUFFICES ASSUME NEW c \in Commands, state'[c] = "sent", c \notin Journaled
                 PROVE  seq[c] > Cursor
    BY <1>1 DEF NothingSkipped, InState, Journaled, InStage
  <2>2. seq[c] # 0
    BY <1>1, <2>1 DEF TableInv, NumberedIffStreamed
  <2>3. state[c] = "sent"
    BY <2>1, <2>2 DEF TableGoesOn
  <2>4. QED
    BY <1>2, <2>1, <2>3, CursorNeverPasses, Plain, WireAssumption DEF CursorSafe, InState, WorkerInv
<1>5. QED
  BY <1>1, <1>2, <1>3, <1>4 DEF StreamedInv, Streaming

(* A delivery pass sends on, in the order of the numbers, all it must.      *)
LEMMA DeliveredInOrder ==
  ASSUME WorkerInv, TableInv', TableGoesOn, Deliver
  PROVE  /\ StreamedInv' /\ streamed' \in 0..NumCommands /\ channel' \in Seq(Commands)
         /\ \A c \in Commands : c \in ToSet(channel') => c \in ToSet(channel) \/ state'[c] = "sent"
<1> DEFINE out == {c \in Commands : state'[c] = "sent" /\ seq'[c] > streamed}
           numbers == {streamed} \cup {seq'[c] : c \in out}
<1>0. /\ Streaming /\ link' = link /\ enrolled' = enrolled /\ enrolled /\ stage' = stage
      /\ streamed \in 0..NumCommands /\ channel \in Seq(Commands) /\ NumCommands \in Nat
  BY WireAssumption DEF Deliver, Number, UnchangedJournal, journalVars, WorkerInv, StreamTypeOK
<1>1. channel' = channel \o SortedBy(out, seq') /\ streamed' = Max(numbers)
  BY DEF Deliver
<1>2. \A c \in Commands : /\ seq[c] \in Nat
                          /\ seq'[c] \in Nat /\ seq'[c] <= NumCommands /\ seq'[c] \in 0..NumCommands
  BY WireAssumption DEF WorkerInv, TableInv, HomeTypeOK, WireTypeOK
<1>3. PICK key : key = seq'
  OBVIOUS
<1>4. out \in SUBSET Commands /\ IsFiniteSet(out)
  BY CountOf
<1>5. \A c, d \in out : key[c] = key[d] => c = d
  <2>1. \A c, d \in Commands : seq'[c] # 0 /\ seq'[c] = seq'[d] => c = d
    BY DEF TableInv, NumbersContiguous, Numbered
  <2>2. \A c \in out : seq'[c] # 0
    BY <1>0, <1>2
  <2>3. QED
    BY <1>3, <2>1, <2>2
<1>6. Sortable(out, key)
  BY <1>2, <1>3, <1>4, <1>5 DEF Sortable
<1> DEFINE sent == SortedBy(out, key)
<1>7. Sorts(sent, out, key)
  BY <1>6, SortedByProperties
<1>8. PICK top \in numbers : \A n \in numbers : n <= top
  <2>1. numbers \in SUBSET 0..NumCommands /\ numbers # {}
    BY <1>0, <1>2
  <2>2. QED
    BY <1>0, <2>1, GreatestOf
<1>9. streamed' = top /\ top \in 0..NumCommands /\ streamed <= top
  <2>1. numbers \in SUBSET Int
    BY <1>0, <1>2
  <2>2. Max(numbers) = top
    BY <1>8, <2>1, MaxIs
  <2>3. QED
    BY <1>0, <1>1, <1>2, <1>8, <2>2
<1>10. top = 0 \/ \E c \in Commands : seq'[c] = top
  <2>1. CASE top = streamed
    BY <2>1 DEF WorkerInv, StreamedInv, TableGoesOn
  <2>2. CASE top # streamed
    BY <1>8, <2>2
  <2>3. QED
    BY <2>1, <2>2
<1>11. \A c \in out : seq'[c] <= top /\ streamed < seq'[c]
  BY <1>0, <1>2, <1>8
<1> HIDE DEF out, numbers
<1>12. sent \in Seq(out) /\ sent \in Seq(Commands) /\ ToSet(sent) = out
  <2>1. Once(sent, out, Commands)
    BY <1>4, <1>6, OnceSorted
  <2>2. QED
    BY <1>7, <2>1 DEF Once, Sorts
<1>13. channel' = channel \o sent /\ channel' \in Seq(Commands) /\ ToSet(channel') = ToSet(channel) \cup out
  BY <1>0, <1>1, <1>3, <1>12, ToSetOfConcat, ConcatProperties
<1>14. /\ Len(channel) \in Nat /\ Len(sent) \in Nat /\ DOMAIN channel' = 1..(Len(channel) + Len(sent))
       /\ DOMAIN channel = 1..Len(channel) /\ DOMAIN sent = 1..Len(sent)
       /\ \A i \in 1..Len(channel) : channel'[i] = channel[i] /\ channel[i] \in Commands
       /\ \A i \in Len(channel) + 1..Len(channel) + Len(sent) : channel'[i] = sent[i - Len(channel)]
  <2>1. channel' = channel \o sent
    BY <1>13
  <2>2. QED
    BY <1>0, <1>12, <2>1, ConcatProperties, LenProperties, ElementOfSeq
<1> DEFINE old == Len(channel)
           all == Len(channel) + Len(sent)
<1>15. \A i \in 1..old : /\ seq[channel[i]] # 0 /\ seq'[channel'[i]] = seq[channel[i]]
                         /\ seq'[channel'[i]] <= streamed
  BY <1>14 DEF WorkerInv, StreamedInv, TableGoesOn
<1>16. \A i \in old + 1..all : /\ channel'[i] \in out /\ i - old \in 1..Len(sent)
                              /\ channel'[i] = sent[i - old]
  <2>1. ASSUME NEW i \in old + 1..all PROVE i - old \in 1..Len(sent)
    BY <1>14
  <2>2. QED
    BY <1>12, <1>14, <2>1, ElementOfSeq
<1>17. \A i, j \in 1..Len(sent) : i < j => seq'[sent[i]] < seq'[sent[j]]
  BY <1>3, <1>7, <1>14 DEF Sorts
<1>18. out \subseteq Commands
  BY <1>4
<1>19. \A i \in 1..all : i \in 1..old \/ i \in old + 1..all
  BY <1>14
<1>20. ASSUME NEW i \in DOMAIN channel' PROVE seq'[channel'[i]] # 0 /\ seq'[channel'[i]] <= streamed'
  <2>1. CASE i \in 1..old
    <3>1. channel'[i] \in Commands
      BY <1>14, <2>1
    <3>2. PICK n : n = seq'[channel'[i]]
      OBVIOUS
    <3>3. n \in Nat /\ n # 0 /\ n <= streamed
      BY <1>2, <1>15, <2>1, <3>1, <3>2
    <3>4. QED
      BY <1>0, <1>9, <3>2, <3>3
  <2>2. CASE i \in old + 1..all
    <3>1. PICK c \in out : c = channel'[i]
      BY <1>16, <2>2
    <3>2. seq'[c] <= top /\ streamed < seq'[c] /\ seq'[c] \in Nat
      BY <1>2, <1>11, <1>18, <3>1
    <3>3. QED
      BY <1>0, <1>9, <3>1, <3>2
  <2>3. QED
    BY <1>14, <1>19, <2>1, <2>2
<1>21. ASSUME NEW i \in DOMAIN channel', NEW j \in DOMAIN channel', i < j
       PROVE  seq'[channel'[i]] < seq'[channel'[j]]
  <2>1. CASE j \in 1..old
    <3>1. i \in 1..old
      BY <1>14, <1>21, <2>1
    <3>2. seq[channel[i]] < seq[channel[j]]
      BY <1>14, <1>21, <2>1, <3>1 DEF WorkerInv, StreamedInv
    <3>3. QED
      BY <1>15, <2>1, <3>1, <3>2
  <2>2. CASE i \in 1..old /\ j \in old + 1..all
    <3>1. PICK c \in out : c = channel'[j]
      BY <1>16, <2>2
    <3>2. streamed < seq'[c] /\ seq'[c] \in Nat
      BY <1>2, <1>11, <1>18, <3>1
    <3>3. channel'[i] \in Commands
      BY <1>14, <2>2
    <3>4. PICK n : n = seq'[channel'[i]]
      OBVIOUS
    <3>5. n \in Nat /\ n <= streamed
      BY <1>2, <1>15, <2>2, <3>3, <3>4
    <3>6. QED
      BY <1>0, <3>1, <3>2, <3>4, <3>5
  <2>3. CASE i \in old + 1..all /\ j \in old + 1..all
    <3>1. i - old < j - old
      BY <1>14, <1>21, <2>3
    <3>2. QED
      BY <1>16, <1>17, <2>3, <3>1
  <2>4. CASE i \in old + 1..all /\ j \in 1..old
    BY <1>14, <1>21, <2>4
  <2>5. QED
    BY <1>14, <1>19, <2>1, <2>2, <2>3, <2>4
<1>22. NothingSkipped'
  <2>1. SUFFICES ASSUME NEW c \in Commands, state'[c] = "sent", c \notin Journaled, c \notin ToSet(channel')
                 PROVE  seq'[c] > streamed'
    BY <1>0 DEF NothingSkipped, InState, Journaled, InStage
  <2>2. c \notin out /\ c \notin ToSet(channel)
    BY <1>13, <2>1
  <2>3. seq'[c] <= streamed /\ seq'[c] # 0
    BY <1>0, <1>2, <2>1, <2>2 DEF out, TableInv, NumberedIffStreamed
  <2>4. CASE seq[c] = 0
    <3>1. \A d \in Commands : seq[d] < seq'[c]
      BY <2>3, <2>4 DEF TableGoesOn
    <3>2. streamed = 0 \/ \E d \in Commands : seq[d] = streamed
      BY DEF WorkerInv, StreamedInv
    <3>3. QED
      BY <1>0, <1>2, <2>3, <3>1, <3>2
  <2>5. CASE seq[c] # 0
    <3>1. state[c] = "sent" /\ seq'[c] = seq[c]
      BY <2>1, <2>5 DEF TableGoesOn
    <3>2. seq[c] > streamed
      BY <1>0, <2>1, <2>2, <3>1 DEF WorkerInv, StreamedInv, NothingSkipped, InState
    <3>3. QED
      BY <1>0, <1>2, <2>3, <3>1, <3>2
  <2>6. QED
    BY <2>4, <2>5
<1>23. StreamedInv'
  BY <1>0, <1>9, <1>10, <1>20, <1>21, <1>22 DEF StreamedInv, Streaming
<1>24. \A c \in out : state'[c] = "sent"
  BY DEF out
<1>25. QED
  BY <1>9, <1>13, <1>23, <1>24

----------------------------------------------------------------------------
(* The worker's steps *)

(* The next command is journaled after all before it. *)
LEMMA ReceiptInOrder ==
  ASSUME WorkerInv, Receive
  PROVE  JournalTypeOK' /\ channel' \in Seq(Commands) /\ HeldInv' /\ StreamedInv' /\ FrontInv'
<1> PICK c : c = Head(channel)
  OBVIOUS
<1>0. /\ channel # <<>> /\ channel' = Tail(channel) /\ channel \in Seq(Commands)
      /\ UNCHANGED <<state, seq, enrolled, link, streamed, elsewhere, overlapped, applied, released>>
  BY DEF Receive, UnchangedHome, homeVars, UnchangedEarlier, earlierVars, UnchangedJournal, journalVars,
         WorkerInv, StreamTypeOK
<1>1. /\ Len(channel) \in Nat /\ Len(channel) # 0 /\ c = channel[1] /\ c \in Commands
      /\ DOMAIN channel = 1..Len(channel)
      /\ Tail(channel) \in Seq(Commands) /\ DOMAIN Tail(channel) = 1..Len(channel) - 1
      /\ \A i \in 1..Len(channel) - 1 : Tail(channel)[i] = channel[i + 1]
  BY <1>0, HeadTailProperties, LenProperties, EmptySeq, ElementOfSeq
<1>2. c \in ToSet(channel) /\ ToSet(channel') \subseteq ToSet(channel)
  BY <1>0, <1>1 DEF ToSet
<1>3. \A d \in Commands : d \in ToSet(channel) => d \in ToSet(channel') \/ d = c
  <2>1. ASSUME NEW i \in 1..Len(channel), i # 1 PROVE channel[i] \in ToSet(channel')
    <3>1. i - 1 \in 1..Len(channel) - 1 /\ (i - 1) + 1 = i
      BY <1>1, <2>1
    <3>2. channel'[i - 1] = channel[i]
      BY <1>0, <1>1, <3>1
    <3>3. QED
      BY <1>0, <1>1, <3>1, <3>2 DEF ToSet
  <2>2. QED
    BY <1>1, <2>1 DEF ToSet
<1>4. seq[c] # 0 /\ seq[c] <= streamed
  BY <1>1 DEF WorkerInv, StreamedInv
<1>5. stage[c] # "dropped" /\ ~ElsewhereOnly(c)
  BY <1>1, <1>2 DEF WorkerInv, HeldInv, ForgottenNeverResent, InStage
<1>6. /\ DOMAIN stage = Commands /\ DOMAIN outcome = Commands
      /\ \A d \in Commands : applied[d] \in Nat /\ stage[d] \in Stages
  BY DEF WorkerInv, StreamTypeOK, JournalTypeOK, EffectCap
<1>7. c \in Journaled <=> stage[c] # "none"
  BY <1>1, <1>5 DEF Journaled, InStage
<1>8. /\ c \in Journaled => stage' = stage /\ outcome' = outcome
      /\ c \notin Journaled => /\ stage' = [stage EXCEPT ![c] = "received"]
                               /\ outcome' = [outcome EXCEPT ![c] = "none"]
  BY DEF Receive, UnchangedJournal, journalVars
<1>9. \A d \in Commands :
        /\ d # c => stage'[d] = stage[d] /\ outcome'[d] = outcome[d]
        /\ stage[c] # "none" => stage'[c] = stage[c] /\ outcome'[c] = outcome[c]
        /\ stage[c] = "none" => stage'[c] = "received" /\ outcome'[c] = "none"
  BY <1>1, <1>6, <1>7, <1>8
<1>10. JournalTypeOK'
  BY <1>0, <1>1, <1>8 DEF WorkerInv, StreamTypeOK, JournalTypeOK, Stages
<1>11. HeldInv'
  <2>1. ASSUME NEW d \in Commands
        PROVE  /\ (outcome[d] # "none" <=> stage[d] \in {"finished", "confirmed", "dropped"})'
               /\ (applied[d] > 0 => stage[d] \in {"started", "finished", "confirmed", "dropped"})'
               /\ (stage[d] # "none" => seq[d] # 0)'
    <3>1. CASE d # c
      BY <1>0, <1>9, <3>1 DEF WorkerInv, HeldInv
    <3>2. CASE d = c
      BY <1>0, <1>1, <1>4, <1>9, <3>2 DEF WorkerInv, HeldInv
    <3>3. QED
      BY <3>1, <3>2
  <2>2. ASSUME NEW d \in Commands, ElsewhereOnly(d)
        PROVE  state[d] # "sent" /\ stage'[d] = "none" /\ d \notin ToSet(channel')
    <3>1. d # c
      BY <1>5, <2>2
    <3>2. QED
      BY <1>2, <1>9, <2>2, <3>1 DEF WorkerInv, HeldInv
  <2>2a. \A d \in Commands : ElsewhereOnly(d)' <=> ElsewhereOnly(d)
    BY <1>0 DEF ElsewhereOnly
  <2>2b. \A d \in Commands : elsewhere[d] > 0 \/ d \in overlapped => seq[d] # 0
    BY DEF WorkerInv, HeldInv
  <2>3. NeverTwice'
    BY <1>0 DEF WorkerInv, HeldInv, NeverTwice, Made
  <2>4. \A d \in Commands : stage'[d] \in {"confirmed", "dropped"} => stage'[d] = stage[d]
    BY <1>9
  <2>5. ForgottenNeverResent'
    BY <1>0, <1>2, <2>4 DEF WorkerInv, HeldInv, ForgottenNeverResent, InStage
  <2>6. QED
    BY <1>0, <2>1, <2>2, <2>2a, <2>2b, <2>3, <2>5 DEF HeldInv
<1>12. \A d \in Commands : /\ d # c => (d \in Journaled <=> d \in Journaled')
                           /\ c \in Journaled'
  BY <1>1, <1>5, <1>9 DEF Journaled, InStage
(* What was sent and is not journaled comes after what was just received. *)
<1>13. ASSUME NEW d \in Commands, state[d] = "sent", d \notin Journaled, d # c PROVE seq[c] < seq[d]
  <2>1. CASE Streaming
    <3>1. CASE d \in ToSet(channel)
      <4>1. PICK i \in 1..Len(channel) : d = channel[i]
        BY <1>1, <3>1 DEF ToSet
      <4>2. i # 1
        BY <1>1, <1>13, <4>1
      <4>3. QED
        BY <1>1, <4>1, <4>2 DEF WorkerInv, StreamedInv
    <3>2. CASE d \notin ToSet(channel)
      <4>1. seq[d] > streamed
        BY <1>13, <2>1, <3>2 DEF WorkerInv, StreamedInv, NothingSkipped, InState
      <4>2. seq[c] \in Nat /\ seq[d] \in Nat /\ streamed \in Nat
        BY <1>1, Plain DEF WorkerInv, StreamTypeOK
      <4>3. QED
        BY <1>4, <4>1, <4>2
    <3>3. QED
      BY <3>1, <3>2
  <2>2. CASE link = "closed"
    BY <1>13, <2>2 DEF WorkerInv, StreamedInv, TableInv, RetiredLeavesNothingOpen
  <2>3. CASE link = "none"
    BY <1>0, <2>3 DEF WorkerInv, StreamedInv
  <2>4. QED
    BY <2>1, <2>2, <2>3 DEF WorkerInv, StreamTypeOK, Streaming
<1>14. FrontInv'
  <2>1. SUFFICES ASSUME NEW d \in Commands, NEW x \in Commands, state[d] = "sent",
                        d \notin Journaled', stage'[x] # "none"
                 PROVE  seq[x] < seq[d]
    BY <1>0 DEF FrontInv, InState
  <2>2. d # c /\ d \notin Journaled
    BY <1>12, <2>1
  <2>3. CASE x = c
    BY <1>13, <2>1, <2>2, <2>3
  <2>4. CASE x # c
    BY <1>9, <2>1, <2>2, <2>4 DEF WorkerInv, FrontInv, InState
  <2>5. QED
    BY <2>3, <2>4
<1>15. StreamedInv'
  <2>1. NothingSkipped'
    <3>1. ASSUME NEW d \in Commands, state[d] = "sent", Streaming
          PROVE  d \in Journaled' \/ d \in ToSet(channel') \/ seq[d] > streamed
      BY <1>3, <1>12, <3>1 DEF WorkerInv, StreamedInv, NothingSkipped, InState
    <3>2. QED
      BY <1>0, <3>1 DEF NothingSkipped, InState, Streaming
  <2>2. \A i \in DOMAIN Tail(channel) : seq[Tail(channel)[i]] # 0 /\ seq[Tail(channel)[i]] <= streamed
    <3>1. ASSUME NEW i \in 1..Len(channel) - 1 PROVE i + 1 \in 1..Len(channel)
      BY <1>1
    <3>2. QED
      BY <1>1, <3>1 DEF WorkerInv, StreamedInv
  <2>3. \A i, j \in DOMAIN Tail(channel) : i < j => seq[Tail(channel)[i]] < seq[Tail(channel)[j]]
    <3>1. ASSUME NEW i \in 1..Len(channel) - 1, NEW j \in 1..Len(channel) - 1, i < j
          PROVE  i + 1 \in 1..Len(channel) /\ j + 1 \in 1..Len(channel) /\ i + 1 < j + 1
      BY <1>1, <3>1
    <3>2. QED
      BY <1>1, <3>1 DEF WorkerInv, StreamedInv
  <2>4. link # "none"
    BY <1>0 DEF WorkerInv, StreamedInv
  <2>5. QED
    BY <1>0, <2>1, <2>2, <2>3, <2>4 DEF WorkerInv, StreamedInv, Streaming
<1>16. QED
  BY <1>0, <1>1, <1>10, <1>11, <1>14, <1>15

(* It works on what it has received. *)
LEMMA WorkIsJournaled ==
  ASSUME WorkerInv, NEW c \in Commands, Work(c)
  PROVE  /\ JournalTypeOK' /\ HeldInv' /\ released' = released
         /\ \A d \in Commands : stage'[d] # "none" => stage[d] # "none"
         /\ \A d \in Commands : d \in Journaled => d \in Journaled'
<1>0. /\ UNCHANGED <<state, seq, channel, elsewhere, overlapped>>
      /\ started(c) \/ Effect(c) \/ \E result \in Outcomes : finished({c}, result)
  BY DEF Work, UnchangedHome, homeVars, UnchangedStream, streamVars, linkVars, earlierVars
<1>1. JournalTypeOK /\ HeldInv
  BY DEF WorkerInv, StreamTypeOK
<1>2. \A d \in Commands : applied[d] \in Nat /\ elsewhere[d] \in Nat
  BY DEF WorkerInv, StreamTypeOK, JournalTypeOK, EffectCap
<1> USE DEF JournalTypeOK, Stages
<1> DEFINE Rest == /\ JournalTypeOK' /\ released' = released
                   /\ \A d \in Commands : stage'[d] # "none" => stage[d] # "none"
                   /\ \A d \in Commands : d \in Journaled => d \in Journaled'
           Held(d) == /\ (outcome[d] # "none" <=> stage[d] \in {"finished", "confirmed", "dropped"})
                      /\ (applied[d] > 0 => stage[d] \in {"started", "finished", "confirmed", "dropped"})
                      /\ (stage[d] # "none" => seq[d] # 0)
                      /\ elsewhere[d] > 0 \/ d \in overlapped => seq[d] # 0
                      /\ ElsewhereOnly(d) => /\ state[d] # "sent" /\ stage[d] = "none"
                                             /\ d \notin ToSet(channel)
<1>3. \A d \in Commands : Held(d)
  BY <1>1 DEF HeldInv
<1>4. CASE started(c)
  <2>1. stage[c] = "received" /\ stage' = [stage EXCEPT ![c] = "started"] /\ UNCHANGED <<outcome, released, applied>>
    BY <1>4 DEF started
  <2>2. Rest
    BY <1>1, <2>1 DEF Journaled, InStage
  <2>3. ASSUME NEW d \in Commands PROVE Held(d)'
    BY <1>0, <1>1, <1>3, <2>1 DEF ElsewhereOnly
  <2>4. NeverTwice' /\ ForgottenNeverResent'
    BY <1>0, <1>1, <2>1 DEF HeldInv, NeverTwice, Made, ForgottenNeverResent, InStage
  <2>5. QED
    BY <2>2, <2>3, <2>4 DEF HeldInv
<1>5. CASE Effect(c)
  <2>1. /\ stage[c] = "started"
        /\ c \in OnceOnly => applied[c] = 0
        /\ applied' = [applied EXCEPT ![c] = Counted(c, @ + 1)]
        /\ UNCHANGED <<stage, outcome, released>>
    BY <1>5 DEF Effect
  <2>2. Rest
    BY <1>1, <1>2, <2>1 DEF Journaled, InStage, EffectCap, Counted
  <2>3. \A d \in Commands : d # c => applied'[d] = applied[d]
    BY <1>1, <2>1
  <2>4. ASSUME NEW d \in Commands PROVE Held(d)'
    BY <1>0, <1>3, <2>1, <2>3 DEF ElsewhereOnly
  <2>5. c \notin overlapped => elsewhere[c] = 0
    BY <1>2, <1>3, <2>1 DEF ElsewhereOnly
  <2>6. c \in OnceOnly => applied'[c] = 1
    BY <1>1, <2>1 DEF EffectCap, Counted
  <2>7. NeverTwice'
    BY <1>0, <1>1, <2>3, <2>5, <2>6 DEF HeldInv, NeverTwice, Made, OnceOnly
  <2>8. ForgottenNeverResent'
    BY <1>0, <1>1, <2>1 DEF HeldInv, ForgottenNeverResent, InStage
  <2>9. QED
    BY <2>2, <2>4, <2>7, <2>8 DEF HeldInv
<1>6. ASSUME NEW result \in Outcomes, finished({c}, result)
      PROVE  Rest /\ HeldInv'
  <2>1. /\ stage[c] \in {"received", "started"} /\ result # "none"
        /\ stage' = [d \in Commands |-> IF d = c THEN "finished" ELSE stage[d]]
        /\ outcome' = [d \in Commands |-> IF d = c THEN result ELSE outcome[d]]
        /\ UNCHANGED <<released, applied>>
    BY <1>6 DEF finished, Interrupted, InStage, Outcomes
  <2>2. Rest
    BY <1>1, <1>6, <2>1 DEF Journaled, InStage
  <2>3. ASSUME NEW d \in Commands PROVE Held(d)'
    BY <1>0, <1>3, <2>1 DEF ElsewhereOnly
  <2>4. NeverTwice' /\ ForgottenNeverResent'
    BY <1>0, <1>1, <2>1 DEF HeldInv, NeverTwice, Made, ForgottenNeverResent, InStage
  <2>5. QED
    BY <2>2, <2>3, <2>4 DEF HeldInv
<1>7. QED
  BY <1>0, <1>4, <1>5, <1>6

(* Compaction forgets only what the home will not send again, and with the  *)
(* connection goes what was on it.                                          *)
LEMMA RestartForgetsSettled ==
  ASSUME WorkerInv, Restarted, seq' = seq,
         \A c \in Commands : state'[c] = state[c] \/ state'[c] \notin Unsettled
  PROVE  /\ JournalTypeOK' /\ HeldInv' /\ released' = released
         /\ \A d \in Commands : stage'[d] # "none" => stage[d] # "none"
         /\ \A d \in Commands : state'[d] = "sent" /\ d \in Journaled => d \in Journaled'
<1>1. /\ stage' \in Compacted /\ channel' = <<>>
      /\ UNCHANGED <<seq, outcome, released, applied, elsewhere, overlapped>>
  BY DEF Restarted, Lose, compact, UnchangedEarlier, earlierVars
<1>2. JournalTypeOK /\ HeldInv
  BY DEF WorkerInv, StreamTypeOK
<1>3. /\ stage' \in [Commands -> Stages]
      /\ \A c \in Commands : stage'[c] = stage[c] \/ (stage[c] = "confirmed" /\ stage'[c] = "dropped")
  BY <1>1, <1>2, CompactedOnlyDrops
<1>4. \A c \in Commands : stage[c] \in {"confirmed", "dropped"} => state[c] \notin Unsettled
  BY <1>2 DEF HeldInv, ForgottenNeverResent, InStage
<1>5. ToSet(channel') = {}
  BY <1>1, EmptySeq DEF ToSet
<1>6. ForgottenNeverResent'
  BY <1>1, <1>3, <1>4, <1>5 DEF ForgottenNeverResent, InStage
<1>7. NeverTwice'
  BY <1>1, <1>2 DEF HeldInv, NeverTwice, Made
<1>8. ASSUME NEW c \in Commands
      PROVE  /\ (outcome[c] # "none" <=> stage[c] \in {"finished", "confirmed", "dropped"})'
             /\ (applied[c] > 0 => stage[c] \in {"started", "finished", "confirmed", "dropped"})'
             /\ (stage[c] # "none" => seq[c] # 0)'
  BY <1>1, <1>2, <1>3 DEF HeldInv
<1>9. ASSUME NEW c \in Commands, ElsewhereOnly(c)
      PROVE  state'[c] # "sent" /\ stage'[c] = "none" /\ c \notin ToSet(channel')
  BY <1>2, <1>3, <1>5, <1>9 DEF HeldInv, Unsettled
<1>9a. \A c \in Commands : ElsewhereOnly(c)' <=> ElsewhereOnly(c)
  BY <1>1 DEF ElsewhereOnly
<1>9b. \A c \in Commands : elsewhere[c] > 0 \/ c \in overlapped => seq[c] # 0
  BY <1>2 DEF HeldInv
<1>10. HeldInv'
  BY <1>1, <1>6, <1>7, <1>8, <1>9, <1>9a, <1>9b DEF HeldInv
<1>11. \A d \in Commands : state'[d] = "sent" /\ d \in Journaled => d \in Journaled'
  <2>1. \A d \in Commands : state'[d] = "sent" => stage'[d] = stage[d]
    BY <1>3, <1>4 DEF Unsettled
  <2>2. QED
    BY <2>1 DEF Journaled, InStage
<1>12. QED
  BY <1>1, <1>2, <1>3, <1>10, <1>11 DEF JournalTypeOK

(* What the home has acknowledged is confirmed, and is not sent again.      *)
LEMMA AckedIsSettled ==
  ASSUME WorkerInv, TableInv', TableGoesOn, NEW c \in Commands, HomeAck(c)
  PROVE  /\ JournalTypeOK' /\ HeldInv' /\ released' = released
         /\ \A d \in Commands : stage'[d] # "none" => stage[d] # "none"
         /\ \A d \in Commands : d \in Journaled => d \in Journaled'
<1>1. /\ stage[c] = "finished" /\ stage' \in {stage, [stage EXCEPT ![c] = "confirmed"]}
      /\ seq' = seq /\ UNCHANGED <<outcome, released, applied, channel, elsewhere, overlapped>>
  BY DEF HomeAck, Ack, UnchangedStream, streamVars, linkVars, earlierVars
<1>2. JournalTypeOK /\ HeldInv
  BY DEF WorkerInv, StreamTypeOK
<1>3. \A d \in Commands : stage'[d] = stage[d] \/ (d = c /\ stage'[d] = "confirmed")
  BY <1>1, <1>2 DEF JournalTypeOK
<1>4. outcome[c] \in AckStates
  BY <1>1, <1>2 DEF HeldInv, JournalTypeOK, Outcomes, AckStates
<1>5. state'[c] \notin Unsettled
  <2>1. state[c] # "queued"
    BY <1>1, <1>2 DEF HeldInv, WorkerInv, TableInv, NumberedIffStreamed
  <2>2. QED
    BY <1>4, <2>1 DEF HomeAck, Ack, Moved, AckStates, FinalStates, Unsettled
<1>6. \A d \in Commands : stage[d] \in {"confirmed", "dropped"} => state'[d] \notin Unsettled
  <2>1. \A d \in Commands : stage[d] # "none" => seq[d] # 0 /\ state[d] \notin {"none", "queued"}
    BY <1>2 DEF HeldInv, WorkerInv, TableInv, NumberedIffStreamed
  <2>2. QED
    BY <1>2, <2>1 DEF HeldInv, ForgottenNeverResent, InStage, Unsettled, TableGoesOn
<1>7. ForgottenNeverResent'
  <2>1. \A d \in Commands : stage'[d] = "dropped" => stage[d] = "dropped"
    BY <1>3
  <2>2. \A d \in Commands : stage'[d] \in {"confirmed", "dropped"} => state'[d] \notin Unsettled
    BY <1>3, <1>5, <1>6
  <2>3. QED
    BY <1>1, <1>2, <2>1, <2>2 DEF HeldInv, ForgottenNeverResent, InStage
<1>8. NeverTwice'
  BY <1>1, <1>2 DEF HeldInv, NeverTwice, Made
<1>9. ASSUME NEW d \in Commands
      PROVE  /\ (outcome[d] # "none" <=> stage[d] \in {"finished", "confirmed", "dropped"})'
             /\ (applied[d] > 0 => stage[d] \in {"started", "finished", "confirmed", "dropped"})'
             /\ (stage[d] # "none" => seq[d] # 0)'
  BY <1>1, <1>2, <1>3 DEF HeldInv
<1>10. ASSUME NEW d \in Commands, ElsewhereOnly(d)
       PROVE  state'[d] # "sent" /\ stage'[d] = "none" /\ d \notin ToSet(channel')
  BY <1>1, <1>2, <1>3, <1>10 DEF HeldInv, TableGoesOn, ElsewhereOnly
<1>10a. \A d \in Commands : ElsewhereOnly(d)' <=> ElsewhereOnly(d)
  BY <1>1 DEF ElsewhereOnly
<1>10b. \A d \in Commands : elsewhere[d] > 0 \/ d \in overlapped => seq[d] # 0
  BY <1>2 DEF HeldInv
<1>11. HeldInv'
  BY <1>1, <1>7, <1>8, <1>9, <1>10, <1>10a, <1>10b DEF HeldInv
<1>12. JournalTypeOK'
  BY <1>1, <1>2 DEF JournalTypeOK, Stages
<1>13. QED
  BY <1>1, <1>3, <1>11, <1>12 DEF Journaled, InStage

(* A heartbeat's answer stops short of what is held or prepared here.       *)
LEMMA BeatSparesCurrent ==
  ASSUME WorkerInv, TableInv', Beat
  PROVE  PlacesInv' /\ released' \in [Executions -> 0..MaxGen]
<1> DEFINE held(e) == Max({0} \cup HeldAt(e))
           gens == [e \in Executions |->
                      IF reserved[e] = held(e) \/ placement[e] = [here |-> TRUE, gen |-> held(e)]
                        THEN 0 ELSE held(e)]
<1>1. /\ UNCHANGED <<placement, reserved, lastGen, generation>>
      /\ released' = [e \in Executions |-> IF gens[e] > released[e] THEN gens[e] ELSE released[e]]
  BY DEF Beat, release, UnchangedHome, homeVars
<1>2. /\ \A e \in Executions : /\ placement[e] \in [here : BOOLEAN, gen : Generations]
                               /\ reserved[e] \in Nat /\ lastGen[e] \in Nat \ {0} /\ lastGen[e] <= MaxGen
                               /\ released[e] \in 0..MaxGen
      /\ MaxGen \in Nat
      /\ \A c \in Commands : generation[c] \in Nat
  BY WireAssumption DEF WorkerInv, TableInv, HomeTypeOK, WireTypeOK, Generations, StreamTypeOK, JournalTypeOK
<1>3. ASSUME NEW e \in Executions PROVE held(e) \in Nat /\ held(e) <= lastGen[e]
  <2> DEFINE all == {0} \cup HeldAt(e)
  <2>1. \A n \in all : n \in Nat /\ n <= lastGen[e]
    <3>1. ASSUME NEW d \in Journaled, ExecOf[d] = e PROVE generation[d] \in Nat /\ generation[d] <= lastGen[e]
      <4>1. d \in Commands /\ ExecOf[d] # Device
        BY <3>1, WireAssumption DEF Journaled
      <4>2. QED
        BY <1>2, <3>1, <4>1 DEF WorkerInv, PlacesInv
    <3>2. QED
      BY <1>2, <3>1 DEF HeldAt
  <2>2. PICK bound \in Nat : bound = lastGen[e]
    BY <1>2
  <2>2a. all # {}
    OBVIOUS
  <2> HIDE DEF all
  <2>2b. \A n \in all : n \in 0..bound /\ n \in Int
    BY <2>1, <2>2
  <2>3. all \in SUBSET (0..bound) /\ all \in SUBSET Int /\ all # {}
    BY <2>2a, <2>2b
  <2>4. PICK x \in all : \A y \in all : y <= x
    BY <2>3, GreatestOf
  <2>5. Max(all) = x
    BY <2>3, <2>4, MaxIs
  <2>6. QED
    BY <2>1, <2>4, <2>5 DEF all
<1> DEFINE Placed(e) == /\ placement[e].here => reserved[e] = 0 /\ placement[e].gen = lastGen[e]
                        /\ reserved[e] # 0 => reserved[e] = lastGen[e]
                        /\ released[e] <= lastGen[e]
                        /\ placement[e].here => released[e] < placement[e].gen
                        /\ reserved[e] # 0 => released[e] < reserved[e]
<1>4. \A e \in Executions : Placed(e)
  BY DEF WorkerInv, PlacesInv, ReleasedNeverCurrent
<1>5. ASSUME NEW e \in Executions
      PROVE  gens[e] \in Nat /\ /\ gens[e] <= lastGen[e]
                                /\ placement[e].here => gens[e] < placement[e].gen
                                /\ reserved[e] # 0 => gens[e] < reserved[e]
  <2>1. PICK h \in Nat : h = held(e) /\ h <= lastGen[e]
    BY <1>3
  <2>2. gens[e] = IF reserved[e] = h \/ placement[e] = [here |-> TRUE, gen |-> h] THEN 0 ELSE h
    BY <2>1
  <2> HIDE DEF gens, held
  <2>3. placement[e].here = TRUE /\ placement[e].gen = h => placement[e] = [here |-> TRUE, gen |-> h]
    BY <1>2
  <2>4. placement[e].here \in BOOLEAN /\ placement[e].gen \in Nat \ {0}
    BY <1>2 DEF Generations
  <2>5. QED
    BY <1>2, <1>4, <2>1, <2>2, <2>3, <2>4
<1> HIDE DEF gens, held
<1>6. ASSUME NEW e \in Executions PROVE Placed(e)' /\ released'[e] \in 0..MaxGen
  <2>1. released'[e] = gens[e] \/ released'[e] = released[e]
    BY <1>1
  <2>2. UNCHANGED <<placement, reserved, lastGen>>
    BY <1>1
  <2>3. QED
    BY <1>2, <1>4, <1>5, <2>1, <2>2
<1>7. PlacesInv'
  BY <1>1, <1>6 DEF WorkerInv, PlacesInv, ReleasedNeverCurrent
<1>8. QED
  BY <1>1, <1>6, <1>7

(* Enrolled again, the device has nothing sent, and what an earlier worker  *)
(* did, or may yet do, still counts.                                        *)
LEMMA EnrolledSame ==
  ASSUME WorkerInv, TableInv', TableGoesOn, [HomeNext]_homeVars, Reenroll, EnrollSame
  PROVE  JournalTypeOK' /\ HeldInv' /\ StreamedInv' /\ FrontInv' /\ PlacesInv'
<1>1. /\ enrolled' = TRUE /\ seq' = seq
      /\ state' = Moved(InState({"sent"}), "uncertain")
  BY DEF Reenroll
<1>2. \A c \in Commands : state'[c] # "sent" /\ (state'[c] = state[c] \/ state'[c] \notin Unsettled)
  BY <1>1 DEF Moved, InState, Unsettled
<1>3. FrontInv' /\ NothingSkipped'
  BY <1>2 DEF FrontInv, NothingSkipped, InState
<1>4. CASE Streaming /\ link' = "revoked" /\ UNCHANGED <<streamed, channel>> /\ UnchangedEarlier /\ UnchangedJournal
  <2>1. EarlierGoesOn /\ UNCHANGED journalVars /\ channel' = channel
    BY <1>4 DEF UnchangedEarlier, earlierVars, EarlierGoesOn, UnchangedJournal
  <2>2. HeldInv'
    BY <2>1, HeldKept
  <2>3. PlacesInv' /\ JournalTypeOK'
    BY <2>1, PlacesKept DEF journalVars, WorkerInv, StreamTypeOK, JournalTypeOK
  <2>4. StreamedInv'
    BY <1>1, <1>3, <1>4 DEF WorkerInv, StreamedInv, Streaming
  <2>5. QED
    BY <1>3, <2>2, <2>3, <2>4
<1>5. CASE Restarted
  <2>1. JournalTypeOK' /\ HeldInv' /\ released' = released
    BY <1>1, <1>2, <1>5, RestartForgetsSettled
  <2>2. PlacesInv'
    BY <2>1, PlacesKept
  <2>3. link' = "none" /\ channel' = <<>> /\ streamed' = 0 /\ DOMAIN channel' = {}
    BY <1>5, EmptySeq DEF Restarted, Lose
  <2>4. StreamedInv'
    BY <1>3, <2>3 DEF StreamedInv, Streaming
  <2>5. QED
    BY <1>3, <2>1, <2>2, <2>4
<1>6. QED
  BY <1>4, <1>5 DEF EnrollSame

LEMMA EnrolledOther ==
  ASSUME WorkerInv, TableInv', Reenroll, EnrollOther
  PROVE  JournalTypeOK' /\ elsewhere' \in [Commands -> 0..EffectCap]
         /\ HeldInv' /\ StreamedInv' /\ FrontInv' /\ PlacesInv'
<1>1. /\ enrolled' = TRUE /\ seq' = seq
      /\ state' = Moved(InState({"sent"}), "uncertain")
      /\ UNCHANGED <<placement, reserved, lastGen, generation, overlapped>>
      /\ link' = "none" /\ streamed' = 0 /\ channel' = <<>>
  BY DEF EnrollOther, Reenroll, UnchangedPlacement
<1>2. \A c \in Commands : state'[c] # "sent"
  BY <1>1 DEF Moved, InState
<1>3. FrontInv' /\ NothingSkipped'
  BY <1>1, <1>2 DEF FrontInv, NothingSkipped, InState
<1>4. DOMAIN channel' = {} /\ ToSet(channel') = {}
  BY <1>1, EmptySeq DEF ToSet
<1>5. StreamedInv'
  BY <1>1, <1>3, <1>4 DEF StreamedInv, Streaming
<1>6. JournalTypeOK /\ HeldInv /\ elsewhere \in [Commands -> 0..EffectCap]
  BY DEF WorkerInv, StreamTypeOK
<1>7. /\ stage' = [c \in Commands |-> "none"]
      /\ outcome' = [c \in Commands |-> "none"]
      /\ released' = [e \in Executions |-> 0]
      /\ applied' = [c \in Commands |-> 0]
  BY DEF EnrollOther
<1>8. PICK made \in SUBSET InHand :
        elsewhere' = [c \in Commands |-> Counted(c, elsewhere[c] + IF c \in made THEN 1 ELSE applied[c])]
  BY DEF EnrollOther
<1>9. \A c \in Commands : /\ applied[c] \in 0..EffectCap /\ elsewhere[c] \in 0..EffectCap
                          /\ (IF c \in made THEN 1 ELSE applied[c]) \in 0..EffectCap
  BY <1>6 DEF JournalTypeOK, EffectCap
<1>10. JournalTypeOK' /\ elsewhere' \in [Commands -> 0..EffectCap]
  <2>1. \A c \in Commands : Counted(c, elsewhere[c] + IF c \in made THEN 1 ELSE applied[c]) \in 0..EffectCap
    BY <1>9 DEF EffectCap, Counted
  <2>2. elsewhere' \in [Commands -> 0..EffectCap]
    BY <1>8, <2>1
  <2>3. JournalTypeOK'
    BY <1>7, <1>9, WireAssumption DEF JournalTypeOK, Stages, Outcomes, EffectCap
  <2>4. QED
    BY <2>2, <2>3
(* What it has in hand was numbered, and no earlier worker made it. *)
<1>11. ASSUME NEW c \in made
       PROVE  c \in Commands /\ applied[c] = 0 /\ seq[c] # 0 /\ ~ElsewhereOnly(c)
  <2>1. /\ c \in Commands /\ applied[c] = 0
        /\ stage[c] # "none" \/ c \in ToSet(channel)
    BY <1>11 DEF InHand, OnceOnly, Interrupted, InStage
  <2>2. c \in ToSet(channel) => seq[c] # 0
    <3>1. c \in ToSet(channel) => \E i \in DOMAIN channel : channel[i] = c
      BY DEF ToSet
    <3>2. QED
      BY <3>1 DEF WorkerInv, StreamedInv
  <2>3. QED
    BY <1>6, <2>1, <2>2 DEF HeldInv
<1>12. ASSUME NEW c \in Commands, elsewhere'[c] > 0 PROVE seq[c] # 0
  <2>1. CASE c \in made
    BY <1>11, <2>1
  <2>2. CASE c \notin made
    <3>1. elsewhere'[c] = Counted(c, elsewhere[c] + applied[c])
      BY <1>8, <2>2
    <3>2. elsewhere[c] > 0 \/ applied[c] > 0
      BY <1>9, <1>12, <3>1 DEF Counted, EffectCap
    <3>3. QED
      BY <1>6, <3>2 DEF HeldInv
  <2>3. QED
    BY <2>1, <2>2
<1>13. NeverTwice'
  <2>1. ASSUME NEW c \in OnceOnly, c \notin overlapped PROVE applied'[c] + elsewhere'[c] <= 1
    <3>1. applied[c] + elsewhere[c] <= 1 /\ c \in Commands
      BY <1>6, <2>1 DEF HeldInv, NeverTwice, Made, OnceOnly
    <3>2. applied'[c] = 0
      BY <1>7, <3>1
    <3>3. CASE c \in made
      <4>1. elsewhere[c] = 0
        BY <1>9, <1>11, <2>1, <3>1, <3>3 DEF ElsewhereOnly
      <4>2. elsewhere'[c] = Counted(c, 1)
        BY <1>8, <3>1, <3>3, <4>1
      <4>3. QED
        BY <3>2, <4>2 DEF Counted, EffectCap
    <3>4. CASE c \notin made
      <4>1. elsewhere'[c] = Counted(c, elsewhere[c] + applied[c])
        BY <1>8, <3>1, <3>4
      <4>2. QED
        BY <1>9, <3>1, <3>2, <4>1 DEF Counted, EffectCap
    <3>5. QED
      BY <3>3, <3>4
  <2>2. QED
    BY <1>1, <2>1 DEF NeverTwice, Made
<1>14. ForgottenNeverResent'
  BY <1>7 DEF ForgottenNeverResent, InStage
<1>15. \A c \in Commands : c \in overlapped => seq[c] # 0
  BY <1>6 DEF HeldInv
<1>16. HeldInv'
  BY <1>1, <1>2, <1>4, <1>7, <1>12, <1>13, <1>14, <1>15 DEF HeldInv
<1>17. \A e \in Executions : /\ placement[e] \in [here : BOOLEAN, gen : Generations]
                             /\ reserved[e] \in Nat /\ lastGen[e] \in Nat
  BY WireAssumption DEF WorkerInv, TableInv, HomeTypeOK, Generations
<1>18. ASSUME NEW e \in Executions
       PROVE  /\ released'[e] <= lastGen[e]
              /\ placement[e].here => released'[e] < placement[e].gen
              /\ reserved[e] # 0 => released'[e] < reserved[e]
  <2>1. released'[e] = 0 /\ placement[e].gen \in Nat \ {0}
    BY <1>7, <1>17 DEF Generations
  <2>2. QED
    BY <1>17, <2>1
<1>19. PlacesInv'
  BY <1>1, <1>18 DEF WorkerInv, PlacesInv, ReleasedNeverCurrent
<1>20. QED
  BY <1>3, <1>5, <1>10, <1>16, <1>19

(* Turned off, it has nothing sent either. *)
LEMMA TurnedOffQuietly ==
  ASSUME WorkerInv, TableInv', TableGoesOn, TurnOff
  PROVE  StreamedInv'
<1>1. /\ enrolled /\ enrolled' = FALSE /\ seq' = seq
      /\ link' = IF Streaming THEN "closed" ELSE link
      /\ UNCHANGED <<streamed, channel>>
  BY DEF TurnOff, Retire
<1>2. ~Streaming'
  BY <1>1 DEF Streaming
<1>3. link' \in {"closed", link}
  BY <1>1
<1>4. QED
  BY <1>1, <1>2, <1>3 DEF WorkerInv, StreamedInv, NothingSkipped

----------------------------------------------------------------------------
(* The invariant is kept *)

LEMMA WorkerInitInv == StreamInit => WorkerInv
<1> SUFFICES ASSUME StreamInit PROVE WorkerInv
  OBVIOUS
<1>1. TableInv
  BY TableInitInv DEF StreamInit
<1>2. StreamTypeOK
  <2>1. HomeTypeOK /\ JournalTypeOK
    BY <1>1, JournalInitInv DEF StreamInit, TableInv, JournalInv
  <2>2. channel \in Seq(Commands)
    BY EmptySeq DEF StreamInit
  <2>3. streamed \in 0..NumCommands /\ elsewhere \in [Commands -> 0..EffectCap]
    BY WireAssumption DEF StreamInit, EffectCap
  <2>4. /\ link = "none" /\ checking \in BOOLEAN /\ ghost \in BOOLEAN
        /\ stuck \in SUBSET Commands /\ overlapped \in SUBSET Commands
    BY DEF StreamInit
  <2>5. QED
    BY <2>1, <2>2, <2>3, <2>4 DEF StreamTypeOK
<1>3. PlacesInv
  <2>1. \A e \in Executions : placement[e].gen = 1
    BY DEF StreamInit, HomeInit
  <2>2. QED
    BY <2>1, WireAssumption DEF StreamInit, HomeInit, JournalInit, PlacesInv, ReleasedNeverCurrent
<1>4. DOMAIN channel = {} /\ ToSet(channel) = {}
  BY EmptySeq DEF StreamInit, ToSet
<1>5. HeldInv
  BY <1>4 DEF StreamInit, HomeInit, JournalInit, HeldInv, ElsewhereOnly, NeverTwice, Made,
              ForgottenNeverResent, InStage, OnceOnly
<1>6. StreamedInv
  BY <1>4 DEF StreamInit, HomeInit, StreamedInv, NothingSkipped, Streaming
<1>7. FrontInv
  BY DEF StreamInit, HomeInit, FrontInv, InState
<1>8. QED
  BY <1>1, <1>2, <1>3, <1>5, <1>6, <1>7 DEF WorkerInv

(* What is said of the link's variables alone. *)
LinkTypeOK ==
  /\ link \in {"none", "open", "revoked", "closed"} /\ checking \in BOOLEAN /\ ghost \in BOOLEAN
  /\ streamed \in 0..NumCommands /\ channel \in Seq(Commands)
  /\ stuck \in SUBSET Commands /\ overlapped \in SUBSET Commands
  /\ elsewhere \in [Commands -> 0..EffectCap]

LEMMA WorkerStepInv ==
  ASSUME WorkerInv, [Next]_vars
  PROVE  WorkerInv'
<1>0. [HomeNext]_homeVars /\ TableInv' /\ TableGoesOn
  BY WorkerStepsTable, TableStep DEF WorkerInv
<1>1. HomeTypeOK' /\ JournalTypeOK /\ LinkTypeOK
  BY <1>0 DEF WorkerInv, StreamTypeOK, TableInv, LinkTypeOK
<1>2. (JournalTypeOK' /\ LinkTypeOK' /\ PlacesInv' /\ HeldInv' /\ StreamedInv' /\ FrontInv') => WorkerInv'
  BY <1>0, <1>1 DEF WorkerInv, StreamTypeOK, LinkTypeOK
<1>3. UNCHANGED journalVars => JournalTypeOK' /\ PlacesInv' /\ FrontInv'
  <2>1. SUFFICES ASSUME UNCHANGED journalVars PROVE JournalTypeOK' /\ PlacesInv' /\ FrontInv'
    OBVIOUS
  <2>2. UNCHANGED <<stage, outcome, released, applied>> /\ (\A c \in Commands : c \in Journaled => c \in Journaled')
    BY <2>1 DEF journalVars, Journaled, InStage
  <2>3. JournalTypeOK'
    BY <1>1, <2>2 DEF JournalTypeOK
  <2>4. PlacesInv'
    BY <1>0, <2>2, PlacesKept
  <2>5. FrontInv'
    BY <1>0, <2>2, FrontKept
  <2>6. QED
    BY <2>3, <2>4, <2>5
(* Steps of the home alone, or of the passes of its streams. *)
<1>4. ASSUME UNCHANGED journalVars, UNCHANGED <<link, streamed, channel>>, enrolled' = enrolled,
             EarlierGoesOn, LinkTypeOK'
      PROVE  WorkerInv'
  <2>1. \A c \in Commands : state'[c] = "sent" /\ c \in Journaled => c \in Journaled'
    BY <1>4 DEF journalVars, Journaled, InStage
  <2>2. StreamedInv'
    BY <1>0, <1>4, <2>1, StreamedKept DEF LinkGoesOn, Streaming
  <2>3. HeldInv'
    BY <1>0, <1>4, HeldKept
  <2>4. QED
    BY <1>2, <1>3, <1>4, <2>2, <2>3
<1>4a. UnchangedEarlier => EarlierGoesOn
  BY DEF UnchangedEarlier, earlierVars, EarlierGoesOn
<1>5. CASE HomeStep \/ Wake \/ (\E c \in Commands : Result(c)) \/ UNCHANGED vars
  <2>1. UNCHANGED <<link, streamed, channel, stuck, enrolled>> /\ UnchangedEarlier /\ UNCHANGED journalVars
        /\ checking' \in BOOLEAN /\ ghost' \in BOOLEAN
    <3> USE DEF linkVars, UnchangedEarlier, earlierVars
    <3>1. CASE HomeStep
      <4>1. enrolled' = enrolled
        BY <3>1 DEF HomeStep, Moves, Reserve, GiveUp, Arrive, Leave, UnchangedCommands, Queue, Withdraw
      <4>2. QED
        BY <1>1, <3>1, <4>1 DEF HomeStep, UnchangedJournal, UnchangedStream, streamVars, LinkTypeOK
    <3>4. CASE Wake
      BY <1>1, <3>4 DEF Wake, SettleStale, UnchangedJournal, LinkTypeOK
    <3>5. CASE \E c \in Commands : Result(c)
      BY <1>1, <3>5 DEF Result, TurnResult, UnchangedJournal, UnchangedStream, streamVars, LinkTypeOK
    <3>6. CASE UNCHANGED vars
      BY <1>1, <3>6 DEF vars, homeVars, streamVars, LinkTypeOK
    <3>7. QED
      BY <1>5, <3>1, <3>4, <3>5, <3>6
  <2>2. LinkTypeOK'
    BY <1>1, <2>1 DEF LinkTypeOK, UnchangedEarlier, earlierVars
  <2>3. QED
    BY <1>4, <1>4a, <2>1, <2>2
(* What an older stream carries was sent, and so numbered. *)
<1>5a. CASE GhostPass
  <2> DEFINE out == {c \in OnceOnly : ghost /\ state'[c] = "sent"}
  <2>1. PICK made \in SUBSET (out \ overlapped) :
               MadeElsewhere(made) /\ overlapped' = overlapped \cup made
    BY <1>5a DEF GhostPass
  <2>2. overlapped' = overlapped \cup made /\ made \in SUBSET Commands
    BY <2>1 DEF OnceOnly
  <2>3. UNCHANGED journalVars /\ UNCHANGED <<link, checking, streamed, channel, stuck, ghost, enrolled>>
    BY <1>5a DEF GhostPass, Number, UnchangedJournal, linkVars
  <2>4. \A c \in Commands :
          elsewhere'[c] = IF c \in made THEN Counted(c, elsewhere[c] + 1) ELSE elsewhere[c]
    BY <2>1 DEF MadeElsewhere
  <2>5. \A c \in Commands : elsewhere[c] \in 0..EffectCap
    BY <1>1 DEF LinkTypeOK
  <2>6. EarlierGoesOn
    <3>1. \A c \in Commands : c \notin overlapped' => elsewhere'[c] = elsewhere[c]
      BY <2>1, <2>2, <2>4
    <3>2. QED
      BY <2>2, <3>1 DEF EarlierGoesOn
  <2>7. elsewhere' \in [Commands -> 0..EffectCap]
    <3>1. elsewhere' = [c \in Commands |->
                          IF c \in made THEN Counted(c, elsewhere[c] + 1) ELSE elsewhere[c]]
      BY <2>1 DEF MadeElsewhere
    <3>2. \A c \in Commands : Counted(c, elsewhere[c] + 1) \in 0..EffectCap
      BY <2>5 DEF Counted, EffectCap
    <3>3. QED
      BY <2>5, <3>1, <3>2
  <2>8. LinkTypeOK'
    BY <1>1, <2>2, <2>3, <2>7 DEF LinkTypeOK
  <2>9. QED
    BY <1>4, <2>3, <2>6, <2>8
<1>6. CASE Open
  <2>1. StreamedInv' /\ streamed' \in 0..NumCommands /\ channel' \in Seq(Commands)
    BY <1>0, <1>6, OpenedWhereItLeftOff
  <2>2. UNCHANGED journalVars /\ UnchangedEarlier /\ channel' = <<>>
    BY <1>6 DEF Open, UnchangedJournal
  <2>3. ToSet(channel') = {}
    BY <2>2, EmptySeq DEF ToSet
  <2>4. HeldInv'
    BY <1>0, <1>4a, <2>2, <2>3, HeldKept
  <2>5. LinkTypeOK'
    BY <1>1, <1>6, <2>1, <2>2 DEF Open, LinkTypeOK, UnchangedEarlier, earlierVars
  <2>6. QED
    BY <1>2, <1>3, <2>1, <2>2, <2>4, <2>5
<1>7. CASE Deliver
  <2>1. /\ StreamedInv' /\ streamed' \in 0..NumCommands /\ channel' \in Seq(Commands)
        /\ \A c \in Commands : c \in ToSet(channel') => c \in ToSet(channel) \/ state'[c] = "sent"
    BY <1>0, <1>7, DeliveredInOrder DEF WorkerInv
  <2>2. UNCHANGED journalVars /\ UnchangedEarlier
    BY <1>7 DEF Deliver, UnchangedJournal
  <2>3. HeldInv'
    BY <1>0, <1>4a, <2>1, <2>2, HeldKept
  <2>4. LinkTypeOK'
    BY <1>1, <1>7, <2>1, <2>2 DEF Deliver, LinkTypeOK, UnchangedEarlier, earlierVars
  <2>5. QED
    BY <1>2, <1>3, <2>1, <2>2, <2>3, <2>4
<1>8. CASE Receive
  <2>1. JournalTypeOK' /\ channel' \in Seq(Commands) /\ HeldInv' /\ StreamedInv' /\ FrontInv'
    BY <1>8, ReceiptInOrder
  <2>2. released' = released
    BY <1>8 DEF Receive, UnchangedJournal, journalVars
  <2>3. PlacesInv'
    BY <1>0, <2>2, PlacesKept
  <2>4. LinkTypeOK'
    BY <1>1, <1>8, <2>1 DEF Receive, LinkTypeOK, UnchangedEarlier, earlierVars
  <2>5. QED
    BY <1>2, <2>1, <2>3, <2>4
(* The connection is lost. *)
<1>9. Lose /\ stuck' \in SUBSET Commands => StreamedInv' /\ LinkTypeOK'
  <2>1. SUFFICES ASSUME Lose, stuck' \in SUBSET Commands PROVE StreamedInv' /\ LinkTypeOK'
    OBVIOUS
  <2>2. /\ link' = "none" /\ checking' = FALSE /\ streamed' = 0 /\ channel' = <<>>
        /\ UNCHANGED <<ghost, elsewhere, overlapped>>
    BY <2>1 DEF Lose, UnchangedEarlier, earlierVars
  <2>3. channel' \in Seq(Commands) /\ DOMAIN channel' = {}
    BY <2>2, EmptySeq
  <2>4. StreamedInv'
    BY <2>2, <2>3 DEF StreamedInv, NothingSkipped, Streaming
  <2>5. streamed' \in 0..NumCommands
    BY <2>2, WireAssumption
  <2>6. LinkTypeOK'
    BY <1>1, <2>1, <2>2, <2>3, <2>5 DEF LinkTypeOK
  <2>7. QED
    BY <2>4, <2>6
<1>10. CASE Drop
  <2>1. UNCHANGED journalVars /\ UnchangedEarlier /\ channel' = <<>> /\ Lose /\ stuck' = stuck
    BY <1>10 DEF Drop, Lose, UnchangedJournal
  <2>2. ToSet(channel') = {}
    BY <2>1, EmptySeq DEF ToSet
  <2>3. HeldInv'
    BY <1>0, <1>4a, <2>1, <2>2, HeldKept
  <2>4. StreamedInv' /\ LinkTypeOK'
    BY <1>1, <1>9, <2>1 DEF LinkTypeOK
  <2>5. QED
    BY <1>2, <1>3, <2>1, <2>3, <2>4
<1>11a. Restarted => Lose /\ stuck' \in SUBSET Commands
  BY DEF Restarted, InStage
<1>11. CASE Restart
  <2>1. state' = state /\ seq' = seq /\ Restarted
    BY <1>11 DEF Restart, UnchangedHome, homeVars
  <2>2. /\ JournalTypeOK' /\ HeldInv' /\ released' = released
        /\ \A d \in Commands : stage'[d] # "none" => stage[d] # "none"
        /\ \A d \in Commands : state'[d] = "sent" /\ d \in Journaled => d \in Journaled'
    BY <2>1, RestartForgetsSettled
  <2>3. FrontInv'
    BY <1>0, <2>2, FrontKept
  <2>4. PlacesInv'
    BY <1>0, <2>2, PlacesKept
  <2>5. StreamedInv' /\ LinkTypeOK'
    BY <1>9, <1>11a, <2>1
  <2>6. QED
    BY <1>2, <2>2, <2>3, <2>4, <2>5
<1>12. ASSUME NEW c \in Commands, Work(c) \/ HomeAck(c) PROVE WorkerInv'
  <2>1. /\ JournalTypeOK' /\ HeldInv' /\ released' = released
        /\ \A d \in Commands : stage'[d] # "none" => stage[d] # "none"
        /\ \A d \in Commands : d \in Journaled => d \in Journaled'
    BY <1>0, <1>12, WorkIsJournaled, AckedIsSettled
  <2>2. UNCHANGED streamVars /\ enrolled' = enrolled
    BY <1>12 DEF Work, HomeAck, Ack, UnchangedHome, homeVars, UnchangedStream
  <2>3. FrontInv'
    BY <1>0, <2>1, FrontKept
  <2>4. PlacesInv'
    BY <1>0, <2>1, PlacesKept
  <2>5. StreamedInv'
    BY <1>0, <2>1, <2>2, StreamedKept DEF streamVars, linkVars, LinkGoesOn, Streaming
  <2>6. LinkTypeOK'
    BY <1>1, <2>2 DEF streamVars, linkVars, earlierVars, LinkTypeOK
  <2>7. QED
    BY <1>2, <2>1, <2>3, <2>4, <2>5, <2>6
<1>13. CASE Beat
  <2>1. PlacesInv' /\ released' \in [Executions -> 0..MaxGen]
    BY <1>0, <1>13, BeatSparesCurrent
  <2>2. UNCHANGED <<state, seq, enrolled, link, checking, ghost, streamed, channel, stuck, elsewhere,
                    overlapped, stage, outcome, applied>>
    BY <1>13 DEF Beat, release, UnchangedHome, homeVars, UnchangedStream, streamVars, linkVars, earlierVars
  <2>3. JournalTypeOK' /\ LinkTypeOK'
    BY <1>1, <2>1, <2>2 DEF JournalTypeOK, LinkTypeOK
  <2>4. \A d \in Commands : d \in Journaled => d \in Journaled'
    BY <2>2 DEF Journaled, InStage
  <2>5. FrontInv'
    BY <1>0, <2>2, <2>4, FrontKept
  <2>6. StreamedInv'
    BY <1>0, <2>2, <2>4, StreamedKept DEF LinkGoesOn, Streaming
  <2>7. HeldInv'
    BY <2>2 DEF WorkerInv, HeldInv, ElsewhereOnly, NeverTwice, Made, ForgottenNeverResent, InStage
  <2>8. QED
    BY <1>2, <2>1, <2>3, <2>5, <2>6, <2>7
<1>14. CASE TurnOff
  <2>1. StreamedInv'
    BY <1>0, <1>14, TurnedOffQuietly
  <2>2. UNCHANGED journalVars /\ UnchangedEarlier /\ channel' = channel
    BY <1>14 DEF TurnOff, UnchangedJournal
  <2>3. HeldInv'
    BY <1>0, <1>4a, <2>2, HeldKept
  <2>4. LinkTypeOK'
    BY <1>1, <1>14 DEF TurnOff, LinkTypeOK, UnchangedEarlier, earlierVars
  <2>5. QED
    BY <1>2, <1>3, <2>1, <2>2, <2>3, <2>4
<1>15. CASE Reenroll /\ EnrollSame
  <2>1. JournalTypeOK' /\ HeldInv' /\ StreamedInv' /\ FrontInv' /\ PlacesInv'
    BY <1>0, <1>15, EnrolledSame
  <2>2. LinkTypeOK'
    <3>1. CASE Restarted
      BY <1>9, <1>11a, <3>1
    <3>2. CASE /\ link' = "revoked"
               /\ UNCHANGED <<checking, streamed, channel, stuck, ghost>> /\ UnchangedEarlier
      BY <1>1, <3>2 DEF LinkTypeOK, UnchangedEarlier, earlierVars
    <3>3. QED
      BY <1>15, <3>1, <3>2 DEF EnrollSame
  <2>3. QED
    BY <1>2, <2>1, <2>2
<1>16. CASE Reenroll /\ EnrollOther
  <2>1. JournalTypeOK' /\ elsewhere' \in [Commands -> 0..EffectCap]
        /\ HeldInv' /\ StreamedInv' /\ FrontInv' /\ PlacesInv'
    BY <1>0, <1>16, EnrolledOther DEF WorkerInv
  <2>2. /\ link' = "none" /\ checking' = FALSE /\ streamed' = 0 /\ channel' = <<>> /\ stuck' = {}
        /\ ghost' \in BOOLEAN /\ overlapped' = overlapped
    BY <1>1, <1>16 DEF EnrollOther, LinkTypeOK
  <2>3. streamed' \in 0..NumCommands /\ channel' \in Seq(Commands)
    BY <2>2, EmptySeq, WireAssumption
  <2>4. LinkTypeOK'
    BY <1>1, <2>1, <2>2, <2>3 DEF LinkTypeOK
  <2>5. QED
    BY <1>2, <2>1, <2>4
<1>17. QED
  BY <1>5, <1>5a, <1>6, <1>7, <1>8, <1>10, <1>11, <1>12, <1>13, <1>14, <1>15, <1>16 DEF Next, EnrollAgain

(* Whatever is lost, restarted or enrolled again, the invariant holds.      *)
THEOREM WorkerInvariant == Spec => []WorkerInv
<1>1. StreamInit => WorkerInv
  BY WorkerInitInv
<1>2. WorkerInv /\ [Next]_vars => WorkerInv'
  BY WorkerStepInv
<1>3. QED
  BY <1>1, <1>2, PTL DEF Spec

(* Every state of the home, the stream and the journal is typed.            *)
THEOREM StreamTyped == Spec => []StreamTypeOK
<1>1. WorkerInv => StreamTypeOK
  BY DEF WorkerInv
<1>2. QED
  BY WorkerInvariant, <1>1, PTL

(* The cursor a worker resumes its stream after never passes a command it   *)
(* has not journaled (run.ts, cursor of command-journal.ts).                *)
THEOREM CursorIsSafe == Spec => []CursorSafe
<1>1. WorkerInv => CursorSafe
  BY CursorNeverPasses
<1>2. QED
  BY WorkerInvariant, <1>1, PTL

(* What the home holds as sent is journaled, on its way, or still ahead of  *)
(* the live stream's cursor (stream-pump.ts).                               *)
THEOREM NothingIsSkipped == Spec => []NothingSkipped
<1>1. WorkerInv => NothingSkipped
  BY DEF WorkerInv, StreamedInv
<1>2. QED
  BY WorkerInvariant, <1>1, PTL

(* Compaction forgets nothing the home would send again.                    *)
THEOREM ForgottenIsNeverResent == Spec => []ForgottenNeverResent
<1>1. WorkerInv => ForgottenNeverResent
  BY DEF WorkerInv, HeldInv
<1>2. QED
  BY WorkerInvariant, <1>1, PTL

(* A message and a project script take effect at most once on the device,   *)
(* over every journal it has had and every earlier worker still going on,   *)
(* save what such a worker was sent on a revoked stream, and the newer one  *)
(* is sent as well.                                                         *)
THEOREM MadeAtMostOnce == Spec => []NeverTwice
<1>1. WorkerInv => NeverTwice
  BY DEF WorkerInv, HeldInv
<1>2. QED
  BY WorkerInvariant, <1>1, PTL

(* No heartbeat's answer releases what the device holds or is preparing.    *)
THEOREM ReleasesAreNeverCurrent == Spec => []ReleasedNeverCurrent
<1>1. WorkerInv => ReleasedNeverCurrent
  BY DEF WorkerInv, PlacesInv
<1>2. QED
  BY WorkerInvariant, <1>1, PTL

(* A worker behind a stream takes from the home's table only steps the      *)
(* table has, so that all that is proved of HomeSpec holds with it.         *)
THEOREM WorkerUsesTable == Spec => HomeSpec
<1>1. StreamInit => HomeInit
  BY DEF StreamInit
<1>2. WorkerInv /\ [Next]_vars => [HomeNext]_homeVars
  BY WorkerStepsTable
<1>3. QED
  BY WorkerInvariant, <1>1, <1>2, PTL DEF Spec, HomeSpec

----------------------------------------------------------------------------
(* What the home shows *)

(* An acknowledgement of delivery, in the journal or at the home, speaks of *)
(* an effect that was made.                                                 *)
ShownInv ==
  \A c \in Commands :
    /\ outcome[c] = "delivered" => applied[c] > 0
    /\ state[c] = "delivered" => Made(c) > 0

(* When no two messages of a chat read alike, what the home shows as        *)
(* delivered had its effect, and what it shows as withdrawn never left it.  *)
THEOREM ShownTruly ==
  ASSUME Resembles = {}
  PROVE  Spec => []ShownAsItWas
<1>1. StreamInit => ShownInv
  BY DEF StreamInit, HomeInit, JournalInit, ShownInv
<1>2. ASSUME WorkerInv, ShownInv, [Next]_vars PROVE ShownInv'
  <2>1. \A c \in Commands : /\ applied[c] \in 0..EffectCap /\ elsewhere[c] \in 0..EffectCap
                            /\ applied[c] \in Nat /\ elsewhere[c] \in Nat
    BY <1>2 DEF WorkerInv, StreamTypeOK, JournalTypeOK, EffectCap
  <2>2. ASSUME NEW c \in Commands, state'[c] = "delivered", state[c] # "delivered"
        PROVE  HomeAck(c) /\ outcome[c] = "delivered"
    <3>1. DOMAIN state = Commands
      BY <1>2 DEF WorkerInv, TableInv, HomeTypeOK
    <3>2. CASE HomeStep
      BY <2>2, <3>1, <3>2 DEF HomeStep, Moves, Reserve, GiveUp, Arrive, Leave, UnchangedCommands,
                              Queue, Withdraw, Moved
    <3>3. CASE Open \/ Wake \/ Deliver \/ GhostPass
      BY <2>2, <3>3 DEF Open, Wake, Deliver, GhostPass, SettleStale, Number, Moved,
                        UnchangedHome, homeVars
    <3>4. CASE Receive \/ Drop \/ Restart \/ Beat \/ UNCHANGED vars
      BY <2>2, <3>4 DEF Receive, Drop, Restart, Beat, UnchangedHome, homeVars, vars
    <3>5. ASSUME NEW d \in Commands, Work(d) \/ Result(d) PROVE FALSE
      BY <2>2, <3>5 DEF Work, Result, TurnResult, UnchangedHome, homeVars
    <3>6. CASE TurnOff \/ EnrollAgain
      BY <2>2, <3>6 DEF TurnOff, EnrollAgain, Retire, Reenroll, Moved
    <3>7. ASSUME NEW d \in Commands, HomeAck(d) PROVE HomeAck(c) /\ outcome[c] = "delivered"
      BY <2>2, <3>7 DEF HomeAck, Ack, Moved
    <3>8. QED
      BY <1>2, <3>2, <3>3, <3>4, <3>5, <3>6, <3>7 DEF Next
  <2>3. CASE UNCHANGED journalVars /\ elsewhere' = elsewhere
    <3>1. UNCHANGED <<outcome, applied, elsewhere>>
      BY <2>3 DEF journalVars
    <3>2. QED
      BY <1>2, <2>1, <2>2, <3>1 DEF ShownInv, Made
  <2>3a. CASE GhostPass
    <3>1. UNCHANGED <<outcome, applied>>
      BY <2>3a DEF GhostPass, UnchangedJournal, journalVars
    <3>2. PICK made : MadeElsewhere(made)
      BY <2>3a DEF GhostPass
    <3>3. \A c \in Commands :
            elsewhere'[c] = IF c \in made THEN Counted(c, elsewhere[c] + 1) ELSE elsewhere[c]
      BY <3>2 DEF MadeElsewhere
    <3>4. \A c \in Commands : elsewhere'[c] \in Nat /\ (elsewhere[c] > 0 => elsewhere'[c] > 0)
      BY <2>1, <3>3 DEF Counted, EffectCap
    <3>5. \A c \in Commands : Made(c) > 0 => Made(c)' > 0
      BY <2>1, <3>1, <3>4 DEF Made
    <3>6. \A c \in Commands : state'[c] = "delivered" => state[c] = "delivered"
      BY <2>3a DEF GhostPass, Number, Moved
    <3>7. QED
      BY <1>2, <3>1, <3>5, <3>6 DEF ShownInv
  <2>4. CASE Receive
    <3>1. UNCHANGED <<state, applied, elsewhere>>
          /\ \A c \in Commands : outcome'[c] = "delivered" => outcome[c] = "delivered"
      BY <1>2, <2>4 DEF Receive, UnchangedHome, homeVars, UnchangedJournal, journalVars,
                        UnchangedEarlier, earlierVars,
                        WorkerInv, StreamTypeOK, JournalTypeOK
    <3>2. QED
      BY <1>2, <3>1 DEF ShownInv, Made
  <2>5. ASSUME NEW c \in Commands, Work(c) PROVE ShownInv'
    <3>1. UNCHANGED <<state, elsewhere>>
      BY <2>5 DEF Work, UnchangedHome, homeVars, UnchangedStream, streamVars, earlierVars
    <3>2. \A d \in Commands : applied'[d] \in Nat /\ (applied[d] > 0 => applied'[d] > 0)
      <4>1. CASE Effect(c)
        BY <1>2, <2>1, <4>1 DEF Effect, Counted, EffectCap, WorkerInv, StreamTypeOK, JournalTypeOK
      <4>2. CASE applied' = applied
        BY <2>1, <4>2
      <4>3. QED
        BY <2>5, <4>1, <4>2 DEF Work, started, finished
    <3>3. \A d \in Commands : outcome'[d] = "delivered" => outcome[d] = "delivered" \/ applied[d] > 0
      <4>1. CASE started(c) \/ Effect(c)
        BY <4>1 DEF started, Effect
      <4>2. ASSUME NEW result \in Outcomes, finished({c}, result)
            PROVE  \A d \in Commands : outcome'[d] = "delivered" => outcome[d] = "delivered" \/ applied[d] > 0
        BY <4>2 DEF finished, SeemsApplied
      <4>3. QED
        BY <2>5, <4>1, <4>2 DEF Work
    <3>4. QED
      BY <1>2, <2>1, <3>1, <3>2, <3>3 DEF ShownInv, Made
  <2>6. CASE Restart \/ Beat \/ \E c \in Commands : HomeAck(c)
    <3>1. UNCHANGED <<outcome, applied, elsewhere>>
      BY <2>6 DEF Restart, Restarted, Lose, compact, Beat, release, HomeAck, UnchangedStream, streamVars,
                  UnchangedEarlier, earlierVars
    <3>2. QED
      BY <1>2, <2>1, <2>2, <3>1 DEF ShownInv, Made
  <2>7. CASE EnrollAgain
    <3>1. CASE EnrollSame
      <4>1. UNCHANGED <<outcome, applied, elsewhere>>
        BY <3>1 DEF EnrollSame, Restarted, Lose, compact, UnchangedEarlier, earlierVars,
                    UnchangedJournal, journalVars
      <4>2. QED
        BY <1>2, <2>1, <2>2, <4>1 DEF ShownInv, Made
    <3>2. CASE EnrollOther
      <4>1. \A c \in Commands : state'[c] = "delivered" => state[c] = "delivered"
        BY <2>7 DEF EnrollAgain, Reenroll, Moved
      <4>2. PICK made \in SUBSET InHand :
              elsewhere' = [c \in Commands |-> Counted(c, elsewhere[c] + IF c \in made THEN 1 ELSE applied[c])]
        BY <3>2 DEF EnrollOther
      <4>3. ASSUME NEW c \in Commands, state'[c] = "delivered" PROVE applied'[c] + elsewhere'[c] > 0
        <5>1. applied'[c] = 0 /\ applied[c] + elsewhere[c] > 0
          BY <1>2, <3>2, <4>1, <4>3 DEF EnrollOther, ShownInv, Made
        <5>2. elsewhere'[c] = Counted(c, elsewhere[c] + IF c \in made THEN 1 ELSE applied[c])
          BY <4>2
        <5>3. QED
          BY <2>1, <5>1, <5>2 DEF Counted, EffectCap
      <4>4. \A c \in Commands : outcome'[c] = "none"
        BY <3>2 DEF EnrollOther
      <4>5. QED
        BY <4>3, <4>4 DEF ShownInv, Made
    <3>3. QED
      BY <2>7, <3>1, <3>2 DEF EnrollAgain
  <2>8. HomeStep \/ Open \/ Wake \/ Deliver \/ Drop \/ TurnOff
          \/ (\E c \in Commands : Result(c)) \/ UNCHANGED vars
        => UNCHANGED journalVars /\ elsewhere' = elsewhere
    BY DEF HomeStep, Open, Wake, Deliver, Drop, Lose, TurnOff, Result,
           UnchangedJournal, UnchangedStream, streamVars, UnchangedEarlier, earlierVars, vars
  <2>9. QED
    BY <1>2, <2>3, <2>3a, <2>4, <2>5, <2>6, <2>7, <2>8 DEF Next
<1>3. ASSUME WorkerInv, ShownInv PROVE ShownAsItWas
  <2>1. ASSUME NEW c \in Commands, state[c] = "cancelled" PROVE Made(c) = 0 /\ stage[c] = "none"
    <3>1. seq[c] = 0
      BY <1>3, <2>1 DEF WorkerInv, TableInv, NumberedIffStreamed
    <3>2. stage[c] = "none" /\ ~(applied[c] > 0) /\ ~(elsewhere[c] > 0)
      BY <1>3, <3>1 DEF WorkerInv, HeldInv
    <3>3. applied[c] \in Nat /\ elsewhere[c] \in Nat
      BY <1>3 DEF WorkerInv, StreamTypeOK, JournalTypeOK, EffectCap
    <3>4. QED
      BY <3>2, <3>3 DEF Made
  <2>2. QED
    BY <1>3, <2>1 DEF ShownInv, ShownAsItWas
<1>4. QED
  BY WorkerInvariant, <1>1, <1>2, <1>3, PTL DEF Spec

===============================================================================
