-------------------------- MODULE HomeCommandsProofs --------------------------
(***************************************************************************)
(* The home's table keeps its promises, for any number of commands,        *)
(* executions and moves.                                                   *)
(***************************************************************************)
EXTENDS HomeCommands, FiniteSetTheorems, TLAPS

(* A send that was queued carries a run, and nothing else does. *)
SendsCarryRuns ==
  \A c \in Commands : run[c] # "none" <=> c \in Sends /\ state[c] # "none"

(* The inductive invariant. Numbers can be given in a transaction only to   *)
(* commands that have none (NumberedIffStreamed), and run out together with *)
(* the commands only because they are contiguous.                           *)
TableInv ==
  /\ HomeTypeOK
  /\ NumbersContiguous
  /\ NumberedIffStreamed
  /\ SendsCarryRuns
  /\ UndeliveredRunsFinished
  /\ RetiredLeavesNothingOpen

----------------------------------------------------------------------------
(* Numbering *)

LEMMA CommandsFinite ==
  /\ IsFiniteSet(Commands)
  /\ Cardinality(Commands) = NumCommands
BY FS_Interval, WireAssumption DEF Commands

LEMMA CountOf ==
  ASSUME NEW S \in SUBSET Commands
  PROVE  /\ IsFiniteSet(S)
         /\ Cardinality(S) \in 0..NumCommands
<1>1. IsFiniteSet(S) /\ Cardinality(S) <= Cardinality(Commands)
  BY CommandsFinite, FS_Subset
<1>2. Cardinality(S) \in Nat
  BY <1>1, FS_CardinalityType
<1>3. QED
  BY <1>1, <1>2, CommandsFinite, WireAssumption

(* The highest number given is how many were given.                         *)
LEMMA HighestSeqIsCount ==
  ASSUME HomeTypeOK, NumbersContiguous
  PROVE  HighestSeq = Cardinality(Numbered)
<1> DEFINE n == Cardinality(Numbered)
           highest(m) == /\ m = 0 \/ \E c \in Commands : seq[c] = m
                         /\ \A c \in Commands : seq[c] <= m
<1>1. n \in 0..NumCommands /\ n \in Nat
  BY CountOf, WireAssumption DEF Numbered
<1>2. \A c \in Commands : seq[c] \in Nat
  BY DEF HomeTypeOK, WireTypeOK
<1>3. {seq[c] : c \in Numbered} = 1..n
  BY DEF NumbersContiguous
<1>4. highest(n)
  <2>1. n = 0 \/ n \in 1..n
    BY <1>1
  <2>2. n = 0 \/ \E c \in Commands : seq[c] = n
    BY <1>3, <2>1 DEF Numbered
  <2>3. ASSUME NEW c \in Commands PROVE seq[c] <= n
    <3>1. CASE seq[c] = 0
      BY <1>1, <3>1
    <3>2. CASE seq[c] # 0
      BY <1>1, <1>3, <3>2 DEF Numbered
    <3>3. QED
      BY <3>1, <3>2
  <2>4. QED
    BY <2>2, <2>3
<1>5. ASSUME NEW m \in 0..NumCommands, highest(m) PROVE m = n
  <2>1. m \in Nat
    OBVIOUS
  <2>2. m <= n
    BY <1>1, <1>4, <1>5, <2>1
  <2>3. n <= m
    BY <1>1, <1>4, <1>5, <2>1
  <2>4. QED
    BY <1>1, <2>1, <2>2, <2>3
<1>6. HighestSeq = CHOOSE m \in 0..NumCommands : highest(m)
  BY DEF HighestSeq
<1> HIDE DEF highest
<1>7. QED
  BY <1>1, <1>4, <1>5, <1>6

(* Numbering commands that have no number keeps the numbers contiguous.     *)
LEMMA NumberedOn ==
  ASSUME HomeTypeOK, NumbersContiguous,
         NEW taken \in SUBSET Commands, \A c \in taken : seq[c] = 0,
         NEW number \in InQueueOrder(taken),
         seq' = [c \in Commands |-> IF c \in taken THEN number[c] ELSE seq[c]]
  PROVE  /\ NumbersContiguous'
         /\ seq' \in [Commands -> 0..NumCommands]
         /\ \A c \in taken : seq'[c] # 0
<1> DEFINE n == Cardinality(Numbered)
           k == Cardinality(taken)
<1>1. /\ n \in Nat /\ k \in Nat
      /\ IsFiniteSet(Numbered) /\ IsFiniteSet(taken)
  BY CountOf, WireAssumption DEF Numbered
<1>2. HighestSeq = n
  BY HighestSeqIsCount
<1>3. /\ number \in [taken -> (n + 1)..(n + k)]
      /\ \A c, d \in taken : number[c] = number[d] => c = d
      /\ \A m \in (n + 1)..(n + k) : \E c \in taken : number[c] = m
  BY <1>2 DEF InQueueOrder, Bijection, Injection, Surjection, IsInjective
<1> HIDE DEF n, k
<1>4. \A c \in taken : number[c] \in (n + 1)..(n + k) /\ number[c] # 0 /\ number[c] \in Nat
  BY <1>1, <1>3
<1>5. \A c \in Commands : /\ seq[c] \in Nat
                          /\ seq'[c] = IF c \in taken THEN number[c] ELSE seq[c]
  BY DEF HomeTypeOK, WireTypeOK
<1>6. Numbered' = Numbered \cup taken /\ Numbered \cap taken = {}
  BY <1>4, <1>5 DEF Numbered
<1>7. Cardinality(Numbered') = n + k
  <2>1. Cardinality(Numbered \cup taken) = n + k - Cardinality(Numbered \cap taken)
    BY <1>1, FS_Union DEF n, k
  <2>2. Cardinality(Numbered \cap taken) = 0
    BY <1>6, FS_EmptySet
  <2>3. QED
    BY <1>1, <1>6, <2>1, <2>2
<1>8. n + k <= NumCommands
  BY <1>6, <1>7, CountOf, WireAssumption DEF Numbered
<1>9. \A c \in Numbered : seq[c] \in 1..n
  BY DEF NumbersContiguous, n
<1>10. \A m \in 1..n : \E c \in Numbered : seq[c] = m
  BY DEF NumbersContiguous, n
<1>11. seq' \in [Commands -> 0..NumCommands]
  <2>1. ASSUME NEW c \in Commands PROVE seq'[c] \in 0..NumCommands
    <3>1. CASE c \in taken
      BY <1>1, <1>4, <1>5, <1>8, <3>1, WireAssumption
    <3>2. CASE c \notin taken
      BY <1>5, <3>2 DEF HomeTypeOK, WireTypeOK
    <3>3. QED
      BY <3>1, <3>2
  <2>2. QED
    BY <2>1
<1>12. ASSUME NEW c \in Numbered', NEW d \in Numbered', seq'[c] = seq'[d] PROVE c = d
  <2>1. c \in Commands /\ d \in Commands
    BY DEF Numbered
  <2>2. CASE c \in taken /\ d \in taken
    BY <1>3, <1>5, <1>12, <2>1, <2>2
  <2>3. CASE c \notin taken /\ d \notin taken
    BY <1>5, <1>6, <1>12, <2>1, <2>3 DEF NumbersContiguous
  <2>4. CASE c \in taken /\ d \notin taken
    BY <1>1, <1>4, <1>5, <1>6, <1>9, <1>12, <2>1, <2>4
  <2>5. CASE c \notin taken /\ d \in taken
    BY <1>1, <1>4, <1>5, <1>6, <1>9, <1>12, <2>1, <2>5
  <2>6. QED
    BY <2>2, <2>3, <2>4, <2>5
<1>13. {seq'[c] : c \in Numbered'} = 1..Cardinality(Numbered')
  <2>1. ASSUME NEW c \in Numbered' PROVE seq'[c] \in 1..(n + k)
    <3>1. c \in Commands
      BY DEF Numbered
    <3>2. CASE c \in taken
      BY <1>1, <1>4, <1>5, <3>1, <3>2
    <3>3. CASE c \in Numbered /\ c \notin taken
      BY <1>1, <1>5, <1>9, <3>1, <3>3
    <3>4. QED
      BY <1>6, <3>2, <3>3
  <2>2. ASSUME NEW m \in 1..(n + k) PROVE \E c \in Numbered' : seq'[c] = m
    <3>1. CASE m \in 1..n
      <4>1. PICK c \in Numbered : seq[c] = m
        BY <1>10, <3>1
      <4>2. QED
        BY <1>5, <1>6, <4>1 DEF Numbered
    <3>2. CASE m \in (n + 1)..(n + k)
      <4>1. PICK c \in taken : number[c] = m
        BY <1>3, <3>2
      <4>2. QED
        BY <1>5, <1>6, <4>1
    <3>3. QED
      BY <1>1, <3>1, <3>2
  <2>3. QED
    BY <1>7, <2>1, <2>2
<1>14. \A c \in taken : seq'[c] # 0
  BY <1>4, <1>5
<1>15. QED
  BY <1>11, <1>12, <1>13, <1>14 DEF NumbersContiguous

----------------------------------------------------------------------------
(* The invariant is kept *)

LEMMA TableInitInv == HomeInit => TableInv
<1> SUFFICES ASSUME HomeInit PROVE TableInv
  OBVIOUS
<1>1. HomeTypeOK
  BY WireAssumption DEF HomeInit, HomeTypeOK, WireTypeOK, States, Generations
<1>2. NumbersContiguous
  <2>1. Numbered = {}
    BY DEF HomeInit, Numbered
  <2>2. QED
    BY <2>1, FS_EmptySet DEF NumbersContiguous
<1>3. NumberedIffStreamed /\ SendsCarryRuns /\ UndeliveredRunsFinished /\ RetiredLeavesNothingOpen
  BY DEF HomeInit, NumberedIffStreamed, SendsCarryRuns, UndeliveredRunsFinished,
         RetiredLeavesNothingOpen, Sends
<1>4. QED
  BY <1>1, <1>2, <1>3 DEF TableInv

(* A step that gives no number leaves them contiguous. *)
LEMMA NumbersUnchanged ==
  ASSUME NumbersContiguous, seq' = seq
  PROVE  NumbersContiguous'
BY DEF NumbersContiguous, Numbered

(* What is said of each command of its state, number and run. *)
CommandsInv == NumberedIffStreamed /\ SendsCarryRuns /\ UndeliveredRunsFinished /\ RetiredLeavesNothingOpen

LEMMA TableStepInv ==
  ASSUME TableInv, [HomeNext]_homeVars
  PROVE  TableInv'
<1> USE DEF TableInv, CommandsInv
<1>1. ASSUME NEW c \in Commands, Queue(c) PROVE TableInv'
  <2>1. HomeTypeOK'
    BY <1>1 DEF Queue, UnchangedPlacement, HomeTypeOK, WireTypeOK, States
  <2>2. CommandsInv'
    BY <1>1 DEF Queue, HomeTypeOK, WireTypeOK, NumberedIffStreamed, SendsCarryRuns,
                UndeliveredRunsFinished, RetiredLeavesNothingOpen
  <2>3. QED
    BY <1>1, <2>1, <2>2, NumbersUnchanged DEF Queue
<1>2. ASSUME NEW c \in Commands, Withdraw(c) PROVE TableInv'
  <2>1. HomeTypeOK'
    BY <1>2 DEF Withdraw, Moved, RunsOver, UnchangedPlacement, HomeTypeOK, WireTypeOK, States, FinalStates
  <2>2. CommandsInv'
    BY <1>2 DEF Withdraw, Moved, RunsOver, HomeTypeOK, WireTypeOK, NumberedIffStreamed, SendsCarryRuns,
                UndeliveredRunsFinished, RetiredLeavesNothingOpen, Sends
  <2>3. QED
    BY <1>2, <2>1, <2>2, NumbersUnchanged DEF Withdraw
<1>3. ASSUME NEW c \in Commands, TurnResult(c) PROVE TableInv'
  <2>1. HomeTypeOK'
    BY <1>3 DEF TurnResult, RunsOver, UnchangedPlacement, HomeTypeOK, WireTypeOK
  <2>2. CommandsInv'
    BY <1>3 DEF TurnResult, RunsOver, HomeTypeOK, WireTypeOK, NumberedIffStreamed, SendsCarryRuns,
                UndeliveredRunsFinished, RetiredLeavesNothingOpen, Sends
  <2>3. QED
    BY <1>3, <2>1, <2>2, NumbersUnchanged DEF TurnResult
<1>4. ASSUME NEW c \in Commands, NEW s \in AckStates, Ack(c, s) PROVE TableInv'
  <2>1. HomeTypeOK'
    BY <1>4 DEF Ack, Moved, RunsOver, UnchangedPlacement, HomeTypeOK, WireTypeOK, States, FinalStates, AckStates
  <2>2. CommandsInv'
    <3>1. CASE UNCHANGED <<state, run>>
      BY <1>4, <3>1 DEF Ack, NumberedIffStreamed, SendsCarryRuns, UndeliveredRunsFinished,
                        RetiredLeavesNothingOpen
    <3>2. CASE /\ state[c] \in {"sent", "uncertain"} /\ enrolled /\ enrolled' = enrolled /\ seq' = seq
               /\ state' = Moved({c}, s) /\ run' = IF s = "delivered" THEN run ELSE RunsOver({c})
      BY <3>2 DEF Moved, RunsOver, AckStates, HomeTypeOK, WireTypeOK, NumberedIffStreamed, SendsCarryRuns,
                  UndeliveredRunsFinished, RetiredLeavesNothingOpen, Sends
    <3>3. QED
      BY <1>4, <3>1, <3>2 DEF Ack, HomeTypeOK, States, FinalStates
  <2>3. QED
    BY <1>4, <2>1, <2>2, NumbersUnchanged DEF Ack
<1>5. CASE SettleStale
  <2>1. PICK elsewhere \in SUBSET {c \in Commands : ExecOf[c] = Device} :
          LET stale == {c \in InState(Unsettled) : ~Current(c) \/ c \in elsewhere} IN
          state' = Moved(stale, "stale") /\ run' = RunsOver(stale)
    BY <1>5 DEF SettleStale
  <2> DEFINE stale == {c \in InState(Unsettled) : ~Current(c) \/ c \in elsewhere}
  <2>2. stale \subseteq {c \in Commands : state[c] \in {"queued", "sent"}}
    BY DEF InState, Unsettled
  <2>3. state' = Moved(stale, "stale") /\ run' = RunsOver(stale)
    BY <2>1
  <2> HIDE DEF stale
  <2>4. HomeTypeOK'
    BY <1>5, <2>3 DEF SettleStale, Moved, RunsOver, UnchangedPlacement, HomeTypeOK, WireTypeOK,
                      States, FinalStates
  <2>5. CommandsInv'
    BY <1>5, <2>2, <2>3 DEF SettleStale, Moved, RunsOver, HomeTypeOK, WireTypeOK, NumberedIffStreamed,
       SendsCarryRuns, UndeliveredRunsFinished, RetiredLeavesNothingOpen, Sends
  <2>6. QED
    BY <1>5, <2>4, <2>5, NumbersUnchanged DEF SettleStale
<1>6. CASE Number
  <2>1. PICK held \in SUBSET (AgentSends \cap InState({"queued"})) :
          LET taken == InState({"queued"}) \ held IN
          \E number \in InQueueOrder(taken) :
            /\ seq' = [c \in Commands |-> IF c \in taken THEN number[c] ELSE seq[c]]
            /\ state' = Moved(taken, "sent")
    BY <1>6 DEF Number
  <2> DEFINE taken == InState({"queued"}) \ held
  <2>2. PICK number \in InQueueOrder(taken) :
            /\ seq' = [c \in Commands |-> IF c \in taken THEN number[c] ELSE seq[c]]
            /\ state' = Moved(taken, "sent")
    BY <2>1
  <2>3. taken \in SUBSET Commands /\ \A c \in taken : state[c] = "queued"
    BY DEF InState
  <2>4. \A c \in taken : seq[c] = 0
    BY <2>3 DEF NumberedIffStreamed
  <2> HIDE DEF taken
  <2>5. /\ NumbersContiguous'
        /\ seq' \in [Commands -> 0..NumCommands]
        /\ \A c \in taken : seq'[c] # 0
    BY <2>2, <2>3, <2>4, NumberedOn
  <2>6. enrolled /\ enrolled' = enrolled /\ run' = run
    BY <1>6 DEF Number
  <2>7. HomeTypeOK'
    BY <1>6, <2>2, <2>5 DEF Number, Moved, UnchangedPlacement, HomeTypeOK, WireTypeOK, States
  <2>8. NumberedIffStreamed'
    BY <2>2, <2>3, <2>5 DEF Moved, NumberedIffStreamed, HomeTypeOK, WireTypeOK
  <2>9. SendsCarryRuns' /\ UndeliveredRunsFinished' /\ RetiredLeavesNothingOpen'
    BY <2>2, <2>3, <2>6 DEF Moved, SendsCarryRuns, UndeliveredRunsFinished, RetiredLeavesNothingOpen,
       HomeTypeOK, Sends
  <2>10. QED
    BY <2>5, <2>7, <2>8, <2>9
<1>7. CASE Retire
  <2>1. HomeTypeOK'
    BY <1>7 DEF Retire, RunsOver, UnchangedPlacement, HomeTypeOK, WireTypeOK, States, FinalStates
  <2>2. CommandsInv'
    BY <1>7 DEF Retire, RunsOver, InState, HomeTypeOK, WireTypeOK, NumberedIffStreamed, SendsCarryRuns,
                UndeliveredRunsFinished, RetiredLeavesNothingOpen, Sends
  <2>3. QED
    BY <1>7, <2>1, <2>2, NumbersUnchanged DEF Retire
<1>8. CASE Reenroll
  <2>1. HomeTypeOK'
    BY <1>8 DEF Reenroll, Moved, RunsOver, UnchangedPlacement, HomeTypeOK, WireTypeOK, States, FinalStates
  <2>2. CommandsInv'
    BY <1>8 DEF Reenroll, Moved, RunsOver, InState, HomeTypeOK, WireTypeOK, NumberedIffStreamed,
                SendsCarryRuns, UndeliveredRunsFinished, RetiredLeavesNothingOpen, Sends
  <2>3. QED
    BY <1>8, <2>1, <2>2, NumbersUnchanged DEF Reenroll
<1>9. CASE Moves
  <2>1. HomeTypeOK'
    <3> USE WireAssumption DEF UnchangedCommands, HomeTypeOK, WireTypeOK, Generations, NewGen
    <3>1. PICK e \in Executions : Reserve(e) \/ GiveUp(e) \/ Arrive(e) \/ Leave(e)
      BY <1>9 DEF Moves
    <3>2. CASE Reserve(e)
      BY <3>2 DEF Reserve
    <3>3. CASE GiveUp(e)
      BY <3>3 DEF GiveUp
    <3>4. CASE Arrive(e)
      <4>1. reserved[e] \in 1..MaxGen
        BY <3>4 DEF Arrive
      <4>2. QED
        BY <3>4, <4>1 DEF Arrive
    <3>5. CASE Leave(e)
      BY <3>5 DEF Leave
    <3>6. QED
      BY <3>1, <3>2, <3>3, <3>4, <3>5
  <2>2. UNCHANGED <<state, seq, run, enrolled>>
    BY <1>9 DEF Moves, Reserve, GiveUp, Arrive, Leave, UnchangedCommands
  <2>3. CommandsInv'
    BY <2>2 DEF NumberedIffStreamed, SendsCarryRuns, UndeliveredRunsFinished, RetiredLeavesNothingOpen
  <2>4. QED
    BY <2>1, <2>2, <2>3, NumbersUnchanged
<1>10. CASE UNCHANGED homeVars
  <2>1. HomeTypeOK' /\ CommandsInv'
    BY <1>10 DEF homeVars, HomeTypeOK, WireTypeOK, NumberedIffStreamed, SendsCarryRuns,
                 UndeliveredRunsFinished, RetiredLeavesNothingOpen
  <2>2. QED
    BY <1>10, <2>1, NumbersUnchanged DEF homeVars
<1>11. QED
  BY <1>1, <1>2, <1>3, <1>4, <1>5, <1>6, <1>7, <1>8, <1>9, <1>10 DEF HomeNext

THEOREM TableInvariant == HomeSpec => []TableInv
BY TableInitInv, TableStepInv, PTL DEF HomeSpec

----------------------------------------------------------------------------
(* What follows *)

(* The table is always well typed; in particular numbers never run past the *)
(* commands there are.                                                      *)
THEOREM TableTypes == HomeSpec => []HomeTypeOK
<1>1. TableInv => HomeTypeOK
  BY DEF TableInv
<1>2. QED
  BY TableInvariant, <1>1, PTL

(* Numbers are 1, 2, 3 ... with none twice and none skipped, whichever      *)
(* streams give them.                                                       *)
THEOREM TableNumbersContiguous == HomeSpec => []NumbersContiguous
<1>1. TableInv => NumbersContiguous
  BY DEF TableInv
<1>2. QED
  BY TableInvariant, <1>1, PTL

(* No send that will not be delivered leaves its run open.                  *)
THEOREM TableRunsFinished == HomeSpec => []UndeliveredRunsFinished
<1>1. TableInv => UndeliveredRunsFinished
  BY DEF TableInv
<1>2. QED
  BY TableInvariant, <1>1, PTL

(* With the worker turned off, nothing waits for it.                        *)
THEOREM TableRetiredNothingOpen == HomeSpec => []RetiredLeavesNothingOpen
<1>1. TableInv => RetiredLeavesNothingOpen
  BY DEF TableInv
<1>2. QED
  BY TableInvariant, <1>1, PTL

(* A final state stays final, and an uncertain command is never sent again. *)
THEOREM TableFinalStaysFinal == HomeSpec => FinalStaysFinal
<1> DEFINE Step == \A c \in Commands :
                     /\ state[c] \in FinalStates => state'[c] = state[c]
                     /\ state[c] = "uncertain" => state'[c] \in AckStates
<1>1. ASSUME TableInv, [HomeNext]_homeVars PROVE [Step]_homeVars
  <2> USE DEF FinalStates, AckStates
  <2> SUFFICES ASSUME HomeNext PROVE Step
    BY <1>1
  <2>0. DOMAIN state = Commands
    BY <1>1 DEF TableInv, HomeTypeOK
  <2>1. ASSUME NEW c \in Commands, Queue(c) \/ Withdraw(c) \/ TurnResult(c) PROVE Step
    BY <1>1, <2>1 DEF Queue, Withdraw, TurnResult, Moved, TableInv, HomeTypeOK
  <2>2. ASSUME NEW c \in Commands, NEW s \in AckStates, Ack(c, s) PROVE Step
    BY <1>1, <2>2 DEF Ack, Moved
  <2>3. CASE SettleStale
    BY <2>3 DEF SettleStale, Moved, InState, Unsettled
  <2>4. CASE Number
    BY <2>4 DEF Number, Moved, InState
  <2>5. CASE Retire \/ Reenroll
    BY <2>5 DEF Retire, Reenroll, Moved, InState
  <2>6. CASE Moves
    BY <2>6 DEF Moves, Reserve, GiveUp, Arrive, Leave, UnchangedCommands
  <2>7. QED
    BY <2>1, <2>2, <2>3, <2>4, <2>5, <2>6 DEF HomeNext
<1>2. QED
  BY TableInvariant, <1>1, PTL DEF HomeSpec, FinalStaysFinal
===============================================================================
