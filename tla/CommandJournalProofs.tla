------------------------- MODULE CommandJournalProofs -------------------------
(***************************************************************************)
(* What every worker that keeps its journal as JournalSpec says promises,  *)
(* for any commands, executions and bounds.                                *)
(***************************************************************************)
EXTENDS CommandJournal, InOrderProofs

(* An outcome is journaled exactly for what has finished, and a command is  *)
(* applied only after it was started.                                       *)
OutcomeWhenFinished ==
  \A c \in Commands :
    /\ outcome[c] # "none" => stage[c] \in {"finished", "confirmed", "dropped"}
    /\ outcome[c] = "delivered" => SeemsApplied(c)

JournalInv == JournalTypeOK /\ AtMostOnce /\ OutcomeWhenFinished

(* Every result of a compaction changes only confirmed commands.            *)
LEMMA CompactedOnlyDrops ==
  ASSUME JournalTypeOK, NEW s \in Compacted
  PROVE  /\ s \in [Commands -> Stages]
         /\ \A c \in Commands : s[c] = stage[c] \/ (stage[c] = "confirmed" /\ s[c] = "dropped")
BY DEF Compacted, JournalTypeOK, InStage, Stages

LEMMA JournalInitInv == JournalInit => JournalInv
BY WireAssumption DEF JournalInit, JournalInv, JournalTypeOK, AtMostOnce, OutcomeWhenFinished,
     Stages, OnceOnly, EffectCap, Outcomes

LEMMA JournalStepInv ==
  ASSUME JournalInv, [JournalNext]_journalVars
  PROVE  JournalInv'
<1> USE DEF JournalInv, JournalTypeOK, AtMostOnce, OutcomeWhenFinished, Stages, SeemsApplied,
            EffectCap, Outcomes
<1>1. ASSUME NEW c \in Commands, received(c) PROVE JournalInv'
  BY <1>1 DEF received
<1>2. ASSUME NEW c \in Commands, started(c) PROVE JournalInv'
  BY <1>2 DEF started
<1>3. ASSUME NEW c \in Commands, Effect(c) PROVE JournalInv'
  <2>1. JournalTypeOK'
    BY <1>3 DEF Effect, Counted
  <2>2. \A d \in Commands : applied[d] > 0 => applied'[d] > 0
    BY <1>3 DEF Effect, Counted
  <2>3. AtMostOnce'
    BY <1>3 DEF Effect, OnceOnly, Counted
  <2>4. OutcomeWhenFinished'
    BY <1>3, <2>2 DEF Effect
  <2>5. QED
    BY <2>1, <2>3, <2>4
<1>4. ASSUME NEW c \in Commands, confirmed(c) PROVE JournalInv'
  BY <1>4 DEF confirmed
<1>5. ASSUME NEW S \in SUBSET Commands, NEW result \in Outcomes, finished(S, result)
      PROVE  JournalInv'
  BY <1>5 DEF finished, Interrupted, InStage
<1>6. ASSUME NEW gens \in [Executions -> 0..MaxGen], release(gens) PROVE JournalInv'
  BY <1>6 DEF release
<1>7. CASE compact
  BY <1>7, CompactedOnlyDrops DEF compact
<1>8. CASE UNCHANGED journalVars
  BY <1>8 DEF journalVars
<1>9. QED
  BY <1>1, <1>2, <1>3, <1>4, <1>5, <1>6, <1>7, <1>8 DEF JournalNext

(* A message goes in, and a project script runs, at most once: for any      *)
(* number of commands, in any order of restarts and compactions.            *)
THEOREM JournalAppliesOnce == JournalSpec => []AtMostOnce
<1>1. JournalInv => AtMostOnce
  BY DEF JournalInv
<1>2. QED
  BY JournalInitInv, JournalStepInv, <1>1, PTL DEF JournalSpec

(* When no two messages read alike, an outcome of delivered is true.        *)
THEOREM JournalDeliveredWasApplied ==
  ASSUME Resembles = {}
  PROVE  JournalSpec => []DeliveredWasApplied
<1>1. JournalInv => DeliveredWasApplied
  BY DEF JournalInv, OutcomeWhenFinished, SeemsApplied, DeliveredWasApplied
<1>2. QED
  BY JournalInitInv, JournalStepInv, <1>1, PTL DEF JournalSpec

(* The journal goes forward: stages never go back, compaction included, and *)
(* a journaled outcome is never replaced.                                   *)
THEOREM JournalForward == JournalSpec => JournalGoesForward
<1> DEFINE Step == \A c \in Commands :
                     /\ Rank(stage'[c]) >= Rank(stage[c])
                     /\ outcome[c] # "none" => outcome'[c] = outcome[c]
<1>1. ASSUME JournalInv, [JournalNext]_journalVars PROVE [Step]_journalVars
  <2> USE DEF JournalInv, JournalTypeOK, OutcomeWhenFinished, Stages, Rank
  <2>1. ASSUME NEW c \in Commands, received(c) \/ started(c) \/ Effect(c) \/ confirmed(c) PROVE Step
    BY <2>1, <1>1 DEF received, started, Effect, confirmed
  <2>2. ASSUME NEW S \in SUBSET Commands, NEW result \in Outcomes, finished(S, result) PROVE Step
    BY <2>2, <1>1 DEF finished, Interrupted, InStage
  <2>3. ASSUME NEW gens \in [Executions -> 0..MaxGen], release(gens) PROVE Step
    BY <2>3, <1>1 DEF release
  <2>4. ASSUME compact PROVE Step
    BY <2>4, <1>1, CompactedOnlyDrops DEF compact
  <2>5. QED
    BY <1>1, <2>1, <2>2, <2>3, <2>4 DEF JournalNext
<1>2. QED
  BY JournalInitInv, JournalStepInv, <1>1, PTL DEF JournalSpec, JournalGoesForward

----------------------------------------------------------------------------
(* The fence *)

(* An execution with a command in the journal has a newest one there, which *)
(* compaction keeps.                                                        *)
LEMMA NewestExists ==
  ASSUME WireTypeOK, NEW d \in Journaled, ExecOf[d] # Device
  PROVE  \E n \in Journaled :
           NewestOfExecution(n) /\ ExecOf[n] = ExecOf[d] /\ generation[n] >= generation[d]
<1> DEFINE here == {c \in Journaled : ExecOf[c] = ExecOf[d]}
           gens == {generation[c] : c \in here}
<1>0. Journaled \subseteq Commands
  BY DEF Journaled
<1>1. gens \in SUBSET (0..MaxGen) /\ gens # {}
  BY <1>0 DEF WireTypeOK
<1>2. PICK g \in gens : \A h \in gens : h <= g
  BY <1>1, GreatestOf, WireAssumption
<1> DEFINE newest == {c \in here : generation[c] = g}
           seqs == {seq[c] : c \in newest}
<1>3. seqs \in SUBSET Nat /\ seqs # {}
  BY <1>0 DEF WireTypeOK
<1>4. PICK s \in seqs : \A t \in seqs : s <= t
  BY <1>3, LeastOf
<1>5. PICK n \in newest : seq[n] = s
  OBVIOUS
<1>6. \A c \in here : generation[c] <= g /\ generation[c] \in Nat /\ g \in Nat
  BY <1>0, <1>1, <1>2 DEF WireTypeOK
<1>7. NewestOfExecution(n)
  BY <1>4, <1>5, <1>6 DEF NewestOfExecution
<1>8. QED
  BY <1>5, <1>6, <1>7

LEMMA CompactionKeepsNewest ==
  ASSUME JournalTypeOK, NEW s \in Compacted, NEW n \in Journaled, NewestOfExecution(n)
  PROVE  s[n] = stage[n]
BY DEF Compacted, Kept, InStage, Journaled, JournalTypeOK

FenceHoldsStep == \A c \in Commands : Fenced(c) => Fenced(c)'

LEMMA FenceStep ==
  ASSUME JournalInv, WireTypeOK, JournalNext, UNCHANGED wire
  PROVE  FenceHoldsStep
<1>1. SUFFICES ASSUME NEW c \in Commands, Fenced(c) PROVE Fenced(c)'
  BY DEF FenceHoldsStep
<1>2. UNCHANGED <<seq, generation>>
  BY DEF wire
<1>3. ASSUME \A e \in Executions : released'[e] >= released[e],
             \A d \in Commands : d \in Journaled => d \in Journaled'
      PROVE  Fenced(c)'
  <2>1. ExecOf[c] # Device /\ ExecOf[c] \in Executions
    BY <1>1, WireAssumption DEF Fenced
  <2>2. CASE generation[c] <= released[ExecOf[c]]
    <3>1. released[ExecOf[c]] \in Nat /\ generation[c] \in Nat /\ released'[ExecOf[c]] \in Nat
      BY <2>1, WireAssumption, JournalStepInv DEF JournalInv, JournalTypeOK, WireTypeOK
    <3>2. QED
      BY <1>2, <1>3, <2>1, <2>2, <3>1 DEF Fenced
  <2>3. CASE \E d \in Journaled : ExecOf[d] = ExecOf[c] /\ generation[d] > generation[c]
    BY <1>2, <1>3, <2>1, <2>3 DEF Fenced, Journaled
  <2>4. QED
    BY <1>1, <2>2, <2>3 DEF Fenced
<1> DEFINE Grows == \A d \in Commands : d \in Journaled => d \in Journaled'
<1>4. ASSUME NEW d \in Commands, received(d) \/ started(d) \/ Effect(d) \/ confirmed(d)
      PROVE  Fenced(c)'
  <2>1. Grows
    BY <1>4 DEF Journaled, InStage, received, started, Effect, confirmed, JournalInv, JournalTypeOK
  <2>2. released' = released
    BY <1>4 DEF received, started, Effect, confirmed
  <2>3. QED
    BY <1>3, <2>1, <2>2, WireAssumption DEF JournalInv, JournalTypeOK
<1>5. ASSUME NEW S \in SUBSET Commands, NEW result \in Outcomes, finished(S, result)
      PROVE  Fenced(c)'
  <2>1. Grows
    BY <1>5 DEF Journaled, InStage, finished, JournalInv, JournalTypeOK
  <2>2. QED
    BY <1>3, <1>5, <2>1, WireAssumption DEF finished, JournalInv, JournalTypeOK
<1>6. ASSUME NEW gens \in [Executions -> 0..MaxGen], release(gens) PROVE Fenced(c)'
  <2>1. Grows
    BY <1>6 DEF Journaled, InStage, release
  <2>2. \A e \in Executions : released'[e] >= released[e]
    BY <1>6, WireAssumption DEF release, JournalInv, JournalTypeOK
  <2>3. QED
    BY <1>3, <2>1, <2>2
<1>7. CASE compact
  <2>1. ExecOf[c] # Device /\ released' = released
    BY <1>1, <1>7 DEF Fenced, compact
  <2>2. CASE generation[c] <= released[ExecOf[c]]
    BY <1>2, <2>1, <2>2 DEF Fenced
  <2>3. CASE \E d \in Journaled : ExecOf[d] = ExecOf[c] /\ generation[d] > generation[c]
    <3>1. PICK d \in Journaled : ExecOf[d] = ExecOf[c] /\ generation[d] > generation[c]
      BY <2>3
    <3>2. PICK n \in Journaled : /\ NewestOfExecution(n) /\ ExecOf[n] = ExecOf[d]
                                 /\ generation[n] >= generation[d]
      BY <2>1, <3>1, NewestExists
    <3>3. n \in Journaled'
      BY <1>7, <3>2, CompactionKeepsNewest DEF compact, Journaled, InStage, JournalInv
    <3>4. generation[n] > generation[c]
      BY <3>1, <3>2, WireAssumption DEF WireTypeOK, Journaled
    <3>5. QED
      BY <1>2, <2>1, <3>1, <3>2, <3>3, <3>4 DEF Fenced
  <2>4. QED
    BY <1>1, <2>2, <2>3 DEF Fenced
<1>8. QED
  BY <1>4, <1>5, <1>6, <1>7 DEF JournalNext

(* The fence holds: what would be refused as for an earlier placement is    *)
(* refused from then on, whatever is received, released or compacted, as    *)
(* long as numbers and generations are given once.                          *)
THEOREM JournalFenceHolds ==
  JournalInit /\ WireTypeOK /\ [][JournalNext /\ UNCHANGED wire]_<<journalVars, wire>> => FenceHolds
<1> DEFINE Inv == JournalInv /\ WireTypeOK
<1>1. JournalInit /\ WireTypeOK => Inv
  BY JournalInitInv
<1>2. Inv /\ [JournalNext /\ UNCHANGED wire]_<<journalVars, wire>> => Inv'
  BY JournalStepInv DEF wire, WireTypeOK
<1>3. Inv /\ [JournalNext /\ UNCHANGED wire]_<<journalVars, wire>>
        => [\A c \in Commands : Fenced(c) => Fenced(c)']_<<journalVars, wire>>
  BY FenceStep DEF FenceHoldsStep
<1>4. QED
  BY <1>1, <1>2, <1>3, PTL DEF FenceHolds
===============================================================================
