------------------------------ MODULE EventLog ------------------------------
(***************************************************************************)
(* What the home and a worker promise together of the worker's events: the *)
(* home takes each once and in the order they were made, and none is       *)
(* missing unless it was excused. Excused are the events a restored home   *)
(* had taken and no longer has, and those of a journal that was cleared.   *)
(* WorkerEvents is shown to implement it.                                  *)
(***************************************************************************)
EXTENDS InOrder, SequencesExt

VARIABLES
  made,    \* how many events the worker has made; they are 1..made
  taken,   \* the events the home holds, as it took them
  excused  \* the events it may go without

logVars == <<made, taken, excused>>

Init == made = 0 /\ taken = <<>> /\ excused = {}

Make == made' = made + 1 /\ UNCHANGED <<taken, excused>>

(* Several at once, all newer than what it holds, leaving out none but the  *)
(* excused.                                                                 *)
Take ==
  \E batch \in (SUBSET (1..made)) \ {{}} :
    /\ \A e \in batch, t \in ToSet(taken) : t < e
    /\ 1..Max(batch) \subseteq ToSet(taken) \cup batch \cup excused
    /\ taken' = taken \o SortedBy(batch, [e \in batch |-> e])
    /\ UNCHANGED <<made, excused>>

(* The home is restored from an older backup.                               *)
Undo ==
  \E n \in 0..Len(taken) :
    /\ taken' = SubSeq(taken, 1, n)
    /\ excused' = excused \cup (ToSet(taken) \ ToSet(taken'))
    /\ UNCHANGED made

(* The worker's journal is cleared.                                         *)
Forget ==
  \E gone \in SUBSET (1..made) :
    /\ excused' = excused \cup gone
    /\ UNCHANGED <<made, taken>>

Next == Make \/ Take \/ Undo \/ Forget

Spec == Init /\ [][Next]_logVars

(* The home catches up, again and again, with everything made so far.       *)
Arrives == []<>(1..made \subseteq ToSet(taken) \cup excused)
=============================================================================
