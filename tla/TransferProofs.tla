---------------------------- MODULE TransferProofs ----------------------------
(***************************************************************************)
(* What a move keeps, for any devices, messages, attempts and restarts.    *)
(***************************************************************************)
EXTENDS Transfer, SequenceTheorems, FiniteSetTheorems, TLAPS

Places == [device : Devices, gen : Nat \ {0}]

Rows ==
  [from : Devices, fromGen : Nat \ {0}, to : Devices, toGen : Nat,
   state : {"active", "failed", "cancelled", "succeeded"},
   held : Seq(Messages), error : BOOLEAN, stopped : BOOLEAN]

Attempts == [stage : Stages, by : {"user", "delivery"}, at : Places]

Given == [msg : Messages, device : Devices, gen : Nat \ {0}]

(* The type of every variable, in full. *)
FullTypes ==
  /\ placement \in Places
  /\ transfers \in Seq(Rows)
  /\ step \in {"none", "draining", "stopping", "saving", "setting_up", "continuing"}
  /\ phase \in {"off", "next", "waiting", "trying", "accepted"}
  /\ kicked \in BOOLEAN
  /\ attempt \in [Messages -> Attempts]
  /\ log \in Seq(Given)
  /\ said \in 0..NumMessages /\ answered \subseteq Messages
  /\ changes \in Nat /\ restarts \in Nat
  /\ ahead \in [Messages -> SUBSET Messages] /\ heldEver \subseteq Messages

WasGiven(m) == \E i \in DOMAIN log : log[i].msg = m

(* Only the latest row is open; it and what is awaited agree; nothing is    *)
(* delivered while the source has the work or a decision is waited for.     *)
ControlInv ==
  /\ \A n \in 1..latest : n # latest =>
       transfers[n].held = <<>> /\ transfers[n].state \notin {"active", "failed"}
  /\ step \in {"draining", "stopping", "saving", "setting_up"} <=> Moving
  /\ step = "continuing" <=> Is({"active"}) /\ ~Moving
  /\ step \in {"stopping", "saving", "setting_up"} => Latest.stopped
  /\ Moving \/ Is({"failed"}) => phase = "off"
  /\ phase \in {"waiting", "trying", "accepted"} => Held # <<>>

(* A delivery tries the first in line, no message is on its way to work     *)
(* that was stopped or has moved, and what is accepted was given.           *)
SendsInv ==
  /\ \A m \in Messages :
       attempt[m].by = "delivery" /\ IsAt(m, {"building", "sending"}) =>
         phase = "trying" /\ m = Head(Held)
  /\ \A m \in Messages : IsAt(m, {"sending"}) => attempt[m].at = placement /\ ~StoppedNow
  /\ \A m \in Messages : IsAt(m, {"turn"}) => WasGiven(m)
  /\ phase = "accepted" => WasGiven(Head(Held))

(* While the source has it, the work is where the latest row says. A source *)
(* generation never falls, and rises past what every earlier move prepared. *)
MovesInv ==
  /\ \A n \in 1..latest : transfers[n].from # transfers[n].to
  /\ latest # 0 /\ Latest.toGen = 0 =>
       placement = [device |-> Latest.from, gen |-> Latest.fromGen]
  /\ \A n \in 1..latest : transfers[n].toGen \in {0, Target(n)}
  /\ \A n \in 1..latest : /\ transfers[n].fromGen <= placement.gen
                          /\ transfers[n].fromGen < placement.gen => Target(n) <= placement.gen
  /\ \A k, n \in 1..latest : k < n =>
       /\ transfers[k].fromGen <= transfers[n].fromGen
       /\ transfers[k].fromGen < transfers[n].fromGen => Target(k) <= transfers[n].fromGen

(* The line is in order: what was held when a message was sent was given    *)
(* before it, or stands before it.                                          *)
LineInv ==
  /\ \A m \in heldEver : m \in ToSet(Held) \/ WasGiven(m)
  /\ ToSet(Held) \subseteq heldEver
  /\ \A m \in Messages : ahead[m] \subseteq heldEver
  /\ \A i \in DOMAIN Held : \A a \in ahead[Held[i]] :
       WasGiven(a) \/ \E j \in 1..i - 1 : Held[j] = a
  /\ \A m \in Messages : IsAt(m, {"sending"}) => \A a \in ahead[m] : WasGiven(a)
  /\ \A m \in Messages : m > said =>
       IsAt(m, {"none"}) /\ m \notin heldEver /\ ~WasGiven(m) /\ ahead[m] = {}
  /\ NothingOvertakes

TransferInv == FullTypes /\ ControlInv /\ SendsInv /\ MovesInv /\ LineInv /\ ChangesKeepOut

----------------------------------------------------------------------------
(* Rows *)

(* A row is one record among many that the provers should not open needlessly. *)
LEMMA RowFields ==
  ASSUME NEW r \in Rows
  PROVE  /\ r.from \in Devices /\ r.to \in Devices
         /\ r.fromGen \in Nat \ {0} /\ r.toGen \in Nat
         /\ r.state \in {"active", "failed", "cancelled", "succeeded"}
         /\ r.held \in Seq(Messages) /\ r.error \in BOOLEAN /\ r.stopped \in BOOLEAN
BY DEF Rows

LEMMA LatestRow ==
  ASSUME FullTypes
  PROVE  /\ latest \in Nat /\ DOMAIN transfers = 1..latest
         /\ \A n \in 1..latest : transfers[n] \in Rows
         /\ latest # 0 => Latest \in Rows
         /\ Held \in Seq(Messages)
BY RowFields, EmptySeq DEF FullTypes, latest, Latest, Held

(* What the latest row becomes is all that changes.                         *)
LEMMA RowChanged ==
  ASSUME FullTypes, latest # 0, NEW r \in Rows, transfers' = [transfers EXCEPT ![latest] = r]
  PROVE  /\ transfers' \in Seq(Rows)
         /\ latest' = latest /\ Latest' = r
         /\ \A n \in 1..latest : n # latest => transfers'[n] = transfers[n]
BY LatestRow, ExceptSeq DEF FullTypes, latest, Latest

(* A step that leaves the rows' ends and their number alone. *)
SameEnds ==
  /\ latest' = latest
  /\ \A n \in 1..latest : /\ transfers'[n].from = transfers[n].from
                          /\ transfers'[n].to = transfers[n].to
                          /\ transfers'[n].fromGen = transfers[n].fromGen
                          /\ n # latest => transfers'[n] = transfers[n]

(* And what the latest row says afterwards. *)
LatestIs(state, toGen, held, stopped) ==
  /\ transfers' \in Seq(Rows) /\ SameEnds
  /\ Latest'.state = state /\ Latest'.toGen = toGen
  /\ Latest'.held = held /\ Latest'.stopped = stopped

LEMMA RowBecomes ==
  ASSUME FullTypes, latest # 0, NEW r \in Rows, transfers' = [transfers EXCEPT ![latest] = r],
         r.from = Latest.from, r.to = Latest.to, r.fromGen = Latest.fromGen
  PROVE  LatestIs(r.state, r.toGen, r.held, r.stopped)
<1>1. /\ transfers' \in Seq(Rows) /\ latest' = latest /\ Latest' = r
      /\ \A n \in 1..latest : n # latest => transfers'[n] = transfers[n]
  BY RowChanged
<1>2. transfers'[latest] = r /\ transfers[latest] = Latest
  BY <1>1 DEF Latest
<1>3. SameEnds
  BY <1>1, <1>2 DEF SameEnds
<1>4. QED
  BY <1>1, <1>3 DEF LatestIs

LEMMA RowFailed ==
  ASSUME FullTypes, latest # 0, transfers' = Failed
  PROVE  LatestIs("failed", Latest.toGen, Latest.held, Latest.stopped)
<1> DEFINE r == [Latest EXCEPT !.state = "failed", !.error = TRUE]
<1>1. Latest \in Rows
  BY LatestRow
<1>2. transfers' = [transfers EXCEPT ![latest] = r]
  BY LatestRow DEF Failed, Latest
<1>3. /\ r \in Rows /\ r.from = Latest.from /\ r.to = Latest.to /\ r.fromGen = Latest.fromGen
      /\ r.state = "failed" /\ r.toGen = Latest.toGen /\ r.held = Latest.held /\ r.stopped = Latest.stopped
  BY <1>1 DEF Rows
<1> HIDE DEF r
<1>4. LatestIs(r.state, r.toGen, r.held, r.stopped)
  BY <1>2, <1>3, RowBecomes
<1>5. QED
  BY <1>3, <1>4

LEMMA RowHeld ==
  ASSUME FullTypes, latest # 0, NEW q \in Seq(Messages), transfers' = [transfers EXCEPT ![latest].held = q]
  PROVE  LatestIs(Latest.state, Latest.toGen, q, Latest.stopped)
<1> DEFINE r == [Latest EXCEPT !.held = q]
<1>1. Latest \in Rows
  BY LatestRow
<1>2. transfers' = [transfers EXCEPT ![latest] = r]
  BY LatestRow DEF Latest
<1>3. /\ r \in Rows /\ r.from = Latest.from /\ r.to = Latest.to /\ r.fromGen = Latest.fromGen
      /\ r.state = Latest.state /\ r.toGen = Latest.toGen /\ r.held = q /\ r.stopped = Latest.stopped
  BY <1>1 DEF Rows
<1> HIDE DEF r
<1>4. LatestIs(r.state, r.toGen, r.held, r.stopped)
  BY <1>2, <1>3, RowBecomes
<1>5. QED
  BY <1>3, <1>4

LEMMA RowStopped ==
  ASSUME FullTypes, latest # 0, transfers' = [transfers EXCEPT ![latest].stopped = TRUE]
  PROVE  LatestIs(Latest.state, Latest.toGen, Latest.held, TRUE)
<1> DEFINE r == [Latest EXCEPT !.stopped = TRUE]
<1>1. Latest \in Rows
  BY LatestRow
<1>2. transfers' = [transfers EXCEPT ![latest] = r]
  BY LatestRow DEF Latest
<1>3. /\ r \in Rows /\ r.from = Latest.from /\ r.to = Latest.to /\ r.fromGen = Latest.fromGen
      /\ r.state = Latest.state /\ r.toGen = Latest.toGen /\ r.held = Latest.held /\ r.stopped = TRUE
  BY <1>1 DEF Rows
<1> HIDE DEF r
<1>4. LatestIs(r.state, r.toGen, r.held, r.stopped)
  BY <1>2, <1>3, RowBecomes
<1>5. QED
  BY <1>3, <1>4

LEMMA RowErred ==
  ASSUME FullTypes, latest # 0, NEW e \in BOOLEAN, transfers' = [transfers EXCEPT ![latest].error = e]
  PROVE  LatestIs(Latest.state, Latest.toGen, Latest.held, Latest.stopped)
<1> DEFINE r == [Latest EXCEPT !.error = e]
<1>1. Latest \in Rows
  BY LatestRow
<1>2. transfers' = [transfers EXCEPT ![latest] = r]
  BY LatestRow DEF Latest
<1>3. /\ r \in Rows /\ r.from = Latest.from /\ r.to = Latest.to /\ r.fromGen = Latest.fromGen
      /\ r.state = Latest.state /\ r.toGen = Latest.toGen /\ r.held = Latest.held /\ r.stopped = Latest.stopped
  BY <1>1 DEF Rows
<1> HIDE DEF r
<1>4. LatestIs(r.state, r.toGen, r.held, r.stopped)
  BY <1>2, <1>3, RowBecomes
<1>5. QED
  BY <1>3, <1>4

LEMMA RowArrived ==
  ASSUME FullTypes, latest # 0, NEW g \in Nat, transfers' = [transfers EXCEPT ![latest].toGen = g]
  PROVE  LatestIs(Latest.state, g, Latest.held, Latest.stopped)
<1> DEFINE r == [Latest EXCEPT !.toGen = g]
<1>1. Latest \in Rows
  BY LatestRow
<1>2. transfers' = [transfers EXCEPT ![latest] = r]
  BY LatestRow DEF Latest
<1>3. /\ r \in Rows /\ r.from = Latest.from /\ r.to = Latest.to /\ r.fromGen = Latest.fromGen
      /\ r.state = Latest.state /\ r.toGen = g /\ r.held = Latest.held /\ r.stopped = Latest.stopped
  BY <1>1 DEF Rows
<1> HIDE DEF r
<1>4. LatestIs(r.state, r.toGen, r.held, r.stopped)
  BY <1>2, <1>3, RowBecomes
<1>5. QED
  BY <1>3, <1>4

LEMMA RowArrivedFailed ==
  ASSUME FullTypes, latest # 0, NEW g \in Nat, transfers' = [Failed EXCEPT ![latest].toGen = g]
  PROVE  LatestIs("failed", g, Latest.held, Latest.stopped)
<1> DEFINE r == [Latest EXCEPT !.state = "failed", !.error = TRUE, !.toGen = g]
<1>1. Latest \in Rows
  BY LatestRow
<1>2. transfers' = [transfers EXCEPT ![latest] = r]
  BY LatestRow DEF Failed, Latest
<1>3. /\ r \in Rows /\ r.from = Latest.from /\ r.to = Latest.to /\ r.fromGen = Latest.fromGen
      /\ r.state = "failed" /\ r.toGen = g /\ r.held = Latest.held /\ r.stopped = Latest.stopped
  BY <1>1 DEF Rows
<1> HIDE DEF r
<1>4. LatestIs(r.state, r.toGen, r.held, r.stopped)
  BY <1>2, <1>3, RowBecomes
<1>5. QED
  BY <1>3, <1>4

LEMMA RowSettled ==
  ASSUME FullTypes, latest # 0, NEW s \in {"succeeded", "cancelled"},
         transfers' = [transfers EXCEPT ![latest].error = FALSE, ![latest].state = s]
  PROVE  LatestIs(s, Latest.toGen, Latest.held, Latest.stopped)
<1> DEFINE r == [Latest EXCEPT !.error = FALSE, !.state = s]
<1>1. Latest \in Rows
  BY LatestRow
<1>2. transfers' = [transfers EXCEPT ![latest] = r]
  BY LatestRow DEF Latest
<1>3. /\ r \in Rows /\ r.from = Latest.from /\ r.to = Latest.to /\ r.fromGen = Latest.fromGen
      /\ r.state = s /\ r.toGen = Latest.toGen /\ r.held = Latest.held /\ r.stopped = Latest.stopped
  BY <1>1 DEF Rows
<1> HIDE DEF r
<1>4. LatestIs(r.state, r.toGen, r.held, r.stopped)
  BY <1>2, <1>3, RowBecomes
<1>5. QED
  BY <1>3, <1>4

LEMMA RowSucceeded ==
  ASSUME FullTypes, latest # 0, transfers' = [transfers EXCEPT ![latest].state = "succeeded"]
  PROVE  LatestIs("succeeded", Latest.toGen, Latest.held, Latest.stopped)
<1> DEFINE r == [Latest EXCEPT !.state = "succeeded"]
<1>1. Latest \in Rows
  BY LatestRow
<1>2. transfers' = [transfers EXCEPT ![latest] = r]
  BY LatestRow DEF Latest
<1>3. /\ r \in Rows /\ r.from = Latest.from /\ r.to = Latest.to /\ r.fromGen = Latest.fromGen
      /\ r.state = "succeeded" /\ r.toGen = Latest.toGen /\ r.held = Latest.held /\ r.stopped = Latest.stopped
  BY <1>1 DEF Rows
<1> HIDE DEF r
<1>4. LatestIs(r.state, r.toGen, r.held, r.stopped)
  BY <1>2, <1>3, RowBecomes
<1>5. QED
  BY <1>3, <1>4

LEMMA RowStarted ==
  ASSUME FullTypes, NEW to \in Devices, Start(to)
  PROVE  /\ transfers' \in Seq(Rows) /\ latest' = latest + 1
         /\ \A n \in 1..latest : /\ transfers'[n].from = transfers[n].from
                                 /\ transfers'[n].to = transfers[n].to
                                 /\ transfers'[n].fromGen = transfers[n].fromGen
                                 /\ transfers'[n].toGen = transfers[n].toGen
                                 /\ n # latest => transfers'[n] = transfers[n]
         /\ latest # 0 => /\ transfers'[latest].held = <<>>
                          /\ transfers'[latest].state \notin {"active", "failed"}
         /\ Latest' = Row(to)
<1> DEFINE settled(t) == [t EXCEPT !.held = <<>>, !.state = IF @ = "failed" THEN "cancelled" ELSE @]
           r == settled(Latest)
           S == [n \in 1..latest |-> IF n < latest THEN transfers[n] ELSE settled(transfers[n])]
<1>1. /\ latest \in Nat /\ DOMAIN transfers = 1..latest
      /\ \A n \in 1..latest : transfers[n] \in Rows
      /\ Held \in Seq(Messages) /\ placement \in Places
  BY LatestRow DEF FullTypes
<1>2. Row(to) \in Rows
  BY <1>1 DEF Row, Rows, Places
<1>3. latest # 0 => /\ r \in Rows /\ r.from = Latest.from /\ r.to = Latest.to
                   /\ r.fromGen = Latest.fromGen /\ r.toGen = Latest.toGen
                   /\ r.held = <<>> /\ r.state # "failed" /\ (r.state = "active" => Latest.state = "active")
  <2>1. ASSUME latest # 0 PROVE Latest \in Rows /\ <<>> \in Seq(Messages)
    BY <2>1, LatestRow, EmptySeq
  <2>2. QED
    BY <2>1 DEF Rows
<1>4. latest # 0 => Latest = transfers[latest]
  BY DEF Latest
<1>5. Superseded = S
  BY <1>1 DEF Superseded
<1>5a. \A n \in 1..latest : S[n] = IF n < latest THEN transfers[n] ELSE r
  <2>1. ASSUME NEW n \in 1..latest, ~(n < latest) PROVE transfers[n] = Latest
    BY <1>1, <2>1 DEF Latest
  <2> HIDE DEF settled
  <2>2. QED
    BY <2>1
<1> HIDE DEF r, S
<1>6. S \in Seq(Rows) /\ Len(S) = latest
  <2>1. \A n \in 1..latest : S[n] \in Rows
    BY <1>1, <1>3, <1>5a
  <2>2. S \in [1..latest -> Rows]
    BY <2>1 DEF S
  <2>3. S \in Seq(Rows)
    BY <1>1, <2>2, SeqDef
  <2>4. DOMAIN S = 1..latest /\ DOMAIN S = 1..Len(S) /\ Len(S) \in Nat
    BY <2>2, <2>3, LenProperties
  <2>5. QED
    BY <1>1, <2>3, <2>4
<1>7. transfers' = Append(S, Row(to)) /\ ~Is({"active"})
  BY <1>5 DEF Start, Free
<1>8. transfers' \in Seq(Rows) /\ Len(transfers') = latest + 1 /\ transfers'[latest + 1] = Row(to)
      /\ \A n \in 1..latest : transfers'[n] = S[n]
  BY <1>2, <1>6, <1>7, AppendProperties
<1>9. latest' = latest + 1 /\ Latest' = Row(to)
  BY <1>8 DEF latest, Latest
<1>10. ASSUME NEW n \in 1..latest
       PROVE  /\ transfers'[n].from = transfers[n].from
              /\ transfers'[n].to = transfers[n].to
              /\ transfers'[n].fromGen = transfers[n].fromGen
              /\ transfers'[n].toGen = transfers[n].toGen
              /\ n # latest => transfers'[n] = transfers[n]
  <2>1. transfers'[n] = IF n < latest THEN transfers[n] ELSE r
    BY <1>8, <1>5a
  <2>2. CASE n < latest
    BY <1>1, <2>1, <2>2
  <2>3. CASE n = latest
    BY <1>1, <1>3, <1>4, <2>1, <2>3
  <2>4. QED
    BY <1>1, <2>2, <2>3
<1>11. ASSUME latest # 0
       PROVE  transfers'[latest].held = <<>> /\ transfers'[latest].state \notin {"active", "failed"}
  <2>1. transfers'[latest] = r
    BY <1>1, <1>8, <1>11, <1>5a
  <2>2. Latest.state # "active"
    BY <1>7, <1>11 DEF Is
  <2>3. QED
    BY <1>3, <1>11, <2>1, <2>2
<1>12. QED
  BY <1>8, <1>9, <1>10, <1>11

LEMMA AttemptTypes ==
  ASSUME FullTypes, NEW m \in Messages
  PROVE  /\ None \in Attempts /\ None.stage = "none" /\ None.by = "user"
         /\ \A by \in {"user", "delivery"} :
              /\ Reserved(by) \in Attempts /\ Begun(m, by) \in Attempts
              /\ Begun(m, by).stage \in {"none", "building"}
              /\ Begun(m, by).stage = "building" => Begun(m, by).by = by
         /\ attempt[m] \in Attempts
         /\ \A s \in Stages : [attempt[m] EXCEPT !.stage = s] \in Attempts
BY DEF FullTypes, Attempts, None, Reserved, Begun, Stages

(* What Hold does to the rows. *)
LEMMA HoldRows ==
  ASSUME FullTypes, latest # 0, NEW m \in Messages, Hold(m)
  PROVE  /\ LatestIs(Latest.state, Latest.toGen,
                     IF m \in ToSet(Held) THEN Held ELSE Append(Held, m), Latest.stopped)
         /\ placement' = placement /\ step' = step /\ kicked' \in BOOLEAN
         /\ heldEver' = heldEver \cup {m}
<1> DEFINE q == IF m \in ToSet(Held) THEN Held ELSE Append(Held, m)
<1>1. q \in Seq(Messages)
  BY LatestRow, AppendProperties
<1>2. transfers' = [transfers EXCEPT ![latest].held = q]
  BY LatestRow DEF Hold, Held, Latest
<1> HIDE DEF q
<1>3. LatestIs(Latest.state, Latest.toGen, q, Latest.stopped)
  BY <1>1, <1>2, RowHeld
<1>4. QED
  BY <1>3 DEF Hold, q, FullTypes

----------------------------------------------------------------------------
(* Generations prepared *)

Earlier(n) == {k \in 1..n - 1 : transfers[k].fromGen = transfers[n].fromGen}

LEMMA TargetType ==
  ASSUME FullTypes, NEW n \in 1..latest
  PROVE  /\ Target(n) \in Nat \ {0}
         /\ Target(n) = transfers[n].fromGen + 1 + Cardinality(Earlier(n))
         /\ IsFiniteSet(Earlier(n)) /\ Cardinality(Earlier(n)) \in Nat
         /\ transfers[n].fromGen \in Nat \ {0} /\ Target(n) > transfers[n].fromGen
<1>1. n \in Nat /\ n - 1 \in Int /\ transfers[n] \in Rows
  BY LatestRow
<1>2. IsFiniteSet(1..n - 1)
  BY <1>1, FS_Interval
<1>3. IsFiniteSet(Earlier(n))
  BY <1>2, FS_Subset DEF Earlier
<1>4. Cardinality(Earlier(n)) \in Nat
  BY <1>3, FS_CardinalityType
<1>5. transfers[n].fromGen \in Nat \ {0}
  BY <1>1, RowFields
<1>6. Target(n) = transfers[n].fromGen + 1 + Cardinality(Earlier(n))
  BY DEF Target, Earlier
<1>7. QED
  BY <1>3, <1>4, <1>5, <1>6

(* Of two moves from one generation, the later prepares a later one.        *)
LEMMA TargetGrows ==
  ASSUME FullTypes, NEW n \in 1..latest, NEW k \in 1..n - 1,
         transfers[k].fromGen = transfers[n].fromGen
  PROVE  Target(k) < Target(n)
<1>1. k \in 1..latest /\ n \in Nat /\ k \in Nat /\ k < n
  BY LatestRow
<1>2. Earlier(k) \subseteq Earlier(n) /\ k \in Earlier(n) /\ k \notin Earlier(k)
  BY <1>1 DEF Earlier
<1>3. Earlier(k) # Earlier(n)
  BY <1>2
<1>4. Cardinality(Earlier(k)) < Cardinality(Earlier(n))
  BY <1>1, <1>2, <1>3, TargetType, FS_Subset
<1>5. QED
  BY <1>1, <1>4, TargetType

LEMMA TargetKept ==
  ASSUME \A n \in 1..latest : transfers'[n].fromGen = transfers[n].fromGen,
         NEW n \in 1..latest, latest \in Nat
  PROVE  Target(n)' = Target(n)
<1>1. Earlier(n)' = Earlier(n)
  BY DEF Earlier
<1>2. QED
  BY <1>1 DEF Target, Earlier

----------------------------------------------------------------------------
(* The invariant holds at first *)

LEMMA TransferInitInv == Init => TransferInv
<1> SUFFICES ASSUME Init PROVE TransferInv
  OBVIOUS
<1>1. transfers = <<>> /\ latest = 0 /\ log = <<>> /\ DOMAIN log = {} /\ Held = <<>> /\ DOMAIN Held = {}
  BY DEF Init, latest, Held
<1>2. FullTypes
  <2>1. placement \in Places
    BY DEF Init, Places
  <2>2. [stage |-> "none", by |-> "user", at |-> placement] \in Attempts
    BY <2>1 DEF Attempts, Stages
  <2>3. attempt \in [Messages -> Attempts] /\ ahead \in [Messages -> SUBSET Messages]
    BY <2>2 DEF Init, FullTypes
  <2>4. transfers \in Seq(Rows) /\ log \in Seq(Given)
    BY <1>1, EmptySeq
  <2>5. /\ step = "none" /\ phase = "off" /\ kicked = FALSE /\ said = 0 /\ answered = {}
        /\ changes = 0 /\ restarts = 0 /\ heldEver = {}
    BY DEF Init
  <2>6. said \in 0..NumMessages /\ changes \in Nat /\ restarts \in Nat
    BY <2>5, TransferAssumption
  <2>7. QED
    BY <2>1, <2>3, <2>4, <2>5, <2>6 DEF FullTypes
<1>3. ControlInv
  BY <1>1 DEF Init, ControlInv, Moving, Is
<1>4. SendsInv
  BY <1>1 DEF Init, SendsInv, IsAt
<1>5. MovesInv
  BY <1>1 DEF MovesInv
<1>6. LineInv
  BY <1>1 DEF Init, LineInv, IsAt, WasGiven, NothingOvertakes, ToSet
<1>7. ChangesKeepOut
  BY DEF Init, ChangesKeepOut
<1>8. QED
  BY <1>2, <1>3, <1>4, <1>5, <1>6, <1>7 DEF TransferInv

----------------------------------------------------------------------------
(* Types *)

LEMMA TypesStep ==
  ASSUME TransferInv, Next
  PROVE  FullTypes'
<1> USE DEF TransferInv
<1>1. ASSUME NEW m \in Messages, Dispatch(m) PROVE FullTypes'
  <2>1. transfers' \in Seq(Rows) /\ heldEver' \subseteq Messages /\ kicked' \in BOOLEAN
        /\ placement' = placement /\ step' = step
        /\ attempt' \in [Messages -> Attempts]
    <3>1. CASE Holding /\ Hold(m) /\ UNCHANGED attempt
      <4>1. latest # 0
        BY <3>1 DEF Holding, Moving, Is, Held
      <4>2. QED
        BY <3>1, <4>1, HoldRows DEF LatestIs, FullTypes
    <3>2. CASE ~Holding
      BY <1>1, <3>2, AttemptTypes DEF Dispatch, FullTypes, moves
    <3>3. QED
      BY <1>1, <3>1, <3>2 DEF Dispatch
  <2>2. said' \in 0..NumMessages
    BY <1>1, TransferAssumption DEF Dispatch, Messages
  <2>3. ahead' \in [Messages -> SUBSET Messages]
    BY <1>1, LatestRow, RangeOfSeq DEF Dispatch, FullTypes, ToSet, Range
  <2>4. QED
    BY <1>1, <2>1, <2>2, <2>3 DEF Dispatch, FullTypes
<1>2. ASSUME NEW m \in Messages, Boundary(m) PROVE FullTypes'
  <2>1. CASE Holding /\ Hold(m) /\ attempt' = [attempt EXCEPT ![m] = None] /\ phase' = Wake(m, "next")
    <3>1. latest # 0
      BY <2>1 DEF Holding, Moving, Is, Held
    <3>2. phase' \in {"off", "next", "waiting", "trying", "accepted"}
      BY <2>1 DEF Wake, FullTypes
    <3>3. QED
      BY <1>2, <2>1, <3>1, <3>2, HoldRows, AttemptTypes DEF Boundary, LatestIs, FullTypes
  <2>2. CASE UNCHANGED <<moves, delivery, heldEver>>
    <3>1. attempt' \in [Messages -> Attempts]
      <4>1. attempt[m].by \in {"user", "delivery"}
        BY DEF FullTypes, Attempts
      <4>2. [attempt[m] EXCEPT !.stage = "sending"] \in Attempts
        BY AttemptTypes DEF Stages
      <4>3. Begun(m, attempt[m].by) \in Attempts /\ None \in Attempts
        BY <4>1, AttemptTypes
      <4>4. attempt' = [attempt EXCEPT ![m] = None]
            \/ attempt' = [attempt EXCEPT ![m] = [attempt[m] EXCEPT !.stage = "sending"]]
            \/ attempt' = [attempt EXCEPT ![m] = Begun(m, attempt[m].by)]
        BY <1>2 DEF Boundary, FullTypes
      <4>5. QED
        BY <4>2, <4>3, <4>4 DEF FullTypes
    <3>2. QED
      BY <1>2, <2>2, <3>1 DEF Boundary, moves, delivery, FullTypes
  <2>3. QED
    BY <1>2, <2>1, <2>2 DEF Boundary
<1>3. ASSUME NEW m \in Messages, Sent(m) PROVE FullTypes'
  <2>1. [msg |-> m, device |-> attempt[m].at.device, gen |-> attempt[m].at.gen] \in Given
    BY AttemptTypes DEF Given, Attempts, Places
  <2>2. log' \in Seq(Given)
    BY <1>3, <2>1, AppendProperties DEF Sent, FullTypes
  <2>3. attempt' \in [Messages -> Attempts]
    BY <1>3, AttemptTypes DEF Sent, FullTypes, Stages
  <2>4. phase' \in {"off", "next", "waiting", "trying", "accepted"}
    BY <1>3 DEF Sent, Wake, FullTypes
  <2>5. QED
    BY <1>3, <2>2, <2>3, <2>4 DEF Sent, moves, ghosts, FullTypes
<1>4. ASSUME NEW m \in Messages, SendFails(m) PROVE FullTypes'
  <2>1. transfers' \in Seq(Rows)
    <3>1. CASE transfers' = transfers
      BY <3>1 DEF FullTypes
    <3>2. CASE latest # 0 /\ transfers' = [transfers EXCEPT ![latest].error = TRUE]
      BY <3>2, RowErred DEF LatestIs
    <3>3. attempt[m].by = "delivery" \/ (phase = "waiting" /\ Head(Held) = m) => latest # 0
      BY <1>4 DEF SendFails, SendsInv, ControlInv, IsAt, Held
    <3>4. QED
      BY <1>4, <3>1, <3>2, <3>3 DEF SendFails
  <2>2. attempt' \in [Messages -> Attempts]
    BY <1>4, AttemptTypes DEF SendFails, FullTypes
  <2>3. QED
    BY <1>4, <2>1, <2>2 DEF SendFails, ghosts, FullTypes
<1>5. ASSUME NEW m \in Messages, TurnOver(m) PROVE FullTypes'
  BY <1>5, AttemptTypes DEF TurnOver, moves, ghosts, FullTypes
<1>6. CASE DeliverNext
  <2>1. Held # <<>> => Head(Held) \in Messages
    BY LatestRow, HeadTailProperties
  <2>2. attempt' \in [Messages -> Attempts]
    BY <1>6, <2>1, AttemptTypes DEF DeliverNext, FullTypes
  <2>3. QED
    BY <1>6, <2>2 DEF DeliverNext, moves, ghosts, FullTypes
<1>7. CASE Take
  <2>1. Held # <<>> /\ latest # 0
    BY <1>7 DEF Take, ControlInv, Held
  <2>2. Tail(Held) \in Seq(Messages)
    BY <2>1, LatestRow, HeadTailProperties
  <2>3. transfers' \in Seq(Rows)
    BY <1>7, <2>1, <2>2, RowHeld DEF Take, LatestIs
  <2>4. QED
    BY <1>7, <2>3 DEF Take, sends, ghosts, FullTypes
<1>8. CASE Continue
  BY <1>8 DEF Continue, moves, sends, ghosts, FullTypes
<1>9. ASSUME NEW to \in Devices, Start(to) PROVE FullTypes'
  BY <1>9, RowStarted DEF Start, sends, ghosts, FullTypes
<1>10. CASE RunStep
  <2>1. latest # 0
    BY <1>10 DEF RunStep, Drained, Stopped, Saved, Arrive, Succeed, StepFails, ControlInv, Moving, Is
  <2>2. CASE Drained
    BY <2>1, <2>2, RowStopped DEF Drained, delivery, sends, ghosts, LatestIs, FullTypes
  <2>3. CASE Stopped \/ Saved
    BY <2>3 DEF Stopped, Saved, delivery, sends, ghosts, FullTypes
  <2>4. CASE Arrive
    <3>1. Target(latest) \in Nat \ {0}
      <4>1. latest \in 1..latest
        BY <2>1, LatestRow
      <4>2. QED
        BY <4>1, TargetType
    <3>2. placement' \in Places
      BY <2>1, <2>4, <3>1, LatestRow DEF Arrive, Places, Rows
    <3>3. transfers' \in Seq(Rows)
      BY <2>1, <2>4, <3>1, RowArrived, RowArrivedFailed DEF Arrive, LatestIs
    <3>4. QED
      BY <2>4, <3>2, <3>3 DEF Arrive, sends, ghosts, FullTypes
  <2>5. CASE Succeed
    BY <2>1, <2>5, RowSucceeded DEF Succeed, sends, ghosts, LatestIs, FullTypes
  <2>6. CASE StepFails
    BY <2>1, <2>6, RowFailed DEF StepFails, delivery, sends, ghosts, LatestIs, FullTypes
  <2>7. QED
    BY <1>10, <2>2, <2>3, <2>4, <2>5, <2>6 DEF RunStep
<1>11. CASE Settle
  BY <1>11, RowSettled DEF Settle, Is, sends, ghosts, LatestIs, FullTypes
<1>12. CASE Retry
  BY <1>12, RowErred DEF Retry, Settled, Is, sends, ghosts, LatestIs, FullTypes
<1>13. CASE BeginChange \/ EndChange
  BY <1>13 DEF BeginChange, EndChange, moves, delivery, sends, ghosts, FullTypes
<1>14. CASE Restart
  <2>1. transfers' \in Seq(Rows)
    <3>1. CASE Settled /\ Held # <<>>
      BY <1>14, <3>1, RowErred DEF Restart, Settled, Is, LatestIs
    <3>2. CASE Is({"active"})
      BY <1>14, <3>1, <3>2, RowFailed DEF Restart, Settled, Is, LatestIs
    <3>3. CASE ~(Settled /\ Held # <<>>) /\ ~Is({"active"})
      BY <1>14, <3>3 DEF Restart, FullTypes
    <3>4. QED
      BY <3>1, <3>2, <3>3
  <2>2. attempt' \in [Messages -> Attempts]
    <3>1. None \in Attempts
      BY DEF FullTypes, None, Attempts, Stages
    <3>2. attempt' = [m \in Messages |-> None]
      BY <1>14 DEF Restart
    <3>3. QED
      BY <3>1, <3>2
  <2>3. phase' \in {"off", "next"} /\ step' = "none" /\ kicked' = FALSE /\ changes' = 0
    BY <1>14 DEF Restart
  <2>4. restarts' \in Nat
    BY <1>14 DEF Restart, FullTypes
  <2>5. UNCHANGED <<placement, log, said, answered, ahead, heldEver>>
    BY <1>14 DEF Restart, ghosts
  <2>6. placement' \in Places /\ log' \in Seq(Given) /\ said' \in 0..NumMessages
        /\ answered' \subseteq Messages /\ ahead' \in [Messages -> SUBSET Messages]
        /\ heldEver' \subseteq Messages
    BY <2>5 DEF FullTypes
  <2> HIDE DEF TransferInv
  <2>7. QED
    BY <2>1, <2>2, <2>3, <2>4, <2>6 DEF FullTypes
<1>15. QED
  BY <1>1, <1>2, <1>3, <1>4, <1>5, <1>6, <1>7, <1>8, <1>9, <1>10, <1>11, <1>12, <1>13, <1>14 DEF Next

----------------------------------------------------------------------------
(* Control *)

(* Everything said of the latest row, once a step has changed it.           *)
LEMMA LatestSays ==
  ASSUME FullTypes, latest # 0, NEW state, NEW toGen, NEW held, NEW stopped,
         LatestIs(state, toGen, held, stopped)
  PROVE  /\ latest' = latest /\ Held' = held /\ Latest'.stopped = stopped
         /\ Latest'.toGen = toGen
         /\ Is({"active"})' <=> state = "active"
         /\ Is({"failed"})' <=> state = "failed"
         /\ Moving' <=> state = "active" /\ toGen = 0
         /\ StoppedNow' <=> state \in {"active", "failed"} /\ toGen = 0 /\ stopped
         /\ \A n \in 1..latest : n # latest => transfers'[n] = transfers[n]
<1>1. latest' = latest /\ latest' # 0
  BY DEF LatestIs, SameEnds
<1>2. Held' = Latest'.held
  BY <1>1 DEF Held
<1>3. QED
  BY <1>1, <1>2 DEF LatestIs, SameEnds, Is, Moving, StoppedNow

LEMMA RowsSame ==
  ASSUME transfers' = transfers
  PROVE  /\ latest' = latest /\ Latest' = Latest /\ Held' = Held
         /\ Is({"active"})' <=> Is({"active"})
         /\ Is({"failed"})' <=> Is({"failed"})
         /\ Moving' <=> Moving
         /\ StoppedNow' <=> StoppedNow
BY DEF latest, Latest, Held, Is, Moving, StoppedNow

(* What a step that changes the latest row has to see to. *)
LEMMA ControlKept ==
  ASSUME FullTypes, ControlInv, latest # 0, NEW state, NEW toGen, NEW held, NEW stopped,
         LatestIs(state, toGen, held, stopped),
         step' \in {"draining", "stopping", "saving", "setting_up"} <=> state = "active" /\ toGen = 0,
         step' = "continuing" <=> state = "active" /\ toGen # 0,
         step' \in {"stopping", "saving", "setting_up"} => stopped,
         (state = "active" /\ toGen = 0) \/ state = "failed" => phase' = "off",
         phase' \in {"waiting", "trying", "accepted"} => held # <<>>
  PROVE  ControlInv'
<1>1. /\ latest' = latest /\ Held' = held /\ Latest'.stopped = stopped
      /\ Is({"active"})' <=> state = "active"
      /\ Is({"failed"})' <=> state = "failed"
      /\ Moving' <=> state = "active" /\ toGen = 0
      /\ \A n \in 1..latest : n # latest => transfers'[n] = transfers[n]
  BY LatestSays
<1>2. \A n \in 1..latest' : n # latest' =>
         transfers'[n].held = <<>> /\ transfers'[n].state \notin {"active", "failed"}
  BY <1>1 DEF ControlInv
<1>3. QED
  BY <1>1, <1>2 DEF ControlInv

LEMMA ControlSame ==
  ASSUME ControlInv, transfers' = transfers, step' = step,
         Moving \/ Is({"failed"}) => phase' = "off",
         phase' \in {"waiting", "trying", "accepted"} => Held # <<>>
  PROVE  ControlInv'
BY RowsSame DEF ControlInv

LEMMA ControlStep ==
  ASSUME TransferInv, Next
  PROVE  ControlInv'
<1> USE DEF TransferInv
<1>0. \A m \in Messages : Held # <<>> => (IF m \in ToSet(Held) THEN Held ELSE Append(Held, m)) # <<>>
  BY LatestRow, AppendProperties
<1>1. ASSUME NEW m \in Messages, Holding, Hold(m), phase' = phase \/ (phase' = "next" /\ phase = "waiting")
      PROVE  ControlInv'
  <2>1. latest # 0
    BY <1>1 DEF Holding, Moving, Is, Held
  <2>2. LatestIs(Latest.state, Latest.toGen,
                 IF m \in ToSet(Held) THEN Held ELSE Append(Held, m), Latest.stopped) /\ step' = step
    BY <1>1, <2>1, HoldRows
  <2> HIDE DEF TransferInv
  <2>3. QED
    BY <1>0, <1>1, <2>1, <2>2, ControlKept DEF ControlInv, TransferInv, Moving, Is
<1>2. ASSUME NEW m \in Messages, Dispatch(m) PROVE ControlInv'
  BY <1>1, <1>2, ControlSame DEF Dispatch, moves, ControlInv
<1>3. ASSUME NEW m \in Messages, Boundary(m) PROVE ControlInv'
  BY <1>1, <1>3, ControlSame DEF Boundary, moves, delivery, ControlInv, Wake
<1>4. ASSUME NEW m \in Messages, Sent(m) PROVE ControlInv'
  <2>1. phase' = phase \/ (phase' = "accepted" /\ phase \in {"waiting", "trying"})
    BY <1>4, AttemptTypes DEF Sent, Wake, SendsInv, IsAt, Attempts
  <2>2. QED
    BY <1>4, <2>1, ControlSame DEF Sent, moves, ControlInv
<1>5. ASSUME NEW m \in Messages, SendFails(m) PROVE ControlInv'
  <2>1. CASE UNCHANGED <<transfers, phase>>
    BY <1>5, <2>1, ControlSame DEF SendFails, ControlInv
  <2>2. CASE transfers' = [transfers EXCEPT ![latest].error = TRUE] /\ phase' = "off"
                /\ phase \in {"waiting", "trying"}
    <3>1. latest # 0
      BY <2>2 DEF ControlInv, Held
    <3>2. LatestIs(Latest.state, Latest.toGen, Latest.held, Latest.stopped)
      BY <2>2, <3>1, RowErred
    <3>3. QED
      BY <1>5, <2>2, <3>1, <3>2, ControlKept DEF SendFails, ControlInv, Moving, Is
  <2>3. QED
    BY <1>5, <2>1, <2>2 DEF SendFails, SendsInv
<1>6. ASSUME NEW m \in Messages, TurnOver(m) PROVE ControlInv'
  BY <1>6, ControlSame DEF TurnOver, moves, ControlInv
<1>7. CASE DeliverNext
  BY <1>7, ControlSame DEF DeliverNext, moves, ControlInv
<1>8. CASE Take
  <2>1. Held # <<>> /\ latest # 0 /\ ~Moving /\ ~Is({"failed"})
    BY <1>8 DEF Take, ControlInv, Held
  <2>2. Tail(Held) \in Seq(Messages)
    BY <2>1, LatestRow, HeadTailProperties
  <2>3. LatestIs(Latest.state, Latest.toGen, Tail(Held), Latest.stopped)
    BY <1>8, <2>1, <2>2, RowHeld DEF Take
  <2>4. QED
    BY <1>8, <2>1, <2>3, ControlKept DEF Take, ControlInv, Moving, Is
<1>9. CASE Continue
  BY <1>9, ControlSame DEF Continue, moves, Settled, Is, ControlInv, Moving
<1>10. ASSUME NEW to \in Devices, Start(to) PROVE ControlInv'
  <2>1. /\ latest \in Nat /\ latest' = latest + 1 /\ Latest' = Row(to)
        /\ \A n \in 1..latest : n # latest => transfers'[n] = transfers[n]
        /\ latest # 0 => /\ transfers'[latest].held = <<>>
                         /\ transfers'[latest].state \notin {"active", "failed"}
    BY <1>10, RowStarted, LatestRow
  <2>2. \A n \in 1..latest' : n # latest' =>
          transfers'[n].held = <<>> /\ transfers'[n].state \notin {"active", "failed"}
    <3>1. TAKE n \in 1..latest'
    <3>2. HAVE n # latest'
    <3>3. n \in 1..latest /\ latest # 0
      BY <2>1, <3>2
    <3>4. CASE n = latest
      BY <2>1, <3>3, <3>4
    <3>5. CASE n # latest
      BY <2>1, <3>3, <3>5 DEF ControlInv
    <3>6. QED
      BY <3>4, <3>5
  <2>3. Moving' /\ Is({"active"})' /\ ~Is({"failed"})'
    BY <2>1 DEF Moving, Is, Row
  <2>4. step' = "draining" /\ phase' = "off"
    BY <1>10 DEF Start, Free
  <2>5. QED
    BY <2>2, <2>3, <2>4 DEF ControlInv
<1>11. CASE RunStep
  <2>1. latest # 0
    BY <1>11 DEF RunStep, Drained, Stopped, Saved, Arrive, Succeed, StepFails, ControlInv, Moving, Is
  <2>2. CASE Drained
    <3>1. LatestIs(Latest.state, Latest.toGen, Latest.held, TRUE)
      BY <2>1, <2>2, RowStopped DEF Drained
    <3>2. QED
      BY <2>1, <2>2, <3>1, ControlKept DEF Drained, delivery, ControlInv, Moving, Is
  <2>3. CASE Stopped \/ Saved
    BY <2>3, RowsSame DEF Stopped, Saved, delivery, ControlInv
  <2>4. CASE Arrive
    <3>1. Target(latest) \in Nat \ {0}
      <4>1. latest \in 1..latest
        BY <2>1, LatestRow
      <4>2. QED
        BY <4>1, TargetType
    <3>2. \/ step' = "continuing" /\ phase' = "next" /\ Latest.state = "active"
             /\ LatestIs(Latest.state, Target(latest), Latest.held, Latest.stopped)
          \/ step' = "none" /\ phase' = "off"
             /\ LatestIs("failed", Target(latest), Latest.held, Latest.stopped)
      BY <2>1, <2>4, <3>1, RowArrived, RowArrivedFailed DEF Arrive, ControlInv, Moving, Is
    <3>3. QED
      BY <2>1, <3>1, <3>2, ControlKept
  <2>5. CASE Succeed
    <3>1. LatestIs("succeeded", Latest.toGen, Latest.held, Latest.stopped)
      BY <2>1, <2>5, RowSucceeded DEF Succeed
    <3>2. QED
      BY <2>1, <2>5, <3>1, ControlKept DEF Succeed
  <2>6. CASE StepFails
    <3>1. LatestIs("failed", Latest.toGen, Latest.held, Latest.stopped)
      BY <2>1, <2>6, RowFailed DEF StepFails
    <3>2. QED
      BY <2>1, <2>6, <3>1, ControlKept DEF StepFails, delivery, ControlInv
  <2>7. QED
    BY <1>11, <2>2, <2>3, <2>4, <2>5, <2>6 DEF RunStep
<1>12. CASE Settle
  <2>1. latest # 0 /\ step = "none"
    BY <1>12 DEF Settle, Is, ControlInv, Moving, FullTypes
  <2>2. \E s \in {"succeeded", "cancelled"} : LatestIs(s, Latest.toGen, Latest.held, Latest.stopped)
    BY <1>12, <2>1, RowSettled DEF Settle
  <2>3. QED
    BY <1>12, <2>1, <2>2, ControlKept DEF Settle
<1>13. CASE Retry
  <2>1. latest # 0
    BY <1>13 DEF Retry, Settled, Is
  <2>2. LatestIs(Latest.state, Latest.toGen, Latest.held, Latest.stopped)
    BY <1>13, <2>1, RowErred DEF Retry
  <2>3. QED
    BY <1>13, <2>1, <2>2, ControlKept DEF Retry, Settled, Is, ControlInv, Moving
<1>14. CASE BeginChange \/ EndChange
  BY <1>14, ControlSame DEF BeginChange, EndChange, moves, delivery, ControlInv
<1>15. CASE Restart
  <2>1. CASE Settled /\ Held # <<>>
    <3>1. latest # 0
      BY <2>1 DEF Settled, Is
    <3>2. LatestIs(Latest.state, Latest.toGen, Latest.held, Latest.stopped)
      BY <1>15, <2>1, <3>1, RowErred DEF Restart
    <3>3. QED
      BY <1>15, <2>1, <3>1, <3>2, ControlKept DEF Restart, Settled, Is
  <2>2. CASE Is({"active"})
    <3>1. latest # 0 /\ ~Settled
      BY <2>2 DEF Settled, Is
    <3>2. LatestIs("failed", Latest.toGen, Latest.held, Latest.stopped)
      BY <1>15, <2>2, <3>1, RowFailed DEF Restart
    <3>3. QED
      BY <1>15, <2>2, <3>1, <3>2, ControlKept DEF Restart
  <2>3. CASE ~(Settled /\ Held # <<>>) /\ ~Is({"active"})
    <3>1. step' = "none" /\ phase' = "off" /\ transfers' = transfers
      BY <1>15, <2>3 DEF Restart
    <3>2. QED
      BY <2>3, <3>1, RowsSame DEF ControlInv, Moving
  <2>4. QED
    BY <2>1, <2>2, <2>3
<1>16. QED
  BY <1>2, <1>3, <1>4, <1>5, <1>6, <1>7, <1>8, <1>9, <1>10, <1>11, <1>12, <1>13, <1>14, <1>15 DEF Next

----------------------------------------------------------------------------
(* Sends *)

LEMMA WasGivenKept ==
  ASSUME FullTypes, NEW e \in Given, log' = Append(log, e)
  PROVE  \A m : WasGiven(m)' <=> WasGiven(m) \/ m = e.msg
<1>1. /\ Len(log) \in Nat /\ DOMAIN log = 1..Len(log)
      /\ DOMAIN log' = 1..Len(log) + 1
      /\ \A i \in 1..Len(log) : log'[i] = log[i]
      /\ log'[Len(log) + 1] = e
  BY AppendProperties, LenProperties DEF FullTypes
<1>2. QED
  BY <1>1 DEF WasGiven

LEMMA HeadKept ==
  ASSUME FullTypes, NEW m \in Messages, Held # <<>>
  PROVE  Head(IF m \in ToSet(Held) THEN Held ELSE Append(Held, m)) = Head(Held)
BY LatestRow, HeadTailProperties, AppendProperties

(* By a delivery, and not yet taken by anyone. *)
ByDelivery(m) == attempt[m].by = "delivery" /\ IsAt(m, {"building", "sending"})

(* What a step that gives nothing and sends nothing has to see to. *)
LEMMA SendsKept ==
  ASSUME FullTypes, SendsInv, log' = log,
         \A m \in Messages : \/ attempt'[m] = attempt[m]
                             \/ attempt'[m].stage = "none"
                             \/ attempt'[m].stage = "building" /\ attempt'[m].by = "user",
         \/ \A m \in Messages : ~IsAt(m, {"sending"})
         \/ placement' = placement /\ (StoppedNow' => StoppedNow),
         \/ phase # "trying"
         \/ phase' = "trying" /\ Head(Held)' = Head(Held)
         \/ \A m \in Messages : ~ByDelivery(m)',
         phase' = "accepted" => phase = "accepted" /\ Head(Held)' = Head(Held)
  PROVE  SendsInv'
<1>1. \A m \in Messages : WasGiven(m)' <=> WasGiven(m)
  BY DEF WasGiven
<1>2. \A m \in Messages : IsAt(m, {"sending"})' => IsAt(m, {"sending"}) /\ attempt'[m] = attempt[m]
  BY DEF IsAt
<1>3. \A m \in Messages : IsAt(m, {"turn"})' => IsAt(m, {"turn"})
  BY DEF IsAt
<1>4. \A m \in Messages : ByDelivery(m)' => ByDelivery(m)
  BY DEF IsAt, ByDelivery
<1>5. \A m \in Messages : ByDelivery(m)' => (phase = "trying" /\ m = Head(Held))'
  BY <1>4 DEF SendsInv, ByDelivery
<1>6. phase' = "accepted" => WasGiven(Head(Held))'
  BY DEF SendsInv, WasGiven
<1>7. \A m \in Messages : IsAt(m, {"sending"})' => (attempt[m].at = placement /\ ~StoppedNow)'
  BY <1>2 DEF SendsInv
<1>8. \A m \in Messages : IsAt(m, {"turn"})' => WasGiven(m)'
  BY <1>1, <1>3 DEF SendsInv
<1>9. QED
  BY <1>5, <1>6, <1>7, <1>8 DEF SendsInv, ByDelivery

LEMMA SendsStep ==
  ASSUME TransferInv, Next
  PROVE  SendsInv'
<1> USE DEF TransferInv
<1>0. /\ attempt \in [Messages -> Attempts]
      /\ \A m \in Messages : ByDelivery(m) => phase = "trying" /\ m = Head(Held)
  BY DEF FullTypes, SendsInv, ByDelivery
<1>1. ASSUME NEW m \in Messages, Holding, Hold(m), log' = log,
             \/ UNCHANGED <<phase, attempt>>
             \/ attempt' = [attempt EXCEPT ![m] = None] /\ phase' = Wake(m, "next")
      PROVE  SendsInv'
  <2>1. latest # 0
    BY <1>1 DEF Holding, Moving, Is, Held
  <2>2. LatestIs(Latest.state, Latest.toGen,
                 IF m \in ToSet(Held) THEN Held ELSE Append(Held, m), Latest.stopped)
        /\ placement' = placement
    BY <1>1, <2>1, HoldRows
  <2>3. StoppedNow' <=> StoppedNow
    BY <2>1, <2>2, LatestSays DEF StoppedNow, Is
  <2>4. Held # <<>> => Head(Held)' = Head(Held)
    <3>1. Held' = IF m \in ToSet(Held) THEN Held ELSE Append(Held, m)
      BY <2>1, <2>2, LatestSays
    <3>2. Held # <<>> => Head(IF m \in ToSet(Held) THEN Held ELSE Append(Held, m)) = Head(Held)
      BY HeadKept
    <3>3. QED
      BY <3>1, <3>2, Zenon
  <2>5. phase \in {"trying", "accepted"} => phase' = phase /\ Held # <<>>
    BY <1>1 DEF Wake, ControlInv
  <2>6. phase' = "accepted" => phase = "accepted"
    BY <1>1 DEF Wake
  <2>7. \A k \in Messages : attempt'[k] = attempt[k] \/ attempt'[k].stage = "none"
    BY <1>0, <1>1, AttemptTypes
  <2>8. QED
    BY <1>1, <2>2, <2>3, <2>4, <2>5, <2>6, <2>7, SendsKept
<1>2. ASSUME NEW m \in Messages, Dispatch(m) PROVE SendsInv'
  <2>1. CASE Holding
    BY <1>1, <1>2, <2>1 DEF Dispatch
  <2>2. CASE ~Holding
    <3>1. /\ transfers' = transfers /\ placement' = placement /\ phase' = phase /\ log' = log
          /\ \A k \in Messages : k # m => attempt'[k] = attempt[k]
          /\ attempt'[m] = attempt[m] \/ attempt'[m] = Begun(m, "user")
      BY <1>0, <1>2, <2>2 DEF Dispatch, moves
    <3>2. \A k \in Messages : \/ attempt'[k] = attempt[k] \/ attempt'[k].stage = "none"
                              \/ attempt'[k].stage = "building" /\ attempt'[k].by = "user"
      BY <3>1, AttemptTypes
    <3>3. QED
      BY <3>1, <3>2, RowsSame, SendsKept
  <2>3. QED
    BY <2>1, <2>2
<1>3. ASSUME NEW m \in Messages, Boundary(m) PROVE SendsInv'
  <2>1. CASE Holding /\ attempt[m].by = "user"
    BY <1>1, <1>3, <2>1 DEF Boundary
  <2>2. CASE ~(Holding /\ attempt[m].by = "user")
    <3>1. /\ transfers' = transfers /\ placement' = placement /\ phase' = phase /\ log' = log
          /\ \A k \in Messages : k # m => attempt'[k] = attempt[k]
      BY <1>0, <1>3, <2>2 DEF Boundary, moves, delivery
    <3>2. attempt[m].by \in {"user", "delivery"}
      BY <1>0 DEF Attempts
    <3>3. ~StoppedNow
      <4>1. CASE ~Holding
        BY <4>1 DEF Holding, StoppedNow, Moving, Is
      <4>2. CASE attempt[m].by = "delivery"
        <5>1. phase = "trying"
          BY <1>0, <1>3, <4>2 DEF Boundary, ByDelivery, IsAt
        <5>2. QED
          BY <5>1 DEF ControlInv, StoppedNow, Moving, Is
      <4>3. QED
        BY <2>2, <3>2, <4>1, <4>2
    <3>4. \/ /\ attempt'[m].stage = "sending" /\ attempt'[m].at = placement
             /\ attempt'[m].by = attempt[m].by
          \/ attempt'[m] = Begun(m, attempt[m].by)
      BY <1>0, <1>3, <2>2 DEF Boundary, Attempts
    <3>5. ByDelivery(m)' => ByDelivery(m)
      BY <1>3, <3>2, <3>4, AttemptTypes DEF Boundary, ByDelivery, IsAt
    <3>6. IsAt(m, {"sending"})' => attempt'[m].at = placement
      BY <3>2, <3>4, AttemptTypes DEF IsAt
    <3>7. ~IsAt(m, {"turn"})'
      BY <3>2, <3>4, AttemptTypes DEF IsAt
    <3>8. \A k \in Messages : ByDelivery(k)' => (phase = "trying" /\ k = Head(Held))'
      BY <1>0, <3>1, <3>5, RowsSame DEF ByDelivery, IsAt
    <3>9. \A k \in Messages : IsAt(k, {"sending"})' => (attempt[k].at = placement /\ ~StoppedNow)'
      BY <3>1, <3>3, <3>6, RowsSame DEF SendsInv, IsAt
    <3>10. \A k \in Messages : IsAt(k, {"turn"})' => WasGiven(k)'
      BY <3>1, <3>7 DEF SendsInv, IsAt, WasGiven
    <3>11. phase' = "accepted" => WasGiven(Head(Held))'
      BY <3>1, RowsSame DEF SendsInv, WasGiven
    <3>12. QED
      BY <3>8, <3>9, <3>10, <3>11 DEF SendsInv, ByDelivery
  <2>3. QED
    BY <2>1, <2>2
<1>4. ASSUME NEW m \in Messages, Sent(m) PROVE SendsInv'
  <2> DEFINE e == [msg |-> m, device |-> attempt[m].at.device, gen |-> attempt[m].at.gen]
  <2>1. e \in Given /\ e.msg = m
    BY AttemptTypes DEF Given, Attempts, Places
  <2>2. log' = Append(log, e)
    BY <1>4 DEF Sent
  <2> HIDE DEF e
  <2>3. \A k : WasGiven(k)' <=> WasGiven(k) \/ k = m
    BY <2>1, <2>2, WasGivenKept
  <2>4. /\ transfers' = transfers /\ placement' = placement
        /\ \A k \in Messages : k # m => attempt'[k] = attempt[k]
        /\ attempt'[m].stage = "turn"
    BY <1>0, <1>4 DEF Sent, moves, Attempts
  <2>5. attempt[m].by \in {"user", "delivery"}
    BY <1>0 DEF Attempts
  <2>6. attempt[m].by = "delivery" => ByDelivery(m)
    BY <1>4 DEF Sent, ByDelivery, IsAt
  <2>7. \A k \in Messages : ByDelivery(k)' => (phase = "trying" /\ k = Head(Held))'
    <3>1. TAKE k \in Messages
    <3>2. HAVE ByDelivery(k)'
    <3>3. k # m /\ ByDelivery(k)
      BY <2>4, <3>2 DEF ByDelivery, IsAt
    <3>4. phase = "trying" /\ k = Head(Held) /\ attempt[m].by = "user"
      BY <1>0, <2>5, <2>6, <3>3
    <3>5. QED
      BY <1>4, <2>4, <3>4, RowsSame DEF Sent, Wake
  <2>8. \A k \in Messages : IsAt(k, {"sending"})' => (attempt[k].at = placement /\ ~StoppedNow)'
    BY <2>4, RowsSame DEF SendsInv, IsAt
  <2>9. \A k \in Messages : IsAt(k, {"turn"})' => WasGiven(k)'
    BY <2>3, <2>4 DEF SendsInv, IsAt
  <2>10. phase' = "accepted" => WasGiven(Head(Held))'
    <3>1. phase' = "accepted" => phase = "accepted" \/ Head(Held) = m
      BY <1>0, <1>4, <2>5, <2>6 DEF Sent, Wake
    <3>2. Head(Held)' = Head(Held)
      BY <2>4, RowsSame
    <3>3. QED
      BY <2>3, <3>1, <3>2 DEF SendsInv, WasGiven
  <2>11. QED
    BY <2>7, <2>8, <2>9, <2>10 DEF SendsInv, ByDelivery
<1>5. ASSUME NEW m \in Messages, SendFails(m) PROVE SendsInv'
  <2>1. /\ placement' = placement /\ log' = log
        /\ \A k \in Messages : k # m => attempt'[k] = attempt[k]
        /\ attempt'[m].stage = "none"
    BY <1>0, <1>5, AttemptTypes DEF SendFails
  <2>2. CASE UNCHANGED <<transfers, phase>>
    BY <2>1, <2>2, RowsSame, SendsKept
  <2>3. CASE /\ transfers' = [transfers EXCEPT ![latest].error = TRUE] /\ phase' = "off"
             /\ attempt[m].by = "delivery" \/ phase = "waiting"
    <3>1. attempt[m].by = "delivery" => ByDelivery(m)
      BY <1>5 DEF SendFails, ByDelivery
    <3>2. latest # 0
      BY <1>0, <2>3, <3>1 DEF ControlInv, Held
    <3>3. LatestIs(Latest.state, Latest.toGen, Latest.held, Latest.stopped)
      BY <2>3, <3>2, RowErred
    <3>4. StoppedNow' <=> StoppedNow
      BY <3>2, <3>3, LatestSays DEF StoppedNow, Is
    <3>5. \A k \in Messages : ~ByDelivery(k)'
      <4>1. \A k \in Messages : k # m => (ByDelivery(k)' <=> ByDelivery(k))
        BY <2>1 DEF ByDelivery, IsAt
      <4>2. \A k \in Messages : ByDelivery(k) => k = m
        BY <1>0, <2>3, <3>1
      <4>3. ~ByDelivery(m)'
        BY <2>1 DEF ByDelivery, IsAt
      <4>4. QED
        BY <4>1, <4>2, <4>3
    <3>6. QED
      BY <2>1, <2>3, <3>4, <3>5, SendsKept
  <2>4. QED
    BY <1>5, <2>2, <2>3 DEF SendFails
<1>6. ASSUME NEW m \in Messages, TurnOver(m) PROVE SendsInv'
  <2>1. /\ transfers' = transfers /\ placement' = placement /\ log' = log
        /\ \A k \in Messages : k # m => attempt'[k] = attempt[k]
        /\ attempt'[m].stage = "none"
    BY <1>0, <1>6, AttemptTypes DEF TurnOver, moves
  <2>2. CASE phase' = phase
    BY <2>1, <2>2, RowsSame, SendsKept
  <2>3. CASE phase' = "accepted" /\ phase = "trying" /\ Head(Held) = m
    <3>1. WasGiven(m)
      BY <1>6 DEF TurnOver, SendsInv
    <3>2. \A k \in Messages : ~ByDelivery(k)'
      BY <1>0, <2>1, <2>3 DEF ByDelivery, IsAt
    <3>3. Head(Held)' = m /\ (StoppedNow' <=> StoppedNow)
      BY <2>1, <2>3, RowsSame
    <3>4. QED
      BY <2>1, <3>1, <3>2, <3>3 DEF SendsInv, ByDelivery, IsAt, WasGiven
  <2>4. QED
    BY <1>6, <2>2, <2>3 DEF TurnOver
<1>7. CASE DeliverNext
  <2>1. /\ phase = "next" /\ transfers' = transfers /\ placement' = placement /\ log' = log
        /\ \A k \in Messages : ~ByDelivery(k)
    BY <1>0, <1>7 DEF DeliverNext, moves
  <2>2. /\ Latest' = Latest /\ Held' = Held
        /\ StoppedNow' <=> StoppedNow
    BY <2>1, RowsSame
  <2>3. CASE UNCHANGED attempt /\ phase' \in {"off", "waiting"}
    BY <2>1, <2>2, <2>3, SendsKept
  <2>4. CASE UNCHANGED attempt /\ phase' = "accepted" /\ Held # <<>>
    <3>1. Head(Held) \in Messages
      BY <2>4, LatestRow, HeadTailProperties
    <3>2. InQueue(Head(Held)) \/ IsAt(Head(Held), {"turn"})
      BY <1>7, <2>4 DEF DeliverNext
    <3>3. WasGiven(Head(Held))
      BY <3>1, <3>2 DEF InQueue, WasGiven, SendsInv
    <3>4. \A k \in Messages : ~ByDelivery(k)'
      BY <2>1, <2>4 DEF ByDelivery, IsAt
    <3>5. QED
      BY <2>1, <2>2, <2>4, <3>3, <3>4 DEF SendsInv, ByDelivery, IsAt, WasGiven
  <2>5. CASE /\ Held # <<>> /\ phase' = "trying"
             /\ attempt' = [attempt EXCEPT ![Head(Held)] = Reserved("delivery")]
    <3>1. Head(Held) \in Messages
      BY <2>5, LatestRow, HeadTailProperties
    <3>2. /\ attempt'[Head(Held)].stage = "building"
          /\ \A k \in Messages : k # Head(Held) => attempt'[k] = attempt[k]
      BY <1>0, <2>5, <3>1 DEF Reserved
    <3>3. \A k \in Messages : ByDelivery(k)' => k = Head(Held)
      BY <2>1, <3>2 DEF ByDelivery, IsAt
    <3>4. \A k \in Messages : /\ IsAt(k, {"sending"})' => IsAt(k, {"sending"}) /\ attempt'[k] = attempt[k]
                              /\ IsAt(k, {"turn"})' => IsAt(k, {"turn"})
      BY <3>2 DEF IsAt
    <3>5. QED
      BY <2>1, <2>2, <2>5, <3>3, <3>4 DEF SendsInv, ByDelivery, WasGiven
  <2>6. QED
    BY <1>7, <2>3, <2>4, <2>5 DEF DeliverNext
<1>8. CASE Take
  <2>1. Held # <<>> /\ latest # 0 /\ Tail(Held) \in Seq(Messages)
    BY <1>8, LatestRow, HeadTailProperties DEF Take, ControlInv, Held
  <2>2. LatestIs(Latest.state, Latest.toGen, Tail(Held), Latest.stopped)
    BY <1>8, <2>1, RowHeld DEF Take
  <2>3. StoppedNow' <=> StoppedNow
    BY <2>1, <2>2, LatestSays DEF StoppedNow, Is
  <2>4. QED
    BY <1>8, <2>3, SendsKept DEF Take, sends
<1>9. CASE Continue
  <2>1. /\ transfers' = transfers /\ UNCHANGED <<placement, log, attempt>>
        /\ phase' = phase \/ (phase = "off" /\ phase' = "next")
    BY <1>9 DEF Continue, moves, sends
  <2>2. QED
    BY <2>1, RowsSame, SendsKept
<1>10. ASSUME NEW to \in Devices, Start(to) PROVE SendsInv'
  <2>1. UNCHANGED <<placement, log, attempt, phase>> /\ phase = "off"
    BY <1>10 DEF Start, Free, sends
  <2>2. ~StoppedNow'
    BY <1>10, RowStarted DEF StoppedNow, Row
  <2>3. QED
    BY <2>1, <2>2, SendsKept
<1>11. CASE RunStep
  <2>1. latest # 0
    BY <1>11 DEF RunStep, Drained, Stopped, Saved, Arrive, Succeed, StepFails, ControlInv, Moving, Is
  <2>2. log' = log /\ attempt' = attempt
    BY <1>11 DEF RunStep, Drained, Stopped, Saved, Arrive, Succeed, StepFails, sends
  <2>3. CASE Drained
    <3>1. phase' = phase /\ phase = "off" /\ \A m \in Messages : ~IsAt(m, {"sending"})
      BY <2>3 DEF Drained, delivery, ControlInv
    <3>2. QED
      BY <2>2, <3>1, SendsKept
  <2>4. CASE Stopped \/ Saved
    BY <2>2, <2>4, RowsSame, SendsKept DEF Stopped, Saved, delivery
  <2>5. CASE Arrive
    <3>1. StoppedNow /\ phase = "off" /\ phase' # "accepted"
      BY <2>5 DEF Arrive, ControlInv, Moving, Is, StoppedNow
    <3>2. \A m \in Messages : ~IsAt(m, {"sending"})
      BY <3>1 DEF SendsInv
    <3>3. QED
      BY <2>2, <3>1, <3>2, SendsKept
  <2>6. CASE Succeed
    <3>1. LatestIs("succeeded", Latest.toGen, Latest.held, Latest.stopped)
      BY <2>1, <2>6, RowSucceeded DEF Succeed
    <3>2. ~StoppedNow'
      BY <2>1, <3>1, LatestSays
    <3>3. QED
      BY <2>2, <2>6, <3>2, SendsKept DEF Succeed
  <2>7. CASE StepFails
    <3>1. LatestIs("failed", Latest.toGen, Latest.held, Latest.stopped)
      BY <2>1, <2>7, RowFailed DEF StepFails
    <3>2. Moving
      BY <2>7 DEF StepFails, ControlInv
    <3>3. (StoppedNow' => StoppedNow) /\ phase = "off"
      BY <2>1, <3>1, <3>2, LatestSays DEF StoppedNow, Moving, Is, ControlInv
    <3>4. QED
      BY <2>2, <2>7, <3>3, SendsKept DEF StepFails, delivery
  <2>8. QED
    BY <1>11, <2>3, <2>4, <2>5, <2>6, <2>7 DEF RunStep
<1>12. CASE Settle
  <2>1. latest # 0 /\ phase = "off"
    BY <1>12 DEF Settle, Is, ControlInv
  <2>2. \E s \in {"succeeded", "cancelled"} : LatestIs(s, Latest.toGen, Latest.held, Latest.stopped)
    BY <1>12, <2>1, RowSettled DEF Settle
  <2>3. ~StoppedNow'
    BY <2>1, <2>2, LatestSays
  <2>4. QED
    BY <1>12, <2>1, <2>3, SendsKept DEF Settle, sends
<1>13. CASE Retry
  <2>1. latest # 0 /\ phase = "off"
    BY <1>13 DEF Retry, Settled, Is
  <2>2. LatestIs(Latest.state, Latest.toGen, Latest.held, Latest.stopped)
    BY <1>13, <2>1, RowErred DEF Retry
  <2>3. StoppedNow' <=> StoppedNow
    BY <2>1, <2>2, LatestSays DEF StoppedNow, Is
  <2>4. QED
    BY <1>13, <2>1, <2>3, SendsKept DEF Retry, sends
<1>14. CASE BeginChange \/ EndChange
  BY <1>14, RowsSame, SendsKept DEF BeginChange, EndChange, moves, delivery, sends
<1>15. CASE Restart
  <2>1. \A m \in Messages : attempt'[m].stage = "none"
    BY <1>15 DEF Restart, None
  <2>2. phase' # "accepted"
    BY <1>15 DEF Restart
  <2>3. QED
    BY <2>1, <2>2 DEF SendsInv, IsAt
<1>16. QED
  BY <1>2, <1>3, <1>4, <1>5, <1>6, <1>7, <1>8, <1>9, <1>10, <1>11, <1>12, <1>13, <1>14, <1>15 DEF Next

----------------------------------------------------------------------------
(* Generations *)

(* Whatever generation two moves started from, the later prepares a later one. *)
LEMMA TargetsGrow ==
  ASSUME FullTypes, MovesInv, NEW n \in 1..latest, NEW k \in 1..latest, k < n
  PROVE  Target(k) < Target(n)
<1>1. n \in Nat /\ k \in 1..n - 1
  BY LatestRow
<1>2. CASE transfers[k].fromGen = transfers[n].fromGen
  BY <1>1, <1>2, TargetGrows
<1>3. CASE transfers[k].fromGen < transfers[n].fromGen
  BY <1>3, TargetType DEF MovesInv
<1>4. transfers[k].fromGen <= transfers[n].fromGen
  BY DEF MovesInv
<1>5. QED
  BY <1>2, <1>3, <1>4, TargetType

(* What no step but a start and an arrival changes. *)
LEMMA MovesKept ==
  ASSUME FullTypes, MovesInv, placement' = placement, latest' = latest,
         \A n \in 1..latest : /\ transfers'[n].from = transfers[n].from
                              /\ transfers'[n].to = transfers[n].to
                              /\ transfers'[n].fromGen = transfers[n].fromGen
                              /\ transfers'[n].toGen = transfers[n].toGen
  PROVE  MovesInv'
<1>1. \A n \in 1..latest : Target(n)' = Target(n)
  BY LatestRow, TargetKept
<1>2. latest # 0 => latest \in 1..latest
  BY LatestRow
<1>3. latest # 0 /\ Latest'.toGen = 0 =>
        placement = [device |-> Latest'.from, gen |-> Latest'.fromGen]
  BY <1>2 DEF MovesInv, Latest
<1>4. QED
  BY <1>1, <1>3 DEF MovesInv

LEMMA MovesKeptLatest ==
  ASSUME FullTypes, MovesInv, placement' = placement, latest # 0,
         NEW state, NEW held, NEW stopped, LatestIs(state, Latest.toGen, held, stopped)
  PROVE  MovesInv'
<1>1. latest' = latest /\ transfers'[latest].toGen = transfers[latest].toGen
  BY DEF LatestIs, SameEnds, Latest
<1>2. QED
  BY <1>1, MovesKept DEF LatestIs, SameEnds

LEMMA MovesStart ==
  ASSUME FullTypes, MovesInv, NEW to \in Devices, Start(to)
  PROVE  MovesInv'
<1> DEFINE new == latest + 1
<1>1. /\ latest \in Nat /\ latest' = new /\ Latest' = Row(to) /\ transfers'[new] = Row(to)
      /\ \A n \in 1..latest : /\ transfers'[n].from = transfers[n].from
                              /\ transfers'[n].to = transfers[n].to
                              /\ transfers'[n].fromGen = transfers[n].fromGen
                              /\ transfers'[n].toGen = transfers[n].toGen
  BY RowStarted, LatestRow DEF Latest
<1>2. /\ Row(to).from = placement.device /\ Row(to).to = to /\ Row(to).fromGen = placement.gen
      /\ Row(to).toGen = 0 /\ to # placement.device
      /\ placement' = placement /\ placement = [device |-> placement.device, gen |-> placement.gen]
      /\ placement.gen \in Nat \ {0}
  BY DEF Row, Start, FullTypes, Places
<1>3. \A n \in 1..latest : Target(n)' = Target(n)
  BY <1>1, TargetKept
<1>4. \A n \in 1..new : n # new => n \in 1..latest
  BY <1>1
<1> HIDE DEF new
<1>5. \A n \in 1..new : transfers'[n].from # transfers'[n].to
  BY <1>1, <1>2, <1>4 DEF MovesInv
<1>6. placement' = [device |-> Latest'.from, gen |-> Latest'.fromGen]
  BY <1>1, <1>2
<1>7. \A n \in 1..new : transfers'[n].toGen \in {0, Target(n)'}
  BY <1>1, <1>2, <1>3, <1>4 DEF MovesInv
<1>8. \A n \in 1..new : /\ transfers'[n].fromGen <= placement.gen
                        /\ transfers'[n].fromGen < placement.gen => Target(n)' <= placement.gen
  BY <1>1, <1>2, <1>3, <1>4 DEF MovesInv
<1>9. \A k, n \in 1..new : k < n =>
        /\ transfers'[k].fromGen <= transfers'[n].fromGen
        /\ transfers'[k].fromGen < transfers'[n].fromGen => Target(k)' <= transfers'[n].fromGen
  <2>1. TAKE k, n \in 1..new
  <2>2. HAVE k < n
  <2>3. k \in 1..latest
    BY <1>1, <2>2 DEF new
  <2>4. CASE n = new
    BY <1>1, <1>2, <1>8, <2>4
  <2>5. CASE n \in 1..latest
    BY <1>1, <1>3, <2>2, <2>3, <2>5 DEF MovesInv
  <2>6. QED
    BY <1>4, <2>4, <2>5
<1>10. QED
  BY <1>1, <1>2, <1>5, <1>6, <1>7, <1>8, <1>9 DEF MovesInv

LEMMA MovesArrive ==
  ASSUME FullTypes, MovesInv, Arrive, latest # 0, Latest.toGen = 0
  PROVE  /\ MovesInv'
         /\ placement.gen < Target(latest) /\ Target(latest) \in Nat \ {0}
         /\ Latest'.toGen = Target(latest) /\ latest' = latest
<1>1. latest \in 1..latest /\ latest \in Nat /\ Latest = transfers[latest] /\ Latest \in Rows
  BY LatestRow DEF Latest
<1>2. Target(latest) \in Nat \ {0} /\ Target(latest) > transfers[latest].fromGen
  BY <1>1, TargetType
<1>3. \E state \in {"active", "failed"} :
        LatestIs(IF state = "failed" THEN "failed" ELSE Latest.state, Target(latest), Latest.held, Latest.stopped)
  BY <1>2, RowArrived, RowArrivedFailed DEF Arrive
<1>4. /\ latest' = latest /\ Latest'.toGen = Target(latest) /\ transfers'[latest].toGen = Target(latest)
      /\ \A n \in 1..latest : /\ transfers'[n].from = transfers[n].from
                              /\ transfers'[n].to = transfers[n].to
                              /\ transfers'[n].fromGen = transfers[n].fromGen
                              /\ n # latest => transfers'[n].toGen = transfers[n].toGen
  BY <1>3 DEF LatestIs, SameEnds, Latest
<1>5. placement'.gen = Target(latest) /\ placement.gen = transfers[latest].fromGen
  BY <1>1 DEF Arrive
<1>6. \A n \in 1..latest : Target(n)' = Target(n) /\ Target(n) \in Nat
                           /\ transfers[n].fromGen \in Nat
  BY <1>1, <1>4, TargetKept, TargetType
<1>7. \A n \in 1..latest : transfers'[n].toGen \in {0, Target(n)'}
  BY <1>4, <1>6 DEF MovesInv
<1>8. \A n \in 1..latest : transfers[n].fromGen <= Target(latest) /\ Target(n) <= Target(latest)
  <2>1. TAKE n \in 1..latest
  <2>2. transfers[n].fromGen <= placement.gen
    BY DEF MovesInv
  <2>3. n = latest \/ n < latest
    BY <1>1
  <2>4. n < latest => Target(n) < Target(latest)
    BY <1>1, TargetsGrow
  <2>5. QED
    BY <1>1, <1>2, <1>5, <1>6, <2>2, <2>3, <2>4
<1>9. QED
  BY <1>1, <1>2, <1>4, <1>5, <1>6, <1>7, <1>8 DEF MovesInv

LEMMA MovesStep ==
  ASSUME TransferInv, Next
  PROVE  MovesInv'
<1> USE DEF TransferInv
<1>1. CASE /\ UNCHANGED <<placement, transfers>>
  BY <1>1, RowsSame, MovesKept
<1>2. ASSUME NEW m \in Messages, Holding, Hold(m) PROVE MovesInv'
  <2>1. latest # 0
    BY <1>2 DEF Holding, Moving, Is, Held
  <2>2. QED
    BY <1>2, <2>1, HoldRows, MovesKeptLatest
<1>3. ASSUME NEW m \in Messages, Dispatch(m) \/ Boundary(m) PROVE MovesInv'
  BY <1>1, <1>2, <1>3 DEF Dispatch, Boundary, moves
<1>4. ASSUME NEW m \in Messages, Sent(m) \/ TurnOver(m) PROVE MovesInv'
  BY <1>1, <1>4 DEF Sent, TurnOver, moves
<1>5. ASSUME NEW m \in Messages, SendFails(m) PROVE MovesInv'
  <2>1. CASE transfers' = transfers
    BY <1>1, <1>5, <2>1 DEF SendFails
  <2>2. CASE /\ transfers' = [transfers EXCEPT ![latest].error = TRUE]
             /\ attempt[m].by = "delivery" \/ phase = "waiting"
    <3>1. latest # 0
      BY <1>5, <2>2 DEF SendFails, SendsInv, ControlInv, Held
    <3>2. QED
      BY <1>5, <2>2, <3>1, RowErred, MovesKeptLatest DEF SendFails
  <2>3. QED
    BY <1>5, <2>1, <2>2 DEF SendFails
<1>6. CASE DeliverNext \/ Continue \/ BeginChange \/ EndChange
  BY <1>1, <1>6 DEF DeliverNext, Continue, BeginChange, EndChange, moves
<1>7. CASE Take
  <2>1. Held # <<>> /\ latest # 0 /\ Tail(Held) \in Seq(Messages)
    BY <1>7, LatestRow, HeadTailProperties DEF Take, ControlInv, Held
  <2>2. QED
    BY <1>7, <2>1, RowHeld, MovesKeptLatest DEF Take
<1>8. ASSUME NEW to \in Devices, Start(to) PROVE MovesInv'
  BY <1>8, MovesStart
<1>9. CASE RunStep
  <2>1. latest # 0
    BY <1>9 DEF RunStep, Drained, Stopped, Saved, Arrive, Succeed, StepFails, ControlInv, Moving, Is
  <2>2. CASE Drained
    BY <2>1, <2>2, RowStopped, MovesKeptLatest DEF Drained
  <2>3. CASE Stopped \/ Saved
    BY <1>1, <2>3 DEF Stopped, Saved
  <2>4. CASE Arrive
    BY <2>1, <2>4, MovesArrive DEF Arrive, Moving
  <2>5. CASE Succeed
    BY <2>1, <2>5, RowSucceeded, MovesKeptLatest DEF Succeed
  <2>6. CASE StepFails
    BY <2>1, <2>6, RowFailed, MovesKeptLatest DEF StepFails
  <2>7. QED
    BY <1>9, <2>2, <2>3, <2>4, <2>5, <2>6 DEF RunStep
<1>10. CASE Settle
  BY <1>10, RowSettled, MovesKeptLatest DEF Settle, Is
<1>11. CASE Retry
  BY <1>11, RowErred, MovesKeptLatest DEF Retry, Settled, Is
<1>12. CASE Restart
  <2>1. CASE Settled /\ Held # <<>>
    BY <1>12, <2>1, RowErred, MovesKeptLatest DEF Restart, Settled, Is
  <2>2. CASE Is({"active"}) /\ ~(Settled /\ Held # <<>>)
    BY <1>12, <2>2, RowFailed, MovesKeptLatest DEF Restart, Is
  <2>3. CASE ~(Settled /\ Held # <<>>) /\ ~Is({"active"})
    BY <1>1, <1>12, <2>3 DEF Restart
  <2>4. QED
    BY <2>1, <2>2, <2>3
<1>13. QED
  BY <1>3, <1>4, <1>5, <1>6, <1>7, <1>8, <1>9, <1>10, <1>11, <1>12 DEF Next

LEMMA ChangesStep ==
  ASSUME TransferInv, Next
  PROVE  ChangesKeepOut'
<1> USE DEF TransferInv
<1>1. CASE changes' = changes /\ (Moving' => Moving)
  BY <1>1 DEF ChangesKeepOut
<1>2. ASSUME NEW to \in Devices, Start(to) PROVE ChangesKeepOut'
  BY <1>2 DEF Start, Free, ChangesKeepOut
<1>3. CASE BeginChange
  BY <1>3, RowsSame DEF BeginChange, moves, ChangesKeepOut
<1>4. CASE EndChange
  BY <1>4, RowsSame DEF EndChange, moves, ChangesKeepOut
<1>5. CASE Restart
  BY <1>5 DEF Restart, ChangesKeepOut
<1>6. ASSUME NEW m \in Messages, Holding, Hold(m) PROVE Moving' => Moving
  <2>1. latest # 0
    BY <1>6 DEF Holding, Moving, Is, Held
  <2>2. QED
    BY <1>6, <2>1, HoldRows, LatestSays DEF Moving, Is
<1>7. ASSUME NEW m \in Messages, Dispatch(m) \/ Boundary(m) PROVE ChangesKeepOut'
  BY <1>1, <1>6, <1>7, RowsSame DEF Dispatch, Boundary, moves
<1>8. ASSUME NEW m \in Messages, Sent(m) \/ TurnOver(m) PROVE ChangesKeepOut'
  BY <1>1, <1>8, RowsSame DEF Sent, TurnOver, moves
<1>9. ASSUME NEW m \in Messages, SendFails(m) PROVE ChangesKeepOut'
  <2>1. CASE transfers' = transfers
    BY <1>1, <1>9, <2>1, RowsSame DEF SendFails
  <2>2. CASE /\ transfers' = [transfers EXCEPT ![latest].error = TRUE]
             /\ attempt[m].by = "delivery" \/ phase = "waiting"
    <3>1. latest # 0
      BY <1>9, <2>2 DEF SendFails, SendsInv, ControlInv, Held
    <3>2. LatestIs(Latest.state, Latest.toGen, Latest.held, Latest.stopped)
      BY <2>2, <3>1, RowErred
    <3>3. QED
      BY <1>1, <1>9, <3>1, <3>2, LatestSays DEF SendFails, Moving, Is
  <2>3. QED
    BY <1>9, <2>1, <2>2 DEF SendFails
<1>10. CASE DeliverNext \/ Continue
  BY <1>1, <1>10, RowsSame DEF DeliverNext, Continue, moves
<1>11. CASE Take
  <2>1. Held # <<>> /\ latest # 0 /\ Tail(Held) \in Seq(Messages)
    BY <1>11, LatestRow, HeadTailProperties DEF Take, ControlInv, Held
  <2>2. QED
    BY <1>1, <1>11, <2>1, RowHeld, LatestSays DEF Take, Moving, Is
<1>12. CASE RunStep
  <2>1. latest # 0 /\ changes' = changes
    BY <1>12 DEF RunStep, Drained, Stopped, Saved, Arrive, Succeed, StepFails, ControlInv, Moving, Is
  <2>2. Moving \/ step = "continuing"
    BY <1>12 DEF RunStep, Drained, Stopped, Saved, Arrive, Succeed, StepFails, ControlInv
  <2>3. CASE Moving
    BY <1>1, <2>1, <2>3
  <2>4. CASE Succeed
    BY <1>1, <2>1, <2>4, RowSucceeded, LatestSays DEF Succeed
  <2>5. QED
    BY <1>12, <2>2, <2>3, <2>4 DEF RunStep, Drained, Stopped, Saved, Arrive, StepFails
<1>13. CASE Settle
  BY <1>1, <1>13, RowSettled, LatestSays DEF Settle, Is
<1>14. CASE Retry
  <2>1. latest # 0 /\ ~Is({"active"})
    BY <1>14 DEF Retry, Settled, Is
  <2>2. LatestIs(Latest.state, Latest.toGen, Latest.held, Latest.stopped)
    BY <1>14, <2>1, RowErred DEF Retry
  <2>3. QED
    BY <1>1, <1>14, <2>1, <2>2, LatestSays DEF Retry, Is
<1>15. QED
  BY <1>2, <1>3, <1>4, <1>5, <1>7, <1>8, <1>9, <1>10, <1>11, <1>12, <1>13, <1>14 DEF Next

----------------------------------------------------------------------------
(* The line *)

(* A message whose attempt started was said. *)
LEMMA SaidBefore ==
  ASSUME FullTypes, LineInv, NEW m \in Messages,
         ~IsAt(m, {"none"}) \/ m \in heldEver \/ WasGiven(m)
  PROVE  ~(m > said)
BY DEF LineInv

(* What a step that leaves the line, the log and what was said alone has to *)
(* see to.                                                                  *)
LEMMA LineKept ==
  ASSUME FullTypes, LineInv, Held' = Held,
         UNCHANGED <<log, said, ahead, heldEver>>,
         \A m \in Messages : IsAt(m, {"sending"})' => \A a \in ahead[m] : WasGiven(a),
         \A m \in Messages : m > said => IsAt(m, {"none"})'
  PROVE  LineInv'
<1>1. \A a : WasGiven(a)' <=> WasGiven(a)
  BY DEF WasGiven
<1>2. NothingOvertakes'
  BY DEF LineInv, NothingOvertakes
<1>3. /\ \A m \in heldEver' : m \in ToSet(Held') \/ WasGiven(m)'
      /\ ToSet(Held') \subseteq heldEver'
      /\ \A m \in Messages : ahead'[m] \subseteq heldEver'
  BY <1>1 DEF LineInv
<1>4. \A i \in DOMAIN Held' : \A a \in ahead'[Held'[i]] :
        WasGiven(a)' \/ \E j \in 1..i - 1 : Held'[j] = a
  BY <1>1 DEF LineInv
<1>5. \A m \in Messages : IsAt(m, {"sending"})' => \A a \in ahead'[m] : WasGiven(a)'
  BY <1>1
<1>6. \A m \in Messages : m > said' =>
        IsAt(m, {"none"})' /\ m \notin heldEver' /\ ~WasGiven(m)' /\ ahead'[m] = {}
  BY <1>1 DEF LineInv
<1>7. QED
  BY <1>2, <1>3, <1>4, <1>5, <1>6 DEF LineInv

LEMMA LineAttemptsKept ==
  ASSUME FullTypes, LineInv, Held' = Held,
         UNCHANGED <<log, said, ahead, heldEver>>,
         \A m \in Messages : \/ attempt'[m] = attempt[m]
                             \/ attempt'[m].stage = "none"
                             \/ ~(m > said) /\ attempt'[m].stage # "sending"
  PROVE  LineInv'
<1>1. \A m \in Messages : IsAt(m, {"sending"})' => \A a \in ahead[m] : WasGiven(a)
  BY DEF LineInv, IsAt
<1>2. \A m \in Messages : m > said => IsAt(m, {"none"})'
  BY DEF LineInv, IsAt
<1>3. QED
  BY <1>1, <1>2, LineKept

(* A message joins the line: everything it was sent behind has been given   *)
(* or stands before it.                                                     *)
LEMMA LineHolds ==
  ASSUME FullTypes, LineInv, latest # 0, NEW m \in Messages, Hold(m), log' = log,
         said' \in said..NumMessages, ~(m > said'),
         \A k \in Messages : k # m => ahead'[k] = ahead[k],
         ahead'[m] = ahead[m] \/ (m > said /\ ahead'[m] = ToSet(Held)),
         \A k \in Messages : attempt'[k] = attempt[k] \/ attempt'[k].stage = "none"
  PROVE  LineInv'
<1> DEFINE q == IF m \in ToSet(Held) THEN Held ELSE Append(Held, m)
<1>1. /\ \A a : WasGiven(a)' <=> WasGiven(a)
      /\ heldEver' = heldEver \cup {m} /\ Held' = q /\ said \in Nat
  <2>1. LatestIs(Latest.state, Latest.toGen, q, Latest.stopped) /\ heldEver' = heldEver \cup {m}
    BY HoldRows
  <2> HIDE DEF q
  <2>2. Held' = q
    BY <2>1, LatestSays
  <2>3. said \in Nat
    BY TransferAssumption DEF FullTypes
  <2>4. QED
    BY <2>1, <2>2, <2>3 DEF WasGiven
<1>2. /\ Held \in Seq(Messages) /\ Len(Held) \in Nat /\ DOMAIN Held = 1..Len(Held)
      /\ Append(Held, m) \in Seq(Messages) /\ DOMAIN Append(Held, m) = 1..Len(Held) + 1
      /\ \A i \in 1..Len(Held) : Append(Held, m)[i] = Held[i]
      /\ Append(Held, m)[Len(Held) + 1] = m
  BY LatestRow, LenProperties, AppendProperties
<1>3. ToSet(q) = ToSet(Held) \cup {m}
  <2>1. CASE m \in ToSet(Held)
    BY <2>1
  <2>2. CASE m \notin ToSet(Held)
    <3>1. ToSet(Append(Held, m)) \subseteq ToSet(Held) \cup {m}
      BY <1>2 DEF ToSet
    <3>2. m \in ToSet(Append(Held, m)) /\ ToSet(Held) \subseteq ToSet(Append(Held, m))
      BY <1>2 DEF ToSet
    <3>3. QED
      BY <2>2, <3>1, <3>2
  <2>3. QED
    BY <2>1, <2>2
<1>4. \A k \in Messages : ahead'[k] \subseteq heldEver /\ (~(k > said) => ahead'[k] = ahead[k])
  BY <1>1 DEF LineInv, FullTypes, Messages
<1>5. \A i \in 1..Len(Held) : ahead'[Held[i]] = ahead[Held[i]]
  <2>1. TAKE i \in 1..Len(Held)
  <2>2. Held[i] \in Messages /\ Held[i] \in heldEver
    BY <1>2 DEF LineInv, ToSet
  <2>3. QED
    BY <1>4, <2>2, SaidBefore
<1>6. \A a \in heldEver : WasGiven(a) \/ \E j \in 1..Len(Held) : Held[j] = a
  BY <1>2 DEF LineInv, ToSet
<1>7. \A i \in DOMAIN q : \A a \in ahead'[q[i]] : WasGiven(a) \/ \E j \in 1..i - 1 : q[j] = a
  <2>1. TAKE i \in DOMAIN q
  <2>2. CASE i \in 1..Len(Held)
    <3>1. q[i] = Held[i] /\ \A j \in 1..i - 1 : q[j] = Held[j]
      BY <1>2, <2>2
    <3>2. QED
      BY <1>2, <1>5, <2>2, <3>1 DEF LineInv
  <2>3. CASE i \notin 1..Len(Held)
    <3>0. q = Append(Held, m)
      BY <1>2, <2>1, <2>3
    <3> HIDE DEF q
    <3>1. i = Len(Held) + 1 /\ q[i] = m /\ \A j \in 1..Len(Held) : q[j] = Held[j]
      BY <1>2, <2>1, <2>3, <3>0
    <3>2. i - 1 = Len(Held)
      BY <1>2, <3>1
    <3>3. QED
      BY <1>4, <1>6, <3>1, <3>2
  <2>4. QED
    BY <2>2, <2>3
<1> HIDE DEF q
<1>8. \A k \in Messages : IsAt(k, {"sending"})' => \A a \in ahead'[k] : WasGiven(a)'
  <2>1. TAKE k \in Messages
  <2>2. HAVE IsAt(k, {"sending"})'
  <2>3. IsAt(k, {"sending"}) /\ ~IsAt(k, {"none"})
    BY <2>2 DEF IsAt
  <2>4. ahead'[k] = ahead[k]
    BY <1>4, <2>3, SaidBefore
  <2>5. QED
    BY <1>1, <2>3, <2>4 DEF LineInv
<1>9. \A k \in Messages : k > said' =>
        IsAt(k, {"none"})' /\ k \notin heldEver' /\ ~WasGiven(k)' /\ ahead'[k] = {}
  <2>1. TAKE k \in Messages
  <2>2. HAVE k > said'
  <2>3. k # m /\ k > said
    BY <1>1, <2>2 DEF Messages
  <2>4. QED
    BY <1>1, <2>3 DEF LineInv, IsAt
<1>10. NothingOvertakes'
  <2>1. \A i \in DOMAIN log : log[i].msg \in Messages /\ WasGiven(log[i].msg)
    <3>1. TAKE i \in DOMAIN log
    <3>2. log[i] \in Given
      BY LenProperties, ElementOfSeq DEF FullTypes
    <3>3. QED
      BY <3>2 DEF WasGiven, Given
  <2>2. \A i \in DOMAIN log : ahead'[log[i].msg] = ahead[log[i].msg]
    BY <1>4, <2>1, SaidBefore
  <2>3. QED
    BY <2>2 DEF LineInv, NothingOvertakes
<1>11. /\ \A k \in heldEver' : k \in ToSet(Held') \/ WasGiven(k)'
       /\ ToSet(Held') \subseteq heldEver'
       /\ \A k \in Messages : ahead'[k] \subseteq heldEver'
  BY <1>1, <1>3, <1>4 DEF LineInv
<1>12. \A i \in DOMAIN Held' : \A a \in ahead'[Held'[i]] :
         WasGiven(a)' \/ \E j \in 1..i - 1 : Held'[j] = a
  BY <1>1, <1>7
<1>13. QED
  BY <1>8, <1>9, <1>10, <1>11, <1>12 DEF LineInv

LEMMA LineSent ==
  ASSUME FullTypes, LineInv, SendsInv, NEW m \in Messages, Sent(m)
  PROVE  LineInv'
<1> DEFINE e == [msg |-> m, device |-> attempt[m].at.device, gen |-> attempt[m].at.gen]
<1>1. e \in Given /\ e.msg = m
  BY AttemptTypes DEF Given, Attempts, Places
<1>2. log' = Append(log, e)
  BY DEF Sent
<1> HIDE DEF e
<1>3. \A a : WasGiven(a)' <=> WasGiven(a) \/ a = m
  BY <1>1, <1>2, WasGivenKept
<1>4. /\ Held' = Held /\ ahead' = ahead /\ heldEver' = heldEver /\ said' = said
      /\ \A k \in Messages : k # m => attempt'[k] = attempt[k]
      /\ attempt'[m].stage = "turn"
  BY RowsSame DEF Sent, moves, ghosts, FullTypes, Attempts
<1>5. ~(m > said) /\ \A a \in ahead[m] : WasGiven(a)
  BY SaidBefore DEF Sent, IsAt, LineInv
<1>6. NothingOvertakes'
  <2>1. /\ Len(log) \in Nat /\ DOMAIN log = 1..Len(log) /\ DOMAIN log' = 1..Len(log) + 1
        /\ \A i \in 1..Len(log) : log'[i] = log[i]
        /\ log'[Len(log) + 1] = e
    BY <1>1, <1>2, AppendProperties, LenProperties DEF FullTypes
  <2>2. SUFFICES ASSUME NEW i \in 1..Len(log) + 1, NEW a \in ahead[log'[i].msg]
                 PROVE  \E j \in 1..i - 1 : log'[j].msg = a
    BY <1>4, <2>1 DEF NothingOvertakes
  <2>3. CASE i \in 1..Len(log)
    BY <2>1, <2>2, <2>3 DEF LineInv, NothingOvertakes
  <2>4. CASE i = Len(log) + 1
    <3>1. WasGiven(a)
      BY <1>1, <1>5, <2>1, <2>2, <2>4
    <3>2. PICK j \in 1..Len(log) : log[j].msg = a
      BY <2>1, <3>1 DEF WasGiven
    <3>3. j \in 1..i - 1 /\ log'[j].msg = a
      BY <2>1, <2>4, <3>2
    <3>4. QED
      BY <3>3
  <2>5. QED
    BY <2>1, <2>3, <2>4
<1>7. /\ \A k \in heldEver' : k \in ToSet(Held') \/ WasGiven(k)'
      /\ ToSet(Held') \subseteq heldEver'
      /\ \A k \in Messages : ahead'[k] \subseteq heldEver'
  BY <1>3, <1>4 DEF LineInv
<1>8. \A i \in DOMAIN Held' : \A a \in ahead'[Held'[i]] :
        WasGiven(a)' \/ \E j \in 1..i - 1 : Held'[j] = a
  BY <1>3, <1>4 DEF LineInv
<1>9. \A k \in Messages : IsAt(k, {"sending"})' => \A a \in ahead'[k] : WasGiven(a)'
  BY <1>3, <1>4 DEF LineInv, IsAt
<1>10. \A k \in Messages : k > said' =>
         IsAt(k, {"none"})' /\ k \notin heldEver' /\ ~WasGiven(k)' /\ ahead'[k] = {}
  BY <1>3, <1>4, <1>5 DEF LineInv, IsAt
<1>11. QED
  BY <1>6, <1>7, <1>8, <1>9, <1>10 DEF LineInv

LEMMA LineTaken ==
  ASSUME TransferInv, Take
  PROVE  LineInv'
<1> USE DEF TransferInv
<1>1. Held # <<>> /\ latest # 0 /\ Tail(Held) \in Seq(Messages)
  BY LatestRow, HeadTailProperties DEF Take, ControlInv, Held
<1>2. LatestIs(Latest.state, Latest.toGen, Tail(Held), Latest.stopped)
  BY <1>1, RowHeld DEF Take
<1>3. Held' = Tail(Held) /\ UNCHANGED <<log, said, attempt, ahead, heldEver>>
  BY <1>1, <1>2, LatestSays DEF Take, sends, ghosts
<1>4. /\ Len(Held) \in Nat \ {0} /\ DOMAIN Held = 1..Len(Held)
      /\ Len(Tail(Held)) = Len(Held) - 1 /\ DOMAIN Tail(Held) = 1..Len(Held) - 1
      /\ \A i \in 1..Len(Held) - 1 : Tail(Held)[i] = Held[i + 1]
      /\ Head(Held) = Held[1]
  BY <1>1, LatestRow, LenProperties, HeadTailProperties, EmptySeq
<1>5. WasGiven(Held[1])
  BY <1>4 DEF Take, SendsInv
<1>6. \A a : WasGiven(a)' <=> WasGiven(a)
  BY <1>3 DEF WasGiven
<1>7. ToSet(Held) = ToSet(Tail(Held)) \cup {Held[1]}
  <2>1. ToSet(Tail(Held)) \cup {Held[1]} \subseteq ToSet(Held)
    BY <1>4 DEF ToSet
  <2>2. ASSUME NEW i \in 1..Len(Held) PROVE Held[i] \in ToSet(Tail(Held)) \cup {Held[1]}
    <3>1. CASE i = 1
      BY <3>1
    <3>2. CASE i # 1
      <4>1. i - 1 \in 1..Len(Held) - 1 /\ Held[i] = Tail(Held)[i - 1]
        BY <1>4, <2>2, <3>2
      <4>2. QED
        BY <1>4, <4>1 DEF ToSet
    <3>3. QED
      BY <3>1, <3>2
  <2>3. ToSet(Held) \subseteq ToSet(Tail(Held)) \cup {Held[1]}
    BY <1>4, <2>2 DEF ToSet
  <2>4. QED
    BY <2>1, <2>3
<1>8. \A i \in DOMAIN Tail(Held) : \A a \in ahead[Tail(Held)[i]] :
        WasGiven(a) \/ \E j \in 1..i - 1 : Tail(Held)[j] = a
  <2>1. TAKE i \in DOMAIN Tail(Held)
  <2>2. TAKE a \in ahead[Tail(Held)[i]]
  <2>3. i + 1 \in 1..Len(Held) /\ i \in Nat /\ i <= Len(Held) - 1 /\ a \in ahead[Held[i + 1]]
    BY <1>4, <2>1
  <2>4. WasGiven(a) \/ \E j \in 1..i : Held[j] = a
    BY <1>4, <2>3 DEF LineInv
  <2>5. ASSUME NEW j \in 1..i, Held[j] = a
        PROVE  WasGiven(a) \/ \E k \in 1..i - 1 : Tail(Held)[k] = a
    <3>1. CASE j = 1
      BY <1>5, <2>5, <3>1
    <3>2. CASE j # 1
      <4>1. j - 1 \in 1..i - 1 /\ j - 1 \in 1..Len(Held) - 1 /\ Tail(Held)[j - 1] = a
        BY <1>4, <2>3, <2>5, <3>2
      <4>2. QED
        BY <4>1
    <3>3. QED
      BY <3>1, <3>2
  <2>6. QED
    BY <2>4, <2>5
<1>9. /\ \A k \in heldEver' : k \in ToSet(Held') \/ WasGiven(k)'
      /\ ToSet(Held') \subseteq heldEver'
      /\ \A k \in Messages : ahead'[k] \subseteq heldEver'
  BY <1>3, <1>5, <1>6, <1>7 DEF LineInv
<1>10. \A i \in DOMAIN Held' : \A a \in ahead'[Held'[i]] :
         WasGiven(a)' \/ \E j \in 1..i - 1 : Held'[j] = a
  BY <1>3, <1>6, <1>8
<1>11. \A k \in Messages : IsAt(k, {"sending"})' => \A a \in ahead'[k] : WasGiven(a)'
  BY <1>3, <1>6 DEF LineInv, IsAt
<1>12. \A k \in Messages : k > said' =>
         IsAt(k, {"none"})' /\ k \notin heldEver' /\ ~WasGiven(k)' /\ ahead'[k] = {}
  BY <1>3, <1>6 DEF LineInv, IsAt
<1>13. NothingOvertakes'
  BY <1>3 DEF LineInv, NothingOvertakes
<1>14. QED
  BY <1>9, <1>10, <1>11, <1>12, <1>13 DEF LineInv

LEMMA LineStep ==
  ASSUME TransferInv, Next
  PROVE  LineInv'
<1> USE DEF TransferInv
<1>0. attempt \in [Messages -> Attempts] /\ said \in 0..NumMessages /\ NumMessages \in Nat
  BY TransferAssumption DEF FullTypes
<1>1. ASSUME NEW m \in Messages, Dispatch(m) PROVE LineInv'
  <2>1. /\ said' = m /\ said' \in said..NumMessages /\ ~(m > said') /\ log' = log
        /\ \A k \in Messages : k # m => ahead'[k] = ahead[k]
        /\ ahead'[m] = IF m > said THEN ToSet(Held) ELSE ahead[m]
    BY <1>0, <1>1 DEF Dispatch, Messages, FullTypes
  <2>2. CASE Holding
    <3>1. latest # 0
      BY <2>2 DEF Holding, Moving, Is, Held
    <3>2. Hold(m) /\ attempt' = attempt
      BY <1>1, <2>2 DEF Dispatch
    <3>3. QED
      BY <2>1, <3>1, <3>2, LineHolds
  <2>3. CASE ~Holding
    <3>1. /\ transfers' = transfers /\ heldEver' = heldEver /\ Held = <<>>
          /\ \A k \in Messages : k # m => attempt'[k] = attempt[k]
          /\ attempt'[m] = attempt[m] \/ attempt'[m].stage \in {"none", "building"}
      BY <1>0, <1>1, <2>3, AttemptTypes DEF Dispatch, moves, Holding
    <3>2. Held' = <<>> /\ DOMAIN <<>> = {}
      BY <3>1, RowsSame
    <3>3. \A a : WasGiven(a)' <=> WasGiven(a)
      BY <2>1 DEF WasGiven
    <3>4. ToSet(Held) = {} /\ ToSet(Held') = {}
      BY <3>1, <3>2 DEF ToSet
    <3>5. ahead' = ahead
      <4>1. ahead'[m] = ahead[m]
        BY <2>1, <3>4 DEF LineInv
      <4>2. ahead \in [Messages -> SUBSET Messages] /\ ahead' = [ahead EXCEPT ![m] = ahead'[m]]
        BY <1>1, <2>1 DEF Dispatch, FullTypes
      <4>3. QED
        BY <4>1, <4>2
    <3>6. \A k \in Messages : IsAt(k, {"sending"})' => \A a \in ahead'[k] : WasGiven(a)'
      BY <3>1, <3>3, <3>5 DEF LineInv, IsAt
    <3>7. \A k \in Messages : k > said' =>
            IsAt(k, {"none"})' /\ k \notin heldEver' /\ ~WasGiven(k)' /\ ahead'[k] = {}
      <4>1. TAKE k \in Messages
      <4>2. HAVE k > said'
      <4>3. k > said /\ k # m
        BY <1>0, <2>1, <4>2 DEF Messages
      <4>4. QED
        BY <3>1, <3>3, <3>5, <4>3 DEF LineInv, IsAt
    <3>8. NothingOvertakes'
      BY <2>1, <3>5 DEF LineInv, NothingOvertakes
    <3>9. /\ \A k \in heldEver' : k \in ToSet(Held') \/ WasGiven(k)'
          /\ ToSet(Held') \subseteq heldEver'
          /\ \A k \in Messages : ahead'[k] \subseteq heldEver'
      BY <3>1, <3>3, <3>4, <3>5 DEF LineInv
    <3>10. QED
      BY <3>2, <3>6, <3>7, <3>8, <3>9 DEF LineInv
  <2>4. QED
    BY <2>2, <2>3
<1>2. ASSUME NEW m \in Messages, Boundary(m) PROVE LineInv'
  <2>1. ~(m > said)
    BY <1>2, SaidBefore DEF Boundary, IsAt
  <2>2. UNCHANGED <<log, said, ahead>>
    BY <1>2 DEF Boundary
  <2>3. CASE Holding /\ attempt[m].by = "user"
    <3>1. latest # 0
      BY <2>3 DEF Holding, Moving, Is, Held
    <3>2. Hold(m) /\ attempt' = [attempt EXCEPT ![m] = None]
      BY <1>2, <2>3 DEF Boundary
    <3>3. \A k \in Messages : attempt'[k] = attempt[k] \/ attempt'[k].stage = "none"
      BY <1>0, <3>2, AttemptTypes
    <3>4. said' \in said..NumMessages
      BY <1>0, <2>2
    <3>5. QED
      BY <2>1, <2>2, <3>1, <3>2, <3>3, <3>4, LineHolds
  <2>4. CASE ~(Holding /\ attempt[m].by = "user")
    <3>1. /\ Held' = Held /\ heldEver' = heldEver
          /\ \A k \in Messages : k # m => attempt'[k] = attempt[k]
      BY <1>0, <1>2, <2>4, RowsSame DEF Boundary, moves
    <3>2. attempt[m].by \in {"user", "delivery"}
      BY <1>0 DEF Attempts
    <3>3. \A a \in ahead[m] : WasGiven(a)
      <4>1. CASE ~Holding
        <5>1. Held = <<>> /\ DOMAIN <<>> = {}
          BY <4>1 DEF Holding
        <5>2. QED
          BY <5>1 DEF LineInv, ToSet
      <4>2. CASE attempt[m].by = "delivery"
        <5>1. phase = "trying" /\ m = Head(Held)
          BY <1>2, <4>2 DEF Boundary, SendsInv, IsAt
        <5>2. Held # <<>>
          BY <5>1 DEF ControlInv
        <5>3. 1 \in DOMAIN Held /\ Held[1] = m
          BY <5>1, <5>2, LatestRow, LenProperties, EmptySeq, HeadTailProperties
        <5>4. \A a \in ahead[Held[1]] : WasGiven(a) \/ \E j \in 1..1 - 1 : Held[j] = a
          BY <5>3 DEF LineInv
        <5>5. QED
          BY <5>3, <5>4
      <4>3. QED
        BY <2>4, <3>2, <4>1, <4>2
    <3>4. \A k \in Messages : IsAt(k, {"sending"})' => \A a \in ahead[k] : WasGiven(a)
      BY <3>1, <3>3 DEF LineInv, IsAt
    <3>5. \A k \in Messages : k > said => IsAt(k, {"none"})'
      BY <2>1, <3>1 DEF LineInv, IsAt
    <3>6. QED
      BY <2>2, <3>1, <3>4, <3>5, LineKept
  <2>5. QED
    BY <2>3, <2>4
<1>3. ASSUME NEW m \in Messages, Sent(m) PROVE LineInv'
  BY <1>3, LineSent
<1>4. ASSUME Held' = Held, UNCHANGED <<log, said, ahead, heldEver>>,
             \/ attempt' = attempt \/ attempt' = [k \in Messages |-> None]
             \/ \E m \in Messages : attempt' = [attempt EXCEPT ![m] = None]
      PROVE  LineInv'
  <2>1. None.stage = "none"
    BY DEF None
  <2>2. \A k \in Messages : attempt'[k] = attempt[k] \/ attempt'[k].stage = "none"
    BY <1>0, <1>4, <2>1
  <2>3. QED
    BY <1>4, <2>2, LineAttemptsKept
<1>5. ASSUME NEW m \in Messages, SendFails(m) PROVE LineInv'
  <2>1. Held' = Held
    <3>1. CASE transfers' = transfers
      BY <3>1, RowsSame
    <3>2. CASE /\ transfers' = [transfers EXCEPT ![latest].error = TRUE]
               /\ attempt[m].by = "delivery" \/ phase = "waiting"
      <4>1. latest # 0
        BY <1>5, <3>2 DEF SendFails, SendsInv, ControlInv, Held
      <4>2. LatestIs(Latest.state, Latest.toGen, Latest.held, Latest.stopped)
        BY <3>2, <4>1, RowErred
      <4>3. QED
        BY <4>1, <4>2, LatestSays DEF Held
    <3>3. QED
      BY <1>5, <3>1, <3>2 DEF SendFails
  <2>2. QED
    BY <1>4, <1>5, <2>1 DEF SendFails, ghosts
<1>6. ASSUME NEW m \in Messages, TurnOver(m) PROVE LineInv'
  BY <1>4, <1>6, RowsSame DEF TurnOver, moves, ghosts
<1>7. CASE DeliverNext
  <2>1. Held' = Held /\ UNCHANGED <<log, said, ahead, heldEver>>
    BY <1>7, RowsSame DEF DeliverNext, moves, ghosts
  <2>2. CASE UNCHANGED attempt
    BY <1>4, <2>1, <2>2
  <2>3. CASE Held # <<>> /\ attempt' = [attempt EXCEPT ![Head(Held)] = Reserved("delivery")]
    <3>1. Head(Held) \in Messages /\ Head(Held) \in ToSet(Held)
      BY <2>3, LatestRow, HeadTailProperties, LenProperties, EmptySeq DEF ToSet
    <3>2. ~(Head(Held) > said)
      BY <3>1, SaidBefore DEF LineInv
    <3>3. \A k \in Messages : attempt'[k] = attempt[k]
            \/ (~(k > said) /\ attempt'[k].stage # "sending")
      BY <1>0, <2>3, <3>1, <3>2 DEF Reserved
    <3>4. QED
      BY <2>1, <3>3, LineAttemptsKept
  <2>4. QED
    BY <1>7, <2>2, <2>3 DEF DeliverNext
<1>8. CASE Take
  BY <1>8, LineTaken
<1>9. CASE Continue \/ BeginChange \/ EndChange
  BY <1>4, <1>9, RowsSame DEF Continue, BeginChange, EndChange, moves, sends, ghosts
<1>10. ASSUME NEW to \in Devices, Start(to) PROVE LineInv'
  <2>1. latest' = latest + 1 /\ Latest' = Row(to) /\ latest \in Nat
    BY <1>10, RowStarted, LatestRow
  <2>2. Held' = Held
    BY <2>1 DEF Held, Row
  <2>3. QED
    BY <1>4, <1>10, <2>2 DEF Start, sends, ghosts
<1>11. ASSUME latest # 0, NEW state, NEW toGen, NEW stopped, LatestIs(state, toGen, Latest.held, stopped)
       PROVE  Held' = Held
  BY <1>11, LatestSays DEF Held
<1>12. CASE RunStep
  <2>1. latest # 0 /\ UNCHANGED <<log, said, ahead, heldEver, attempt>>
    BY <1>12 DEF RunStep, Drained, Stopped, Saved, Arrive, Succeed, StepFails, ControlInv, Moving, Is, sends, ghosts
  <2>2. Held' = Held
    <3>1. CASE Drained
      BY <1>11, <2>1, <3>1, RowStopped DEF Drained
    <3>2. CASE Stopped \/ Saved
      BY <3>2, RowsSame DEF Stopped, Saved
    <3>3. CASE Arrive
      <4>1. Target(latest) \in Nat
        BY <2>1, LatestRow, TargetType
      <4>2. QED
        BY <1>11, <2>1, <3>3, <4>1, RowArrived, RowArrivedFailed DEF Arrive
    <3>4. CASE Succeed
      BY <1>11, <2>1, <3>4, RowSucceeded DEF Succeed
    <3>5. CASE StepFails
      BY <1>11, <2>1, <3>5, RowFailed DEF StepFails
    <3>6. QED
      BY <1>12, <3>1, <3>2, <3>3, <3>4, <3>5 DEF RunStep
  <2>3. QED
    BY <1>4, <2>1, <2>2
<1>13. CASE Settle
  BY <1>4, <1>11, <1>13, RowSettled DEF Settle, Is, sends, ghosts
<1>14. CASE Retry
  BY <1>4, <1>11, <1>14, RowErred DEF Retry, Settled, Is, sends, ghosts
<1>15. CASE Restart
  <2>1. Held' = Held
    <3>1. CASE Settled /\ Held # <<>>
      BY <1>11, <1>15, <3>1, RowErred DEF Restart, Settled, Is
    <3>2. CASE Is({"active"}) /\ ~(Settled /\ Held # <<>>)
      BY <1>11, <1>15, <3>2, RowFailed DEF Restart, Is
    <3>3. CASE ~(Settled /\ Held # <<>>) /\ ~Is({"active"})
      BY <1>15, <3>3, RowsSame DEF Restart
    <3>4. QED
      BY <3>1, <3>2, <3>3
  <2>2. QED
    BY <1>4, <1>15, <2>1 DEF Restart, ghosts
<1>16. QED
  BY <1>1, <1>2, <1>3, <1>5, <1>6, <1>7, <1>8, <1>9, <1>10, <1>12, <1>13, <1>14, <1>15 DEF Next

----------------------------------------------------------------------------
(* The invariant, and what follows from it *)

LEMMA TransferStutters ==
  ASSUME TransferInv, UNCHANGED vars
  PROVE  TransferInv'
<1> USE DEF vars, moves, delivery, sends, ghosts
<1>1. /\ latest' = latest /\ Latest' = Latest /\ Held' = Held
      /\ Moving' <=> Moving
      /\ StoppedNow' <=> StoppedNow
  BY RowsSame
<1>2. FullTypes'
  BY DEF TransferInv, FullTypes
<1>3. ControlInv'
  BY RowsSame DEF TransferInv, ControlInv
<1>4. SendsInv'
  BY <1>1, SendsKept DEF TransferInv
<1>5. MovesInv'
  BY <1>1, MovesKept DEF TransferInv
<1>6. LineInv'
  BY <1>1, LineAttemptsKept DEF TransferInv
<1>7. ChangesKeepOut'
  BY <1>1 DEF TransferInv, ChangesKeepOut
<1>8. QED
  BY <1>2, <1>3, <1>4, <1>5, <1>6, <1>7 DEF TransferInv

(* Whatever steps are taken, the rows, the line, the sends and the work's   *)
(* place stay in agreement: the inductive invariant of Transfer.            *)
THEOREM TransferInvariant == LiveSpec => []TransferInv
<1>1. Init => TransferInv
  BY TransferInitInv
<1>2. TransferInv /\ [Next]_vars => TransferInv'
  <2>1. ASSUME TransferInv, Next PROVE TransferInv'
    BY <2>1, TypesStep, ControlStep, SendsStep, MovesStep, LineStep, ChangesStep DEF TransferInv
  <2>2. QED
    BY <2>1, TransferStutters
<1>3. QED
  BY <1>1, <1>2, PTL DEF LiveSpec, Spec

(* A row is open only while it is the latest, and a message is tried by a   *)
(* delivery only while it is first in line.                                 *)
THEOREM TransferTyped == LiveSpec => []TransferTypeOK
<1>1. TransferInv => TransferTypeOK
  <2> SUFFICES ASSUME TransferInv PROVE TransferTypeOK
    OBVIOUS
  <2>1. placement \in [device : Devices, gen : Nat \ {0}]
    BY DEF TransferInv, FullTypes, Places
  <2>2. ASSUME NEW n \in DOMAIN transfers
        PROVE  /\ transfers[n].state \in {"active", "failed", "cancelled", "succeeded"}
               /\ transfers[n].held \in Seq(Messages)
               /\ n < latest => transfers[n].held = <<>> /\ transfers[n].state \notin {"active", "failed"}
    BY LatestRow, RowFields DEF TransferInv, ControlInv
  <2>3. step # "none" <=> Is({"active"})
    BY DEF TransferInv, FullTypes, ControlInv, Moving
  <2>4. /\ phase \in {"off", "next", "waiting", "trying", "accepted"}
        /\ phase \in {"waiting", "trying", "accepted"} => Held # <<>>
    BY DEF TransferInv, FullTypes, ControlInv
  <2>5. \A m \in Messages : attempt[m].stage \in Stages /\ attempt[m].by \in {"user", "delivery"}
    BY DEF TransferInv, FullTypes, Attempts
  <2>6. \A m \in Messages :
          attempt[m].by = "delivery" /\ IsAt(m, {"building", "sending"}) =>
            phase = "trying" /\ m = Head(Held)
    BY DEF TransferInv, SendsInv
  <2>7. QED
    BY <2>1, <2>2, <2>3, <2>4, <2>5, <2>6 DEF TransferTypeOK
<1>2. QED
  BY <1>1, TransferInvariant, PTL

(* No failure, restart, decision or other attempt loses a message a move    *)
(* held.                                                                    *)
THEOREM HeldIsNotLost == LiveSpec => []HeldNotLost
<1>1. TransferInv => HeldNotLost
  BY DEF TransferInv, LineInv, HeldNotLost, WasGiven
<1>2. QED
  BY <1>1, TransferInvariant, PTL

(* What was sent behind held messages is given after them.                  *)
THEOREM NothingIsOvertaken == LiveSpec => []NothingOvertakes
<1>1. TransferInv => NothingOvertakes
  BY DEF TransferInv, LineInv
<1>2. QED
  BY <1>1, TransferInvariant, PTL

(* Every move prepares a generation of its own, past all earlier ones.      *)
THEOREM GenerationsAlwaysGrow == LiveSpec => []GenerationsGrow
<1>1. TransferInv => GenerationsGrow
  <2> SUFFICES ASSUME TransferInv PROVE GenerationsGrow
    OBVIOUS
  <2>1. DOMAIN transfers = 1..latest
    BY LatestRow DEF TransferInv
  <2>2. \A n, k \in DOMAIN transfers : k < n => Target(k) < Target(n)
    BY <2>1, TargetsGrow DEF TransferInv
  <2>3. \A n \in DOMAIN transfers : transfers[n].toGen \in {0, Target(n)}
    BY <2>1 DEF TransferInv, MovesInv
  <2>4. ASSUME Moving PROVE placement.gen < Target(latest)
    <3>1. latest \in 1..latest /\ latest # 0 /\ Latest.toGen = 0
      BY <2>4, LatestRow DEF TransferInv, Moving, Is
    <3>2. placement.gen = transfers[latest].fromGen
      BY <3>1 DEF TransferInv, MovesInv, Latest
    <3>3. QED
      BY <3>1, <3>2, TargetType DEF TransferInv
  <2>5. QED
    BY <2>2, <2>3, <2>4 DEF GenerationsGrow
<1>2. QED
  BY <1>1, TransferInvariant, PTL

(* No change is under way while a move stops and saves its source.          *)
THEOREM ChangesAreKeptOut == LiveSpec => []ChangesKeepOut
<1>1. TransferInv => ChangesKeepOut
  BY DEF TransferInv
<1>2. QED
  BY <1>1, TransferInvariant, PTL

----------------------------------------------------------------------------
(* Transfer implements MovingWork *)

LEMMA WorkStutters ==
  ASSUME placement' = placement, log' = log, StoppedNow' <=> StoppedNow
  PROVE  UNCHANGED Work!workVars
<1>1. StoppedNow' = StoppedNow
  BY DEF StoppedNow
<1>2. QED
  BY <1>1 DEF Work!workVars

(* The stop was made, or had been made before. *)
LEMMA WorkStopResume ==
  ASSUME placement' = placement, log' = log
  PROVE  [Work!Next]_(Work!workVars)
<1>1. CASE StoppedNow' <=> StoppedNow
  BY <1>1, WorkStutters
<1>2. CASE StoppedNow' /\ ~StoppedNow
  BY <1>2 DEF Work!Next, Work!Stop, StoppedNow
<1>3. CASE ~StoppedNow' /\ StoppedNow
  BY <1>3 DEF Work!Next, Work!Resume, StoppedNow
<1>4. QED
  BY <1>1, <1>2, <1>3

LEMMA WorkInit == Init => Work!Init
<1> SUFFICES ASSUME Init PROVE Work!Init
  OBVIOUS
<1>1. latest = 0
  BY DEF Init, latest
<1>2. StoppedNow = FALSE
  BY <1>1 DEF StoppedNow, Is
<1>3. placement \in [device : Devices, gen : {1}] /\ log = <<>>
  BY DEF Init
<1>4. QED
  BY <1>2, <1>3 DEF Work!Init

LEMMA WorkGives ==
  ASSUME TransferInv, NEW m \in Messages, Sent(m)
  PROVE  Work!Give(m)
<1>1. attempt[m].at = placement /\ ~StoppedNow
  BY DEF Sent, TransferInv, SendsInv
<1>2. placement.device # Home => ~Work!InAQueue(m)
  BY <1>1 DEF Sent, InQueue, Work!InAQueue
<1>3. log' = Append(log, [msg |-> m, device |-> placement.device, gen |-> placement.gen])
  BY <1>1 DEF Sent
<1>4. placement' = placement /\ StoppedNow' = StoppedNow
  BY RowsSame DEF Sent, moves, StoppedNow
<1>5. QED
  BY <1>1, <1>2, <1>3, <1>4 DEF Work!Give

LEMMA WorkMoves ==
  ASSUME TransferInv, Arrive
  PROVE  Work!Move
<1> USE DEF TransferInv
<1>1. latest # 0 /\ Latest.toGen = 0 /\ StoppedNow
  BY DEF Arrive, Moving, Is, ControlInv, StoppedNow
<1>2. /\ placement.gen < Target(latest) /\ Target(latest) \in Nat \ {0}
      /\ Latest'.toGen = Target(latest)
  BY <1>1, MovesArrive
<1>3. ~StoppedNow'
  BY <1>2 DEF StoppedNow
<1>4. placement'.device = Latest.to /\ placement'.gen = Target(latest) /\ log' = log
  BY DEF Arrive, sends
<1>5. Latest.to \in Devices /\ Latest.to # placement.device
  <2>1. latest \in 1..latest /\ Latest \in Rows
    BY <1>1, LatestRow
  <2>2. Latest.to \in Devices /\ Latest.from # Latest.to /\ placement.device = Latest.from
    BY <1>1, <2>1, RowFields DEF MovesInv, Latest
  <2>3. QED
    BY <2>2
<1>6. placement'.gen > placement.gen
  BY <1>2, <1>4, LatestRow DEF FullTypes, Places
<1>7. StoppedNow = TRUE /\ StoppedNow' = FALSE
  BY <1>1, <1>3 DEF StoppedNow
<1>8. QED
  BY <1>1, <1>3, <1>4, <1>5, <1>6, <1>7 DEF Work!Move

LEMMA WorkStep ==
  ASSUME TransferInv, [Next]_vars
  PROVE  [Work!Next]_(Work!workVars)
<1>1. CASE placement' = placement /\ log' = log
  BY <1>1, WorkStopResume
<1>2. ASSUME NEW m \in Messages, Sent(m) PROVE Work!Next
  BY <1>2, WorkGives DEF Work!Next
<1>3. CASE Arrive
  BY <1>3, WorkMoves DEF Work!Next
<1>4. ASSUME NEW m \in Messages, Dispatch(m) \/ Boundary(m) \/ SendFails(m) \/ TurnOver(m)
      PROVE  placement' = placement /\ log' = log
  BY <1>4 DEF Dispatch, Boundary, SendFails, TurnOver, Hold, moves
<1>5. CASE DeliverNext \/ Take \/ Continue \/ Settle \/ Retry \/ BeginChange \/ EndChange \/ Restart
  BY <1>1, <1>5 DEF DeliverNext, Take, Continue, Settle, Retry, BeginChange, EndChange, Restart,
       moves, sends
<1>6. ASSUME NEW to \in Devices, Start(to) PROVE placement' = placement /\ log' = log
  BY <1>6 DEF Start, sends
<1>7. CASE RunStep
  BY <1>1, <1>3, <1>7 DEF RunStep, Drained, Stopped, Saved, Succeed, StepFails, sends
<1>8. CASE UNCHANGED vars
  BY <1>1, <1>8 DEF vars, moves, sends
<1>9. QED
  BY <1>1, <1>2, <1>4, <1>5, <1>6, <1>7, <1>8 DEF Next

(* The moves, messages and stops implement MovingWork: while the work is    *)
(* stopped nobody is given a message, and the stopped work alone changes    *)
(* hands, to another device and a later generation.                         *)
THEOREM MovesImplementWork == LiveSpec => WorkSpec
<1>1. Init => Work!Init
  BY WorkInit
<1>2. TransferInv /\ [Next]_vars => [Work!Next]_(Work!workVars)
  BY WorkStep
<1>3. QED
  BY <1>1, <1>2, TransferInvariant, PTL DEF LiveSpec, Spec, WorkSpec, Work!Spec

===============================================================================
