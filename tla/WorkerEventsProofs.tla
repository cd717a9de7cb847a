------------------------- MODULE WorkerEventsProofs -------------------------
(***************************************************************************)
(* What the home and a worker promise together of the worker's events, for *)
(* any turns, batches and bounds, whatever is lost or restored.            *)
(***************************************************************************)
EXTENDS WorkerEvents, InOrderProofs

Events == [turn : Turns \cup {NoTurn}, ok : BOOLEAN]

Sent(p) == p # None /\ p.state = "sent"
Carried(p) == IF Sent(p) THEN p.batch ELSE {}

(* Every record of an event that may still reach the home.                  *)
Records == file \cup Carried(posting) \cup Carried(late)

SentPosts == {[state |-> "sent", batch |-> b, gone |-> g] : b \in SUBSET OnFile, g \in Nat}
Answers == {[state |-> "answered", acked |-> a] : a \in Nat}
Hellos == {[state |-> "sent", acked |-> a] : a \in Nat}

Typed ==
  /\ made \in Seq(Events)
  /\ file \in SUBSET OnFile /\ acked \in Nat /\ last \in Nat
  /\ up \in {"down", "starting", "ready"}
  /\ turn \in [Turns -> {"none", "open", "ended", "lost"}]
  /\ running \in SUBSET Turns /\ cutOff \in SUBSET Turns
  /\ hello \in Hellos \cup {None} /\ late \in SentPosts \cup {None}
  /\ posting \in SentPosts \cup Answers \cup {None}
  /\ home \in Homes /\ backup \in Homes
  /\ IsFiniteSet(Records)

(* The memory is what a restart would find in the file.                     *)
InMemory ==
  /\ pending = Beyond(file, acked)
  /\ acked <= last
  /\ last = acked \/ \E r \in file : r.pos = last

(* Positions are given once, and in the order the events were made.         *)
Ordered ==
  /\ \A r \in Records : r.pos <= last /\ r.id <= Len(made)
  /\ \A r, s \in Records : r.pos < s.pos => r.id < s.id
  /\ \A r, s \in Records : r.pos = s.pos => r = s

(* The home is not past the journal, but for one that was cleared and that  *)
(* numbers on from the home before it holds anything.                       *)
Behind ==
  \/ home.acked <= last
  \/ /\ file = {} /\ posting = None /\ late = None /\ up # "ready"
     /\ hello # None => hello.acked = home.acked

(* What is on its way was true of the home when it was sent.                *)
Connected ==
  /\ up = "down" => posting = None /\ hello = None
  /\ hello # None => hello.acked <= home.acked
  /\ posting \in Answers => acked <= posting.acked /\ posting.acked <= home.acked
  /\ Sent(posting) => acked <= posting.gone

(* What a post says is gone the home took, or it is excused.                *)
GoneWasTaken(p) ==
  Sent(p) => /\ p.gone <= last
             /\ \A r \in file : r.pos <= p.gone => r.id \in ToSet(home.taken) \cup excused

(* The home, and its backup, take in order: what is past their position is  *)
(* newer than all they hold.                                                *)
TakenInOrder(h) ==
  \A e \in ToSet(h.taken) :
    /\ e \in 1..Len(made)
    /\ \A r \in Records : r.pos > h.acked => e < r.id

BackedUp ==
  /\ backup.acked <= home.acked
  /\ Len(backup.taken) <= Len(home.taken)
  /\ \A i \in 1..Len(backup.taken) : backup.taken[i] = home.taken[i]

(* A turn that is under way was not reported as cut off, and what it        *)
(* reported itself comes first.                                             *)
TurnsOnce ==
  /\ up # "ready" => running = {}
  /\ up = "down" => cutOff = {}
  /\ running \cap cutOff = {}
  /\ \A t \in running \cup cutOff : turn[t] = "open"
  /\ \A e \in 1..Len(made), t \in Turns :
       /\ made[e].turn = t => turn[t] # "none"
       /\ made[e] = Result(t, FALSE) => /\ t \notin running
                                        /\ \A f \in 1..Len(made) : made[f] = Result(t, TRUE) => f < e

(* A run is finished by the first result of its turn that was taken.        *)
RunsOnce(h) ==
  \A t \in Turns :
    /\ h.run[t] = "failed" =>
         /\ \E f \in 1..Len(made) : made[f] = Result(t, FALSE)
         /\ \A e \in 1..Len(made) : made[e] = Result(t, TRUE) => e \in excused
    /\ \A e \in ToSet(h.taken) : made[e].turn = t => h.run[t] # "open"

EventsInv ==
  /\ Typed /\ InMemory /\ Ordered /\ Behind /\ Connected
  /\ GoneWasTaken(posting) /\ GoneWasTaken(late)
  /\ NothingLost
  /\ TakenInOrder(home) /\ TakenInOrder(backup) /\ BackedUp
  /\ TurnsOnce /\ RunsOnce(home) /\ RunsOnce(backup)

----------------------------------------------------------------------------
(* Posts and what they carry *)

LEMMA SentFields ==
  ASSUME NEW p \in SentPosts
  PROVE  /\ Sent(p) /\ p # None /\ p \notin Answers
         /\ p.batch \in SUBSET OnFile /\ p.gone \in Nat /\ Carried(p) = p.batch
<1>1. PICK b \in SUBSET OnFile, g \in Nat : p = [state |-> "sent", batch |-> b, gone |-> g]
  BY DEF SentPosts
<1>2. p.state = "sent" /\ p.batch = b /\ p.gone = g
  BY <1>1
<1>3. p # None /\ p \notin Answers
  BY <1>2 DEF None, Answers
<1>4. QED
  BY <1>2, <1>3 DEF Sent, Carried

LEMMA AnswerFields ==
  ASSUME NEW p \in Answers
  PROVE  ~Sent(p) /\ p # None /\ p.state = "answered" /\ p.acked \in Nat /\ Carried(p) = {}
<1>1. PICK a \in Nat : p = [state |-> "answered", acked |-> a]
  BY DEF Answers
<1>2. p.state = "answered" /\ p.acked = a
  BY <1>1
<1>3. QED
  BY <1>2 DEF None, Sent, Carried

LEMMA NoneFields == ~Sent(None) /\ Carried(None) = {}
BY DEF Sent, Carried

LEMMA HelloFields ==
  ASSUME NEW h \in Hellos
  PROVE  h # None /\ h.acked \in Nat
<1>1. PICK a \in Nat : h = [state |-> "sent", acked |-> a]
  BY DEF Hellos
<1>2. h.state = "sent" /\ h.acked = a
  BY <1>1
<1>3. QED
  BY <1>2 DEF None

LEMMA HomeFields ==
  ASSUME NEW h \in Homes
  PROVE  /\ h.acked \in Nat /\ h.taken \in Seq(Nat \ {0})
         /\ h.run \in [Turns -> {"open", "completed", "failed"}]
BY DEF Homes

LEMMA FileFields ==
  ASSUME NEW r \in OnFile
  PROVE  r.pos \in Nat \ {0} /\ r.id \in Nat \ {0}
BY DEF OnFile

LEMMA SentIsSent ==
  ASSUME Typed, NEW p \in {posting, late}, Sent(p)
  PROVE  p \in SentPosts
BY AnswerFields, NoneFields DEF Typed

LEMMA RecordsTyped ==
  ASSUME Typed
  PROVE  /\ Records \in SUBSET OnFile
         /\ \A r \in Records : r.pos \in Nat \ {0} /\ r.id \in Nat \ {0}
<1>1. Carried(posting) \in SUBSET OnFile /\ Carried(late) \in SUBSET OnFile
  BY SentFields, AnswerFields, NoneFields DEF Typed
<1>2. Records \in SUBSET OnFile
  BY <1>1 DEF Typed, Records
<1>3. QED
  BY <1>2, FileFields

LEMMA MadeTyped ==
  ASSUME Typed
  PROVE  /\ Len(made) \in Nat
         /\ \A e \in 1..Len(made) : /\ made[e] \in Events
                                    /\ made[e] = [turn |-> made[e].turn, ok |-> made[e].ok]
                                    /\ made[e].ok \in BOOLEAN
<1>1. \A e \in 1..Len(made) : made[e] \in Events
  BY ElementOfSeq DEF Typed
<1>2. QED
  BY <1>1, LenProperties DEF Typed, Events

(* The position to go on from is the last one given, at a restart too.      *)
LEMMA LastIs ==
  ASSUME Typed, InMemory, \A r \in file : r.pos <= last
  PROVE  last = LastOf(file, acked)
<1> DEFINE S == {acked} \cup {r.pos : r \in file}
<1>1. S \in SUBSET Int /\ last \in S /\ \A y \in S : y <= last
  BY FileFields DEF Typed, InMemory
<1>2. QED
  BY <1>1, MaxIs DEF LastOf

LEMMA InvTyped == EventsInv => EventsTypeOK
<1>1. SUFFICES ASSUME EventsInv PROVE EventsTypeOK
  OBVIOUS
<1>2. \A r \in file : r.pos <= last
  BY <1>1 DEF EventsInv, Ordered, Records
<1>3. last = LastOf(file, acked)
  BY <1>1, <1>2, LastIs DEF EventsInv
<1>4. QED
  BY <1>1, <1>3 DEF EventsInv, Typed, InMemory, EventsTypeOK, Events

----------------------------------------------------------------------------
(* What can only be lost: posts, and records that were compacted *)

(* A step that makes, takes and excuses nothing, and sends nothing new.     *)
Quieter ==
  /\ made' = made /\ last' = last /\ home' = home /\ backup' = backup /\ excused' = excused
  /\ file' \in SUBSET file
  /\ Records' \in SUBSET Records

LEMMA QuieterKeeps ==
  ASSUME EventsInv, Quieter
  PROVE  /\ Ordered' /\ TakenInOrder(home)' /\ TakenInOrder(backup)' /\ BackedUp'
         /\ RunsOnce(home)' /\ RunsOnce(backup)' /\ IsFiniteSet(Records)'
         /\ \A p : GoneWasTaken(p) => GoneWasTaken(p)'
<1> USE DEF Quieter
<1>1. Ordered'
  BY DEF EventsInv, Ordered
<1>2. TakenInOrder(home)' /\ TakenInOrder(backup)'
  BY DEF EventsInv, TakenInOrder
<1>3. BackedUp'
  BY DEF EventsInv, BackedUp
<1>4. RunsOnce(home)' /\ RunsOnce(backup)'
  BY DEF EventsInv, RunsOnce
<1>5. IsFiniteSet(Records)'
  BY FS_Subset DEF EventsInv, Typed
<1>6. ASSUME NEW p, GoneWasTaken(p) PROVE GoneWasTaken(p)'
  BY <1>6 DEF GoneWasTaken, Sent
<1>7. QED
  BY <1>1, <1>2, <1>3, <1>4, <1>5, <1>6

LEMMA CrashKept ==
  ASSUME EventsInv, Crash
  PROVE  EventsInv'
<1>1. /\ Typed /\ InMemory /\ Behind /\ Connected /\ NothingLost /\ TurnsOnce
      /\ GoneWasTaken(posting) /\ GoneWasTaken(late)
  BY DEF EventsInv
<1>2. /\ up' = "down" /\ running' = {} /\ cutOff' = {} /\ hello' = None /\ posting' = None
      /\ (late' = late \/ (Sent(posting) /\ late' = posting))
      /\ made' = made /\ file' = file /\ acked' = acked /\ last' = last /\ pending' = pending
      /\ turn' = turn /\ home' = home /\ backup' = backup /\ excused' = excused
  BY DEF Crash, AbandonPost, journal, Sent
<1>3. Quieter
  BY <1>2, NoneFields DEF Quieter, Records
<1>4. /\ Ordered' /\ TakenInOrder(home)' /\ TakenInOrder(backup)' /\ BackedUp'
      /\ RunsOnce(home)' /\ RunsOnce(backup)' /\ IsFiniteSet(Records)'
      /\ \A p : GoneWasTaken(p) => GoneWasTaken(p)'
  BY <1>3, QuieterKeeps
<1>5. late' \in SentPosts \cup {None}
  BY <1>1, <1>2, SentIsSent DEF Typed
<1>6. Typed'
  BY <1>1, <1>2, <1>4, <1>5 DEF Typed
<1>7. InMemory'
  BY <1>1, <1>2 DEF InMemory, Beyond
<1>8. Behind'
  BY <1>1, <1>2, NoneFields DEF Behind
<1>9. Connected'
  BY <1>1, <1>2, NoneFields, AnswerFields DEF Connected
<1>10. GoneWasTaken(posting)' /\ GoneWasTaken(late)'
  BY <1>1, <1>2, NoneFields DEF GoneWasTaken, Sent
<1>11. NothingLost'
  BY <1>1, <1>2 DEF NothingLost, Beyond
<1>12. TurnsOnce'
  BY <1>1, <1>2 DEF TurnsOnce
<1>13. QED
  BY <1>4, <1>6, <1>7, <1>8, <1>9, <1>10, <1>11, <1>12 DEF EventsInv

LEMMA GiveUpPostKept ==
  ASSUME EventsInv, GiveUpPost
  PROVE  EventsInv'
<1>1. /\ Typed /\ InMemory /\ Behind /\ Connected /\ NothingLost /\ TurnsOnce
      /\ GoneWasTaken(posting) /\ GoneWasTaken(late)
  BY DEF EventsInv
<1>2. /\ posting # None /\ posting' = None
      /\ (late' = late \/ (Sent(posting) /\ late' = posting))
      /\ up' = up /\ running' = running /\ cutOff' = cutOff /\ hello' = hello
      /\ made' = made /\ file' = file /\ acked' = acked /\ last' = last /\ pending' = pending
      /\ turn' = turn /\ home' = home /\ backup' = backup /\ excused' = excused
  BY DEF GiveUpPost, AbandonPost, journal, process, Sent
<1>3. Quieter
  BY <1>2, NoneFields DEF Quieter, Records
<1>4. /\ Ordered' /\ TakenInOrder(home)' /\ TakenInOrder(backup)' /\ BackedUp'
      /\ RunsOnce(home)' /\ RunsOnce(backup)' /\ IsFiniteSet(Records)'
  BY <1>3, QuieterKeeps
<1>5. late' \in SentPosts \cup {None}
  BY <1>1, <1>2, SentIsSent DEF Typed
<1>6. Typed'
  BY <1>1, <1>2, <1>4, <1>5 DEF Typed
<1>7. InMemory'
  BY <1>1, <1>2 DEF InMemory, Beyond
<1>8. Behind'
  BY <1>1, <1>2 DEF Behind
<1>9. Connected'
  BY <1>1, <1>2, NoneFields, AnswerFields DEF Connected
<1>10. GoneWasTaken(posting)' /\ GoneWasTaken(late)'
  BY <1>1, <1>2, NoneFields DEF GoneWasTaken, Sent
<1>11. NothingLost'
  BY <1>1, <1>2 DEF NothingLost, Beyond
<1>12. TurnsOnce'
  BY <1>1, <1>2 DEF TurnsOnce
<1>13. QED
  BY <1>4, <1>6, <1>7, <1>8, <1>9, <1>10, <1>11, <1>12 DEF EventsInv

LEMMA StartKept ==
  ASSUME EventsInv, Start
  PROVE  EventsInv'
<1>1. /\ Typed /\ InMemory /\ Behind /\ Connected /\ NothingLost /\ TurnsOnce
      /\ GoneWasTaken(posting) /\ GoneWasTaken(late)
  BY DEF EventsInv
<1>2. last = LastOf(file, acked)
  BY <1>1, LastIs DEF EventsInv, Ordered, Records
<1>3. /\ up = "down" /\ up' = "starting" /\ last' = last /\ pending' = pending
      /\ cutOff' = {t \in Turns : turn[t] = "open"} /\ running' = running
      /\ hello' = hello /\ posting' = posting /\ late' = late
      /\ made' = made /\ file' = file /\ acked' = acked
      /\ turn' = turn /\ home' = home /\ backup' = backup /\ excused' = excused
  BY <1>1, <1>2 DEF Start, net, InMemory
<1>4. Quieter
  BY <1>3 DEF Quieter, Records
<1>5. /\ Ordered' /\ TakenInOrder(home)' /\ TakenInOrder(backup)' /\ BackedUp'
      /\ RunsOnce(home)' /\ RunsOnce(backup)' /\ IsFiniteSet(Records)'
  BY <1>4, QuieterKeeps
<1>6. Typed'
  BY <1>1, <1>3, <1>5 DEF Typed
<1>7. InMemory'
  BY <1>1, <1>3 DEF InMemory, Beyond
<1>8. Behind'
  BY <1>1, <1>3 DEF Behind
<1>9. Connected'
  BY <1>1, <1>3 DEF Connected, Sent
<1>10. GoneWasTaken(posting)' /\ GoneWasTaken(late)'
  BY <1>1, <1>3 DEF GoneWasTaken, Sent
<1>11. NothingLost'
  BY <1>1, <1>3 DEF NothingLost, Beyond
<1>12. TurnsOnce'
  BY <1>1, <1>3 DEF TurnsOnce
<1>13. QED
  BY <1>5, <1>6, <1>7, <1>8, <1>9, <1>10, <1>11, <1>12 DEF EventsInv

LEMMA StartTurnKept ==
  ASSUME EventsInv, NEW t \in Turns, StartTurn(t)
  PROVE  EventsInv'
<1>1. /\ Typed /\ InMemory /\ Behind /\ Connected /\ NothingLost /\ TurnsOnce
      /\ GoneWasTaken(posting) /\ GoneWasTaken(late)
  BY DEF EventsInv
<1>2. /\ up = "ready" /\ turn[t] = "none" /\ turn' = [turn EXCEPT ![t] = "open"]
      /\ running' = running \cup {t} /\ up' = up /\ cutOff' = cutOff
      /\ hello' = hello /\ posting' = posting /\ late' = late
      /\ made' = made /\ file' = file /\ acked' = acked /\ last' = last /\ pending' = pending
      /\ home' = home /\ backup' = backup /\ excused' = excused
  BY DEF StartTurn, net, journal
<1>3. Quieter
  BY <1>2 DEF Quieter, Records
<1>4. /\ Ordered' /\ TakenInOrder(home)' /\ TakenInOrder(backup)' /\ BackedUp'
      /\ RunsOnce(home)' /\ RunsOnce(backup)' /\ IsFiniteSet(Records)'
  BY <1>3, QuieterKeeps
<1>5. Typed'
  BY <1>1, <1>2, <1>4 DEF Typed
<1>6. InMemory' /\ NothingLost'
  BY <1>1, <1>2 DEF InMemory, Beyond, NothingLost
<1>7. Behind' /\ Connected'
  BY <1>1, <1>2 DEF Behind, Connected, Sent
<1>8. GoneWasTaken(posting)' /\ GoneWasTaken(late)'
  BY <1>1, <1>2 DEF GoneWasTaken, Sent
<1>9. TurnsOnce'
  <2>1. \A s \in Turns : turn'[s] = IF s = t THEN "open" ELSE turn[s]
    BY <1>1, <1>2 DEF Typed
  <2>2. \A s \in cutOff : s # t
    BY <1>1, <1>2 DEF TurnsOnce
  <2>3. \A e \in 1..Len(made) : made[e].turn # t
    BY <1>1, <1>2 DEF TurnsOnce
  <2>4. \A e \in 1..Len(made) : made[e] # Result(t, FALSE)
    BY <2>3 DEF Result
  <2>5. QED
    BY <1>1, <1>2, <2>1, <2>2, <2>3, <2>4 DEF TurnsOnce, Typed
<1>10. QED
  BY <1>4, <1>5, <1>6, <1>7, <1>8, <1>9 DEF EventsInv

----------------------------------------------------------------------------
(* An event is journaled *)

LEMMA AppendKeeps ==
  ASSUME EventsInv, NEW what \in Events, append(what), up = "ready",
         home' = home, backup' = backup, excused' = excused,
         Carried(posting)' \cup Carried(late)' \subseteq Carried(posting) \cup Carried(late),
         \A t \in Turns : what = Result(t, TRUE) => t \in running
  PROVE  /\ Ordered' /\ TakenInOrder(home)' /\ TakenInOrder(backup)' /\ BackedUp'
         /\ RunsOnce(home)' /\ RunsOnce(backup)' /\ IsFiniteSet(Records)'
         /\ InMemory' /\ NothingLost' /\ acked' = acked /\ last' \in Nat /\ last' = last + 1
         /\ made' \in Seq(Events) /\ file' \in SUBSET OnFile /\ home.acked <= last'
         /\ \A p \in SentPosts : GoneWasTaken(p) => GoneWasTaken(p)'
         /\ Len(made') = Len(made) + 1 /\ made'[Len(made) + 1] = what
         /\ \A e \in 1..Len(made) : made'[e] = made[e]
<1>1. Typed /\ InMemory /\ Ordered /\ Behind /\ NothingLost /\ TurnsOnce
  BY DEF EventsInv
<1>2. Len(made) \in Nat /\ acked \in Nat /\ last \in Nat /\ home \in Homes /\ backup \in Homes
  BY <1>1, LenProperties DEF Typed
<1>3. PICK r : r = [pos |-> last + 1, id |-> Len(made) + 1]
  OBVIOUS
<1>4. r \in OnFile /\ r.pos = last + 1 /\ r.id = Len(made) + 1
  BY <1>2, <1>3 DEF OnFile
<1>5. /\ made' = Append(made, what) /\ file' = file \cup {r} /\ pending' = pending \cup {r}
      /\ last' = last + 1 /\ acked' = acked
  BY <1>3, <1>4 DEF append
<1>6. /\ made' \in Seq(Events) /\ Len(made') = Len(made) + 1 /\ made'[Len(made) + 1] = what
      /\ \A e \in 1..Len(made) : made'[e] = made[e]
  BY <1>1, <1>5, AppendProperties DEF Typed
<1> DEFINE n == Len(made)
<1>7. Records' \in SUBSET (Records \cup {r})
  BY <1>5 DEF Records
<1>8. \A s \in Records : /\ s.pos \in Nat /\ s.id \in Nat /\ s.pos <= last /\ s.id <= Len(made)
  BY <1>1, RecordsTyped DEF Ordered
<1>9. Ordered'
  BY <1>1, <1>2, <1>4, <1>5, <1>6, <1>7, <1>8 DEF Ordered
<1>10. IsFiniteSet(Records)'
  <2>1. IsFiniteSet(Records \cup {r})
    BY <1>1, FS_AddElement DEF Typed
  <2>2. QED
    BY <1>7, <2>1, FS_Subset
<1>11. ASSUME NEW h, TakenInOrder(h) PROVE TakenInOrder(h)'
  <2>1. SUFFICES ASSUME NEW e \in ToSet(h.taken), NEW s \in Records \cup {r}, s.pos > h.acked
                 PROVE  e \in 1..Len(made) + 1 /\ e < s.id
    BY <1>2, <1>6, <1>7, <1>11 DEF TakenInOrder
  <2>2. e \in 1..Len(made)
    BY <1>11 DEF TakenInOrder
  <2>3. QED
    BY <1>2, <1>4, <1>11, <2>1, <2>2 DEF TakenInOrder
<1>12. TakenInOrder(home)' /\ TakenInOrder(backup)'
  BY <1>11 DEF EventsInv, TakenInOrder
<1>13. BackedUp'
  BY DEF EventsInv, BackedUp
<1>14. ASSUME NEW h, RunsOnce(h), \A e \in ToSet(h.taken) : e \in 1..Len(made) PROVE RunsOnce(h)'
  <2>1. SUFFICES ASSUME NEW t \in Turns
                 PROVE  /\ h.run[t] = "failed" =>
                            /\ \E f \in 1..Len(made) + 1 : made'[f] = Result(t, FALSE)
                            /\ \A e \in 1..Len(made) + 1 : made'[e] = Result(t, TRUE) => e \in excused
                        /\ \A e \in ToSet(h.taken) : made'[e].turn = t => h.run[t] # "open"
    BY <1>6 DEF RunsOnce
  <2>2. ASSUME h.run[t] = "failed"
        PROVE  /\ \E f \in 1..Len(made) + 1 : made'[f] = Result(t, FALSE)
               /\ \A e \in 1..Len(made) + 1 : made'[e] = Result(t, TRUE) => e \in excused
    <3>1. PICK f \in 1..Len(made) : made[f] = Result(t, FALSE)
      BY <1>14, <2>2 DEF RunsOnce
    <3>2. t \notin running
      BY <1>1, <3>1 DEF TurnsOnce
    <3>3. f \in 1..Len(made) + 1
      BY <1>2
    <3>3a. made'[f] = Result(t, FALSE)
      BY <1>6, <3>1
    <3>4. ASSUME NEW e \in 1..Len(made) + 1, made'[e] = Result(t, TRUE) PROVE e \in excused
      <4>1. e # Len(made) + 1
        BY <1>6, <3>2, <3>4
      <4>2. e \in 1..Len(made)
        BY <1>2, <4>1
      <4>3. made[e] = Result(t, TRUE)
        BY <1>6, <3>4, <4>2
      <4>4. QED
        BY <1>14, <2>2, <4>2, <4>3 DEF RunsOnce
    <3>5. QED
      BY <3>3, <3>3a, <3>4
  <2>3. \A e \in ToSet(h.taken) : made'[e].turn = t => h.run[t] # "open"
    BY <1>6, <1>14 DEF RunsOnce
  <2>4. QED
    BY <2>2, <2>3
<1>15. RunsOnce(home)' /\ RunsOnce(backup)'
  <2>1. RunsOnce(home) /\ RunsOnce(backup)
    BY DEF EventsInv
  <2>2. /\ \A e \in ToSet(home.taken) : e \in 1..Len(made)
        /\ \A e \in ToSet(backup.taken) : e \in 1..Len(made)
    BY DEF EventsInv, TakenInOrder
  <2>3. QED
    BY <1>14, <2>1, <2>2 DEF RunsOnce
<1>16. InMemory'
  BY <1>1, <1>2, <1>4, <1>5 DEF InMemory, Beyond
<1>17. home.acked <= last /\ home.acked <= last'
  BY <1>1, <1>2, <1>5, HomeFields DEF Behind
<1>18. NothingLost'
  <2>1. SUFFICES ASSUME NEW e \in 1..Len(made) + 1
                 PROVE  \/ e \in ToSet(home.taken) \cup excused
                        \/ \E s \in file' : s.pos > acked /\ s.id = e /\ s.pos > home.acked
    BY <1>5, <1>6 DEF NothingLost, Beyond
  <2>2. CASE e = Len(made) + 1
    <3>1. r \in file' /\ r.pos > acked /\ r.id = e /\ r.pos > home.acked
      BY <1>1, <1>2, <1>4, <1>5, <1>17, <2>2, HomeFields DEF InMemory
    <3>2. QED
      BY <3>1
  <2>3. CASE e # Len(made) + 1
    <3>1. e \in 1..Len(made)
      BY <1>2, <2>3
    <3>2. QED
      BY <1>1, <1>5, <3>1 DEF NothingLost, Beyond
  <2>4. QED
    BY <2>2, <2>3
<1>19. ASSUME NEW p \in SentPosts, GoneWasTaken(p) PROVE GoneWasTaken(p)'
  <2>1. Sent(p) /\ p.gone \in Nat
    BY SentFields
  <2>2. p.gone <= last /\ \A s \in file : s.pos <= p.gone => s.id \in ToSet(home.taken) \cup excused
    BY <1>19, <2>1 DEF GoneWasTaken
  <2>3. ~(r.pos <= p.gone) /\ p.gone <= last'
    BY <1>2, <1>4, <1>5, <2>1, <2>2
  <2>4. QED
    BY <1>5, <2>2, <2>3 DEF GoneWasTaken
<1>20. file' \in SUBSET OnFile /\ last' \in Nat
  BY <1>1, <1>2, <1>4, <1>5 DEF Typed
<1>21. QED
  BY <1>5, <1>6, <1>9, <1>10, <1>12, <1>13, <1>15, <1>16, <1>17, <1>18, <1>19, <1>20

LEMMA ReportKept ==
  ASSUME EventsInv, Report
  PROVE  EventsInv'
<1>1. Typed /\ InMemory /\ Connected /\ TurnsOnce /\ GoneWasTaken(posting) /\ GoneWasTaken(late)
  BY DEF EventsInv
<1>2. /\ up = "ready" /\ append(Text)
      /\ up' = up /\ turn' = turn /\ running' = running /\ cutOff' = cutOff
      /\ hello' = hello /\ posting' = posting /\ late' = late
      /\ home' = home /\ backup' = backup /\ excused' = excused
  BY DEF Report, process, net
<1>3. Text \in Events /\ \A t \in Turns : Text.turn # t
  BY EventsAssumption DEF Events, Text
<1>4. \A t \in Turns, b \in BOOLEAN : Text # Result(t, b)
  BY <1>3 DEF Result
<1>5. /\ Ordered' /\ TakenInOrder(home)' /\ TakenInOrder(backup)' /\ BackedUp'
      /\ RunsOnce(home)' /\ RunsOnce(backup)' /\ IsFiniteSet(Records)'
      /\ InMemory' /\ NothingLost' /\ last' \in Nat /\ acked' = acked /\ last' = last + 1
      /\ made' \in Seq(Events) /\ file' \in SUBSET OnFile /\ home.acked <= last'
      /\ \A p \in SentPosts : GoneWasTaken(p) => GoneWasTaken(p)'
      /\ Len(made') = Len(made) + 1 /\ made'[Len(made) + 1] = Text
      /\ \A e \in 1..Len(made) : made'[e] = made[e]
  BY <1>2, <1>3, <1>4, AppendKeeps
<1>6. Typed'
  BY <1>1, <1>2, <1>5 DEF Typed
<1>7. Behind' /\ Connected'
  BY <1>1, <1>2, <1>5 DEF Behind, Connected, Sent
<1>8. GoneWasTaken(posting)' /\ GoneWasTaken(late)'
  BY <1>1, <1>2, <1>5, SentIsSent DEF GoneWasTaken, Sent
<1>9. TurnsOnce'
  <2>1. \A e \in 1..Len(made) + 1 : e \in 1..Len(made) \/ e = Len(made) + 1
    BY <1>1, MadeTyped
  <2>2. ASSUME NEW e \in 1..Len(made) + 1, NEW t \in Turns
        PROVE  /\ made'[e].turn = t => turn[t] # "none"
               /\ made'[e] = Result(t, FALSE) =>
                    /\ t \notin running
                    /\ \A f \in 1..Len(made) + 1 : made'[f] = Result(t, TRUE) => f < e
    BY <1>1, <1>3, <1>4, <1>5, <2>1 DEF TurnsOnce
  <2>3. QED
    BY <1>1, <1>2, <1>5, <2>2 DEF TurnsOnce
<1>10. QED
  BY <1>5, <1>6, <1>7, <1>8, <1>9 DEF EventsInv

(* A turn's result goes in, and the process may be gone right after.        *)
LEMMA ResultKept ==
  ASSUME EventsInv, up = "ready", NEW t \in Turns, NEW ok \in BOOLEAN, JournalResult(t, ok),
         IF ok THEN t \in running ELSE t \in cutOff
  PROVE  EventsInv'
<1>1. Typed /\ InMemory /\ Connected /\ TurnsOnce /\ GoneWasTaken(posting) /\ GoneWasTaken(late)
  BY DEF EventsInv
<1> DEFINE Ended == /\ turn' = [turn EXCEPT ![t] = "ended"]
                    /\ running' = running \ {t} /\ cutOff' = cutOff \ {t}
                    /\ up' = up /\ hello' = hello /\ posting' = posting /\ late' = late
           Died == /\ up' = "down" /\ running' = {} /\ cutOff' = {} /\ turn' = turn
                   /\ hello' = None /\ posting' = None
                   /\ (late' = late \/ (Sent(posting) /\ late' = posting))
<1>2. /\ append(Result(t, ok)) /\ (Ended \/ Died)
      /\ home' = home /\ backup' = backup /\ excused' = excused
  BY DEF JournalResult, AbandonPost, net, Sent
<1> HIDE DEF Ended, Died
<1>3. /\ Result(t, ok) \in Events /\ Result(t, ok).turn = t
      /\ \A s \in Turns, b \in BOOLEAN : Result(t, ok) = Result(s, b) => s = t /\ b = ok
  <2>1. Result(t, ok) \in Events /\ Result(t, ok).turn = t /\ Result(t, ok).ok = ok
    BY DEF Events, Result
  <2>2. \A s \in Turns, b \in BOOLEAN : Result(s, b).turn = s /\ Result(s, b).ok = b
    BY DEF Result
  <2>3. QED
    BY <2>1, <2>2
<1>4. Carried(posting)' \cup Carried(late)' \subseteq Carried(posting) \cup Carried(late)
  BY <1>2, NoneFields DEF Ended, Died
<1>5. /\ Ordered' /\ TakenInOrder(home)' /\ TakenInOrder(backup)' /\ BackedUp'
      /\ RunsOnce(home)' /\ RunsOnce(backup)' /\ IsFiniteSet(Records)'
      /\ InMemory' /\ NothingLost' /\ last' \in Nat /\ acked' = acked /\ last' = last + 1
      /\ made' \in Seq(Events) /\ file' \in SUBSET OnFile /\ home.acked <= last'
      /\ \A p \in SentPosts : GoneWasTaken(p) => GoneWasTaken(p)'
      /\ Len(made') = Len(made) + 1 /\ made'[Len(made) + 1] = Result(t, ok)
      /\ \A e \in 1..Len(made) : made'[e] = made[e]
  <2>1. \A s \in Turns : Result(t, ok) = Result(s, TRUE) => s \in running
    BY <1>3
  <2>2. PICK what : what = Result(t, ok)
    OBVIOUS
  <2>3. what \in Events /\ append(what) /\ (\A s \in Turns : what = Result(s, TRUE) => s \in running)
    BY <1>2, <1>3, <2>1, <2>2, Zenon
  <2>4. QED
    BY <1>2, <1>4, <2>2, <2>3, AppendKeeps
<1>6. /\ late' \in SentPosts \cup {None} /\ posting' \in {posting, None} /\ hello' \in {hello, None}
      /\ late' \in {late, posting}
  BY <1>1, <1>2, SentIsSent DEF Typed, Ended, Died
<1>7. /\ turn' \in [Turns -> {"none", "open", "ended", "lost"}]
      /\ running' \in SUBSET running /\ cutOff' \in SUBSET cutOff
      /\ up' \in {"down", "ready"}
      /\ \A s \in Turns : turn'[s] = turn[s] \/ (s = t /\ turn'[s] = "ended")
  BY <1>1, <1>2 DEF Typed, Ended, Died
<1>8. t \notin running' /\ t \notin cutOff'
  BY <1>2 DEF Ended, Died
<1>9. Typed'
  BY <1>1, <1>2, <1>5, <1>6, <1>7 DEF Typed
<1>10. Behind'
  BY <1>2, <1>5 DEF Behind
<1>11. Connected'
  <2>1. CASE Ended
    BY <1>1, <1>2, <1>5, <2>1 DEF Connected, Ended, Sent
  <2>2. CASE Died
    BY <1>1, <1>2, <1>5, <2>2, NoneFields, AnswerFields DEF Connected, Died
  <2>3. QED
    BY <1>2, <2>1, <2>2
<1>12. GoneWasTaken(posting)' /\ GoneWasTaken(late)'
  <2>1. \A p \in {posting, late} : GoneWasTaken(p) => GoneWasTaken(p)'
    BY <1>1, <1>5, SentIsSent DEF GoneWasTaken, Sent
  <2>2. posting' \in {posting, late, None} /\ late' \in {posting, late}
    BY <1>6
  <2>3. QED
    BY <1>1, <2>1, <2>2, NoneFields DEF GoneWasTaken, Sent
<1>13. TurnsOnce'
  <2>1. \A e \in 1..Len(made) + 1 : e \in 1..Len(made) \/ e = Len(made) + 1
    BY <1>1, MadeTyped
  <2>2. turn[t] = "open"
    BY <1>1 DEF TurnsOnce
  <2>0. /\ \A s \in running \cup cutOff : turn[s] = "open"
        /\ \A e \in 1..Len(made), s \in Turns : made[e].turn = s => turn[s] # "none"
        /\ \A e \in 1..Len(made), s \in Turns : made[e] = Result(s, FALSE) => s \notin running
    BY <1>1 DEF TurnsOnce
  <2>3. \A s \in running' \cup cutOff' : turn'[s] = "open"
    <3>1. TAKE s \in running' \cup cutOff'
    <3>2. s \in running \cup cutOff /\ s # t /\ s \in Turns
      BY <1>1, <1>7, <1>8 DEF Typed
    <3>3. QED
      BY <1>7, <2>0, <3>2
  <2>4. up' # "ready" => running' = {}
    BY <1>1, <1>2 DEF Ended, Died
  <2>5. up' = "down" => cutOff' = {}
    BY <1>1, <1>2 DEF Ended, Died
  <2>6. \A s \in Turns : turn[s] # "none" => turn'[s] # "none"
    BY <1>7
  <2>7. ASSUME NEW e \in 1..Len(made) + 1, NEW s \in Turns
        PROVE  /\ made'[e].turn = s => turn'[s] # "none"
               /\ made'[e] = Result(s, FALSE) => s \notin running'
    <3>1. CASE e \in 1..Len(made)
      BY <1>5, <1>7, <2>0, <2>6, <3>1
    <3>2. CASE e = Len(made) + 1
      <4>1. made'[e] = Result(t, ok) /\ made'[e].turn = t /\ turn'[t] # "none"
        BY <1>3, <1>5, <2>2, <2>6, <3>2
      <4>2. QED
        BY <1>3, <1>8, <4>1
    <3>3. QED
      BY <2>1, <3>1, <3>2
  <2>8. ASSUME NEW e \in 1..Len(made) + 1, NEW s \in Turns, made'[e] = Result(s, FALSE),
               NEW f \in 1..Len(made) + 1, made'[f] = Result(s, TRUE)
        PROVE  f < e
    <3>1. Len(made) \in Nat
      BY <1>1, MadeTyped
    <3>2. CASE e = Len(made) + 1
      <4>1. f # Len(made) + 1
        BY <1>3, <1>5, <2>8, <3>2
      <4>2. QED
        BY <2>1, <3>1, <3>2, <4>1
    <3>3. CASE e \in 1..Len(made)
      <4>1. made[e] = Result(s, FALSE)
        BY <1>5, <2>8, <3>3
      <4>2. s \notin running
        BY <1>1, <3>3, <4>1 DEF TurnsOnce
      <4>3. f # Len(made) + 1
        BY <1>3, <1>5, <2>8, <4>2
      <4>4. f \in 1..Len(made) /\ made[f] = Result(s, TRUE)
        BY <1>5, <2>1, <2>8, <4>3
      <4>5. QED
        BY <1>1, <3>3, <4>1, <4>4 DEF TurnsOnce
    <3>4. QED
      BY <2>1, <3>2, <3>3
  <2>9. QED
    BY <1>1, <1>5, <1>7, <2>3, <2>4, <2>5, <2>7, <2>8 DEF TurnsOnce
<1>14. QED
  BY <1>5, <1>9, <1>10, <1>11, <1>12, <1>13 DEF EventsInv

----------------------------------------------------------------------------
(* The stream, the poster and the faults *)

LEMMA OpenStreamKept ==
  ASSUME EventsInv, OpenStream
  PROVE  EventsInv'
<1>1. /\ Typed /\ InMemory /\ Behind /\ Connected /\ NothingLost /\ TurnsOnce
      /\ GoneWasTaken(posting) /\ GoneWasTaken(late)
  BY DEF EventsInv
<1>2. PICK a \in Nat : a = home.acked
  BY <1>1, HomeFields DEF Typed
<1>3. /\ up # "down" /\ hello' = [state |-> "sent", acked |-> a]
      /\ up' = up /\ turn' = turn /\ running' = running /\ cutOff' = cutOff
      /\ posting' = posting /\ late' = late
      /\ made' = made /\ file' = file /\ acked' = acked /\ last' = last /\ pending' = pending
      /\ home' = home /\ backup' = backup /\ excused' = excused
  BY <1>2 DEF OpenStream, journal, process
<1>4. hello' \in Hellos /\ hello'.acked = a
  BY <1>3 DEF Hellos
<1>5. Quieter
  BY <1>3 DEF Quieter, Records
<1>6. /\ Ordered' /\ TakenInOrder(home)' /\ TakenInOrder(backup)' /\ BackedUp'
      /\ RunsOnce(home)' /\ RunsOnce(backup)' /\ IsFiniteSet(Records)'
  BY <1>5, QuieterKeeps
<1>7. Typed'
  BY <1>1, <1>3, <1>4, <1>6 DEF Typed
<1>8. InMemory' /\ NothingLost'
  BY <1>1, <1>3 DEF InMemory, Beyond, NothingLost
<1>9. Behind' /\ Connected'
  BY <1>1, <1>2, <1>3, <1>4 DEF Behind, Connected, Sent
<1>10. GoneWasTaken(posting)' /\ GoneWasTaken(late)'
  BY <1>1, <1>3 DEF GoneWasTaken, Sent
<1>11. TurnsOnce'
  BY <1>1, <1>3 DEF TurnsOnce
<1>12. QED
  BY <1>6, <1>7, <1>8, <1>9, <1>10, <1>11 DEF EventsInv

LEMMA ReceiveHelloKept ==
  ASSUME EventsInv, ReceiveHello
  PROVE  EventsInv'
<1>1. /\ Typed /\ InMemory /\ Behind /\ Connected /\ NothingLost /\ TurnsOnce
      /\ GoneWasTaken(posting) /\ GoneWasTaken(late)
  BY DEF EventsInv
<1>2. /\ hello # None /\ rebase(hello.acked) /\ hello' = None /\ up' = "ready"
      /\ turn' = turn /\ running' = running /\ cutOff' = cutOff
      /\ posting' = posting /\ late' = late
      /\ made' = made /\ file' = file /\ pending' = pending
      /\ home' = home /\ backup' = backup /\ excused' = excused
  BY DEF ReceiveHello, rebase
<1>3. /\ hello.acked \in Nat /\ hello.acked <= home.acked
      /\ acked \in Nat /\ last \in Nat /\ home.acked \in Nat
  BY <1>1, <1>2, HelloFields, HomeFields DEF Typed, Connected
<1>4. /\ TurnsOnce' /\ (Connected' <=> /\ posting \in Answers => acked' <= posting.acked /\ posting.acked <= home.acked
                                       /\ Sent(posting) => acked' <= posting.gone)
  BY <1>1, <1>2 DEF TurnsOnce, Connected, Sent
<1>5. CASE hello.acked > last
  <2>1. /\ file = {} /\ posting = None /\ late = None /\ hello.acked = home.acked
    BY <1>1, <1>2, <1>3, <1>5 DEF Behind
  <2>2. last' = home.acked /\ acked' = home.acked
    BY <1>2, <1>5, <2>1 DEF rebase
  <2>3. Records = {} /\ Records' = {}
    BY <1>2, <2>1, NoneFields DEF Records
  <2>4. Ordered'
    BY <2>3 DEF Ordered
  <2>5. TakenInOrder(home)' /\ TakenInOrder(backup)' /\ BackedUp'
    BY <1>2, <2>3 DEF EventsInv, TakenInOrder, BackedUp
  <2>6. RunsOnce(home)' /\ RunsOnce(backup)'
    BY <1>2 DEF EventsInv, RunsOnce
  <2>7. Typed'
    BY <1>1, <1>2, <1>3, <2>2, <2>3 DEF Typed
  <2>8. InMemory' /\ NothingLost' /\ Behind'
    BY <1>1, <1>2, <1>3, <2>1, <2>2 DEF InMemory, Beyond, NothingLost, Behind
  <2>9. Connected'
    BY <1>4, <2>1, AnswerFields, NoneFields
  <2>10. GoneWasTaken(posting)' /\ GoneWasTaken(late)'
    BY <1>2, <2>1, NoneFields DEF GoneWasTaken, Sent
  <2>11. QED
    BY <1>4, <2>4, <2>5, <2>6, <2>7, <2>8, <2>9, <2>10 DEF EventsInv
<1>6. CASE ~(hello.acked > last)
  <2>1. last' = last /\ acked' = acked
    BY <1>2, <1>6 DEF rebase
  <2>2. Quieter
    BY <1>2, <2>1 DEF Quieter, Records
  <2>3. /\ Ordered' /\ TakenInOrder(home)' /\ TakenInOrder(backup)' /\ BackedUp'
        /\ RunsOnce(home)' /\ RunsOnce(backup)' /\ IsFiniteSet(Records)'
    BY <2>2, QuieterKeeps
  <2>4. Typed'
    BY <1>1, <1>2, <2>1, <2>3 DEF Typed
  <2>5. InMemory' /\ NothingLost'
    BY <1>1, <1>2, <2>1 DEF InMemory, Beyond, NothingLost
  <2>6. Behind'
    BY <1>1, <1>2, <1>3, <1>6, <2>1 DEF Behind
  <2>7. Connected'
    BY <1>1, <1>4, <2>1 DEF Connected
  <2>8. GoneWasTaken(posting)' /\ GoneWasTaken(late)'
    BY <1>1, <1>2, <2>1 DEF GoneWasTaken, Sent
  <2>9. QED
    BY <1>4, <2>3, <2>4, <2>5, <2>6, <2>7, <2>8 DEF EventsInv
<1>7. QED
  BY <1>5, <1>6

(* A record the journal no longer has pending was taken, or it is excused.  *)
LEMMA AckedWasTaken ==
  ASSUME EventsInv, NEW r \in file, r.pos <= acked
  PROVE  r.id \in ToSet(home.taken) \cup excused
<1>1. Typed /\ Ordered /\ NothingLost /\ r \in Records /\ file \subseteq Records
  BY DEF EventsInv, Records
<1>2. r.id \in 1..Len(made)
  BY <1>1, RecordsTyped, MadeTyped DEF Ordered
<1>3. ASSUME NEW s \in Beyond(file, acked), s.id = r.id PROVE FALSE
  <2>1. s \in Records /\ s.pos > acked
    BY <1>1, <1>3 DEF Beyond
  <2>2. r.pos < s.pos
    BY <1>1, <2>1, RecordsTyped DEF Typed
  <2>3. r.id < s.id
    BY <1>1, <2>1, <2>2 DEF Ordered
  <2>4. QED
    BY <1>1, <1>3, <2>1, <2>3, RecordsTyped
<1>4. QED
  BY <1>1, <1>2, <1>3 DEF NothingLost

LEMMA PostKept ==
  ASSUME EventsInv, Post
  PROVE  EventsInv'
<1>1. /\ Typed /\ InMemory /\ Ordered /\ Behind /\ Connected /\ NothingLost /\ TurnsOnce
      /\ GoneWasTaken(posting) /\ GoneWasTaken(late)
  BY DEF EventsInv
<1>2. PICK first : first = Min({r.pos : r \in pending})
  OBVIOUS
<1>3. PICK batch : batch = {r \in pending : Cardinality({q \in pending : q.pos < r.pos}) < Batch}
  OBVIOUS
<1>4. /\ up # "down" /\ posting = None /\ pending # {}
      /\ posting' = [state |-> "sent", batch |-> batch, gone |-> first - 1]
      /\ up' = up /\ turn' = turn /\ running' = running /\ cutOff' = cutOff
      /\ hello' = hello /\ late' = late
      /\ made' = made /\ file' = file /\ acked' = acked /\ last' = last /\ pending' = pending
      /\ home' = home /\ backup' = backup /\ excused' = excused
  BY <1>2, <1>3 DEF Post, journal, process
<1>5. /\ pending \subseteq file /\ batch \subseteq pending /\ file \subseteq OnFile
      /\ \A r \in pending : r.pos > acked /\ r.pos <= last /\ r.pos \in Nat \ {0}
      /\ acked \in Nat /\ last \in Nat
  BY <1>1, <1>3, RecordsTyped DEF Typed, InMemory, Beyond, Ordered, Records
<1>6. /\ first \in Nat \ {0} /\ first > acked /\ first <= last
      /\ \A r \in pending : first <= r.pos
  <2>1. {r.pos : r \in pending} \in SUBSET Nat /\ {r.pos : r \in pending} # {}
    BY <1>4, <1>5
  <2>2. first \in {r.pos : r \in pending} /\ \A y \in {r.pos : r \in pending} : first <= y
    BY <1>2, <2>1, MinOfNaturals
  <2>3. QED
    BY <1>5, <2>2
<1>7. /\ posting' \in SentPosts /\ posting' # None /\ Sent(posting)' /\ posting' \notin Answers
      /\ Carried(posting)' = batch /\ posting'.gone = first - 1
  <2>1. PICK p : p = posting'
    OBVIOUS
  <2>2. PICK b \in SUBSET OnFile, g \in Nat : b = batch /\ g = first - 1
    BY <1>5, <1>6
  <2>3. p = [state |-> "sent", batch |-> b, gone |-> g]
    BY <1>4, <2>1, <2>2
  <2>4. p \in SentPosts
    <3>1. \E c \in SUBSET OnFile, h \in Nat : p = [state |-> "sent", batch |-> c, gone |-> h]
      BY <2>2, <2>3
    <3>2. QED
      BY <3>1 DEF SentPosts
  <2>5. p.batch = batch /\ p.gone = first - 1
    BY <2>2, <2>3
  <2>6. QED
    BY <2>1, <2>4, <2>5, SentFields DEF Sent, Carried
<1>8. Quieter
  BY <1>4, <1>5, <1>7 DEF Quieter, Records, Carried, Sent
<1>9. /\ Ordered' /\ TakenInOrder(home)' /\ TakenInOrder(backup)' /\ BackedUp'
      /\ RunsOnce(home)' /\ RunsOnce(backup)' /\ IsFiniteSet(Records)'
  BY <1>8, QuieterKeeps
<1>10. Typed'
  BY <1>1, <1>4, <1>7, <1>9 DEF Typed
<1>11. InMemory' /\ NothingLost' /\ TurnsOnce'
  BY <1>1, <1>4 DEF InMemory, Beyond, NothingLost, TurnsOnce
<1>12. Behind'
  BY <1>1, <1>4, <1>5 DEF Behind
<1>13. Connected'
  BY <1>1, <1>4, <1>5, <1>6, <1>7 DEF Connected
<1>14. GoneWasTaken(late)'
  BY <1>1, <1>4 DEF GoneWasTaken, Sent
<1>15. GoneWasTaken(posting)'
  <2>1. ASSUME NEW r \in file, r.pos <= first - 1 PROVE r.id \in ToSet(home.taken) \cup excused
    <3>1. r \notin pending
      BY <1>5, <1>6, <2>1
    <3>2. r.pos <= acked
      BY <1>1, <1>5, <3>1, FileFields DEF InMemory, Beyond
    <3>3. QED
      BY <3>2, AckedWasTaken
  <2>2. QED
    BY <1>4, <1>5, <1>6, <1>7, <2>1 DEF GoneWasTaken
<1>16. QED
  BY <1>9, <1>10, <1>11, <1>12, <1>13, <1>14, <1>15 DEF EventsInv

LEMMA ReceiveAnswerKept ==
  ASSUME EventsInv, ReceiveAnswer
  PROVE  EventsInv'
<1>1. /\ Typed /\ InMemory /\ Behind /\ Connected /\ NothingLost /\ TurnsOnce
      /\ GoneWasTaken(posting) /\ GoneWasTaken(late)
  BY DEF EventsInv
<1>2. /\ posting # None /\ posting.state = "answered" /\ ack(posting.acked) /\ posting' = None
      /\ up' = up /\ turn' = turn /\ running' = running /\ cutOff' = cutOff
      /\ hello' = hello /\ late' = late /\ made' = made /\ last' = last
      /\ home' = home /\ backup' = backup /\ excused' = excused
  BY DEF ReceiveAnswer, process
<1>3. posting \in Answers
  BY <1>1, <1>2, SentFields DEF Typed, Sent
<1>4. /\ posting.acked \in Nat /\ acked <= posting.acked /\ posting.acked <= home.acked
      /\ acked \in Nat /\ last \in Nat /\ home.acked \in Nat /\ home.acked <= last
  BY <1>1, <1>2, <1>3, AnswerFields, HomeFields DEF Typed, Connected, Behind
<1>5. /\ acked' \in Nat /\ acked <= acked' /\ acked' <= home.acked
      /\ pending' = Beyond(pending, acked') /\ file' \in {file, pending'}
  <2>1. CASE posting.acked = acked
    BY <1>1, <1>2, <1>4, <2>1, FileFields DEF ack, Beyond, InMemory
  <2>2. CASE posting.acked > acked
    <3>1. /\ acked' = Min({posting.acked, last}) /\ pending' = Beyond(pending, acked')
          /\ file' = Compacted(pending')
      BY <1>2, <1>4, <2>2 DEF ack
    <3>2. acked' = posting.acked
      BY <1>4, <3>1, MinOfTwo
    <3>3. QED
      BY <1>4, <3>1, <3>2 DEF Compacted
  <2>3. QED
    BY <1>4, <2>1, <2>2
<1>6. pending' = Beyond(file, acked') /\ pending' \subseteq file /\ pending' = Beyond(file', acked')
  BY <1>1, <1>4, <1>5, FileFields DEF InMemory, Beyond, Typed
<1>7. Quieter
  BY <1>2, <1>5, <1>6, NoneFields DEF Quieter, Records
<1>8. /\ Ordered' /\ TakenInOrder(home)' /\ TakenInOrder(backup)' /\ BackedUp'
      /\ RunsOnce(home)' /\ RunsOnce(backup)' /\ IsFiniteSet(Records)'
      /\ \A p : GoneWasTaken(p) => GoneWasTaken(p)'
  BY <1>7, QuieterKeeps
<1>9. Typed'
  BY <1>1, <1>2, <1>5, <1>6, <1>8 DEF Typed
<1>10. InMemory'
  <2>1. last = acked' \/ \E r \in file' : r.pos = last
    BY <1>1, <1>4, <1>5, <1>6 DEF InMemory, Beyond
  <2>2. QED
    BY <1>2, <1>4, <1>5, <1>6, <2>1 DEF InMemory
<1>11. NothingLost'
  <2>1. \A r \in Beyond(file, acked) : r.pos > home.acked => r \in pending'
    BY <1>1, <1>4, <1>5, <1>6, FileFields DEF Beyond, Typed
  <2>2. QED
    BY <1>1, <1>2, <1>6, <2>1 DEF NothingLost
<1>12. Behind'
  BY <1>2, <1>4 DEF Behind
<1>13. Connected'
  BY <1>1, <1>2, NoneFields, AnswerFields DEF Connected
<1>14. GoneWasTaken(posting)' /\ GoneWasTaken(late)'
  BY <1>1, <1>2, <1>8, NoneFields DEF GoneWasTaken, Sent
<1>15. TurnsOnce'
  BY <1>1, <1>2 DEF TurnsOnce
<1>16. QED
  BY <1>8, <1>9, <1>10, <1>11, <1>12, <1>13, <1>14, <1>15 DEF EventsInv

LEMMA ClearKept ==
  ASSUME EventsInv, Clear
  PROVE  EventsInv'
<1>1. /\ Typed /\ InMemory /\ Behind /\ Connected /\ NothingLost /\ TurnsOnce
      /\ GoneWasTaken(posting) /\ GoneWasTaken(late)
  BY DEF EventsInv
<1>2. /\ up = "down" /\ late = None /\ file' = {} /\ acked' = 0 /\ last' = 0 /\ pending' = {}
      /\ turn' = [t \in Turns |-> IF turn[t] = "open" THEN "lost" ELSE turn[t]]
      /\ excused' = excused \cup ({r.id : r \in file} \ ToSet(home.taken))
      /\ up' = up /\ running' = running /\ cutOff' = cutOff
      /\ hello' = hello /\ posting' = posting /\ late' = late
      /\ made' = made /\ home' = home /\ backup' = backup
  BY DEF Clear, net
<1>3. posting = None /\ hello = None /\ running = {} /\ cutOff = {}
  BY <1>1, <1>2 DEF Connected, TurnsOnce
<1>4. Records' = {}
  BY <1>2, <1>3, NoneFields DEF Records
<1>5. Ordered' /\ TakenInOrder(home)' /\ TakenInOrder(backup)' /\ BackedUp'
  BY <1>2, <1>4 DEF EventsInv, Ordered, TakenInOrder, BackedUp
<1>6. RunsOnce(home)' /\ RunsOnce(backup)'
  BY <1>2 DEF EventsInv, RunsOnce
<1>7. Typed'
  BY <1>1, <1>2, <1>3, <1>4, FS_EmptySet DEF Typed
<1>8. InMemory'
  BY <1>2 DEF InMemory, Beyond
<1>9. NothingLost'
  BY <1>1, <1>2 DEF NothingLost, Beyond
<1>10. Behind' /\ Connected'
  BY <1>2, <1>3, NoneFields, AnswerFields DEF Behind, Connected
<1>11. GoneWasTaken(posting)' /\ GoneWasTaken(late)'
  BY <1>2, <1>3, NoneFields DEF GoneWasTaken, Sent
<1>12. TurnsOnce'
  BY <1>1, <1>2, <1>3 DEF TurnsOnce
<1>13. QED
  BY <1>5, <1>6, <1>7, <1>8, <1>9, <1>10, <1>11, <1>12 DEF EventsInv

LEMMA HomeBackupKept ==
  ASSUME EventsInv, HomeBackup
  PROVE  EventsInv'
<1>1. /\ Typed /\ InMemory /\ Ordered /\ Behind /\ Connected /\ NothingLost /\ TurnsOnce
      /\ GoneWasTaken(posting) /\ GoneWasTaken(late) /\ TakenInOrder(home) /\ RunsOnce(home)
  BY DEF EventsInv
<1>2. /\ backup' = home /\ home' = home /\ excused' = excused
      /\ up' = up /\ turn' = turn /\ running' = running /\ cutOff' = cutOff
      /\ hello' = hello /\ posting' = posting /\ late' = late
      /\ made' = made /\ file' = file /\ acked' = acked /\ last' = last /\ pending' = pending
  BY DEF HomeBackup, net, journal, process
<1>3. Records' = Records
  BY <1>2 DEF Records
<1>4. Typed' /\ InMemory' /\ Ordered'
  BY <1>1, <1>2, <1>3 DEF Typed, InMemory, Beyond, Ordered
<1>5. Behind' /\ Connected' /\ NothingLost' /\ TurnsOnce'
  BY <1>1, <1>2 DEF Behind, Connected, NothingLost, Beyond, TurnsOnce, Sent
<1>6. GoneWasTaken(posting)' /\ GoneWasTaken(late)'
  BY <1>1, <1>2 DEF GoneWasTaken, Sent
<1>7. TakenInOrder(home)' /\ TakenInOrder(backup)' /\ RunsOnce(home)' /\ RunsOnce(backup)'
  BY <1>1, <1>2, <1>3 DEF TakenInOrder, RunsOnce
<1>8. BackedUp'
  BY <1>1, <1>2, HomeFields, LenProperties DEF Typed, BackedUp
<1>9. QED
  BY <1>4, <1>5, <1>6, <1>7, <1>8 DEF EventsInv

LEMMA HomeRestoreKept ==
  ASSUME EventsInv, HomeRestore
  PROVE  EventsInv'
<1>1. /\ Typed /\ InMemory /\ Ordered /\ Behind /\ Connected /\ NothingLost /\ TurnsOnce
      /\ BackedUp /\ TakenInOrder(backup) /\ RunsOnce(backup)
  BY DEF EventsInv
<1>2. /\ home' = backup /\ backup' = backup
      /\ excused' = excused \cup (ToSet(home.taken) \ ToSet(backup.taken))
      /\ up' = up /\ turn' = turn /\ running' = running /\ cutOff' = cutOff
      /\ hello' = None /\ posting' = None /\ late' = None
      /\ made' = made /\ file' = file /\ acked' = acked /\ last' = last /\ pending' = pending
  BY DEF HomeRestore, journal, process
<1>3. /\ home.acked \in Nat /\ backup.acked \in Nat /\ last \in Nat /\ backup.acked <= home.acked
  BY <1>1, HomeFields DEF Typed, BackedUp
<1>4. Records' = file
  BY <1>2, NoneFields DEF Records
<1>5. Records' \subseteq Records /\ IsFiniteSet(Records)'
  BY <1>1, <1>4, FS_Subset DEF Records, Typed
<1>6. Typed'
  BY <1>1, <1>2, <1>5 DEF Typed
<1>7. InMemory' /\ Ordered'
  BY <1>1, <1>2, <1>5 DEF InMemory, Beyond, Ordered
<1>8. Behind'
  BY <1>1, <1>2, <1>3 DEF Behind
<1>9. Connected'
  BY <1>1, <1>2, NoneFields, AnswerFields DEF Connected
<1>10. NothingLost'
  <2>1. \A r \in Beyond(file, acked) : r.pos > home.acked => r.pos > backup.acked
    BY <1>1, <1>3, FileFields DEF Beyond, Typed
  <2>2. QED
    BY <1>1, <1>2, <2>1 DEF NothingLost, Beyond
<1>11. TurnsOnce'
  BY <1>1, <1>2 DEF TurnsOnce
<1>12. GoneWasTaken(posting)' /\ GoneWasTaken(late)'
  BY <1>2, NoneFields DEF GoneWasTaken, Sent
<1>13. TakenInOrder(home)' /\ TakenInOrder(backup)'
  BY <1>1, <1>2, <1>5 DEF TakenInOrder
<1>14. RunsOnce(home)' /\ RunsOnce(backup)'
  BY <1>1, <1>2 DEF RunsOnce
<1>15. BackedUp'
  BY <1>1, <1>2, HomeFields, LenProperties DEF Typed, BackedUp
<1>16. QED
  BY <1>6, <1>7, <1>8, <1>9, <1>10, <1>11, <1>12, <1>13, <1>14, <1>15 DEF EventsInv

LEMMA QuietKept == EventsInv /\ UNCHANGED vars => EventsInv'
<1>1. SUFFICES ASSUME EventsInv, UNCHANGED vars PROVE EventsInv'
  OBVIOUS
<1>2. /\ up' = up /\ turn' = turn /\ running' = running /\ cutOff' = cutOff
      /\ hello' = hello /\ posting' = posting /\ late' = late
      /\ made' = made /\ file' = file /\ acked' = acked /\ last' = last /\ pending' = pending
      /\ home' = home /\ backup' = backup /\ excused' = excused
  BY <1>1 DEF vars, journal, process, net
<1>3. Records' = Records
  BY <1>2 DEF Records
<1>4. Typed' /\ InMemory' /\ Ordered'
  BY <1>1, <1>2, <1>3 DEF EventsInv, Typed, InMemory, Beyond, Ordered
<1>5. Behind' /\ Connected' /\ NothingLost' /\ TurnsOnce' /\ BackedUp'
  BY <1>1, <1>2 DEF EventsInv, Behind, Connected, NothingLost, Beyond, TurnsOnce, Sent, BackedUp
<1>6. GoneWasTaken(posting)' /\ GoneWasTaken(late)'
  BY <1>1, <1>2 DEF EventsInv, GoneWasTaken, Sent
<1>7. TakenInOrder(home)' /\ TakenInOrder(backup)' /\ RunsOnce(home)' /\ RunsOnce(backup)'
  BY <1>1, <1>2, <1>3 DEF EventsInv, TakenInOrder, RunsOnce
<1>8. QED
  BY <1>4, <1>5, <1>6, <1>7 DEF EventsInv

----------------------------------------------------------------------------
(* The home takes what follows its position *)

LEMMA BatchInSequence ==
  ASSUME NEW batch \in SUBSET OnFile, IsFiniteSet(batch), NEW from \in Nat,
         \A r, s \in batch : r.pos = s.pos => r = s
  PROVE  /\ Cardinality(InSequence(batch, from)) \in Nat
         /\ \A k \in 1..Cardinality(InSequence(batch, from)) : \E r \in batch : r.pos = from + k
<1> DEFINE S == InSequence(batch, from)
           P == {r.pos : r \in S}
           place == [r \in S |-> r.pos]
<1>1. S \subseteq batch /\ \A r \in S : r.pos \in Nat /\ r.pos > from
  BY FileFields DEF InSequence, Beyond
<1>2. IsFiniteSet(S)
  BY <1>1, FS_Subset
<1>3. place \in Bijection(S, P)
  BY <1>1 DEF Bijection, Injection, Surjection, IsInjective
<1>4. IsFiniteSet(P) /\ Cardinality(P) = Cardinality(S)
  BY <1>2, <1>3, FS_Bijection DEF ExistsBijection
<1>5. \A p \in P : \A q \in from + 1..p : q \in P
  <2>1. SUFFICES ASSUME NEW r \in S, NEW q \in from + 1..r.pos PROVE q \in P
    OBVIOUS
  <2>2. PICK s \in batch : s.pos = q
    BY <2>1 DEF InSequence
  <2>3. s.pos > from /\ \A p \in from + 1..s.pos : p \in from + 1..r.pos
    BY <1>1, <2>1, <2>2
  <2>4. s \in S
    BY <2>1, <2>3 DEF InSequence, Beyond
  <2>5. QED
    BY <2>2, <2>4
<1>6. P \in SUBSET Nat /\ \A p \in P : p > from
  BY <1>1
<1> HIDE DEF S, P
<1>7. \A k \in 1..Cardinality(P) : from + k \in P
  BY <1>4, <1>5, <1>6, NoGaps
<1>8. \A k \in 1..Cardinality(S) : \E r \in batch : r.pos = from + k
  BY <1>1, <1>4, <1>7 DEF P
<1>9. Cardinality(S) \in Nat
  BY <1>2, FS_CardinalityType
<1>10. QED
  BY <1>8, <1>9 DEF S

(* What the home takes of a post: the next events of it, from where the     *)
(* home is or where the journal begins.                                     *)
Takes(p, n, from, next) ==
  /\ Taking(p, n) = [acked |-> from + n, taken |-> home.taken \o next,
                     run |-> Finished(home.run, ToSet(next))]
  /\ home.acked <= from /\ p.gone <= from /\ (from = home.acked \/ from = p.gone)
  /\ from + n <= last
  /\ next \in Seq(Nat \ {0}) /\ Len(next) = n
  /\ \A k \in 1..n : \E r \in p.batch : r.pos = from + k /\ next[k] = r.id

LEMMA FreshTyped ==
  ASSUME EventsInv, NEW p \in {posting, late}, Sent(p)
  PROVE  /\ Fresh(p) \in Nat
         /\ \A k \in 1..Fresh(p) : \E r \in p.batch : r.pos = Max({home.acked, p.gone}) + k
<1>1. Typed /\ Ordered
  BY DEF EventsInv
<1>2. p.batch \in SUBSET OnFile /\ p.batch \subseteq Records /\ p.gone \in Nat /\ home.acked \in Nat
  BY <1>1, SentIsSent, SentFields, HomeFields DEF Typed, Records
<1>3. home.acked \in Int /\ p.gone \in Int
  BY <1>2
<1>4. Max({home.acked, p.gone}) \in Nat
  BY <1>2, <1>3, MaxOfTwo
<1>5. IsFiniteSet(p.batch) /\ \A r, s \in p.batch : r.pos = s.pos => r = s
  BY <1>1, <1>2, FS_Subset DEF Typed, Ordered
<1>6. QED
  BY <1>2, <1>4, <1>5, BatchInSequence DEF Fresh

LEMMA TakesNext ==
  ASSUME EventsInv, NEW p \in {posting, late}, Sent(p), NEW n \in 0..Fresh(p)
  PROVE  \E from \in Nat : \E next : Takes(p, n, from, next)
<1>1. Typed /\ Ordered /\ Behind /\ GoneWasTaken(p)
  BY DEF EventsInv
<1>2. /\ p.batch \in SUBSET OnFile /\ p.batch \subseteq Records /\ p.gone \in Nat
      /\ home.acked \in Nat /\ last \in Nat
  BY <1>1, SentIsSent, SentFields, HomeFields DEF Typed, Records
<1>3. home.acked <= last /\ p.gone <= last
  BY <1>1, NoneFields DEF Behind, GoneWasTaken
<1>4. /\ Max({home.acked, p.gone}) \in Nat
      /\ Max({home.acked, p.gone}) = IF home.acked >= p.gone THEN home.acked ELSE p.gone
  <2>1. home.acked \in Int /\ p.gone \in Int
    BY <1>2
  <2>2. Max({home.acked, p.gone}) = IF home.acked >= p.gone THEN home.acked ELSE p.gone
    BY <2>1, MaxOfTwo
  <2>3. QED
    BY <1>2, <2>2
<1>5. PICK from \in Nat : from = Max({home.acked, p.gone})
  BY <1>4
<1>6. /\ home.acked <= from /\ p.gone <= from /\ (from = home.acked \/ from = p.gone)
      /\ from <= last
  BY <1>2, <1>3, <1>4, <1>5
<1>7. /\ Fresh(p) \in Nat
      /\ \A k \in 1..Fresh(p) : \E r \in p.batch : r.pos = from + k
  BY <1>5, FreshTyped
<1>8. n \in Nat /\ \A k \in 1..n : \E r \in p.batch : r.pos = from + k
  BY <1>7
<1> DEFINE next == [k \in 1..n |-> (CHOOSE r \in p.batch : r.pos = from + k).id]
<1>9. \A k \in 1..n : \E r \in p.batch : r.pos = from + k /\ next[k] = r.id
  BY <1>8
<1>10. \A k \in 1..n : next[k] \in Nat \ {0}
  BY <1>2, <1>9, FileFields
<1>11. next \in Seq(Nat \ {0}) /\ Len(next) = n
  BY <1>8, <1>10, SeqDef, LenProperties
<1>12. from + n <= last
  <2>1. CASE n = 0
    BY <1>6, <2>1
  <2>2. CASE n # 0
    <3>1. PICK r \in p.batch : r.pos = from + n
      BY <1>8, <2>2
    <3>2. QED
      BY <1>1, <1>2, <3>1 DEF Ordered
  <2>3. QED
    BY <2>1, <2>2
<1>13. Taking(p, n) = [acked |-> from + n, taken |-> home.taken \o next,
                       run |-> Finished(home.run, ToSet(next))]
  BY <1>5 DEF Taking
<1> HIDE DEF next
<1>14. Takes(p, n, from, next)
  BY <1>6, <1>9, <1>11, <1>12, <1>13 DEF Takes
<1>15. QED
  BY <1>14

(* out finishes the open runs of the turns whose results are among ids, each *)
(* as the first of its results says.                                        *)
Finishes(run, ids, out) ==
  /\ out \in [Turns -> {"open", "completed", "failed"}]
  /\ \A t \in Turns : run[t] # "open" => out[t] = run[t]
  /\ \A t \in Turns : (run[t] = "open" /\ \A i \in ids : made[i].turn # t) => out[t] = "open"
  /\ \A t \in Turns : (run[t] = "open" /\ \E i \in ids : made[i].turn = t) =>
       \E f \in ids : /\ made[f].turn = t
                      /\ \A i \in ids : made[i].turn = t => f <= i
                      /\ out[t] = IF made[f].ok THEN "completed" ELSE "failed"

LEMMA FinishedIs ==
  ASSUME Typed, NEW ids \in SUBSET (1..Len(made)),
         NEW run \in [Turns -> {"open", "completed", "failed"}]
  PROVE  Finishes(run, ids, Finished(run, ids))
<1> DEFINE results(t) == {i \in ids : made[i].turn = t}
<1>1. Finished(run, ids) = [t \in Turns |->
         IF run[t] # "open" \/ results(t) = {} THEN run[t]
         ELSE IF made[Min(results(t))].ok THEN "completed" ELSE "failed"]
  BY DEF Finished
<1>2. \A t \in Turns : results(t) # {} =>
         /\ Min(results(t)) \in ids /\ made[Min(results(t))].turn = t
         /\ \A i \in ids : made[i].turn = t => Min(results(t)) <= i
  <2>1. SUFFICES ASSUME NEW t \in Turns, results(t) # {}
                 PROVE  Min(results(t)) \in results(t) /\ \A i \in results(t) : Min(results(t)) <= i
    OBVIOUS
  <2>2. results(t) \in SUBSET Nat
    <3>1. Len(made) \in Nat
      BY MadeTyped
    <3>2. 1..Len(made) \subseteq Nat
      BY <3>1
    <3>3. QED
      BY <3>2
  <2>3. QED
    BY <2>1, <2>2, MinOfNaturals
<1>3. \A t \in Turns : Finished(run, ids)[t] =
         IF run[t] # "open" \/ results(t) = {} THEN run[t]
         ELSE IF made[Min(results(t))].ok THEN "completed" ELSE "failed"
  BY <1>1
<1>4. Finished(run, ids) \in [Turns -> {"open", "completed", "failed"}]
  BY <1>1
<1>5. ASSUME NEW t \in Turns, run[t] = "open", \E i \in ids : made[i].turn = t
      PROVE  \E f \in ids : /\ made[f].turn = t
                            /\ \A i \in ids : made[i].turn = t => f <= i
                            /\ Finished(run, ids)[t] = IF made[f].ok THEN "completed" ELSE "failed"
  <2>1. results(t) # {}
    BY <1>5
  <2>2. PICK f \in ids : f = Min(results(t))
    BY <1>2, <2>1
  <2>3. QED
    BY <1>2, <1>3, <1>5, <2>1, <2>2
<1>6. ASSUME NEW t \in Turns, run[t] = "open", \A i \in ids : made[i].turn # t
      PROVE  Finished(run, ids)[t] = "open"
  BY <1>3, <1>6
<1>7. QED
  BY <1>3, <1>4, <1>5, <1>6 DEF Finishes

(* The home moves on with what a post on its way brings.                    *)
Taken(p) ==
  /\ p \in {posting, late} /\ Sent(p)
  /\ \E n \in 0..Fresh(p) : home' = Taking(p, n)
  /\ posting' \in {posting, None} \cup Answers /\ late' \in {late, None}
  /\ posting = None => posting' = None
  /\ hello' = hello /\ backup' = backup /\ excused' = excused
  /\ made' = made /\ file' = file /\ acked' = acked /\ last' = last /\ pending' = pending
  /\ up' = up /\ turn' = turn /\ running' = running /\ cutOff' = cutOff

LEMMA TakenKeeps ==
  ASSUME EventsInv, NEW p, Taken(p)
  PROVE  /\ Connected' <=> (posting' \in Answers => acked <= posting'.acked /\ posting'.acked <= home'.acked)
         /\ home.acked <= home'.acked /\ p.gone <= home'.acked
         /\ Typed' /\ InMemory' /\ Ordered' /\ Behind'
         /\ GoneWasTaken(posting)' /\ GoneWasTaken(late)'
         /\ NothingLost' /\ TakenInOrder(home)' /\ TakenInOrder(backup)' /\ BackedUp'
         /\ TurnsOnce' /\ RunsOnce(home)' /\ RunsOnce(backup)'
<1>1. /\ Typed /\ InMemory /\ Ordered /\ Behind /\ Connected /\ NothingLost /\ TurnsOnce
      /\ GoneWasTaken(posting) /\ GoneWasTaken(late) /\ GoneWasTaken(p)
      /\ TakenInOrder(home) /\ TakenInOrder(backup) /\ BackedUp /\ RunsOnce(home) /\ RunsOnce(backup)
  BY DEF EventsInv, Taken
<1>2. /\ posting' \in {posting, None} \cup Answers /\ late' \in {late, None}
      /\ hello' = hello /\ backup' = backup /\ excused' = excused
      /\ made' = made /\ file' = file /\ acked' = acked /\ last' = last /\ pending' = pending
      /\ up' = up /\ turn' = turn /\ running' = running /\ cutOff' = cutOff
      /\ p \in {posting, late} /\ Sent(p) /\ (posting = None => posting' = None)
  BY DEF Taken
<1>3. PICK n \in 0..Fresh(p) : home' = Taking(p, n)
  BY DEF Taken
<1>31. PICK from \in Nat : \E next : Takes(p, n, from, next)
  BY <1>2, TakesNext
<1>4. PICK next : Takes(p, n, from, next)
  BY <1>31
<1> DEFINE ids == ToSet(next)
           fin == Finished(home.run, ids)
<1>5. /\ p.batch \subseteq Records /\ p.gone \in Nat /\ home.acked \in Nat /\ last \in Nat /\ acked \in Nat
      /\ home.taken \in Seq(Nat \ {0}) /\ home.run \in [Turns -> {"open", "completed", "failed"}]
  BY <1>1, <1>2, SentIsSent, SentFields, HomeFields DEF Typed, Records
<1>6. /\ home.acked <= from /\ p.gone <= from /\ (from = home.acked \/ from = p.gone)
      /\ from + n <= last /\ next \in Seq(Nat \ {0}) /\ Len(next) = n /\ n \in Nat
      /\ \A k \in 1..n : \E r \in p.batch : r.pos = from + k /\ next[k] = r.id
      /\ home' = [acked |-> from + n, taken |-> home.taken \o next, run |-> fin]
  BY <1>3, <1>4, LenProperties DEF Takes
<1>7. home'.acked = from + n /\ home'.taken = home.taken \o next /\ home'.run = fin
  BY <1>6
<1> HIDE DEF fin
<1>8. \A e \in ids : \E r \in p.batch : r.pos > from /\ r.pos <= from + n /\ r.id = e
  <2>1. TAKE e \in ids
  <2>2. PICK k \in 1..n : next[k] = e
    BY <1>6, LenProperties DEF ToSet
  <2>3. PICK r \in p.batch : r.pos = from + k /\ next[k] = r.id
    BY <1>6
  <2>4. r.pos \in Nat
    BY <1>1, <1>5, RecordsTyped
  <2>5. k \in Nat \ {0} /\ k <= n
    BY <1>6
  <2>6. r.pos > from /\ r.pos <= from + n
    BY <1>6, <2>3, <2>4, <2>5
  <2>7. QED
    BY <2>2, <2>3, <2>6
<1>9. ASSUME NEW r \in Records, r.pos > from, r.pos <= from + n PROVE r.id \in ids
  <2>1. PICK k \in 1..n : r.pos = from + k
    <3>1. r.pos - from \in 1..n /\ r.pos = from + (r.pos - from)
      BY <1>1, <1>6, <1>9, RecordsTyped
    <3>2. QED
      BY <3>1
  <2>2. PICK s \in p.batch : s.pos = from + k /\ next[k] = s.id
    BY <1>6
  <2>3. s = r
    BY <1>1, <1>5, <2>1, <2>2 DEF Ordered
  <2>4. k \in DOMAIN next
    BY <1>6, LenProperties
  <2>5. QED
    BY <2>2, <2>3, <2>4 DEF ToSet
<1>10. ToSet(home'.taken) = ToSet(home.taken) \cup ids
  <2>1. PICK s \in Seq(Nat \ {0}) : s = home.taken
    BY <1>5
  <2>2. ToSet(s \o next) = ToSet(s) \cup ToSet(next)
    BY <1>6, ToSetOfConcat
  <2>3. QED
    BY <1>7, <2>1, <2>2
<1>11. ids \in SUBSET (1..Len(made))
  BY <1>1, <1>5, <1>8, RecordsTyped, MadeTyped DEF Ordered
<1> HIDE DEF ids
<1>11a. Finishes(home.run, ids, fin)
  BY <1>1, <1>5, <1>11, FinishedIs DEF fin
<1>12. Records' \subseteq Records /\ IsFiniteSet(Records)'
  <2>1. Records' \subseteq Records
    BY <1>2, NoneFields, AnswerFields DEF Records
  <2>2. QED
    BY <1>1, <2>1, FS_Subset DEF Typed
<1>13. home' \in Homes
  <2>1. home'.taken \in Seq(Nat \ {0})
    BY <1>5, <1>6, <1>7, ConcatProperties
  <2>2. fin \in [Turns -> {"open", "completed", "failed"}]
    BY <1>11a DEF Finishes
  <2>3. QED
    BY <1>6, <1>7, <2>1, <2>2 DEF Homes
<1>14. Typed'
  BY <1>1, <1>2, <1>12, <1>13 DEF Typed
<1>15. home.acked <= home'.acked /\ p.gone <= home'.acked
  BY <1>5, <1>6, <1>7
<1>16. InMemory' /\ Ordered' /\ Behind' /\ TurnsOnce'
  BY <1>1, <1>2, <1>6, <1>7, <1>12 DEF InMemory, Beyond, Ordered, Behind, TurnsOnce
<1>17. Connected' <=> (posting' \in Answers => acked <= posting'.acked /\ posting'.acked <= home'.acked)
  <2>1. hello' # None => hello'.acked <= home'.acked
    BY <1>1, <1>2, <1>5, <1>13, <1>15, HelloFields, HomeFields DEF Connected, Typed
  <2>2. up' = "down" => posting' = None /\ hello' = None
    BY <1>1, <1>2 DEF Connected
  <2>3. Sent(posting)' => acked' <= posting'.gone
    BY <1>1, <1>2, NoneFields, AnswerFields DEF Connected, Sent
  <2>4. QED
    BY <1>2, <2>1, <2>2, <2>3 DEF Connected
<1>18. GoneWasTaken(posting)' /\ GoneWasTaken(late)'
  BY <1>1, <1>2, <1>10, NoneFields, AnswerFields DEF GoneWasTaken, Sent
<1>19. ASSUME NEW r \in Beyond(file, acked), r.pos > home.acked, r.pos <= from + n
       PROVE  r.id \in ids \cup ToSet(home.taken) \cup excused
  <2>1. r \in Records /\ r \in file /\ r.pos \in Nat
    BY <1>1, FileFields DEF Beyond, Records, Typed
  <2>2. CASE r.pos > from
    BY <1>9, <1>19, <2>1, <2>2
  <2>3. CASE ~(r.pos > from)
    BY <1>1, <1>2, <1>5, <1>6, <1>19, <2>1, <2>3 DEF GoneWasTaken
  <2>4. QED
    BY <2>2, <2>3
<1>20. NothingLost'
  <2>1. SUFFICES ASSUME NEW e \in 1..Len(made), e \notin ToSet(home'.taken) \cup excused
                 PROVE  \E r \in Beyond(file, acked) : r.id = e /\ r.pos > home'.acked
    BY <1>2 DEF NothingLost, Beyond
  <2>2. PICK r \in Beyond(file, acked) : r.id = e /\ r.pos > home.acked
    BY <1>1, <1>10, <2>1 DEF NothingLost
  <2>3. ~(r.pos <= from + n)
    BY <1>10, <1>19, <2>1, <2>2
  <2>4. r.pos \in Nat
    BY <1>1, FileFields DEF Beyond, Typed
  <2>5. QED
    BY <1>6, <1>7, <2>2, <2>3, <2>4
<1>21. TakenInOrder(home)'
  <2>1. SUFFICES ASSUME NEW e \in ToSet(home.taken) \cup ids
                 PROVE  /\ e \in 1..Len(made)
                        /\ \A r \in Records : r.pos > from + n => e < r.id
    BY <1>2, <1>7, <1>10, <1>12 DEF TakenInOrder
  <2>2. CASE e \in ToSet(home.taken)
    <3>1. \A r \in Records : r.pos > from + n => r.pos > home.acked
      BY <1>1, <1>5, <1>6, RecordsTyped
    <3>2. QED
      BY <1>1, <2>2, <3>1 DEF TakenInOrder
  <2>3. CASE e \in ids
    <3>1. PICK s \in p.batch : s.pos > from /\ s.pos <= from + n /\ s.id = e
      BY <1>8, <2>3
    <3>2. s \in Records
      BY <1>5
    <3>3. \A r \in Records : r.pos > from + n => s.pos < r.pos
      BY <1>1, <1>6, <3>1, <3>2, RecordsTyped
    <3>4. \A r \in Records : r.pos > from + n => s.id < r.id
      BY <1>1, <3>2, <3>3 DEF Ordered
    <3>5. QED
      BY <1>11, <2>3, <3>1, <3>4
  <2>4. QED
    BY <2>2, <2>3
<1>22. TakenInOrder(backup)' /\ RunsOnce(backup)'
  BY <1>1, <1>2, <1>12 DEF TakenInOrder, RunsOnce
<1>23. BackedUp'
  <2>1. /\ Len(home'.taken) = Len(home.taken) + n /\ Len(home.taken) \in Nat
        /\ \A i \in 1..Len(home.taken) : home'.taken[i] = home.taken[i]
    <3>1. PICK s \in Seq(Nat \ {0}) : s = home.taken
      BY <1>5
    <3>2. /\ Len(s \o next) = Len(s) + Len(next) /\ Len(s) \in Nat
          /\ \A i \in 1..Len(s) + Len(next) : (s \o next)[i] = IF i <= Len(s) THEN s[i] ELSE next[i - Len(s)]
      BY <1>6, ConcatProperties, LenProperties
    <3>3. \A i \in 1..Len(s) : (s \o next)[i] = s[i]
      BY <1>6, <3>2
    <3>4. QED
      BY <1>6, <1>7, <3>1, <3>2, <3>3
  <2>2. backup.acked \in Nat /\ Len(backup.taken) \in Nat
    BY <1>1, HomeFields, LenProperties DEF Typed
  <2>3. QED
    BY <1>1, <1>2, <1>5, <1>6, <1>7, <1>15, <2>1, <2>2 DEF BackedUp
<1>24. RunsOnce(home)'
  <2>1. SUFFICES ASSUME NEW t \in Turns
                 PROVE  /\ fin[t] = "failed" =>
                             /\ \E f \in 1..Len(made) : made[f] = Result(t, FALSE)
                             /\ \A e \in 1..Len(made) : made[e] = Result(t, TRUE) => e \in excused
                        /\ \A e \in ToSet(home.taken) \cup ids : made[e].turn = t => fin[t] # "open"
    BY <1>2, <1>7, <1>10 DEF RunsOnce
  <2>2. CASE home.run[t] # "open"
    <3>1. fin[t] = home.run[t]
      BY <1>11a, <2>2 DEF Finishes
    <3>2. QED
      BY <1>1, <2>2, <3>1 DEF RunsOnce
  <2>3. CASE home.run[t] = "open" /\ \A i \in ids : made[i].turn # t
    <3>1. fin[t] = "open"
      BY <1>11a, <2>3 DEF Finishes
    <3>2. QED
      BY <1>1, <2>3, <3>1 DEF RunsOnce
  <2>4. CASE home.run[t] = "open" /\ \E i \in ids : made[i].turn = t
    <3>1. PICK f \in ids : /\ made[f].turn = t
                           /\ \A i \in ids : made[i].turn = t => f <= i
                           /\ fin[t] = IF made[f].ok THEN "completed" ELSE "failed"
      BY <1>11a, <2>4 DEF Finishes
    <3>2. f \in 1..Len(made)
      BY <1>11
    <3>3. ASSUME fin[t] = "failed" PROVE made[f] = Result(t, FALSE)
      BY <1>1, <3>1, <3>2, <3>3, MadeTyped DEF Result
    <3>4. ASSUME fin[t] = "failed", NEW e \in 1..Len(made), made[e] = Result(t, TRUE)
          PROVE  e \in excused
      <4>1. e < f
        BY <1>1, <3>2, <3>3, <3>4 DEF TurnsOnce
      <4>2. made[e].turn = t
        BY <3>4 DEF Result
      <4>3. e \notin ToSet(home.taken)
        BY <1>1, <2>4, <4>2 DEF RunsOnce
      <4>4. e \notin ids
        <5>1. Len(made) \in Nat
          BY <1>1, MadeTyped
        <5>2. ~(f <= e)
          BY <3>2, <4>1, <5>1
        <5>3. QED
          BY <3>1, <4>2, <5>2
      <4>5. ASSUME e \notin excused PROVE FALSE
        <5>1. PICK r \in Beyond(file, acked) : r.id = e /\ r.pos > home.acked
          BY <1>1, <4>3, <4>5 DEF NothingLost
        <5>2. PICK s \in p.batch : s.pos > from /\ s.pos <= from + n /\ s.id = f
          BY <1>8
        <5>3. r \in Records /\ s \in Records
          BY <1>5 DEF Beyond, Records
        <5>4. /\ r.pos \in Nat /\ s.pos \in Nat /\ r.id \in Nat /\ s.id \in Nat
          BY <1>1, <5>3, RecordsTyped
        <5>5. ~(s.pos < r.pos)
          BY <1>1, <4>1, <5>1, <5>2, <5>3, <5>4 DEF Ordered
        <5>6. r.pos <= from + n
          BY <1>6, <5>2, <5>4, <5>5
        <5>7. r.id \in ids \cup ToSet(home.taken) \cup excused
          BY <1>19, <5>1, <5>6
        <5>8. QED
          BY <4>3, <4>4, <4>5, <5>1, <5>7
      <4>6. QED
        BY <4>5
    <3>5. fin[t] # "open"
      BY <3>1
    <3>6. QED
      BY <3>2, <3>3, <3>4, <3>5
  <2>5. QED
    BY <1>5, <2>2, <2>3, <2>4
<1>25. QED
  BY <1>14, <1>15, <1>16, <1>17, <1>18, <1>20, <1>21, <1>22, <1>23, <1>24

LEMMA HandlePostTakes ==
  ASSUME EventsInv, HandlePost
  PROVE  Taken(posting) /\ posting'.acked = home'.acked
<1>1. /\ Typed /\ Connected
  BY DEF EventsInv
<1>2. /\ Sent(posting) /\ home' = Taking(posting, Fresh(posting))
      /\ posting' = [state |-> "answered", acked |-> home'.acked]
      /\ late' = late /\ hello' = hello /\ backup' = backup /\ excused' = excused
      /\ made' = made /\ file' = file /\ acked' = acked /\ last' = last /\ pending' = pending
      /\ up' = up /\ turn' = turn /\ running' = running /\ cutOff' = cutOff
  BY DEF HandlePost, journal, process, Sent
<1>3. Fresh(posting) \in 0..Fresh(posting)
  BY <1>2, FreshTyped
<1>4. home'.acked \in Nat
  <2>0. PICK from \in Nat : \E next : Takes(posting, Fresh(posting), from, next)
    BY <1>2, <1>3, TakesNext
  <2>1. PICK next : Takes(posting, Fresh(posting), from, next)
    BY <2>0
  <2>2. home'.acked = from + Fresh(posting)
    BY <1>2, <2>1 DEF Takes
  <2>3. QED
    BY <1>3, <2>2
<1>5. posting' \in Answers /\ posting'.acked = home'.acked
  BY <1>2, <1>4 DEF Answers
<1>6. Taken(posting)
  BY <1>2, <1>3, <1>5 DEF Taken, Sent
<1>7. QED
  BY <1>5, <1>6

LEMMA HandlePostKept ==
  ASSUME EventsInv, HandlePost
  PROVE  EventsInv'
<1>1. Typed /\ Connected /\ Taken(posting) /\ posting'.acked = home'.acked /\ Sent(posting)
  BY HandlePostTakes DEF EventsInv, Taken
<1>2. /\ Connected' <=> (posting' \in Answers => acked <= posting'.acked /\ posting'.acked <= home'.acked)
      /\ home.acked <= home'.acked /\ posting.gone <= home'.acked
      /\ Typed' /\ InMemory' /\ Ordered' /\ Behind'
      /\ GoneWasTaken(posting)' /\ GoneWasTaken(late)'
      /\ NothingLost' /\ TakenInOrder(home)' /\ TakenInOrder(backup)' /\ BackedUp'
      /\ TurnsOnce' /\ RunsOnce(home)' /\ RunsOnce(backup)'
  BY <1>1, TakenKeeps
<1>3. home'.acked \in Nat
  BY <1>2, HomeFields DEF Typed
<1>4. acked <= home'.acked
  <2>1. acked <= posting.gone /\ posting.gone \in Nat /\ acked \in Nat
    BY <1>1, SentIsSent, SentFields DEF Connected, Typed
  <2>2. QED
    BY <1>2, <1>3, <2>1
<1>5. QED
  BY <1>1, <1>2, <1>3, <1>4 DEF EventsInv

LEMMA FailPostTakes ==
  ASSUME FailPost
  PROVE  Taken(posting)
<1>1. Sent(posting) /\ \E n \in 0..Fresh(posting) : home' = Taking(posting, n)
  BY DEF FailPost, Sent
<1>2. QED
  BY <1>1 DEF FailPost, Taken, journal, process

LEMMA FailPostKept ==
  ASSUME EventsInv, FailPost
  PROVE  EventsInv'
<1>1. Taken(posting) /\ posting' = None
  BY FailPostTakes DEF FailPost
<1>2. posting' \notin Answers
  BY <1>1, AnswerFields
<1>3. QED
  BY <1>1, <1>2, TakenKeeps DEF EventsInv

LEMMA HandleLateTakes ==
  ASSUME EventsInv, HandleLate
  PROVE  Taken(late) \/ home' = home
<1>1. Sent(late)
  BY SentFields DEF EventsInv, Typed, HandleLate
<1>2. QED
  BY <1>1 DEF HandleLate, Taken, journal, process

LEMMA HandleLateKept ==
  ASSUME EventsInv, HandleLate
  PROVE  EventsInv'
<1>1. /\ Typed /\ InMemory /\ Behind /\ Connected /\ NothingLost /\ TurnsOnce
      /\ GoneWasTaken(posting) /\ GoneWasTaken(late)
  BY DEF EventsInv
<1>2. /\ late # None /\ late' = None /\ posting' = posting
      /\ (Taken(late) \/ home' = home)
      /\ hello' = hello /\ backup' = backup /\ excused' = excused
      /\ made' = made /\ file' = file /\ acked' = acked /\ last' = last /\ pending' = pending
      /\ up' = up /\ turn' = turn /\ running' = running /\ cutOff' = cutOff
  BY HandleLateTakes DEF HandleLate, journal, process
<1>4. CASE Taken(late)
  <2>2. /\ Connected' <=> (posting' \in Answers => acked <= posting'.acked /\ posting'.acked <= home'.acked)
        /\ home.acked <= home'.acked
        /\ Typed' /\ InMemory' /\ Ordered' /\ Behind'
        /\ GoneWasTaken(posting)' /\ GoneWasTaken(late)'
        /\ NothingLost' /\ TakenInOrder(home)' /\ TakenInOrder(backup)' /\ BackedUp'
        /\ TurnsOnce' /\ RunsOnce(home)' /\ RunsOnce(backup)'
    BY <1>4, TakenKeeps
  <2>3. home.acked \in Nat /\ home'.acked \in Nat
    BY <1>1, <2>2, HomeFields DEF Typed
  <2>4. posting \in Answers => posting.acked \in Nat
    BY AnswerFields
  <2>5. Connected'
    BY <1>1, <1>2, <2>2, <2>3, <2>4 DEF Connected
  <2>6. QED
    BY <2>2, <2>5 DEF EventsInv
<1>5. CASE home' = home
  <2>1. Quieter
    BY <1>2, <1>5, NoneFields DEF Quieter, Records
  <2>2. /\ Ordered' /\ TakenInOrder(home)' /\ TakenInOrder(backup)' /\ BackedUp'
        /\ RunsOnce(home)' /\ RunsOnce(backup)' /\ IsFiniteSet(Records)'
    BY <2>1, QuieterKeeps
  <2>3. Typed'
    BY <1>1, <1>2, <1>5, <2>2 DEF Typed
  <2>4. InMemory' /\ NothingLost' /\ TurnsOnce'
    BY <1>1, <1>2, <1>5 DEF InMemory, Beyond, NothingLost, TurnsOnce
  <2>5. Behind' /\ Connected'
    BY <1>1, <1>2, <1>5 DEF Behind, Connected, Sent
  <2>6. GoneWasTaken(posting)' /\ GoneWasTaken(late)'
    BY <1>1, <1>2, <1>5, NoneFields DEF GoneWasTaken, Sent
  <2>7. QED
    BY <2>2, <2>3, <2>4, <2>5, <2>6 DEF EventsInv
<1>6. QED
  BY <1>2, <1>4, <1>5

----------------------------------------------------------------------------
(* The theorems *)

LEMMA EventsStart == Init => EventsInv
<1>1. SUFFICES ASSUME Init PROVE EventsInv
  OBVIOUS
<1>2. /\ made = <<>> /\ file = {} /\ acked = 0 /\ last = 0 /\ pending = {}
      /\ up = "starting" /\ turn = [t \in Turns |-> "none"] /\ running = {} /\ cutOff = {}
      /\ hello = None /\ posting = None /\ late = None
      /\ home = [acked |-> 0, taken |-> <<>>, run |-> [t \in Turns |-> "open"]] /\ backup = home
  BY <1>1 DEF Init
<1>3. /\ home.acked = 0 /\ home.taken = <<>> /\ home.run = [t \in Turns |-> "open"]
  BY <1>2
<1>4. /\ Len(made) = 0 /\ Len(home.taken) = 0 /\ ToSet(home.taken) = {} /\ Records = {}
      /\ <<>> \in Seq(Nat \ {0}) /\ <<>> \in Seq(Events)
  BY <1>2, <1>3, EmptySeq, NoneFields DEF Records, ToSet
<1>5. home \in Homes
  BY <1>2, <1>4 DEF Homes
<1>6. Typed
  BY <1>2, <1>4, <1>5, FS_EmptySet DEF Typed
<1>7. InMemory /\ Ordered
  BY <1>2, <1>4 DEF InMemory, Beyond, Ordered
<1>8. Behind /\ Connected
  BY <1>2, <1>3, NoneFields, AnswerFields DEF Behind, Connected
<1>9. GoneWasTaken(posting) /\ GoneWasTaken(late)
  BY <1>2, NoneFields DEF GoneWasTaken
<1>10. 1..Len(made) = {}
  BY <1>4
<1>11. NothingLost /\ TurnsOnce
  BY <1>2, <1>10 DEF NothingLost, TurnsOnce
<1>12. TakenInOrder(home) /\ TakenInOrder(backup) /\ BackedUp
  BY <1>2, <1>3, <1>4 DEF TakenInOrder, BackedUp
<1>13. RunsOnce(home) /\ RunsOnce(backup)
  BY <1>2, <1>3, <1>4 DEF RunsOnce
<1>14. QED
  BY <1>6, <1>7, <1>8, <1>9, <1>11, <1>12, <1>13 DEF EventsInv

LEMMA EventsKept == EventsInv /\ [Next]_vars => EventsInv'
<1>1. ASSUME EventsInv, Next PROVE EventsInv'
  <2>1. CASE Crash \/ Start \/ Clear \/ Report
    BY <1>1, <2>1, CrashKept, StartKept, ClearKept, ReportKept
  <2>2. ASSUME NEW t \in Turns, StartTurn(t) \/ EndTurn(t) \/ ReportCutOff(t) PROVE EventsInv'
    <3>1. CASE StartTurn(t)
      BY <1>1, <3>1, StartTurnKept
    <3>2. CASE EndTurn(t)
      BY <1>1, <3>2, ResultKept DEF EndTurn
    <3>3. CASE ReportCutOff(t)
      BY <1>1, <3>3, ResultKept DEF ReportCutOff
    <3>4. QED
      BY <2>2, <3>1, <3>2, <3>3
  <2>3. CASE OpenStream \/ ReceiveHello \/ Post \/ GiveUpPost \/ ReceiveAnswer
    BY <1>1, <2>3, OpenStreamKept, ReceiveHelloKept, PostKept, GiveUpPostKept, ReceiveAnswerKept
  <2>4. CASE HandlePost \/ FailPost \/ HandleLate
    BY <1>1, <2>4, HandlePostKept, FailPostKept, HandleLateKept
  <2>5. CASE HomeBackup \/ HomeRestore
    BY <1>1, <2>5, HomeBackupKept, HomeRestoreKept
  <2>6. QED
    BY <1>1, <2>1, <2>2, <2>3, <2>4, <2>5 DEF Next
<1>2. QED
  BY <1>1, QuietKept

(* The inductive invariant, whatever is lost, restored or cleared.          *)
THEOREM EventsInvariant == Spec => []EventsInv
BY EventsStart, EventsKept, PTL DEF Spec

(* The types, and that a restart finds in the files what the memory holds:  *)
(* the journal's load (event-journal.ts) recomputes what append, ack and    *)
(* rebase kept.                                                             *)
THEOREM EventsTyped == Spec => []EventsTypeOK
BY EventsInvariant, InvTyped, PTL

(* No event is lost between the journal's compaction and the home's replay  *)
(* and gap rules, for any number of events, restores and clears.            *)
THEOREM NothingIsLost == Spec => []NothingLost
<1>1. EventsInv => NothingLost
  BY DEF EventsInv
<1>2. QED
  BY <1>1, EventsInvariant, PTL

(* A run shown as failed was cut off: no result of its turn said otherwise, *)
(* however often the turn was reported and whatever the restarts.           *)
THEOREM RunsAreTrue == Spec => []RunsTrue
<1>1. EventsInv => RunsTrue
  BY DEF EventsInv, RunsOnce, RunsTrue
<1>2. QED
  BY <1>1, EventsInvariant, PTL

----------------------------------------------------------------------------
(* The two keep the log of EventLog together *)

(* What the home takes next is in the order it was made, newer than all it  *)
(* holds, and leaves out nothing but the excused.                           *)
LEMMA TakesInOrder ==
  ASSUME EventsInv, NEW p \in {posting, late}, Sent(p), NEW n \in Nat, NEW from \in Nat, NEW next,
         Takes(p, n, from, next)
  PROVE  /\ ToSet(next) \in SUBSET (1..Len(made))
         /\ \A k, l \in 1..n : k < l => next[k] < next[l]
         /\ \A e \in ToSet(next), t \in ToSet(home.taken) : t < e
         /\ \A e \in 1..Len(made), k \in 1..n :
              e <= next[k] => e \in ToSet(home.taken) \cup ToSet(next) \cup excused
<1>1. Typed /\ Ordered /\ NothingLost /\ GoneWasTaken(p) /\ TakenInOrder(home)
  BY DEF EventsInv
<1>2. /\ p.batch \subseteq Records /\ p.gone \in Nat /\ home.acked \in Nat /\ acked \in Nat
  BY <1>1, SentIsSent, SentFields, HomeFields DEF Typed, Records
<1>3. /\ home.acked <= from /\ (from = home.acked \/ from = p.gone) /\ Len(next) = n
      /\ next \in Seq(Nat \ {0}) /\ DOMAIN next = 1..n
      /\ \A k \in 1..n : \E r \in p.batch : r.pos = from + k /\ next[k] = r.id
  BY LenProperties DEF Takes
<1>4. \A k \in 1..n : \E r \in Records : r.pos = from + k /\ next[k] = r.id
  BY <1>2, <1>3
<1>5. \A r \in Records : r.pos \in Nat /\ r.id \in Nat \ {0} /\ r.id <= Len(made)
  BY <1>1, RecordsTyped DEF Ordered
<1>6. \A k \in 1..n : next[k] \in 1..Len(made)
  BY <1>1, <1>4, <1>5, MadeTyped
<1>7. ToSet(next) \in SUBSET (1..Len(made))
  BY <1>3, <1>6 DEF ToSet
<1>8. ASSUME NEW k \in 1..n, NEW l \in 1..n, k < l PROVE next[k] < next[l]
  <2>1. PICK r \in Records : r.pos = from + k /\ next[k] = r.id
    BY <1>4
  <2>2. PICK s \in Records : s.pos = from + l /\ next[l] = s.id
    BY <1>4
  <2>3. r.pos < s.pos
    BY <1>8, <2>1, <2>2
  <2>4. QED
    BY <1>1, <2>1, <2>2, <2>3 DEF Ordered
<1>9. ASSUME NEW k \in 1..n, NEW t \in ToSet(home.taken) PROVE t < next[k]
  <2>1. PICK r \in Records : r.pos = from + k /\ next[k] = r.id
    BY <1>4
  <2>2. r.pos > home.acked
    BY <1>2, <1>3, <2>1
  <2>3. QED
    BY <1>1, <2>1, <2>2 DEF TakenInOrder
<1>10. \A e \in ToSet(next), t \in ToSet(home.taken) : t < e
  BY <1>3, <1>9 DEF ToSet
<1>11. ASSUME NEW e \in 1..Len(made), NEW k \in 1..n, e <= next[k],
              e \notin ToSet(home.taken) \cup excused
       PROVE  e \in ToSet(next)
  <2>1. PICK r \in Beyond(file, acked) : r.id = e /\ r.pos > home.acked
    BY <1>1, <1>11 DEF NothingLost
  <2>2. PICK s \in Records : s.pos = from + k /\ next[k] = s.id
    BY <1>4
  <2>3. r \in file /\ r \in Records /\ r.pos \in Nat /\ s.pos \in Nat /\ s.id \in Nat /\ e \in Nat
    BY <1>1, <1>5, <2>1, MadeTyped DEF Beyond, Records
  <2>4. ~(s.pos < r.pos)
    BY <1>1, <1>11, <2>1, <2>2, <2>3 DEF Ordered
  <2>5. r.pos > from
    BY <1>1, <1>2, <1>3, <1>11, <2>1, <2>3 DEF GoneWasTaken
  <2>6. r.pos <= from + k
    BY <2>2, <2>3, <2>4
  <2>7. PICK j \in 1..n : r.pos = from + j
    <3>1. r.pos - from \in 1..n /\ r.pos = from + (r.pos - from)
      BY <2>3, <2>5, <2>6
    <3>2. QED
      BY <3>1
  <2>8. PICK q \in Records : q.pos = from + j /\ next[j] = q.id
    BY <1>4
  <2>9. q = r
    BY <1>1, <2>3, <2>7, <2>8 DEF Ordered
  <2>10. QED
    BY <1>3, <2>1, <2>8, <2>9 DEF ToSet
<1>12. QED
  BY <1>7, <1>8, <1>10, <1>11

LEMMA TakenIsTake ==
  ASSUME EventsInv, NEW p, Taken(p)
  PROVE  [Log!Next]_(Log!logVars)
<1>1. Typed /\ p \in {posting, late} /\ Sent(p) /\ made' = made /\ excused' = excused
  BY DEF EventsInv, Taken
<1>2. PICK n \in 0..Fresh(p) : home' = Taking(p, n)
  BY DEF Taken
<1>3. n \in Nat
  BY <1>1, <1>2, FreshTyped
<1>31. PICK from \in Nat : \E next : Takes(p, n, from, next)
  BY <1>1, <1>2, TakesNext
<1>4. PICK next : Takes(p, n, from, next)
  BY <1>31
<1>5. /\ home'.taken = home.taken \o next /\ next \in Seq(Nat \ {0}) /\ Len(next) = n
      /\ DOMAIN next = 1..n
  BY <1>2, <1>4, LenProperties DEF Takes
<1>6. /\ ToSet(next) \in SUBSET (1..Len(made))
      /\ \A k, l \in 1..n : k < l => next[k] < next[l]
      /\ \A e \in ToSet(next), t \in ToSet(home.taken) : t < e
      /\ \A e \in 1..Len(made), k \in 1..n :
           e <= next[k] => e \in ToSet(home.taken) \cup ToSet(next) \cup excused
  BY <1>1, <1>3, <1>4, TakesInOrder
<1>7. home.taken \in Seq(Nat \ {0}) /\ Len(made) \in Nat
  BY <1>1, HomeFields, MadeTyped DEF Typed
<1>8. CASE n = 0
  <2>1. next = <<>>
    BY <1>5, <1>8, EmptySeq
  <2>2. home'.taken = home.taken
    BY <1>5, <1>7, <2>1, ConcatEmptySeq
  <2>3. QED
    BY <1>1, <2>2 DEF Log!logVars
<1>9. CASE n # 0
  <2>1. PICK batch : batch = ToSet(next)
    OBVIOUS
  <2>2. next[n] \in batch /\ batch \in SUBSET (1..Len(made)) /\ batch \subseteq Nat
    BY <1>3, <1>5, <1>6, <1>7, <1>9, <2>1 DEF ToSet
  <2>3. \A e \in batch : e <= next[n]
    <3>1. TAKE e \in batch
    <3>2. PICK k \in 1..n : e = next[k]
      BY <1>5, <2>1 DEF ToSet
    <3>3. CASE k = n
      BY <2>2, <3>2, <3>3
    <3>4. CASE k # n
      <4>1. k < n /\ n \in 1..n
        BY <1>3, <1>9, <3>4
      <4>2. next[k] < next[n]
        BY <1>6, <4>1
      <4>3. next[k] \in Nat /\ next[n] \in Nat
        BY <2>2, <3>2
      <4>4. QED
        BY <3>2, <4>2, <4>3
    <3>5. QED
      BY <3>3, <3>4
  <2>4. Max(batch) = next[n]
    <3>1. batch \in SUBSET Int
      BY <2>2
    <3>2. QED
      BY <2>2, <2>3, <3>1, MaxIs
  <2>5. 1..Max(batch) \subseteq ToSet(home.taken) \cup batch \cup excused
    <3>1. SUFFICES ASSUME NEW e \in 1..next[n] PROVE e \in ToSet(home.taken) \cup batch \cup excused
      BY <2>4
    <3>2. next[n] \in 1..Len(made)
      BY <2>2
    <3>3. n \in 1..n
      BY <1>3, <1>9
    <3>4. e \in 1..Len(made) /\ e <= next[n]
      BY <1>7, <3>1, <3>2
    <3>5. QED
      BY <1>6, <2>1, <3>3, <3>4
  <2>6. next = SortedBy(batch, [e \in batch |-> e])
    <3>1. next \in Seq(batch)
      <4>1. next \in [1..n -> batch]
        BY <1>5, <2>1, LenProperties DEF ToSet
      <4>2. QED
        BY <1>3, <4>1, SeqDef
    <3>2. batch \in SUBSET Nat
      BY <2>2
    <3>3. QED
      BY <1>5, <1>6, <2>1, <3>1, <3>2, AscendingIsSorted
  <2>7. home'.taken = home.taken \o SortedBy(batch, [e \in batch |-> e])
    BY <1>5, <2>6
  <2>8. batch \in (SUBSET (1..Len(made))) \ {{}}
    <3>1. batch # {}
      BY <2>2
    <3>2. QED
      BY <2>2, <3>1
  <2>9. \A e \in batch, t \in ToSet(home.taken) : t < e
    BY <1>6, <2>1
  <2>10. Log!Take
    <3>1. Log!Max(batch) = Max(batch) /\ Log!ToSet(home.taken) = ToSet(home.taken)
      BY DEF Log!Max, Max, Log!ToSet, ToSet
    <3>2. Log!SortedBy(batch, [e \in batch |-> e]) = SortedBy(batch, [e \in batch |-> e])
      BY DEF Log!SortedBy, SortedBy, Log!Cardinality, Cardinality
    <3>3. 1..Log!Max(batch) \subseteq Log!ToSet(home.taken) \cup batch \cup excused
      BY <2>5, <3>1
    <3>4. home'.taken = home.taken \o Log!SortedBy(batch, [e \in batch |-> e])
      BY <2>7, <3>2
    <3>5. \A e \in batch, t \in Log!ToSet(home.taken) : t < e
      BY <2>9, <3>1
    <3>6. Len(made)' = Len(made) /\ excused' = excused
      BY <1>1
    <3>7. QED
      BY <2>8, <3>3, <3>4, <3>5, <3>6, Zenon DEF Log!Take
  <2>11. QED
    BY <2>10 DEF Log!Next
<1>10. QED
  BY <1>8, <1>9

LEMMA JournaledIsMade ==
  ASSUME EventsInv, NEW what, append(what), home' = home, excused' = excused
  PROVE  Log!Next
<1>1. Len(made') = Len(made) + 1
  BY AppendProperties, LenProperties DEF EventsInv, Typed, append
<1>2. Log!Make
  BY <1>1 DEF Log!Make
<1>3. QED
  BY <1>2 DEF Log!Next

LEMMA ClearIsForget ==
  ASSUME EventsInv, Clear
  PROVE  Log!Next
<1>1. Typed /\ Ordered
  BY DEF EventsInv
<1>2. PICK gone : gone = {r.id : r \in file} \ ToSet(home.taken)
  OBVIOUS
<1>3. gone \in SUBSET (1..Len(made))
  BY <1>1, <1>2, RecordsTyped, MadeTyped DEF Ordered, Records
<1>4. excused' = excused \cup gone /\ made' = made /\ home' = home
  BY <1>2 DEF Clear
<1>5. Log!Forget
  BY <1>3, <1>4 DEF Log!Forget
<1>6. QED
  BY <1>5 DEF Log!Next

LEMMA RestoreIsUndo ==
  ASSUME EventsInv, HomeRestore
  PROVE  Log!Next
<1>1. home.taken \in Seq(Nat \ {0}) /\ backup.taken \in Seq(Nat \ {0}) /\ BackedUp
  BY HomeFields DEF EventsInv, Typed
<1>2. PICK s \in Seq(Nat \ {0}) : s = home.taken
  BY <1>1
<1>3. PICK b \in Seq(Nat \ {0}) : b = backup.taken
  BY <1>1
<1>4. /\ home'.taken = b /\ made' = made
      /\ excused' = excused \cup (ToSet(s) \ ToSet(b))
  BY <1>2, <1>3 DEF HomeRestore
<1>5. /\ Len(b) \in Nat /\ Len(s) \in Nat /\ Len(b) <= Len(s) /\ \A i \in 1..Len(b) : b[i] = s[i]
  BY <1>1, <1>2, <1>3, LenProperties DEF BackedUp
<1>6. b = SubSeq(s, 1, Len(b))
  <2>1. PICK u : u = SubSeq(s, 1, Len(b))
    OBVIOUS
  <2>2. /\ u \in Seq(Nat \ {0}) /\ Len(u) = Len(b) /\ \A i \in 1..Len(b) : u[i] = s[i]
    BY <1>5, <2>1, SubSeqProperties
  <2>3. QED
    BY <1>5, <2>1, <2>2, SeqEqual
<1>7. PICK n \in 0..Len(s) : n = Len(b)
  BY <1>5
<1>8. Log!Undo
  BY <1>2, <1>4, <1>6, <1>7, Zenon DEF Log!Undo, Log!ToSet, ToSet
<1>9. QED
  BY <1>8 DEF Log!Next

LEMMA LogStep == EventsInv /\ [Next]_vars => [Log!Next]_(Log!logVars)
<1>1. ASSUME made' = made, home' = home, excused' = excused PROVE [Log!Next]_(Log!logVars)
  BY <1>1 DEF Log!logVars
<1>2. ASSUME EventsInv, Next PROVE [Log!Next]_(Log!logVars)
  <2>1. CASE Crash \/ Start \/ OpenStream \/ GiveUpPost \/ ReceiveAnswer \/ HomeBackup
    BY <1>1, <2>1 DEF Crash, Start, OpenStream, GiveUpPost, ReceiveAnswer, HomeBackup
  <2>2. CASE ReceiveHello \/ Post
    BY <1>1, <2>2 DEF ReceiveHello, rebase, Post
  <2>3. CASE Clear \/ HomeRestore
    BY <1>2, <2>3, ClearIsForget, RestoreIsUndo
  <2>4. CASE Report
    BY <1>2, <2>4, JournaledIsMade DEF Report
  <2>5. ASSUME NEW t \in Turns, StartTurn(t) \/ EndTurn(t) \/ ReportCutOff(t)
        PROVE  [Log!Next]_(Log!logVars)
    <3>1. CASE StartTurn(t)
      BY <1>1, <3>1 DEF StartTurn
    <3>2. CASE EndTurn(t) \/ ReportCutOff(t)
      BY <1>2, <3>2, JournaledIsMade DEF EndTurn, ReportCutOff, JournalResult
    <3>3. QED
      BY <2>5, <3>1, <3>2
  <2>6. CASE HandlePost
    BY <1>2, <2>6, HandlePostTakes, TakenIsTake
  <2>7. CASE FailPost
    BY <1>2, <2>7, FailPostTakes, TakenIsTake
  <2>8. CASE HandleLate
    <3>1. CASE Taken(late)
      BY <1>2, <3>1, TakenIsTake
    <3>2. CASE ~Taken(late)
      BY <1>1, <1>2, <2>8, <3>2, HandleLateTakes DEF HandleLate
    <3>3. QED
      BY <3>1, <3>2
  <2>9. QED
    BY <1>2, <2>1, <2>2, <2>3, <2>4, <2>5, <2>6, <2>7, <2>8 DEF Next
<1>3. ASSUME UNCHANGED vars PROVE [Log!Next]_(Log!logVars)
  BY <1>1, <1>3 DEF vars
<1>4. QED
  BY <1>2, <1>3

LEMMA LogStart == Init => Log!Init
BY EmptySeq DEF Init, Log!Init

(* The worker's journal and the home implement EventLog: each event is      *)
(* taken at most once and in the order it was made, leaving out none but    *)
(* what a restore undid or a clearing dropped.                              *)
THEOREM EventsKeepLog == Spec => LogSpec
<1>1. QED
  BY LogStart, LogStep, EventsInvariant, PTL DEF Spec, LogSpec, Log!Spec

===============================================================================
