------------------------- MODULE CoordinationProofs -------------------------
(***************************************************************************)
(* What agents that ask each other can rely on, for any chats, requests    *)
(* and messages: a request has one run at a time, an assignment is not     *)
(* answered by the end of its turn while something is left to read, a      *)
(* person's message is not refused for what it takes along, and the        *)
(* agents' turns are shown what was sent once.                             *)
(***************************************************************************)
EXTENDS Coordination, InOrderProofs

Closed == {"completed", "failed", "cancelled"}
ReqRecords == [status : OpenStatus \cup {"none", "completed", "failed", "cancelled"},
               run : Runs \cup {None}, parent : Requests \cup {None}]
DelRecords == [status : DeliveryStatus, cont : Runs \cup {None}, by : Runs \cup {None}]
RunRecords == [status : {"none", "queued", "running", "completed", "failed"},
               inputs : SUBSET Deliveries]
Typings == [run : Runs, inputs : SUBSET Deliveries]

(* What is recorded has its type.                                           *)
RecordsTyped ==
  /\ req \in [Requests -> ReqRecords] /\ del \in [Deliveries -> DelRecords]
  /\ made \in Seq(Deliveries) /\ IsInjective(made)

(* A delivery is in the order of making from when it has a status.          *)
MadeIsRecorded == \A d \in Deliveries : (d \in ToSet(made)) <=> (del[d].status # "none")

(* A request was asked before anything else is said of it, or under it.     *)
AskedFirst == \A r \in Requests :
  /\ (req[r].status # "none" \/ req[r].run # None) => del[Asks(r)].status # "none"
  /\ req[r].parent \in Requests =>
       (req[r].status # "none" /\ del[Asks(req[r].parent)].status # "none")

(* Who asked is answered exactly when the request is over; an answer needs  *)
(* no approval.                                                             *)
AnsweredOnce == \A r \in Requests :
  /\ (del[Outcome(r)].status # "none") <=> (req[r].status \in Closed)
  /\ del[Outcome(r)].status \notin {"awaiting_approval", "denied"}

(* Only an answer that was made continues an assignment.                    *)
AnswersContinue == \A d \in Deliveries :
  del[d].cont # None => (d[1] = "outcome" /\ del[d].status # "none")

RecordsInv == RecordsTyped /\ MadeIsRecorded /\ AskedFirst /\ AnsweredOnce /\ AnswersContinue

(* The harness's turns, the send the pass waits for, what people type.      *)
TurnsTyped ==
  /\ run \in [Runs -> RunRecords]
  /\ turns \in [Chats -> Seq(Runs)]
  /\ sending \in Sends \cup {None}
  /\ typing \in [Chats -> Typings \cup {None}]
  /\ typed \in [Chats -> 0..2]
  /\ later \subseteq Deliveries /\ held \subseteq Chats /\ gone \subseteq Chats

(* A run is in one turn at most, and only while it is running.              *)
TurnsOnce ==
  /\ \A c \in Chats : IsInjective(turns[c])
  /\ \A c, e \in Chats : c # e => ToSet(turns[c]) \cap ToSet(turns[e]) = {}
  /\ \A c \in Chats : \A x \in ToSet(turns[c]) : run[x].status = "running"

IsPersons(x) == x[1] = "person"

(* The send the pass waits for is of a run of the agents, which is in a     *)
(* turn only once the harness has it.                                       *)
SendUnderWay == sending # None =>
  /\ ~IsPersons(sending.run)
  /\ sending.stage = "preparing" => run[sending.run].status = "queued"
  /\ sending.stage # "preparing" => run[sending.run].status = "running"
  /\ \A c \in Chats : sending.run \in ToSet(turns[c]) =>
       (c = sending.chat /\ sending.stage = "native")

(* What a person types next has no run yet.                                 *)
PersonsNext == \A c \in Chats :
  /\ \A n \in 1..2 : n > typed[c] => run[Person(c, n)].status = "none"
  /\ typing[c] # None => /\ typed[c] \in 1..2 /\ typing[c].run = Person(c, typed[c])
                         /\ run[typing[c].run].status = "none"

TurnsInv == TurnsTyped /\ TurnsOnce /\ SendUnderWay /\ PersonsNext

(* A request's run is one of its own, and its only one under way.           *)
ItsOwnRun == \A r \in Requests :
  /\ req[r].run # None => req[r].run \in RunsOf(r)
  /\ \A x \in RunsOf(r) : UnderWay(x) => req[r].run = x

(* How far the run is that a request is queued for, waits after or is       *)
(* worked on by.                                                            *)
RunFits == \A r \in Requests :
  /\ (req[r].status = "queued" /\ req[r].run # None) =>
       run[req[r].run].status \in {"queued", "running", "failed"}
  /\ req[r].status = "waiting" => (req[r].run # None /\ run[req[r].run].status = "completed")
  /\ req[r].status = "working" =>
       (req[r].run # None /\ run[req[r].run].status \in {"running", "failed"})

(* A request is worked on from when the pass's send is accepted.            *)
WorkedOnceAccepted == \A r \in Requests :
  /\ \A c \in Chats : (req[r].status = "queued" /\ req[r].run \in ToSet(turns[c])) =>
       (sending # None /\ sending.run = req[r].run)
  /\ (sending # None /\ req[r].run = sending.run) => req[r].status \notin {"working", "waiting"}

(* An answer that continues an assignment was read to its end, or the run   *)
(* that reads it is the assignment's, or the assignment is over.            *)
AnswersRead == \A q \in Requests :
  LET y == del[Outcome(q)].cont
      r == req[q].parent IN
  y # None => /\ r \in Requests /\ y \in RunsOf(r)
              /\ (run[y].status = "completed" \/ ~Open(r) \/ req[r].run = y)

AssignmentsInv == ItsOwnRun /\ RunFits /\ WorkedOnceAccepted /\ AnswersRead

CoordInv == RecordsInv /\ TurnsInv /\ AssignmentsInv

----------------------------------------------------------------------------
(* Names *)

LEMMA DeliveryNames ==
  /\ \A r \in Requests : /\ Asks(r) \in Deliveries /\ Outcome(r) \in Deliveries
                         /\ Asks(r)[1] = "request" /\ Asks(r)[2] = r
                         /\ Outcome(r)[1] = "outcome" /\ Outcome(r)[2] = r
  /\ \A r, q \in Requests : /\ Asks(r) = Asks(q) => r = q
                            /\ Outcome(r) = Outcome(q) => r = q
                            /\ Asks(r) # Outcome(q)
  /\ \A d \in Deliveries : /\ d[1] = "request" => (d[2] \in Requests /\ d = Asks(d[2]))
                           /\ d[1] = "outcome" => (d[2] \in Requests /\ d = Outcome(d[2]))
                           /\ d[1] \in {"request", "outcome", "message"}
<1>1. \A r \in Requests : Asks(r) \in Deliveries /\ Outcome(r) \in Deliveries
  BY DEF Deliveries
<1>2. \A r : /\ Asks(r)[1] = "request" /\ Asks(r)[2] = r
             /\ Outcome(r)[1] = "outcome" /\ Outcome(r)[2] = r
  BY DEF Asks, Outcome
<1>3. \A r, q \in Requests : /\ Asks(r) = Asks(q) => r = q
                             /\ Outcome(r) = Outcome(q) => r = q
                             /\ Asks(r) # Outcome(q)
  BY DEF Asks, Outcome
<1>4. \A x : Says(x)[1] = "message"
  BY DEF Says
<1>5. ASSUME NEW d \in Deliveries
      PROVE  /\ d[1] = "request" => (d[2] \in Requests /\ d = Asks(d[2]))
             /\ d[1] = "outcome" => (d[2] \in Requests /\ d = Outcome(d[2]))
             /\ d[1] \in {"request", "outcome", "message"}
  <2>1. CASE \E r \in Requests : d = Asks(r)
    BY <1>2, <2>1
  <2>2. CASE \E r \in Requests : d = Outcome(r)
    BY <1>2, <2>2
  <2>3. CASE \E x \in Messages : d = Says(x)
    BY <1>4, <2>3
  <2>4. QED
    BY <2>1, <2>2, <2>3 DEF Deliveries
<1>6. QED
  BY <1>1, <1>2, <1>3, <1>5

LEMMA RunNames ==
  /\ None \notin Requests /\ None \notin Runs /\ None \notin Sends
  /\ \A r \in Requests : /\ First(Asks(r)) \in RunsOf(r)
                         /\ \A x \in RunsOf(r) : x \in Runs /\ x # None /\ ~IsPersons(x)
  /\ \A r, q \in Requests : \A x : (x \in RunsOf(r) /\ x \in RunsOf(q)) => r = q
  /\ \A d \in Deliveries : /\ First(d) \in Runs /\ ~IsPersons(First(d))
                           /\ \A r \in Requests : First(d) \in RunsOf(r) => d = Asks(r)
  /\ \A r \in Requests : \A u : Resume(r, u) \in Runs => Resume(r, u) \in RunsOf(r)
  /\ \A r \in Requests : \A u \in (SUBSET {Outcome(q) : q \in Requests}) \ {{}} : Resume(r, u) \in Runs
  /\ \A c \in Chats, n \in 1..2 : Person(c, n) \in Runs /\ IsPersons(Person(c, n))
  /\ \A c, e \in Chats : \A n, k \in 1..2 : Person(c, n) = Person(e, k) => (c = e /\ n = k)
<1>1. None \notin Requests /\ None \notin Runs /\ None \notin Sends
  BY NoneAssumption
<1>2. \A d \in Deliveries : First(d) \in Runs
  BY DEF Runs
<1>3. \A d : First(d)[1] = "first" /\ First(d)[2] = d
  BY DEF First
<1>4. \A r, u : Resume(r, u)[1] = "resume" /\ Resume(r, u)[2][1] = r
  BY DEF Resume
<1>5. \A c, n : Person(c, n)[1] = "person" /\ Person(c, n)[2][1] = c /\ Person(c, n)[2][2] = n
  BY DEF Person
<1>6. \A c \in Chats, n \in 1..2 : Person(c, n) \in Runs
  BY DEF Runs
<1>7. \A r \in Requests : \A u \in (SUBSET {Outcome(q) : q \in Requests}) \ {{}} : Resume(r, u) \in Runs
  BY DEF Runs
<1>8. \A r \in Requests : \A x \in RunsOf(r) :
        \/ x = First(Asks(r))
        \/ x \in Runs /\ x[1] = "resume" /\ x[2][1] = r
  BY DEF RunsOf
<1>9. \A r \in Requests : /\ First(Asks(r)) \in RunsOf(r)
                          /\ \A x \in RunsOf(r) : x \in Runs /\ x # None /\ ~IsPersons(x)
  <2>1. ASSUME NEW r \in Requests, NEW x \in RunsOf(r)
        PROVE  x \in Runs /\ x # None /\ ~IsPersons(x)
    BY <1>1, <1>2, <1>3, <1>8, DeliveryNames DEF IsPersons
  <2>2. \A r \in Requests : First(Asks(r)) \in RunsOf(r)
    BY DEF RunsOf
  <2>3. QED
    BY <2>1, <2>2
<1>10. ASSUME NEW r \in Requests, NEW q \in Requests, NEW x, x \in RunsOf(r), x \in RunsOf(q)
       PROVE  r = q
  <2>1. CASE x = First(Asks(r))
    BY <1>3, <1>8, <1>10, <2>1, DeliveryNames
  <2>2. CASE x[1] = "resume" /\ x[2][1] = r
    BY <1>3, <1>8, <1>10, <2>2
  <2>3. QED
    BY <1>8, <1>10, <2>1, <2>2
<1>11. ASSUME NEW d \in Deliveries, NEW r \in Requests, First(d) \in RunsOf(r)
       PROVE  d = Asks(r)
  <2>1. First(d) = First(Asks(r))
    BY <1>3, <1>8, <1>11
  <2>2. QED
    BY <1>3, <2>1
<1>12. \A d \in Deliveries : ~IsPersons(First(d))
  BY <1>3 DEF IsPersons
<1>13. \A r \in Requests : \A u : Resume(r, u) \in Runs => Resume(r, u) \in RunsOf(r)
  BY <1>4 DEF RunsOf
<1>14. \A c, e \in Chats : \A n, k \in 1..2 : Person(c, n) = Person(e, k) => (c = e /\ n = k)
  BY <1>5
<1>15. \A c \in Chats, n \in 1..2 : IsPersons(Person(c, n))
  BY <1>5 DEF IsPersons
<1>16. QED
  BY <1>1, <1>2, <1>6, <1>7, <1>9, <1>10, <1>11, <1>12, <1>13, <1>14, <1>15

LEMMA RecordFields ==
  /\ \A x \in ReqRecords :
       /\ x.status \in OpenStatus \cup {"none", "completed", "failed", "cancelled"}
       /\ x.run \in Runs \cup {None} /\ x.parent \in Requests \cup {None}
       /\ \A s \in OpenStatus \cup Closed : [x EXCEPT !.status = s] \in ReqRecords
  /\ \A x \in DelRecords :
       /\ x.status \in DeliveryStatus
       /\ x.cont \in Runs \cup {None} /\ x.by \in Runs \cup {None}
       /\ \A s \in DeliveryStatus : [x EXCEPT !.status = s] \in DelRecords
       /\ \A y \in Runs : [x EXCEPT !.cont = y] \in DelRecords
       /\ \A s \in DeliveryStatus, y \in Runs : [x EXCEPT !.status = s, !.by = y] \in DelRecords
  /\ \A x \in RunRecords :
       /\ x.status \in {"none", "queued", "running", "completed", "failed"}
       /\ x.inputs \subseteq Deliveries
       /\ \A s \in {"queued", "running", "completed", "failed"} : [x EXCEPT !.status = s] \in RunRecords
  /\ \A x \in Sends : /\ x.chat \in Chats /\ x.run \in Runs /\ x.inputs \subseteq Deliveries
                      /\ x.stage \in {"preparing", "started", "native"}
                      /\ \A s \in {"preparing", "started", "native"} : [x EXCEPT !.stage = s] \in Sends
  /\ \A x \in Typings : x.run \in Runs /\ x.inputs \subseteq Deliveries
<1>1. ASSUME NEW x \in ReqRecords
      PROVE  /\ x.status \in OpenStatus \cup {"none", "completed", "failed", "cancelled"}
             /\ x.run \in Runs \cup {None} /\ x.parent \in Requests \cup {None}
             /\ \A s \in OpenStatus \cup Closed : [x EXCEPT !.status = s] \in ReqRecords
  BY DEF ReqRecords, Closed
<1>2. ASSUME NEW x \in DelRecords
      PROVE  /\ x.status \in DeliveryStatus
             /\ x.cont \in Runs \cup {None} /\ x.by \in Runs \cup {None}
             /\ \A s \in DeliveryStatus : [x EXCEPT !.status = s] \in DelRecords
             /\ \A y \in Runs : [x EXCEPT !.cont = y] \in DelRecords
             /\ \A s \in DeliveryStatus, y \in Runs : [x EXCEPT !.status = s, !.by = y] \in DelRecords
  BY DEF DelRecords
<1>3. ASSUME NEW x \in RunRecords
      PROVE  /\ x.status \in {"none", "queued", "running", "completed", "failed"}
             /\ x.inputs \subseteq Deliveries
             /\ \A s \in {"queued", "running", "completed", "failed"} : [x EXCEPT !.status = s] \in RunRecords
  BY DEF RunRecords
<1>4. ASSUME NEW x \in Sends
      PROVE  /\ x.chat \in Chats /\ x.run \in Runs /\ x.inputs \subseteq Deliveries
             /\ x.stage \in {"preparing", "started", "native"}
             /\ \A s \in {"preparing", "started", "native"} : [x EXCEPT !.stage = s] \in Sends
  BY DEF Sends
<1>5. \A x \in Typings : x.run \in Runs /\ x.inputs \subseteq Deliveries
  BY DEF Typings
<1>6. QED
  BY <1>1, <1>2, <1>3, <1>4, <1>5

----------------------------------------------------------------------------
(* The order of making *)

LEMMA OnceConcat ==
  ASSUME NEW T, NEW S, NEW R, NEW s, NEW u, Once(s, S, T), Once(u, R, T), S \cap R = {}
  PROVE  Once(s \o u, S \cup R, T)
<1> DEFINE c == s \o u
<1>1. /\ s \in Seq(T) /\ u \in Seq(T) /\ IsInjective(s) /\ IsInjective(u)
      /\ ToSet(s) = S /\ ToSet(u) = R
  BY DEF Once
<1>2. /\ Len(s) \in Nat /\ Len(u) \in Nat /\ DOMAIN s = 1..Len(s) /\ DOMAIN u = 1..Len(u)
  BY <1>1, LenProperties
<1>3. /\ c \in Seq(T) /\ Len(c) = Len(s) + Len(u)
      /\ \A i \in 1..Len(s) + Len(u) : c[i] = IF i <= Len(s) THEN s[i] ELSE u[i - Len(s)]
  BY <1>1, ConcatProperties
<1>4. DOMAIN c = 1..Len(s) + Len(u)
  BY <1>3, LenProperties
<1>5. ToSet(c) = S \cup R
  BY <1>1, ToSetOfConcat
<1>6. \A i \in 1..Len(s) : s[i] \in S
  BY <1>1, <1>2 DEF ToSet
<1>7. \A i \in 1..Len(u) : u[i] \in R
  BY <1>1, <1>2 DEF ToSet
<1>8. \A i, j \in 1..Len(s) : s[i] = s[j] => i = j
  BY <1>1, <1>2 DEF IsInjective
<1>9. \A i, j \in 1..Len(u) : u[i] = u[j] => i = j
  BY <1>1, <1>2 DEF IsInjective
<1> HIDE DEF c
<1>10. ASSUME NEW i \in DOMAIN c, NEW j \in DOMAIN c, c[i] = c[j]
       PROVE  i = j
  <2>1. i \in 1..Len(s) + Len(u) /\ j \in 1..Len(s) + Len(u)
    BY <1>4
  <2>2. CASE i <= Len(s) /\ j <= Len(s)
    BY <1>2, <1>3, <1>8, <1>10, <2>1, <2>2
  <2>3. CASE i <= Len(s) /\ ~(j <= Len(s))
    <3>1. i \in 1..Len(s) /\ j - Len(s) \in 1..Len(u)
      BY <1>2, <2>1, <2>3
    <3>2. c[i] \in S /\ c[j] \in R
      BY <1>3, <1>6, <1>7, <2>1, <2>3, <3>1
    <3>3. QED
      BY <1>10, <3>2
  <2>4. CASE ~(i <= Len(s)) /\ j <= Len(s)
    <3>1. j \in 1..Len(s) /\ i - Len(s) \in 1..Len(u)
      BY <1>2, <2>1, <2>4
    <3>2. c[j] \in S /\ c[i] \in R
      BY <1>3, <1>6, <1>7, <2>1, <2>4, <3>1
    <3>3. QED
      BY <1>10, <3>2
  <2>5. CASE ~(i <= Len(s)) /\ ~(j <= Len(s))
    <3>1. i - Len(s) \in 1..Len(u) /\ j - Len(s) \in 1..Len(u)
      BY <1>2, <2>1, <2>5
    <3>2. u[i - Len(s)] = u[j - Len(s)]
      BY <1>3, <1>10, <2>1, <2>5
    <3>3. i - Len(s) = j - Len(s)
      BY <1>9, <3>1, <3>2
    <3>4. QED
      BY <1>2, <2>1, <3>3
  <2>6. QED
    BY <2>2, <2>3, <2>4, <2>5
<1>11. IsInjective(c)
  BY <1>10 DEF IsInjective
<1>12. QED
  BY <1>3, <1>5, <1>11 DEF Once, c

LEMMA OnceOfSet ==
  ASSUME NEW T, NEW S \in SUBSET T, IsFiniteSet(S)
  PROVE  Once(SetToSeq(S), S, T)
<1> DEFINE n == Cardinality(S)
           s == SetToSeq(S)
<1>1. n \in Nat /\ ExistsBijection(1..n, S)
  BY FS_CardinalityType
<1>2. PICK f \in Bijection(1..n, S) : TRUE
  BY <1>1 DEF ExistsBijection
<1>3. f \in [1..n -> S] /\ IsInjective(f)
  BY <1>2 DEF Bijection, Injection, IsInjective
<1>4. s \in [1..n -> S] /\ IsInjective(s)
  <2>1. \E g \in [1..n -> S] : IsInjective(g)
    BY <1>3
  <2>2. s = CHOOSE g \in [1..n -> S] : IsInjective(g)
    BY DEF SetToSeq
  <2>3. QED
    BY <2>1, <2>2
<1>5. DOMAIN s = 1..n
  BY <1>4
<1> HIDE DEF s
<1>6. s \in Injection(1..n, S)
  BY <1>4, <1>5 DEF Injection, IsInjective
<1>7. IsFiniteSet(1..n) /\ Cardinality(1..n) = n
  BY <1>1, FS_Interval
<1>8. s \in Surjection(1..n, S)
  BY <1>6, <1>7, FS_Injection
<1>9. ToSet(s) = S
  BY <1>4, <1>5, <1>8 DEF Surjection, ToSet
<1>10. s \in Seq(T)
  <2>1. \A i \in 1..n : s[i] \in T
    BY <1>4
  <2>2. QED
    BY <1>1, <1>4, <1>5, <2>1, SeqDef
<1>11. QED
  BY <1>4, <1>9, <1>10 DEF Once, s

LEMMA MadeIsFinite ==
  ASSUME RecordsTyped
  PROVE  IsFiniteSet(ToSet(made))
<1>1. Len(made) \in Nat /\ DOMAIN made = 1..Len(made)
  BY LenProperties DEF RecordsTyped
<1>2. made \in [1..Len(made) -> ToSet(made)]
  BY <1>1, ElementOfSeq, LenProperties DEF ToSet, RecordsTyped
<1>3. made \in Surjection(1..Len(made), ToSet(made))
  BY <1>1, <1>2 DEF Surjection, ToSet
<1>4. QED
  BY <1>1, <1>3, FS_Interval, FS_Surjection

(* Open requests are finitely many, since each was asked.                   *)
LEMMA OpenWereAsked ==
  ASSUME RecordsInv, NEW E \in SUBSET {r \in Requests : Open(r)}
  PROVE  /\ \A r \in E : Asks(r) \in ToSet(made) /\ Outcome(r) \notin ToSet(made)
         /\ IsFiniteSet({Outcome(r) : r \in E})
<1>1. ASSUME NEW r \in E
      PROVE  Asks(r) \in ToSet(made) /\ Outcome(r) \notin ToSet(made)
  <2>1. req[r].status # "none" /\ req[r].status \notin Closed
    BY DEF Open, OpenStatus, Closed
  <2>2. del[Asks(r)].status # "none" /\ del[Outcome(r)].status = "none"
    BY <2>1 DEF RecordsInv, AskedFirst, AnsweredOnce
  <2>3. QED
    BY <2>2, DeliveryNames DEF RecordsInv, MadeIsRecorded
<1> DEFINE asks == [r \in E |-> Asks(r)]
           outs == [r \in E |-> Outcome(r)]
<1>2. asks \in Injection(E, ToSet(made))
  BY <1>1, DeliveryNames DEF Injection, IsInjective
<1>3. IsFiniteSet(ToSet(made))
  BY MadeIsFinite DEF RecordsInv
<1>4. IsFiniteSet(E)
  BY <1>2, <1>3, FS_Injection
<1>5. outs \in Surjection(E, {Outcome(r) : r \in E})
  BY DEF Surjection
<1>6. QED
  BY <1>1, <1>4, <1>5, FS_Surjection

Ending(R) == {r \in Requests : r \in R /\ Open(r)}
OutcomesOf(E) == {Outcome(r) : r \in E}

LEMMA MadeGrows ==
  ASSUME RecordsInv, NEW R
  PROVE  Once(made \o Outcomes(R), ToSet(made) \cup OutcomesOf(Ending(R)), Deliveries)
<1> DEFINE E == Ending(R)
<1>1. E \in SUBSET {r \in Requests : Open(r)}
  BY DEF Ending
<1>2. OutcomesOf(E) \in SUBSET Deliveries
  BY DeliveryNames DEF Ending, OutcomesOf
<1>3. IsFiniteSet(OutcomesOf(E)) /\ \A r \in E : Outcome(r) \notin ToSet(made)
  BY <1>1, OpenWereAsked DEF OutcomesOf
<1>4. Outcomes(R) = SetToSeq(OutcomesOf(E))
  BY DEF Outcomes, OutcomesOf, Ending
<1>5. Once(Outcomes(R), OutcomesOf(E), Deliveries)
  BY <1>2, <1>3, <1>4, OnceOfSet
<1>6. Once(made, ToSet(made), Deliveries)
  BY DEF Once, RecordsInv, RecordsTyped
<1>7. ToSet(made) \cap OutcomesOf(E) = {}
  BY <1>3 DEF OutcomesOf
<1>8. QED
  BY <1>5, <1>6, <1>7, OnceConcat

(* The delivery that was made first is one of those it is chosen from.      *)
LEMMA EarliestIsOne ==
  ASSUME RecordsTyped, NEW D \in SUBSET ToSet(made), D # {}
  PROVE  Earliest(D) \in D
<1>1. Len(made) \in Nat /\ DOMAIN made = 1..Len(made)
  BY LenProperties DEF RecordsTyped
<1> DEFINE places == {i \in 1..Len(made) : made[i] \in D}
<1>2. \A d \in D : \E i \in places : made[i] = d
  BY <1>1 DEF ToSet
<1>3. places \in SUBSET Nat /\ places # {}
  BY <1>1, <1>2
<1>4. PICK i \in places : \A j \in places : i <= j
  BY <1>3, LeastOf
<1>5. ASSUME NEW e \in D \ {made[i]}
      PROVE  \E k, j \in 1..Len(made) : k < j /\ made[k] = made[i] /\ made[j] = e
  <2>1. PICK j \in places : made[j] = e
    BY <1>2
  <2>2. j # i
    BY <2>1
  <2>3. i \in 1..Len(made) /\ j \in 1..Len(made) /\ i <= j
    BY <1>4
  <2>4. i < j
    BY <1>1, <2>2, <2>3
  <2>5. QED
    BY <2>1, <2>3, <2>4
<1>6. \E d \in D : \A e \in D \ {d} : \E k, j \in 1..Len(made) : k < j /\ made[k] = d /\ made[j] = e
  BY <1>4, <1>5
<1>7. QED
  BY <1>6 DEF Earliest

----------------------------------------------------------------------------
(* Requests that end *)

Approvals == {"awaiting_approval", "denied"}

(* dl is old, but for statuses, and for the answers to E that are made.     *)
Alike(dl, old, E) ==
  /\ dl \in [Deliveries -> DelRecords]
  /\ \A d \in Deliveries :
       /\ dl[d].cont = old[d].cont
       /\ (dl[d].status # "none") <=> (old[d].status # "none" \/ d \in OutcomesOf(E))
       /\ (d[1] = "outcome" /\ old[d].status \notin Approvals) => dl[d].status \notin Approvals

(* The requests of E end, and no other one does.                            *)
Ends(E) ==
  /\ E \subseteq Requests
  /\ req' \in [Requests -> ReqRecords]
  /\ \A r \in Requests :
       /\ req'[r].parent = req[r].parent
       /\ r \in E => (Open(r) /\ req'[r].status \in Closed /\ req'[r].run = req[r].run)
       /\ (r \notin E /\ ~Open(r)) => req'[r] = req[r]
       /\ (r \notin E /\ Open(r)) => req'[r].status \in OpenStatus
  /\ del' \in [Deliveries -> DelRecords]
  /\ \A d \in Deliveries :
       /\ (del'[d].status # "none") <=> (del[d].status # "none" \/ d \in OutcomesOf(E))
       /\ (d[1] = "outcome" /\ del[d].status \notin Approvals) => del'[d].status \notin Approvals
       /\ del'[d].cont = del[d].cont \/ (d[1] = "outcome" /\ del[d].status # "none")
  /\ Once(made', ToSet(made) \cup OutcomesOf(E), Deliveries)

(* They do, and nothing else of requests or continuations changes.          *)
Closes(E) ==
  /\ Ends(E)
  /\ \A r \in Requests : /\ req'[r].run = req[r].run
                         /\ r \notin E => req'[r] = req[r]
  /\ \A d \in Deliveries : del'[d].cont = del[d].cont

LEMMA AlikeTwice ==
  ASSUME NEW a, NEW b, NEW c, NEW E, Alike(a, b, {}), Alike(b, c, E)
  PROVE  Alike(a, c, E)
<1>1. OutcomesOf({}) = {}
  BY DEF OutcomesOf
<1>2. QED
  BY <1>1 DEF Alike

LEMMA AlikeThenMore ==
  ASSUME NEW a, NEW b, NEW c, NEW E, Alike(a, b, E), Alike(b, c, {})
  PROVE  Alike(a, c, E)
<1>1. OutcomesOf({}) = {}
  BY DEF OutcomesOf
<1>2. QED
  BY <1>1 DEF Alike

LEMMA AlikeItself ==
  ASSUME NEW dl \in [Deliveries -> DelRecords]
  PROVE  Alike(dl, dl, {})
BY DEF Alike, OutcomesOf

LEMMA GoneIsAlike ==
  ASSUME NEW dl \in [Deliveries -> DelRecords], NEW D,
         NEW status \in {"failed", "cancelled", "denied"},
         \A d \in D : status = "denied" => d[1] # "outcome"
  PROVE  Alike(Gone(dl, D, status), dl, {})
<1> DEFINE g == Gone(dl, D, status)
<1>1. \A d \in Deliveries : g[d] = IF d \in D /\ dl[d].status \in Unaccepted
                                   THEN [dl[d] EXCEPT !.status = status] ELSE dl[d]
  BY DEF Gone
<1>2. DOMAIN g = Deliveries /\ g = [d \in Deliveries |-> g[d]]
  BY DEF Gone
<1> HIDE DEF g
<1>3. status \in DeliveryStatus /\ status # "none" /\ (status \in Approvals => status = "denied")
  BY DEF DeliveryStatus, Approvals
<1>4. ASSUME NEW d \in Deliveries
      PROVE  /\ g[d] \in DelRecords
             /\ g[d].cont = dl[d].cont
             /\ (g[d].status # "none") <=> (dl[d].status # "none")
             /\ (d[1] = "outcome" /\ dl[d].status \notin Approvals) => g[d].status \notin Approvals
  <2>1. dl[d] \in DelRecords
    OBVIOUS
  <2>2. CASE d \in D /\ dl[d].status \in Unaccepted
    <3>1. g[d] = [dl[d] EXCEPT !.status = status]
      BY <1>1, <2>2
    <3>2. g[d] \in DelRecords
      BY <1>3, <2>1, <3>1 DEF DelRecords
    <3>3. g[d].status = status /\ g[d].cont = dl[d].cont
      BY <2>1, <3>1 DEF DelRecords
    <3>4. dl[d].status # "none"
      BY <2>2 DEF Unaccepted
    <3>5. QED
      BY <1>3, <2>2, <3>2, <3>3, <3>4
  <2>3. CASE ~(d \in D /\ dl[d].status \in Unaccepted)
    BY <1>1, <2>1, <2>3
  <2>4. QED
    BY <2>2, <2>3
<1>5. g \in [Deliveries -> DelRecords]
  BY <1>2, <1>4
<1>6. OutcomesOf({}) = {}
  BY DEF OutcomesOf
<1>7. QED
  BY <1>4, <1>5, <1>6 DEF Alike, g

LEMMA SettledIsAlike ==
  ASSUME NEW dl \in [Deliveries -> DelRecords], NEW R
  PROVE  Alike(Settled(dl, R), dl, Ending(R))
<1> DEFINE g == Settled(dl, R)
           ends(d, kind) == d[1] = kind /\ d[2] \in R /\ Open(d[2])
<1>1. \A d \in Deliveries :
        g[d] = IF ends(d, "outcome") THEN [dl[d] EXCEPT !.status = "queued"]
               ELSE IF ends(d, "request") /\ dl[d].status \in Unaccepted
               THEN [dl[d] EXCEPT !.status = "cancelled"] ELSE dl[d]
  BY DEF Settled
<1>2. DOMAIN g = Deliveries /\ g = [d \in Deliveries |-> g[d]]
  BY DEF Settled
<1> HIDE DEF g
<1>3. \A d \in Deliveries : (d \in OutcomesOf(Ending(R))) <=> ends(d, "outcome")
  <2>1. ASSUME NEW d \in Deliveries, d \in OutcomesOf(Ending(R))
        PROVE  ends(d, "outcome")
    BY <2>1, DeliveryNames DEF OutcomesOf, Ending
  <2>2. ASSUME NEW d \in Deliveries, ends(d, "outcome")
        PROVE  d \in OutcomesOf(Ending(R))
    BY <2>2, DeliveryNames DEF OutcomesOf, Ending
  <2>3. QED
    BY <2>1, <2>2
<1>4. {"queued", "cancelled"} \subseteq DeliveryStatus \ (Approvals \cup {"none"})
  BY DEF DeliveryStatus, Approvals
<1>5. ASSUME NEW d \in Deliveries
      PROVE  /\ g[d] \in DelRecords
             /\ g[d].cont = dl[d].cont
             /\ (g[d].status # "none") <=> (dl[d].status # "none" \/ ends(d, "outcome"))
             /\ (d[1] = "outcome" /\ dl[d].status \notin Approvals) => g[d].status \notin Approvals
  <2>1. dl[d] \in DelRecords
    OBVIOUS
  <2>2. ASSUME NEW s \in {"queued", "cancelled"}, g[d] = [dl[d] EXCEPT !.status = s]
        PROVE  g[d] \in DelRecords /\ g[d].status = s /\ g[d].cont = dl[d].cont
    <3>1. g[d] \in DelRecords
      BY <1>4, <2>1, <2>2 DEF DelRecords
    <3>2. QED
      BY <2>1, <2>2, <3>1 DEF DelRecords
  <2>3. CASE ends(d, "outcome")
    BY <1>1, <1>4, <2>2, <2>3
  <2>4. CASE ~ends(d, "outcome") /\ ends(d, "request") /\ dl[d].status \in Unaccepted
    <3>1. dl[d].status # "none"
      BY <2>4 DEF Unaccepted
    <3>2. QED
      BY <1>1, <1>4, <2>2, <2>4, <3>1
  <2>5. CASE ~ends(d, "outcome") /\ ~(ends(d, "request") /\ dl[d].status \in Unaccepted)
    BY <1>1, <2>1, <2>5
  <2>6. QED
    BY <2>3, <2>4, <2>5
<1>6. g \in [Deliveries -> DelRecords]
  BY <1>2, <1>5
<1>7. QED
  BY <1>3, <1>5, <1>6 DEF Alike, g

LEMMA EndedFields ==
  ASSUME RecordsTyped, NEW R, NEW status \in Closed
  PROVE  /\ Ended(R, status) \in [Requests -> ReqRecords]
         /\ \A r \in Requests :
              /\ r \in Ending(R) => Ended(R, status)[r] = [req[r] EXCEPT !.status = status]
              /\ r \notin Ending(R) => Ended(R, status)[r] = req[r]
              /\ Ended(R, status)[r].parent = req[r].parent
              /\ Ended(R, status)[r].run = req[r].run
              /\ r \in Ending(R) => Ended(R, status)[r].status = status
<1> DEFINE e == Ended(R, status)
<1>1. \A r \in Requests : e[r] = IF r \in Ending(R) THEN [req[r] EXCEPT !.status = status] ELSE req[r]
  BY DEF Ended, Ending
<1>2. DOMAIN e = Requests /\ e = [r \in Requests |-> e[r]]
  BY DEF Ended
<1> HIDE DEF e
<1>3. ASSUME NEW r \in Requests
      PROVE  /\ e[r] \in ReqRecords /\ e[r].parent = req[r].parent /\ e[r].run = req[r].run
             /\ r \in Ending(R) => e[r].status = status
  <2>1. req[r] \in ReqRecords
    BY DEF RecordsTyped
  <2>2. [req[r] EXCEPT !.status = status] \in ReqRecords
    BY <2>1, RecordFields
  <2>3. QED
    BY <1>1, <2>1, <2>2 DEF ReqRecords
<1>4. e \in [Requests -> ReqRecords]
  BY <1>2, <1>3
<1>5. QED
  BY <1>1, <1>3, <1>4 DEF e

(* What is recorded when requests end.                                      *)
LEMMA FinishCloses ==
  ASSUME RecordsInv, NEW R, NEW status \in Closed, NEW dl, Alike(dl, del, {}),
         Finish(dl, R, status)
  PROVE  Closes(Ending(R))
<1> DEFINE E == Ending(R)
<1>1. req' = Ended(R, status) /\ del' = Settled(dl, R) /\ made' = made \o Outcomes(R)
  BY DEF Finish
<1>2. RecordsTyped
  BY DEF RecordsInv
<1>3. dl \in [Deliveries -> DelRecords]
  BY DEF Alike
<1>4. Alike(del', del, E)
  BY <1>1, <1>3, SettledIsAlike, AlikeThenMore
<1>5. Once(made', ToSet(made) \cup OutcomesOf(E), Deliveries)
  BY <1>1, MadeGrows
<1>6. /\ req' \in [Requests -> ReqRecords]
      /\ \A r \in Requests :
           /\ req'[r].parent = req[r].parent /\ req'[r].run = req[r].run
           /\ r \in E => req'[r].status \in Closed
           /\ r \notin E => req'[r] = req[r]
  <2>1. /\ Ended(R, status) \in [Requests -> ReqRecords]
        /\ \A r \in Requests :
             /\ r \in Ending(R) => Ended(R, status)[r] = [req[r] EXCEPT !.status = status]
             /\ r \notin Ending(R) => Ended(R, status)[r] = req[r]
             /\ Ended(R, status)[r].parent = req[r].parent
             /\ Ended(R, status)[r].run = req[r].run
             /\ r \in Ending(R) => Ended(R, status)[r].status = status
    BY <1>2, EndedFields
  <2>2. /\ req' \in [Requests -> ReqRecords]
        /\ \A r \in Requests :
             /\ r \notin Ending(R) => req'[r] = req[r]
             /\ req'[r].parent = req[r].parent
             /\ req'[r].run = req[r].run
             /\ r \in Ending(R) => req'[r].status = status
    BY <1>1, <2>1
  <2>3. QED
    BY <2>2
<1>7. E \subseteq Requests /\ \A r \in E : Open(r)
  BY DEF Ending
<1>8. \A r \in Requests : (r \notin E /\ Open(r)) => req'[r].status \in OpenStatus
  BY <1>6 DEF Open
<1> HIDE DEF E
<1>9. Ends(E)
  BY <1>4, <1>5, <1>6, <1>7, <1>8 DEF Ends, Alike
<1>10. QED
  BY <1>4, <1>6, <1>9 DEF Closes, Alike, E

LEMMA StillCloses ==
  ASSUME RecordsInv, req' = req, made' = made, Alike(del', del, {})
  PROVE  Closes({})
<1>1. OutcomesOf({}) = {}
  BY DEF OutcomesOf
<1>2. Once(made', ToSet(made) \cup OutcomesOf({}), Deliveries)
  BY <1>1 DEF Once, RecordsInv, RecordsTyped
<1>3. req' \in [Requests -> ReqRecords]
  BY DEF RecordsInv, RecordsTyped
<1>4. Ends({})
  BY <1>1, <1>2, <1>3 DEF Ends, Alike, Open
<1>5. QED
  BY <1>4 DEF Closes, Alike

LEMMA EndsKeepsRecords ==
  ASSUME RecordsInv, NEW E, Ends(E)
  PROVE  RecordsInv'
<1>1. /\ RecordsTyped /\ MadeIsRecorded /\ AskedFirst /\ AnsweredOnce /\ AnswersContinue
  BY DEF RecordsInv
<1>2. RecordsTyped'
  BY DEF Ends, Once, RecordsTyped
<1>3. ToSet(made') = ToSet(made) \cup OutcomesOf(E)
  BY DEF Ends, Once
<1>4. MadeIsRecorded'
  BY <1>1, <1>3 DEF MadeIsRecorded, Ends
<1>5. \A r \in Requests : Outcome(r) \in OutcomesOf(E) <=> r \in E
  BY DeliveryNames DEF OutcomesOf, Ends
<1>6. \A r \in Requests : Asks(r) \notin OutcomesOf(E)
  BY DeliveryNames DEF OutcomesOf, Ends
<1>7. ASSUME NEW r \in Requests
      PROVE  /\ (req'[r].status # "none" \/ req'[r].run # None) => del'[Asks(r)].status # "none"
             /\ req'[r].parent \in Requests =>
                  (req'[r].status # "none" /\ del'[Asks(req'[r].parent)].status # "none")
  <2>1. /\ req'[r].parent = req[r].parent
        /\ r \in E => (Open(r) /\ req'[r].status \in Closed /\ req'[r].run = req[r].run)
        /\ (r \notin E /\ ~Open(r)) => req'[r] = req[r]
        /\ (r \notin E /\ Open(r)) => req'[r].status \in OpenStatus
    BY DEF Ends
  <2>2. \A q \in Requests : (del'[Asks(q)].status # "none") <=> (del[Asks(q)].status # "none")
    BY <1>6, DeliveryNames DEF Ends
  <2>3. Open(r) => (req[r].status # "none" /\ del[Asks(r)].status # "none")
    BY <1>1 DEF AskedFirst, Open, OpenStatus
  <2>4. "none" \notin Closed \cup OpenStatus
    BY DEF Closed, OpenStatus
  <2>5. (req'[r].status # "none" \/ req'[r].run # None) => del'[Asks(r)].status # "none"
    <3>1. CASE Open(r)
      BY <2>2, <2>3, <3>1
    <3>2. CASE ~Open(r)
      BY <1>1, <2>1, <2>2, <3>2 DEF AskedFirst
    <3>3. QED
      BY <3>1, <3>2
  <2>6. ASSUME req'[r].parent \in Requests
        PROVE  req'[r].status # "none" /\ del'[Asks(req'[r].parent)].status # "none"
    <3>1. req[r].status # "none" /\ del[Asks(req[r].parent)].status # "none"
      BY <1>1, <2>1, <2>6 DEF AskedFirst
    <3>2. req'[r].status # "none"
      BY <2>1, <2>4, <3>1
    <3>3. QED
      BY <2>1, <2>2, <2>6, <3>1, <3>2
  <2>7. QED
    BY <2>5, <2>6
<1>8. AskedFirst'
  BY <1>7 DEF AskedFirst
<1>9. ASSUME NEW r \in Requests
      PROVE  /\ (del'[Outcome(r)].status # "none") <=> (req'[r].status \in Closed)
             /\ del'[Outcome(r)].status \notin Approvals
  <2>1. /\ (del[Outcome(r)].status # "none") <=> (req[r].status \in Closed)
        /\ del[Outcome(r)].status \notin Approvals
    BY <1>1 DEF AnsweredOnce, Approvals
  <2>2. /\ (del'[Outcome(r)].status # "none") <=> (del[Outcome(r)].status # "none" \/ r \in E)
        /\ del'[Outcome(r)].status \notin Approvals
    BY <1>5, <2>1, DeliveryNames DEF Ends
  <2>3. /\ r \in E => req'[r].status \in Closed
        /\ (r \notin E /\ ~Open(r)) => req'[r] = req[r]
        /\ (r \notin E /\ Open(r)) => req'[r].status \in OpenStatus
    BY DEF Ends
  <2>4. \A s \in OpenStatus : s \notin Closed
    BY DEF OpenStatus, Closed
  <2>5. Open(r) <=> req[r].status \in OpenStatus
    BY DEF Open
  <2>6. QED
    BY <2>1, <2>2, <2>3, <2>4, <2>5
<1>10. AnsweredOnce'
  BY <1>9 DEF AnsweredOnce, Approvals
<1>11. AnswersContinue'
  BY <1>1 DEF AnswersContinue, Ends
<1>12. QED
  BY <1>2, <1>4, <1>8, <1>10, <1>11 DEF RecordsInv

----------------------------------------------------------------------------
(* Steps that end requests and leave the runs where they are, or further *)

Onward ==
  /\ \A x \in Runs : ~IsPersons(x) =>
       \/ run'[x].status = run[x].status
       \/ /\ UnderWay(x) /\ run'[x].status \in {"queued", "running", "failed"}
          /\ run'[x].status = "queued" => (sending # None /\ sending.run = x)
  /\ \A c \in Chats : \A x \in ToSet(turns'[c]) : ~IsPersons(x) =>
       \/ (sending' # None /\ sending'.run = x)
       \/ (\E e \in Chats : x \in ToSet(turns[e])) /\ ~(sending # None /\ sending.run = x)
  /\ sending' # None => (sending # None /\ sending'.run = sending.run)

InTurnsAreRuns == \A c \in Chats : \A x \in ToSet(turns[c]) : x \in Runs /\ x # None

LEMMA TurnsAreRuns == TurnsTyped => InTurnsAreRuns
<1>1. ASSUME TurnsTyped, NEW c \in Chats, NEW x \in ToSet(turns[c])
      PROVE  x \in Runs
  <2>1. turns[c] \in Seq(Runs)
    BY <1>1 DEF TurnsTyped
  <2>2. PICK i \in DOMAIN turns[c] : x = turns[c][i]
    BY DEF ToSet
  <2>3. QED
    BY <2>1, <2>2, ElementOfSeq, LenProperties
<1>2. QED
  BY <1>1, RunNames DEF InTurnsAreRuns

LEMMA OnwardKeepsAssignments ==
  ASSUME RecordsInv, AssignmentsInv, TurnsTyped', NEW E, Closes(E), Onward
  PROVE  AssignmentsInv'
<1>1. ItsOwnRun /\ RunFits /\ WorkedOnceAccepted /\ AnswersRead
  BY DEF AssignmentsInv
<1>2. \A r \in Requests : /\ req'[r].run = req[r].run /\ req'[r].parent = req[r].parent
                          /\ r \notin E => req'[r] = req[r]
                          /\ r \in E => (Open(r) /\ req'[r].status \in Closed)
  BY DEF Closes, Ends
<1>3. \A r \in Requests : \A x \in RunsOf(r) : x \in Runs /\ ~IsPersons(x)
  BY RunNames
<1>4. \A s \in {"queued", "working", "waiting"} : s \notin Closed
  BY DEF Closed
<1>5. ASSUME NEW r \in Requests
      PROVE  /\ req'[r].run # None => req'[r].run \in RunsOf(r)
             /\ \A x \in RunsOf(r) : run'[x].status \in {"queued", "running"} => req'[r].run = x
  <2>1. ASSUME NEW x \in RunsOf(r), run'[x].status \in {"queued", "running"}
        PROVE  UnderWay(x)
    BY <1>3, <2>1 DEF Onward, UnderWay
  <2>2. QED
    BY <1>1, <1>2, <2>1 DEF ItsOwnRun
<1>6. ItsOwnRun'
  BY <1>5 DEF ItsOwnRun, UnderWay, RunsOf
<1>7. ASSUME NEW r \in Requests
      PROVE  /\ (req'[r].status = "queued" /\ req'[r].run # None) =>
                  run'[req'[r].run].status \in {"queued", "running", "failed"}
             /\ req'[r].status = "waiting" => (req'[r].run # None /\ run'[req'[r].run].status = "completed")
             /\ req'[r].status = "working" =>
                  (req'[r].run # None /\ run'[req'[r].run].status \in {"running", "failed"})
  <2>1. CASE r \in E
    BY <1>2, <1>4, <2>1
  <2>2. CASE r \notin E
    <3>1. req'[r] = req[r]
      BY <1>2, <2>2
    <3>2. req[r].run # None => (req[r].run \in Runs /\ ~IsPersons(req[r].run))
      BY <1>1, <1>3 DEF ItsOwnRun
    <3>3. /\ (req[r].status = "queued" /\ req[r].run # None) =>
               run[req[r].run].status \in {"queued", "running", "failed"}
          /\ req[r].status = "waiting" => (req[r].run # None /\ run[req[r].run].status = "completed")
          /\ req[r].status = "working" =>
               (req[r].run # None /\ run[req[r].run].status \in {"running", "failed"})
      BY <1>1 DEF RunFits
    <3>4. req[r].status = "working" => ~(sending # None /\ sending.run = req[r].run)
      BY <1>1 DEF WorkedOnceAccepted
    <3>5. req[r].run # None =>
            \/ run'[req[r].run].status = run[req[r].run].status
            \/ /\ run[req[r].run].status \in {"queued", "running"}
               /\ run'[req[r].run].status \in {"queued", "running", "failed"}
               /\ run'[req[r].run].status = "queued" => (sending # None /\ sending.run = req[r].run)
      BY <3>2 DEF Onward, UnderWay
    <3>6. QED
      BY <3>1, <3>3, <3>4, <3>5
  <2>3. QED
    BY <2>1, <2>2
<1>8. RunFits'
  BY <1>7 DEF RunFits
<1>9. ASSUME NEW r \in Requests
      PROVE  /\ \A c \in Chats : (req'[r].status = "queued" /\ req'[r].run \in ToSet(turns'[c])) =>
                  (sending' # None /\ sending'.run = req'[r].run)
             /\ (sending' # None /\ req'[r].run = sending'.run) =>
                  req'[r].status \notin {"working", "waiting"}
  <2>1. CASE r \in E
    BY <1>2, <1>4, <2>1
  <2>2. CASE r \notin E
    <3>1. req'[r] = req[r]
      BY <1>2, <2>2
    <3>2. ASSUME NEW c \in Chats, req[r].status = "queued", req[r].run \in ToSet(turns'[c]), req[r].run # None
          PROVE  sending' # None /\ sending'.run = req[r].run
      <4>1. ~IsPersons(req[r].run)
        BY <1>1, <1>3, <3>2 DEF ItsOwnRun
      <4>2. \A e \in Chats : req[r].run \in ToSet(turns[e]) => (sending # None /\ sending.run = req[r].run)
        BY <1>1, <3>2 DEF WorkedOnceAccepted
      <4>3. QED
        BY <3>2, <4>1, <4>2 DEF Onward
    <3>3. (sending' # None /\ req[r].run = sending'.run) => req[r].status \notin {"working", "waiting"}
      BY <1>1 DEF Onward, WorkedOnceAccepted
    <3>4. \A c \in Chats : \A x \in ToSet(turns'[c]) : x # None
      <4>1. TurnsTyped' => InTurnsAreRuns'
        BY TurnsAreRuns, PTL
      <4>2. QED
        BY <4>1 DEF InTurnsAreRuns
    <3>5. QED
      BY <3>1, <3>2, <3>3, <3>4
  <2>3. QED
    BY <2>1, <2>2
<1>10. WorkedOnceAccepted'
  BY <1>9 DEF WorkedOnceAccepted
<1>11. ASSUME NEW q \in Requests, del'[Outcome(q)].cont # None
       PROVE  /\ req'[q].parent \in Requests /\ del'[Outcome(q)].cont \in RunsOf(req'[q].parent)
              /\ \/ run'[del'[Outcome(q)].cont].status = "completed"
                 \/ req'[req'[q].parent].status \notin OpenStatus
                 \/ req'[req'[q].parent].run = del'[Outcome(q)].cont
  <2>1. del'[Outcome(q)].cont = del[Outcome(q)].cont /\ req'[q].parent = req[q].parent
    BY <1>2, DeliveryNames DEF Closes
  <2>2. PICK y, r : y = del[Outcome(q)].cont /\ r = req[q].parent
    OBVIOUS
  <2>3. /\ r \in Requests /\ y \in RunsOf(r)
        /\ (run[y].status = "completed" \/ ~Open(r) \/ req[r].run = y)
    BY <1>1, <1>11, <2>1, <2>2 DEF AnswersRead
  <2>4. y \in Runs /\ ~IsPersons(y)
    BY <1>3, <2>3
  <2>5. run[y].status = "completed" => run'[y].status = "completed"
    BY <2>4 DEF Onward, UnderWay
  <2>6. ~Open(r) => req'[r].status \notin OpenStatus
    BY <1>2, <2>3 DEF Open
  <2>7. req'[r].run = req[r].run
    BY <1>2, <2>3
  <2>8. QED
    BY <2>1, <2>2, <2>3, <2>5, <2>6, <2>7
<1>12. AnswersRead'
  BY <1>11 DEF AnswersRead, Open, RunsOf
<1>13. QED
  BY <1>6, <1>8, <1>10, <1>12 DEF AssignmentsInv

RestTyped == later' \subseteq Deliveries /\ held' \subseteq Chats /\ gone' \subseteq Chats

(* A step that leaves runs, turns and sends alone.                          *)
LEMMA QuietStep ==
  ASSUME CoordInv, NEW E, Closes(E), RestTyped,
         UNCHANGED <<run, turns, sending, typing, typed>>
  PROVE  CoordInv'
<1>1. RecordsInv /\ TurnsInv /\ AssignmentsInv
  BY DEF CoordInv
<1>2. RecordsInv'
  BY <1>1, EndsKeepsRecords DEF Closes
<1>3. run' = run /\ turns' = turns /\ sending' = sending /\ typing' = typing /\ typed' = typed
  OBVIOUS
<1>4. TurnsTyped'
  BY <1>1, <1>3 DEF TurnsInv, TurnsTyped, RestTyped
<1>5. TurnsOnce' /\ SendUnderWay' /\ PersonsNext'
  BY <1>1, <1>3 DEF TurnsInv, TurnsOnce, SendUnderWay, PersonsNext
<1>6. Onward
  BY <1>3 DEF Onward
<1>7. AssignmentsInv'
  BY <1>1, <1>4, <1>6, OnwardKeepsAssignments
<1>8. QED
  BY <1>2, <1>4, <1>5, <1>7 DEF CoordInv, TurnsInv

(* No request is answered.                                                  *)
NotAnswering == \A r \in Requests : req'[r].status = "completed" => req[r].status = "completed"

LEMMA EndedAnswers ==
  ASSUME RecordsInv, NEW R, NEW status \in Closed, status # "completed", req' = Ended(R, status)
  PROVE  NotAnswering
<1>1. RecordsTyped
  BY DEF RecordsInv
<1>2. \A r \in Requests :
         /\ r \in Ending(R) => Ended(R, status)[r] = [req[r] EXCEPT !.status = status]
         /\ r \notin Ending(R) => Ended(R, status)[r] = req[r]
         /\ Ended(R, status)[r].parent = req[r].parent
         /\ Ended(R, status)[r].run = req[r].run
         /\ r \in Ending(R) => Ended(R, status)[r].status = status
  BY <1>1, EndedFields
<1>3. QED
  BY <1>2 DEF NotAnswering

LEMMA FinishQuietly ==
  ASSUME CoordInv, NEW R, NEW status \in Closed, NEW dl, Alike(dl, del, {}),
         Finish(dl, R, status), RestTyped,
         UNCHANGED <<run, turns, sending, typing, typed>>
  PROVE  CoordInv' /\ (status # "completed" => NotAnswering)
<1>1. RecordsInv
  BY DEF CoordInv
<1>2. Closes(Ending(R))
  BY <1>1, FinishCloses
<1>3. CoordInv'
  BY <1>2, QuietStep
<1>4. req' = Ended(R, status)
  BY DEF Finish
<1>5. QED
  BY <1>1, <1>3, <1>4, EndedAnswers

LEMMA StayQuiet ==
  ASSUME CoordInv, req' = req, made' = made, Alike(del', del, {}), RestTyped,
         UNCHANGED <<run, turns, sending, typing, typed>>
  PROVE  CoordInv' /\ NotAnswering
<1>1. Closes({})
  BY StillCloses DEF CoordInv
<1>2. CoordInv'
  BY <1>1, QuietStep
<1>3. QED
  BY <1>2 DEF NotAnswering

LEMMA Known ==
  ASSUME CoordInv
  PROVE  /\ RecordsInv /\ TurnsInv /\ AssignmentsInv /\ RecordsTyped /\ TurnsTyped
         /\ req \in [Requests -> ReqRecords] /\ del \in [Deliveries -> DelRecords]
         /\ later \subseteq Deliveries /\ held \subseteq Chats /\ gone \subseteq Chats
         /\ Alike(del, del, {})
<1>1. RecordsInv /\ TurnsInv /\ AssignmentsInv
  BY DEF CoordInv
<1>2. RecordsTyped /\ TurnsTyped
  BY <1>1 DEF RecordsInv, TurnsInv
<1>3. req \in [Requests -> ReqRecords] /\ del \in [Deliveries -> DelRecords]
  BY <1>2 DEF RecordsTyped
<1>4. QED
  BY <1>1, <1>2, <1>3, AlikeItself DEF TurnsTyped

LEMMA FailedIsAlike ==
  ASSUME CoordInv, NEW D
  PROVE  Alike(Failed(D), del, {})
<1>1. del \in [Deliveries -> DelRecords]
  BY Known
<1>2. Alike(Gone(del, D, "failed"), del, {})
  BY <1>1, GoneIsAlike
<1>3. QED
  BY <1>2 DEF Failed

LEMMA AllowKeeps ==
  ASSUME CoordInv, NEW d \in Deliveries, Allow(d)
  PROVE  CoordInv' /\ NotAnswering
<1>1. /\ del[d].status = "awaiting_approval" /\ del' = [del EXCEPT ![d].status = "queued"]
      /\ req' = req /\ made' = made /\ later' = later /\ held' = held /\ gone' = gone
      /\ UNCHANGED <<run, turns, sending, typing, typed>>
  BY DEF Allow
<1>2. del \in [Deliveries -> DelRecords] /\ RestTyped
  BY <1>1, Known DEF RestTyped
<1>3. \A e \in Deliveries : /\ e # d => del'[e] = del[e]
                            /\ e = d => del'[e] = [del[d] EXCEPT !.status = "queued"]
  BY <1>1, <1>2
<1>4. /\ del'[d] \in DelRecords /\ del'[d].status = "queued"
      /\ del'[d].cont = del[d].cont
  BY <1>2, <1>3 DEF DelRecords, DeliveryStatus
<1>5. del' \in [Deliveries -> DelRecords]
  BY <1>1, <1>2, <1>3, <1>4
<1>6. Alike(del', del, {})
  BY <1>1, <1>3, <1>4, <1>5 DEF Alike, OutcomesOf, Approvals
<1>7. QED
  BY <1>1, <1>2, <1>6, StayQuiet

LEMMA DenyKeeps ==
  ASSUME CoordInv, NEW d \in Deliveries, Deny(d)
  PROVE  CoordInv' /\ NotAnswering
<1>1. /\ del[d].status = "awaiting_approval"
      /\ Finish(Gone(del, {d}, "denied"), Asked({d}), "cancelled")
      /\ later' = later /\ held' = held /\ gone' = gone
      /\ UNCHANGED <<run, turns, sending, typing, typed>>
  BY DEF Deny
<1>2. del \in [Deliveries -> DelRecords] /\ RestTyped /\ RecordsInv
  BY <1>1, Known DEF RestTyped
<1>3. d[1] # "outcome"
  BY <1>1, <1>2, DeliveryNames DEF RecordsInv, AnsweredOnce
<1>4. Alike(Gone(del, {d}, "denied"), del, {})
  BY <1>2, <1>3, GoneIsAlike
<1>5. "cancelled" \in Closed
  BY DEF Closed
<1>6. QED
  BY <1>1, <1>2, <1>4, <1>5, FinishQuietly

LEMMA ReplyKeeps ==
  ASSUME CoordInv, NEW r \in Requests, Reply(r)
  PROVE  CoordInv'
<1>1. /\ Finish(del, {r}, "completed") /\ later' = later /\ held' = held /\ gone' = gone
      /\ UNCHANGED <<run, turns, sending, typing, typed>>
  BY DEF Reply, finishAgentRequest
<1>2. RestTyped /\ Alike(del, del, {}) /\ "completed" \in Closed
  BY <1>1, Known DEF RestTyped, Closed
<1>3. QED
  BY <1>1, <1>2, FinishQuietly

LEMMA CancelKeeps ==
  ASSUME CoordInv, NEW r \in Requests, Cancel(r)
  PROVE  CoordInv' /\ NotAnswering
<1>1. /\ Finish(del, Under(r), "cancelled") /\ later' = later /\ held' = held /\ gone' = gone
      /\ UNCHANGED <<run, turns, sending, typing, typed>>
  BY DEF Cancel, finishAgentRequest
<1>2. RestTyped /\ Alike(del, del, {}) /\ "cancelled" \in Closed
  BY <1>1, Known DEF RestTyped, Closed
<1>3. QED
  BY <1>1, <1>2, FinishQuietly

LEMMA StopKeeps ==
  ASSUME CoordInv, NEW c \in Chats, Stop(c)
  PROVE  CoordInv' /\ NotAnswering
<1>1. PICK R : /\ Finish(del, R, "failed") /\ later' = later /\ held' = held /\ gone' = gone
               /\ UNCHANGED <<run, turns, sending, typing, typed>>
  BY DEF Stop, finishAgentRequest
<1>2. RestTyped /\ Alike(del, del, {}) /\ "failed" \in Closed
  BY <1>1, Known DEF RestTyped, Closed
<1>3. QED
  BY <1>1, <1>2, FinishQuietly

LEMMA HoldsKeep ==
  ASSUME CoordInv, NEW c \in Chats, Hold(c) \/ Release(c) \/ Archive(c) \/ TimePasses(c)
  PROVE  CoordInv' /\ NotAnswering
<1>1. /\ req' = req /\ del' = del /\ made' = made
      /\ later' \subseteq later /\ held' \subseteq held \cup {c} /\ gone' \subseteq gone \cup {c}
      /\ UNCHANGED <<run, turns, sending, typing, typed>>
  BY DEF Hold, Release, Archive, TimePasses
<1>2. RestTyped /\ Alike(del', del, {})
  BY <1>1, Known DEF RestTyped
<1>3. QED
  BY <1>1, <1>2, StayQuiet

LEMMA DeleteKeeps ==
  ASSUME CoordInv, NEW c \in Chats, Delete(c)
  PROVE  CoordInv' /\ NotAnswering
<1>1. PICK R, D :
        /\ gone' = gone \cup {c} /\ later' = later /\ held' = held
        /\ req' = Ended(R, "cancelled") /\ made' = made \o Outcomes(R)
        /\ del' = Gone(Settled(del, R), D, "cancelled")
        /\ UNCHANGED <<run, turns, sending, typing, typed>>
  BY Zenon DEF Delete
<1>2. RestTyped /\ RecordsInv /\ RecordsTyped /\ del \in [Deliveries -> DelRecords]
  BY <1>1, Known DEF RestTyped
<1>3. "cancelled" \in Closed
  BY DEF Closed
<1>4. Alike(Settled(del, R), del, Ending(R))
  BY <1>2, SettledIsAlike
<1>5. Alike(del', Settled(del, R), {})
  <2>1. Settled(del, R) \in [Deliveries -> DelRecords]
    BY <1>4 DEF Alike
  <2>2. QED
    BY <1>1, <2>1, GoneIsAlike
<1>6. Alike(del', del, Ending(R))
  BY <1>4, <1>5, AlikeTwice
<1>7. Once(made', ToSet(made) \cup OutcomesOf(Ending(R)), Deliveries)
  BY <1>1, <1>2, MadeGrows
<1>8. \A r \in Requests :
         /\ r \in Ending(R) => Ended(R, "cancelled")[r] = [req[r] EXCEPT !.status = "cancelled"]
         /\ r \notin Ending(R) => Ended(R, "cancelled")[r] = req[r]
         /\ Ended(R, "cancelled")[r].parent = req[r].parent
         /\ Ended(R, "cancelled")[r].run = req[r].run
         /\ r \in Ending(R) => Ended(R, "cancelled")[r].status = "cancelled"
  BY <1>2, <1>3, EndedFields
<1>9. Ended(R, "cancelled") \in [Requests -> ReqRecords]
  BY <1>2, <1>3, EndedFields
<1>10. PICK E : E = Ending(R)
  OBVIOUS
<1>11. E \subseteq Requests /\ \A r \in E : Open(r)
  BY <1>10 DEF Ending
<1>12. /\ req' \in [Requests -> ReqRecords]
       /\ \A r \in Requests :
            /\ req'[r].parent = req[r].parent /\ req'[r].run = req[r].run
            /\ r \in E => req'[r].status \in Closed
            /\ r \notin E => req'[r] = req[r]
  BY <1>1, <1>3, <1>8, <1>9, <1>10
<1>13. \A r \in Requests : (r \notin E /\ Open(r)) => req'[r].status \in OpenStatus
  BY <1>12 DEF Open
<1>14. Ends(E)
  BY <1>6, <1>7, <1>10, <1>11, <1>12, <1>13 DEF Ends, Alike
<1>15. Closes(E)
  BY <1>6, <1>10, <1>12, <1>14 DEF Closes, Alike
<1>16. CoordInv'
  BY <1>1, <1>2, <1>15, QuietStep
<1>17. NotAnswering
  BY <1>1, <1>2, <1>3, EndedAnswers
<1>18. QED
  BY <1>16, <1>17

LEMMA ReconcileKeeps ==
  ASSUME CoordInv, NEW r \in Requests, Reconcile(r)
  PROVE  CoordInv' /\ NotAnswering
<1>1. /\ Finish(del, {r}, "failed") /\ later' = later /\ held' = held /\ gone' = gone
      /\ UNCHANGED <<run, turns, sending, typing, typed>>
  BY DEF Reconcile, finishAgentRequest
<1>2. RestTyped /\ Alike(del, del, {}) /\ "failed" \in Closed
  BY <1>1, Known DEF RestTyped, Closed
<1>3. QED
  BY <1>1, <1>2, FinishQuietly

LEMMA GivenUpKeeps ==
  ASSUME CoordInv, NEW D, failAgentDelivery(D), RestTyped,
         UNCHANGED <<run, turns, sending, typing, typed>>
  PROVE  CoordInv' /\ NotAnswering
<1>1. PICK R : Finish(Failed(D), R, "failed")
  BY DEF failAgentDelivery
<1>2. Alike(Failed(D), del, {}) /\ "failed" \in Closed
  BY FailedIsAlike DEF Closed
<1>3. QED
  BY <1>1, <1>2, FinishQuietly

LEMMA PersistKeeps ==
  ASSUME CoordInv, NEW d \in Deliveries, Persist(d)
  PROVE  CoordInv' /\ NotAnswering
<1>1. /\ del[d].status = "queued"
      /\ later' = later /\ held' = held /\ gone' = gone
      /\ UNCHANGED <<run, turns, sending, typing, typed>>
      /\ \/ Finish(Gone(del, {d}, "cancelled"), Asked({d}), "cancelled")
         \/ failAgentDelivery({d})
         \/ del' = [del EXCEPT ![d].status = "delivered"] /\ UNCHANGED <<req, made>>
  BY Zenon DEF Persist
<1>2. RestTyped /\ del \in [Deliveries -> DelRecords]
  BY <1>1, Known DEF RestTyped
<1>3. CASE Finish(Gone(del, {d}, "cancelled"), Asked({d}), "cancelled")
  <2>1. Alike(Gone(del, {d}, "cancelled"), del, {}) /\ "cancelled" \in Closed
    BY <1>2, GoneIsAlike DEF Closed
  <2>2. QED
    BY <1>1, <1>2, <1>3, <2>1, FinishQuietly
<1>4. CASE failAgentDelivery({d})
  BY <1>1, <1>2, <1>4, GivenUpKeeps
<1>5. CASE del' = [del EXCEPT ![d].status = "delivered"] /\ UNCHANGED <<req, made>>
  <2>1. \A e \in Deliveries : /\ e # d => del'[e] = del[e]
                              /\ e = d => del'[e] = [del[d] EXCEPT !.status = "delivered"]
    BY <1>2, <1>5
  <2>2. /\ del'[d] \in DelRecords /\ del'[d].status = "delivered"
        /\ del'[d].cont = del[d].cont
    BY <1>2, <2>1 DEF DelRecords, DeliveryStatus
  <2>3. del' \in [Deliveries -> DelRecords]
    BY <1>2, <1>5, <2>1, <2>2
  <2>4. Alike(del', del, {})
    BY <1>1, <2>1, <2>2, <2>3 DEF Alike, OutcomesOf, Approvals
  <2>5. QED
    BY <1>1, <1>2, <1>5, <2>4, StayQuiet
<1>6. QED
  BY <1>1, <1>3, <1>4, <1>5

LEMMA AbandonKeeps ==
  ASSUME CoordInv, NEW d \in Deliveries, Abandon(d)
  PROVE  CoordInv' /\ NotAnswering
<1>1. /\ failAgentDelivery({d}) /\ later' = later /\ held' = held /\ gone' = gone
      /\ UNCHANGED <<run, turns, sending, typing, typed>>
  BY DEF Abandon
<1>2. RestTyped
  BY <1>1, Known DEF RestTyped
<1>3. QED
  BY <1>1, <1>2, GivenUpKeeps

LEMMA ActivateGoneKeeps ==
  ASSUME CoordInv, NEW c \in Chats, ActivateGone(c)
  PROVE  CoordInv' /\ NotAnswering
<1>1. /\ failAgentDelivery(Waits(c)) /\ later' = later /\ held' = held /\ gone' = gone
      /\ UNCHANGED <<run, turns, sending, typing, typed>>
  BY DEF ActivateGone
<1>2. RestTyped
  BY <1>1, Known DEF RestTyped
<1>3. QED
  BY <1>1, <1>2, GivenUpKeeps

----------------------------------------------------------------------------
(* Something is asked *)

LEMMA AssignmentIsOpen ==
  ASSUME NEW c
  PROVE  /\ Assignment(c) \in Requests \cup {None}
         /\ Assignment(c) \in Requests => Open(Assignment(c))
<1>1. CASE Producer(c) # None /\ OwnedBy(Producer(c)) # {}
  <2>1. Assignment(c) \in OwnedBy(Producer(c))
    BY <1>1 DEF Assignment
  <2>2. QED
    BY <2>1 DEF OwnedBy
<1>2. CASE ~(Producer(c) # None /\ OwnedBy(Producer(c)) # {})
  BY <1>2, RunNames DEF Assignment
<1>3. QED
  BY <1>1, <1>2

LEMMA SubmitKeeps ==
  ASSUME CoordInv, NEW d \in Deliveries, submitAgentRequest(d)
  PROVE  CoordInv' /\ NotAnswering
<1>1. /\ RecordsTyped /\ MadeIsRecorded /\ AskedFirst /\ AnsweredOnce /\ AnswersContinue
      /\ TurnsTyped /\ TurnsOnce /\ SendUnderWay /\ PersonsNext
      /\ ItsOwnRun /\ RunFits /\ WorkedOnceAccepted /\ AnswersRead
  BY DEF CoordInv, RecordsInv, TurnsInv, AssignmentsInv
<1>2. /\ d[1] # "outcome" /\ del[d].status = "none"
      /\ del' = [del EXCEPT ![d].status = Permitted(d)]
      /\ made' = Append(made, d)
      /\ UNCHANGED <<later, run, turns, sending, typing, held, gone, typed>>
  BY DEF submitAgentRequest, MaySubmit
<1>3. req' = [r \in Requests |-> IF d = Asks(r)
                THEN [status |-> "queued", run |-> None, parent |-> Assignment(Source[r])] ELSE req[r]]
  BY DEF submitAgentRequest
<1>4. \A r \in Requests :
        /\ d # Asks(r) => req'[r] = req[r]
        /\ d = Asks(r) => /\ req'[r] \in ReqRecords
                          /\ req'[r].status = "queued" /\ req'[r].run = None
                          /\ req'[r].parent = Assignment(Source[r])
  <2>1. ASSUME NEW r \in Requests, d = Asks(r)
        PROVE  /\ req'[r] \in ReqRecords
               /\ req'[r].status = "queued" /\ req'[r].run = None
               /\ req'[r].parent = Assignment(Source[r])
    <3>1. Assignment(Source[r]) \in Requests \cup {None}
      BY AssignmentIsOpen
    <3>2. req'[r] = [status |-> "queued", run |-> None, parent |-> Assignment(Source[r])]
      BY <1>3, <2>1
    <3>3. QED
      BY <3>1, <3>2 DEF ReqRecords, OpenStatus
  <2>2. QED
    BY <1>3, <2>1
<1>5. req' \in [Requests -> ReqRecords]
  BY <1>1, <1>3, <1>4 DEF RecordsTyped
<1>6. Permitted(d) \in {"awaiting_approval", "queued"}
  BY DEF Permitted
<1>7. /\ \A e \in Deliveries : e # d => del'[e] = del[e]
      /\ del'[d] \in DelRecords /\ del'[d].status # "none" /\ del'[d].cont = del[d].cont
  <2>1. del \in [Deliveries -> DelRecords]
    BY <1>1 DEF RecordsTyped
  <2>2. \A e \in Deliveries : /\ e # d => del'[e] = del[e]
                              /\ e = d => del'[e] = [del[d] EXCEPT !.status = Permitted(d)]
    BY <1>2, <2>1
  <2>3. QED
    BY <1>6, <2>1, <2>2 DEF DelRecords, DeliveryStatus
<1>8. del' \in [Deliveries -> DelRecords]
  BY <1>1, <1>2, <1>7 DEF RecordsTyped
<1>9. Once(made', ToSet(made) \cup {d}, Deliveries)
  BY <1>1, <1>2, OnceAppend DEF RecordsTyped, MadeIsRecorded
<1>10. RecordsTyped' /\ MadeIsRecorded'
  BY <1>1, <1>5, <1>7, <1>8, <1>9 DEF RecordsTyped, MadeIsRecorded, Once
<1>11. \A r \in Requests : d = Asks(r) =>
         /\ req[r].status = "none" /\ req[r].run = None
         /\ \A q \in Requests : req[q].parent # r
  BY <1>1, <1>2 DEF AskedFirst
<1>12. ASSUME NEW r \in Requests, d = Asks(r), Assignment(Source[r]) \in Requests
       PROVE  Assignment(Source[r]) # r /\ del[Asks(Assignment(Source[r]))].status # "none"
  <2>1. PICK p \in Requests : p = Assignment(Source[r])
    BY <1>12
  <2>2. Open(p)
    BY <1>12, <2>1, AssignmentIsOpen
  <2>3. del[Asks(p)].status # "none"
    BY <1>1, <2>2 DEF AskedFirst, Open, OpenStatus
  <2>4. QED
    BY <1>2, <1>12, <2>1, <2>3
<1>13. \A e \in Deliveries : del[e].status # "none" => del'[e].status # "none"
  BY <1>7
<1>14. AskedFirst'
  <2>1. ASSUME NEW r \in Requests
        PROVE  /\ (req'[r].status # "none" \/ req'[r].run # None) => del'[Asks(r)].status # "none"
               /\ req'[r].parent \in Requests =>
                    (req'[r].status # "none" /\ del'[Asks(req'[r].parent)].status # "none")
    <3>1. CASE d = Asks(r)
      BY <1>4, <1>7, <1>12, <1>13, <3>1, DeliveryNames
    <3>2. CASE d # Asks(r)
      BY <1>1, <1>4, <1>13, <3>2, DeliveryNames DEF AskedFirst
    <3>3. QED
      BY <3>1, <3>2
  <2>2. QED
    BY <2>1 DEF AskedFirst
<1>15. \A r \in Requests : Outcome(r) # d /\ del'[Outcome(r)] = del[Outcome(r)]
  BY <1>2, <1>7, DeliveryNames
<1>16. AnsweredOnce'
  <2>1. ASSUME NEW r \in Requests
        PROVE  /\ (del'[Outcome(r)].status # "none") <=> (req'[r].status \in Closed)
               /\ del'[Outcome(r)].status \notin {"awaiting_approval", "denied"}
    <3>1. /\ (del[Outcome(r)].status # "none") <=> (req[r].status \in Closed)
          /\ del[Outcome(r)].status \notin {"awaiting_approval", "denied"}
      BY <1>1 DEF AnsweredOnce
    <3>2. CASE d = Asks(r)
      BY <1>4, <1>11, <1>15, <3>1, <3>2 DEF Closed
    <3>3. CASE d # Asks(r)
      BY <1>4, <1>15, <3>1, <3>3
    <3>4. QED
      BY <3>2, <3>3
  <2>2. QED
    BY <2>1 DEF AnsweredOnce
<1>17. AnswersContinue'
  BY <1>1, <1>2, <1>7 DEF AnswersContinue
<1>18. RecordsInv'
  BY <1>10, <1>14, <1>16, <1>17 DEF RecordsInv
<1>19. run' = run /\ turns' = turns /\ sending' = sending /\ typing' = typing /\ typed' = typed
       /\ later' = later /\ held' = held /\ gone' = gone
  BY <1>2
<1>20. TurnsInv'
  BY <1>1, <1>19 DEF TurnsInv, TurnsTyped, TurnsOnce, SendUnderWay, PersonsNext
<1>21. ItsOwnRun'
  <2>1. ASSUME NEW r \in Requests
        PROVE  /\ req'[r].run # None => req'[r].run \in RunsOf(r)
               /\ \A x \in RunsOf(r) : run'[x].status \in {"queued", "running"} => req'[r].run = x
    <3>1. CASE d = Asks(r)
      BY <1>1, <1>4, <1>11, <1>19, <3>1, RunNames DEF ItsOwnRun, UnderWay
    <3>2. CASE d # Asks(r)
      BY <1>1, <1>4, <1>19, <3>2 DEF ItsOwnRun, UnderWay
    <3>3. QED
      BY <3>1, <3>2
  <2>2. QED
    BY <2>1 DEF ItsOwnRun, UnderWay, RunsOf
<1>22. RunFits'
  <2>1. ASSUME NEW r \in Requests, d = Asks(r)
        PROVE  req'[r].status = "queued" /\ req'[r].run = None
    BY <1>4, <2>1
  <2>2. QED
    BY <1>1, <1>4, <1>19, <2>1 DEF RunFits
<1>23. WorkedOnceAccepted'
  <2>1. \A c \in Chats : None \notin ToSet(turns[c])
    BY <1>1, TurnsAreRuns DEF InTurnsAreRuns
  <2>2. \A r \in Requests : d = Asks(r) => (req'[r].status = "queued" /\ req'[r].run = None)
    BY <1>4
  <2>3. QED
    BY <1>1, <1>4, <1>19, <2>1, <2>2 DEF WorkedOnceAccepted
<1>24. ASSUME NEW q \in Requests, del'[Outcome(q)].cont # None
       PROVE  /\ req'[q].parent \in Requests /\ del'[Outcome(q)].cont \in RunsOf(req'[q].parent)
              /\ \/ run'[del'[Outcome(q)].cont].status = "completed"
                 \/ req'[req'[q].parent].status \notin OpenStatus
                 \/ req'[req'[q].parent].run = del'[Outcome(q)].cont
  <2>1. del[Outcome(q)].cont # None /\ del'[Outcome(q)].cont = del[Outcome(q)].cont
    BY <1>15, <1>24
  <2>2. del[Outcome(q)].status # "none"
    BY <1>1, <2>1, DeliveryNames DEF AnswersContinue
  <2>3. req[q].status \in Closed
    BY <1>1, <2>2 DEF AnsweredOnce
  <2>4. d # Asks(q)
    BY <1>11, <2>3 DEF Closed
  <2>5. PICK y, r : y = del[Outcome(q)].cont /\ r = req[q].parent
    OBVIOUS
  <2>6. /\ r \in Requests /\ y \in RunsOf(r)
        /\ (run[y].status = "completed" \/ ~Open(r) \/ req[r].run = y)
    BY <1>1, <2>1, <2>5 DEF AnswersRead
  <2>7. d # Asks(r)
    BY <1>11, <2>5, <2>6
  <2>8. req'[q].parent = r /\ req'[r] = req[r]
    BY <1>4, <2>4, <2>5, <2>6, <2>7
  <2>9. QED
    BY <1>19, <2>1, <2>5, <2>6, <2>8 DEF Open
<1>25. AnswersRead'
  BY <1>24 DEF AnswersRead, Open, RunsOf
<1>26. CoordInv'
  BY <1>18, <1>20, <1>21, <1>22, <1>23, <1>25 DEF CoordInv, AssignmentsInv
<1>27. NotAnswering
  BY <1>4 DEF NotAnswering
<1>28. QED
  BY <1>26, <1>27

----------------------------------------------------------------------------
(* What people type *)

LEMMA StepKeeps ==
  ASSUME CoordInv, NEW E, Closes(E), TurnsInv', Onward
  PROVE  CoordInv'
<1>1. RecordsInv'
  BY EndsKeepsRecords DEF Closes, CoordInv
<1>2. TurnsTyped'
  BY DEF TurnsInv
<1>3. AssignmentsInv'
  BY <1>2, OnwardKeepsAssignments DEF CoordInv
<1>4. QED
  BY <1>1, <1>3 DEF CoordInv

LEMMA AcceptIsAlike ==
  ASSUME CoordInv, NEW x \in Runs, NEW inputs
  PROVE  Alike(Accept(x, inputs), del, {})
<1> DEFINE g == Accept(x, inputs)
<1>1. \A d \in Deliveries : g[d] = IF d \in inputs /\ del[d].status = "delivered"
                                   THEN [del[d] EXCEPT !.status = "accepted", !.by = x] ELSE del[d]
  BY DEF Accept
<1>2. DOMAIN g = Deliveries /\ g = [d \in Deliveries |-> g[d]]
  BY DEF Accept
<1> HIDE DEF g
<1>3. del \in [Deliveries -> DelRecords]
  BY Known
<1>4. "accepted" \in DeliveryStatus /\ "accepted" \notin Approvals
  BY DEF DeliveryStatus, Approvals
<1>5. ASSUME NEW d \in Deliveries
      PROVE  /\ g[d] \in DelRecords
             /\ g[d].cont = del[d].cont
             /\ (g[d].status # "none") <=> (del[d].status # "none")
             /\ (d[1] = "outcome" /\ del[d].status \notin Approvals) => g[d].status \notin Approvals
  <2>1. del[d] \in DelRecords
    BY <1>3
  <2>2. CASE d \in inputs /\ del[d].status = "delivered"
    <3>1. g[d] = [del[d] EXCEPT !.status = "accepted", !.by = x]
      BY <1>1, <2>2
    <3>2. g[d] \in DelRecords /\ g[d].status = "accepted" /\ g[d].cont = del[d].cont
      BY <1>4, <2>1, <3>1 DEF DelRecords
    <3>3. QED
      BY <1>4, <2>2, <3>2
  <2>3. CASE ~(d \in inputs /\ del[d].status = "delivered")
    BY <1>1, <2>1, <2>3
  <2>4. QED
    BY <2>2, <2>3
<1>6. g \in [Deliveries -> DelRecords]
  BY <1>2, <1>5
<1>7. QED
  BY <1>5, <1>6 DEF Alike, OutcomesOf, g

LEMMA PersonsKept ==
  ASSUME TurnsInv, typing' = typing, typed' = typed,
         \A x \in Runs : (IsPersons(x) /\ run[x].status = "none") => run'[x].status = "none"
  PROVE  PersonsNext'
<1>1. PersonsNext
  BY DEF TurnsInv
<1>2. \A c \in Chats, n \in 1..2 : Person(c, n) \in Runs /\ IsPersons(Person(c, n))
  BY RunNames
<1>3. ASSUME NEW c \in Chats
      PROVE  /\ \A n \in 1..2 : n > typed[c] => run'[Person(c, n)].status = "none"
             /\ typing[c] # None => /\ typed[c] \in 1..2 /\ typing[c].run = Person(c, typed[c])
                                    /\ run'[typing[c].run].status = "none"
  <2>1. /\ \A n \in 1..2 : n > typed[c] => run[Person(c, n)].status = "none"
        /\ typing[c] # None => /\ typed[c] \in 1..2 /\ typing[c].run = Person(c, typed[c])
                               /\ run[typing[c].run].status = "none"
    BY <1>1 DEF PersonsNext
  <2>2. QED
    BY <1>2, <2>1
<1>4. QED
  BY <1>3 DEF PersonsNext

(* A chat's harness has another run.                                        *)
LEMMA TurnAppended ==
  ASSUME TurnsInv, NEW c \in Chats, NEW x \in Runs,
         \A e \in Chats : x \notin ToSet(turns[e]),
         turns' = [turns EXCEPT ![c] = Append(@, x)]
  PROVE  /\ turns' \in [Chats -> Seq(Runs)]
         /\ \A e \in Chats : IsInjective(turns'[e])
         /\ \A e, f \in Chats : e # f => ToSet(turns'[e]) \cap ToSet(turns'[f]) = {}
         /\ ToSet(turns'[c]) = ToSet(turns[c]) \cup {x}
         /\ \A e \in Chats : e # c => ToSet(turns'[e]) = ToSet(turns[e])
<1>1. /\ turns \in [Chats -> Seq(Runs)] /\ \A e \in Chats : IsInjective(turns[e])
      /\ \A e, f \in Chats : e # f => ToSet(turns[e]) \cap ToSet(turns[f]) = {}
  BY DEF TurnsInv, TurnsTyped, TurnsOnce
<1>2. turns'[c] = Append(turns[c], x) /\ \A e \in Chats : e # c => turns'[e] = turns[e]
  BY <1>1
<1>3. turns[c] \in Seq(Runs) /\ IsInjective(turns[c]) /\ x \notin ToSet(turns[c])
  BY <1>1
<1>4. Once(turns'[c], ToSet(turns[c]) \cup {x}, Runs)
  BY <1>2, <1>3, OnceAppend
<1>5. turns' \in [Chats -> Seq(Runs)]
  BY <1>1, <1>2, <1>4 DEF Once
<1>6. \A e \in Chats : IsInjective(turns'[e])
  BY <1>1, <1>2, <1>4 DEF Once
<1>7. ToSet(turns'[c]) = ToSet(turns[c]) \cup {x} /\ \A e \in Chats : e # c => ToSet(turns'[e]) = ToSet(turns[e])
  BY <1>2, <1>4 DEF Once
<1>8. QED
  BY <1>1, <1>5, <1>6, <1>7

LEMMA TypeKeeps ==
  ASSUME CoordInv, NEW c \in Chats, Type(c)
  PROVE  CoordInv' /\ NotAnswering
<1>1. /\ typed[c] < Typed[c] /\ typed' = [typed EXCEPT ![c] = @ + 1]
      /\ typing' = [typing EXCEPT ![c] = [run |-> Person(c, typed[c] + 1), inputs |-> Context(c)]]
      /\ req' = req /\ del' = del /\ made' = made /\ later' = later /\ run' = run
      /\ turns' = turns /\ sending' = sending /\ held' = held /\ gone' = gone
  BY DEF Type
<1>2. TurnsTyped /\ TurnsOnce /\ SendUnderWay /\ PersonsNext
  BY Known DEF TurnsInv
<1>3. Typed[c] \in 0..2 /\ typed[c] \in 0..2
  BY <1>2, CoordAssumption DEF TurnsTyped
<1>4. typed[c] + 1 \in 1..2
  BY <1>1, <1>3
<1>5. Context(c) \subseteq Deliveries
  BY DEF Context, Waits
<1>6. Person(c, typed[c] + 1) \in Runs
  BY <1>4, RunNames
<1>7. [run |-> Person(c, typed[c] + 1), inputs |-> Context(c)] \in Typings
  BY <1>5, <1>6 DEF Typings
<1>8. typing' \in [Chats -> Typings \cup {None}]
  BY <1>1, <1>2, <1>7 DEF TurnsTyped
<1>9. typed' \in [Chats -> 0..2]
  BY <1>1, <1>2, <1>4 DEF TurnsTyped
<1>10. TurnsTyped'
  BY <1>1, <1>2, <1>8, <1>9 DEF TurnsTyped
<1>11. TurnsOnce' /\ SendUnderWay'
  BY <1>1, <1>2 DEF TurnsOnce, SendUnderWay
<1>12. ASSUME NEW e \in Chats
       PROVE  /\ \A n \in 1..2 : n > typed'[e] => run[Person(e, n)].status = "none"
              /\ typing'[e] # None => /\ typed'[e] \in 1..2 /\ typing'[e].run = Person(e, typed'[e])
                                      /\ run[typing'[e].run].status = "none"
  <2>1. /\ \A n \in 1..2 : n > typed[e] => run[Person(e, n)].status = "none"
        /\ typing[e] # None => /\ typed[e] \in 1..2 /\ typing[e].run = Person(e, typed[e])
                               /\ run[typing[e].run].status = "none"
    BY <1>2 DEF PersonsNext
  <2>2. CASE e = c
    <3>1. typed'[c] = typed[c] + 1
      BY <1>1, <1>2 DEF TurnsTyped
    <3>2. typing'[c].run = Person(c, typed[c] + 1)
      BY <1>1, <1>2 DEF TurnsTyped
    <3>3. \A n \in 1..2 : n > typed[c] + 1 => n > typed[c]
      BY <1>3
    <3>4. typed[c] + 1 > typed[c]
      BY <1>3
    <3>5. QED
      BY <1>4, <2>1, <2>2, <3>1, <3>2, <3>3, <3>4
  <2>3. CASE e # c
    <3>1. typed'[e] = typed[e] /\ typing'[e] = typing[e]
      BY <1>1, <1>2, <2>3 DEF TurnsTyped
    <3>2. QED
      BY <2>1, <3>1
  <2>4. QED
    BY <2>2, <2>3
<1>13. PersonsNext'
  BY <1>1, <1>12 DEF PersonsNext
<1>14. TurnsInv'
  BY <1>10, <1>11, <1>13 DEF TurnsInv
<1>15. Closes({})
  BY <1>1, Known, StillCloses
<1>16. Onward
  BY <1>1 DEF Onward
<1>17. CoordInv'
  BY <1>14, <1>15, <1>16, StepKeeps
<1>18. QED
  BY <1>1, <1>17 DEF NotAnswering

LEMMA TypedFailsKeeps ==
  ASSUME CoordInv, NEW c \in Chats, TypedFails(c)
  PROVE  CoordInv' /\ NotAnswering
<1>1. /\ typed' = typed /\ typing' = [typing EXCEPT ![c] = None]
      /\ req' = req /\ del' = del /\ made' = made /\ later' = later /\ run' = run
      /\ turns' = turns /\ sending' = sending /\ held' = held /\ gone' = gone
  BY DEF TypedFails
<1>2. TurnsTyped /\ TurnsOnce /\ SendUnderWay /\ PersonsNext
  BY Known DEF TurnsInv
<1>3. typing' \in [Chats -> Typings \cup {None}]
      /\ typing'[c] = None /\ \A e \in Chats : e # c => typing'[e] = typing[e]
  BY <1>1, <1>2 DEF TurnsTyped
<1>4. TurnsTyped'
  BY <1>1, <1>2, <1>3 DEF TurnsTyped
<1>5. TurnsOnce' /\ SendUnderWay'
  BY <1>1, <1>2 DEF TurnsOnce, SendUnderWay
<1>6. PersonsNext'
  BY <1>1, <1>2, <1>3 DEF PersonsNext
<1>7. TurnsInv'
  BY <1>4, <1>5, <1>6 DEF TurnsInv
<1>8. Closes({})
  BY <1>1, Known, StillCloses
<1>9. Onward
  BY <1>1 DEF Onward
<1>10. CoordInv'
  BY <1>7, <1>8, <1>9, StepKeeps
<1>11. QED
  BY <1>1, <1>10 DEF NotAnswering

LEMMA TypedTakenKeeps ==
  ASSUME CoordInv, NEW c \in Chats, TypedTaken(c)
  PROVE  CoordInv' /\ NotAnswering
<1> DEFINE t == typing[c]
<1>1. /\ t # None /\ typed' = typed /\ typing' = [typing EXCEPT ![c] = None]
      /\ turns' = [turns EXCEPT ![c] = Append(@, t.run)]
      /\ run' = [run EXCEPT ![t.run] = [status |-> "running", inputs |-> t.inputs]]
      /\ del' = Accept(t.run, t.inputs) /\ later' = later \ t.inputs
      /\ req' = req /\ made' = made /\ sending' = sending /\ held' = held /\ gone' = gone
  BY DEF TypedTaken
<1>2. TurnsTyped /\ TurnsOnce /\ SendUnderWay /\ PersonsNext /\ TurnsInv
  BY Known DEF TurnsInv
<1>3. t \in Typings /\ t.run \in Runs /\ t.inputs \subseteq Deliveries
  BY <1>1, <1>2 DEF TurnsTyped, Typings
<1>4. /\ typed[c] \in 1..2 /\ t.run = Person(c, typed[c]) /\ run[t.run].status = "none"
  BY <1>1, <1>2 DEF PersonsNext
<1> HIDE DEF t
<1>5. PICK x \in Runs : x = t.run /\ IsPersons(x) /\ run[x].status = "none"
  BY <1>3, <1>4, RunNames
<1>6. \A e \in Chats : x \notin ToSet(turns[e])
  BY <1>2, <1>5 DEF TurnsOnce
<1>7. turns' = [turns EXCEPT ![c] = Append(@, x)]
  BY <1>1, <1>5
<1>8. /\ turns' \in [Chats -> Seq(Runs)]
      /\ \A e \in Chats : IsInjective(turns'[e])
      /\ \A e, f \in Chats : e # f => ToSet(turns'[e]) \cap ToSet(turns'[f]) = {}
      /\ ToSet(turns'[c]) = ToSet(turns[c]) \cup {x}
      /\ \A e \in Chats : e # c => ToSet(turns'[e]) = ToSet(turns[e])
  BY <1>2, <1>6, <1>7, TurnAppended
<1>9. /\ run' \in [Runs -> RunRecords] /\ run'[x].status = "running"
      /\ \A y \in Runs : y # x => run'[y] = run[y]
  <2>1. [status |-> "running", inputs |-> t.inputs] \in RunRecords
    BY <1>3 DEF RunRecords
  <2>2. QED
    BY <1>1, <1>2, <1>5, <2>1 DEF TurnsTyped
<1>10. /\ typing' \in [Chats -> Typings \cup {None}]
       /\ typing'[c] = None /\ \A e \in Chats : e # c => typing'[e] = typing[e]
  BY <1>1, <1>2 DEF TurnsTyped
<1>11. TurnsTyped'
  BY <1>1, <1>2, <1>8, <1>9, <1>10 DEF TurnsTyped
<1>12. ASSUME NEW e \in Chats, NEW y \in ToSet(turns'[e])
       PROVE  /\ run'[y].status = "running"
              /\ ~IsPersons(y) => y \in ToSet(turns[e])
  <2>1. y = x \/ y \in ToSet(turns[e])
    BY <1>8, <1>12
  <2>2. CASE y = x
    BY <1>5, <1>9, <2>2
  <2>3. CASE y # x
    <3>1. y \in ToSet(turns[e]) /\ y \in Runs
      BY <1>2, <2>1, <2>3, TurnsAreRuns DEF InTurnsAreRuns
    <3>2. QED
      BY <1>2, <1>9, <2>3, <3>1 DEF TurnsOnce
  <2>4. QED
    BY <2>2, <2>3
<1>13. TurnsOnce'
  BY <1>8, <1>12 DEF TurnsOnce
<1>14. SendUnderWay'
  <2>1. ASSUME sending # None
        PROVE  /\ ~IsPersons(sending.run)
               /\ sending.stage = "preparing" => run'[sending.run].status = "queued"
               /\ sending.stage # "preparing" => run'[sending.run].status = "running"
               /\ \A e \in Chats : sending.run \in ToSet(turns'[e]) =>
                    (e = sending.chat /\ sending.stage = "native")
    <3>1. sending.run \in Runs
      BY <1>2, <2>1, RecordFields DEF TurnsTyped
    <3>2. ~IsPersons(sending.run) /\ sending.run # x
      BY <1>2, <1>5, <2>1 DEF SendUnderWay
    <3>3. QED
      BY <1>2, <1>9, <1>12, <2>1, <3>1, <3>2 DEF SendUnderWay
  <2>2. QED
    BY <1>1, <2>1 DEF SendUnderWay
<1>15. PersonsNext'
  <2>1. ASSUME NEW e \in Chats
        PROVE  /\ \A n \in 1..2 : n > typed[e] => run'[Person(e, n)].status = "none"
               /\ typing'[e] # None => /\ typed[e] \in 1..2 /\ typing'[e].run = Person(e, typed[e])
                                       /\ run'[typing'[e].run].status = "none"
    <3>1. /\ \A n \in 1..2 : n > typed[e] => run[Person(e, n)].status = "none"
          /\ typing[e] # None => /\ typed[e] \in 1..2 /\ typing[e].run = Person(e, typed[e])
                                 /\ run[typing[e].run].status = "none"
      BY <1>2 DEF PersonsNext
    <3>2. x = Person(c, typed[c])
      BY <1>4, <1>5
    <3>3. \A n \in 1..2 : n > typed[e] => Person(e, n) # x
      <4>1. typed[e] \in 0..2
        BY <1>2 DEF TurnsTyped
      <4>2. \A n \in 1..2 : n > typed[e] => n # typed[e]
        BY <4>1
      <4>3. QED
        BY <1>4, <3>2, <4>2, RunNames
    <3>4. \A n \in 1..2 : n > typed[e] => run'[Person(e, n)].status = "none"
      BY <1>9, <3>1, <3>3, RunNames
    <3>5. CASE e = c
      BY <1>10, <3>4, <3>5
    <3>6. CASE e # c
      <4>1. typing'[e] = typing[e]
        BY <1>10, <3>6
      <4>2. typing[e] # None => typing[e].run \in Runs /\ typing[e].run # x
        BY <1>4, <3>1, <3>2, <3>6, RunNames
      <4>3. QED
        BY <1>9, <3>1, <3>4, <4>1, <4>2
    <3>7. QED
      BY <3>5, <3>6
  <2>2. QED
    BY <1>1, <2>1 DEF PersonsNext
<1>16. TurnsInv'
  BY <1>11, <1>13, <1>14, <1>15 DEF TurnsInv
<1>17. Closes({})
  <2>1. Alike(del', del, {})
    BY <1>1, <1>3, AcceptIsAlike
  <2>2. QED
    BY <1>1, <2>1, Known, StillCloses
<1>18. Onward
  BY <1>1, <1>5, <1>9, <1>12 DEF Onward
<1>19. CoordInv'
  BY <1>16, <1>17, <1>18, StepKeeps
<1>20. QED
  BY <1>1, <1>19 DEF NotAnswering

----------------------------------------------------------------------------
(* The pass's send *)

LEMMA SendFacts ==
  ASSUME CoordInv, sending # None
  PROVE  /\ sending \in Sends /\ sending.chat \in Chats /\ sending.run \in Runs
         /\ sending.inputs \subseteq Deliveries
         /\ sending.stage \in {"preparing", "started", "native"}
         /\ ~IsPersons(sending.run)
         /\ run[sending.run].status = IF sending.stage = "preparing" THEN "queued" ELSE "running"
         /\ \A c \in Chats : sending.run \in ToSet(turns[c]) =>
              (c = sending.chat /\ sending.stage = "native")
<1>1. TurnsTyped /\ SendUnderWay
  BY Known DEF TurnsInv
<1>2. sending \in Sends
  BY <1>1 DEF TurnsTyped
<1>3. /\ sending.chat \in Chats /\ sending.run \in Runs /\ sending.inputs \subseteq Deliveries
      /\ sending.stage \in {"preparing", "started", "native"}
  BY <1>2, RecordFields
<1>4. QED
  BY <1>1, <1>2, <1>3 DEF SendUnderWay

LEMMA RunChanges ==
  ASSUME TurnsTyped, NEW x \in Runs, NEW s \in {"queued", "running", "completed", "failed"},
         run' = [run EXCEPT ![x].status = s]
  PROVE  /\ run' \in [Runs -> RunRecords] /\ run'[x].status = s
         /\ \A y \in Runs : y # x => run'[y] = run[y]
<1>1. run \in [Runs -> RunRecords]
  BY DEF TurnsTyped
<1>2. \A y \in Runs : /\ y # x => run'[y] = run[y]
                      /\ y = x => run'[y] = [run[x] EXCEPT !.status = s]
  BY <1>1
<1>3. [run[x] EXCEPT !.status = s] \in RunRecords /\ [run[x] EXCEPT !.status = s].status = s
  BY <1>1 DEF RunRecords
<1>4. QED
  BY <1>1, <1>2, <1>3

(* What the send's run becomes, while no harness has it.                    *)
LEMMA SendMoves ==
  ASSUME CoordInv, sending # None, sending.stage # "native",
         NEW s \in {"queued", "running"}, run' = [run EXCEPT ![sending.run].status = s],
         \/ sending' = None
         \/ s = "running" /\ sending' = [sending EXCEPT !.stage = "started"],
         later' \subseteq Deliveries,
         UNCHANGED <<req, del, made, turns, typing, held, gone, typed>>
  PROVE  CoordInv' /\ NotAnswering
<1>1. TurnsTyped /\ TurnsOnce /\ SendUnderWay /\ PersonsNext /\ TurnsInv
  BY Known DEF TurnsInv
<1>2. PICK x \in Runs : x = sending.run
  BY SendFacts
<1>3. ~IsPersons(x) /\ UnderWay(x) /\ \A c \in Chats : x \notin ToSet(turns[c])
  BY <1>2, SendFacts DEF UnderWay
<1>4. /\ run' \in [Runs -> RunRecords] /\ run'[x].status = s
      /\ \A y \in Runs : y # x => run'[y] = run[y]
  BY <1>1, <1>2, RunChanges
<1>5. /\ sending' = None \/ (sending' \in Sends /\ sending'.run = x /\ sending'.stage = "started" /\ s = "running")
      /\ sending' # None => sending'.run = x
  <2>1. sending \in Sends
    BY SendFacts
  <2>2. [sending EXCEPT !.stage = "started"] \in Sends
    BY <2>1 DEF Sends
  <2>3. /\ [sending EXCEPT !.stage = "started"].run = sending.run
        /\ [sending EXCEPT !.stage = "started"].stage = "started"
    BY <2>1 DEF Sends
  <2>4. QED
    BY <1>2, <2>2, <2>3
<1>6. TurnsTyped'
  BY <1>1, <1>4, <1>5 DEF TurnsTyped
<1>7. TurnsOnce'
  <2>1. \A c \in Chats : \A y \in ToSet(turns[c]) : y \in Runs /\ y # x
    BY <1>1, <1>3, TurnsAreRuns DEF InTurnsAreRuns
  <2>2. \A c \in Chats : \A y \in ToSet(turns[c]) : run[y].status = "running"
    BY <1>1 DEF TurnsOnce
  <2>3. \A c \in Chats : \A y \in ToSet(turns[c]) : run'[y].status = "running"
    BY <1>4, <2>1, <2>2
  <2>4. turns' = turns
    OBVIOUS
  <2>5. QED
    BY <1>1, <2>3, <2>4 DEF TurnsOnce
<1>8. SendUnderWay'
  BY <1>3, <1>4, <1>5 DEF SendUnderWay
<1>9. PersonsNext'
  <2>1. \A y \in Runs : (IsPersons(y) /\ run[y].status = "none") => run'[y].status = "none"
    BY <1>3, <1>4
  <2>2. QED
    BY <1>1, <2>1, PersonsKept
<1>10. TurnsInv'
  BY <1>6, <1>7, <1>8, <1>9 DEF TurnsInv
<1>11. Closes({})
  BY Known, StillCloses
<1>12. Onward
  <2>1. \A y \in Runs : \/ run'[y].status = run[y].status
                        \/ /\ UnderWay(y) /\ run'[y].status \in {"queued", "running", "failed"}
                           /\ run'[y].status = "queued" => (sending # None /\ sending.run = y)
    BY <1>2, <1>3, <1>4
  <2>2. turns' = turns
    OBVIOUS
  <2>3. sending' # None => (sending # None /\ sending'.run = sending.run)
    BY <1>2, <1>5
  <2>4. \A c \in Chats : \A y \in ToSet(turns'[c]) :
           (\E e \in Chats : y \in ToSet(turns[e])) /\ ~(sending # None /\ sending.run = y)
    BY <1>2, <1>3, <2>2
  <2>5. QED
    BY <2>1, <2>3, <2>4 DEF Onward
<1>13. CoordInv'
  BY <1>10, <1>11, <1>12, StepKeeps
<1>14. QED
  BY <1>13 DEF NotAnswering

LEMMA BoundaryKeeps ==
  ASSUME CoordInv, Boundary
  PROVE  CoordInv' /\ NotAnswering
<1>1. /\ sending # None /\ sending.stage = "preparing"
      /\ run' = [run EXCEPT ![sending.run].status = "running"]
      /\ sending' = [sending EXCEPT !.stage = "started"]
      /\ later' = later
      /\ UNCHANGED <<req, del, made, turns, typing, held, gone, typed>>
  BY DEF Boundary
<1>2. later' \subseteq Deliveries
  BY <1>1, Known
<1>3. QED
  BY <1>1, <1>2, SendMoves

LEMMA HeldBackKeeps ==
  ASSUME CoordInv, HeldBack
  PROVE  CoordInv' /\ NotAnswering
<1>1. /\ sending # None /\ sending.stage = "started"
      /\ run' = [run EXCEPT ![sending.run].status = "queued"]
      /\ sending' = None
      /\ later' = later
      /\ UNCHANGED <<req, del, made, turns, typing, held, gone, typed>>
  BY DEF HeldBack
<1>2. later' \subseteq Deliveries
  BY <1>1, Known
<1>3. QED
  BY <1>1, <1>2, SendMoves

LEMMA SendRetryKeeps ==
  ASSUME CoordInv, SendRetry
  PROVE  CoordInv' /\ NotAnswering
<1>1. /\ sending # None /\ sending.stage = "preparing"
      /\ run' = [run EXCEPT ![sending.run].status = "queued"]
      /\ sending' = None
      /\ later' = later \cup {d \in sending.inputs : del[d].status = "delivered"}
      /\ UNCHANGED <<req, del, made, turns, typing, held, gone, typed>>
  BY DEF SendRetry
<1>2. later' \subseteq Deliveries
  BY <1>1, Known, SendFacts
<1>3. QED
  BY <1>1, <1>2, SendMoves

LEMMA GiveKeeps ==
  ASSUME CoordInv, Give
  PROVE  CoordInv' /\ NotAnswering
<1>1. /\ sending # None /\ sending.stage = "started"
      /\ turns' = [turns EXCEPT ![sending.chat] = Append(@, sending.run)]
      /\ sending' = [sending EXCEPT !.stage = "native"]
      /\ UNCHANGED <<req, del, made, later, run, typing, held, gone, typed>>
  BY DEF Give, Gives
<1>2. TurnsTyped /\ TurnsOnce /\ SendUnderWay /\ PersonsNext /\ TurnsInv
  BY Known DEF TurnsInv
<1>3. PICK x \in Runs, c \in Chats : x = sending.run /\ c = sending.chat
  BY <1>1, SendFacts
<1>4. /\ ~IsPersons(x) /\ run[x].status = "running" /\ \A e \in Chats : x \notin ToSet(turns[e])
  BY <1>1, <1>3, SendFacts
<1>5. /\ sending' \in Sends /\ sending'.run = x /\ sending'.chat = c /\ sending'.stage = "native"
      /\ sending' # None
  <2>1. sending \in Sends
    BY <1>1, SendFacts
  <2>2. /\ sending' \in Sends /\ sending'.run = sending.run /\ sending'.chat = sending.chat
        /\ sending'.stage = "native"
    BY <1>1, <2>1 DEF Sends
  <2>3. QED
    BY <1>3, <2>2, RunNames
<1>6. turns' = [turns EXCEPT ![c] = Append(@, x)]
  BY <1>1, <1>3
<1>7. /\ turns' \in [Chats -> Seq(Runs)]
      /\ \A e \in Chats : IsInjective(turns'[e])
      /\ \A e, f \in Chats : e # f => ToSet(turns'[e]) \cap ToSet(turns'[f]) = {}
      /\ ToSet(turns'[c]) = ToSet(turns[c]) \cup {x}
      /\ \A e \in Chats : e # c => ToSet(turns'[e]) = ToSet(turns[e])
  BY <1>2, <1>4, <1>6, TurnAppended
<1>8. TurnsTyped'
  BY <1>1, <1>2, <1>5, <1>7 DEF TurnsTyped
<1>9. \A e \in Chats : \A y \in ToSet(turns'[e]) :
         \/ y = x /\ e = c
         \/ y \in ToSet(turns[e]) /\ y # x
  BY <1>4, <1>7
<1>10. TurnsOnce'
  <2>1. \A e \in Chats : \A y \in ToSet(turns'[e]) : run[y].status = "running"
    BY <1>2, <1>4, <1>9 DEF TurnsOnce
  <2>2. QED
    BY <1>1, <1>7, <2>1 DEF TurnsOnce
<1>11. SendUnderWay'
  BY <1>1, <1>4, <1>5, <1>9 DEF SendUnderWay
<1>12. PersonsNext'
  BY <1>1, <1>2, PersonsKept
<1>13. TurnsInv'
  BY <1>8, <1>10, <1>11, <1>12 DEF TurnsInv
<1>14. Closes({})
  BY <1>1, Known, StillCloses
<1>15. Onward
  BY <1>1, <1>3, <1>5, <1>9 DEF Onward
<1>16. CoordInv'
  BY <1>13, <1>14, <1>15, StepKeeps
<1>17. QED
  BY <1>1, <1>16 DEF NotAnswering

LEMMA AcceptedKeeps ==
  ASSUME CoordInv, Accepted
  PROVE  CoordInv' /\ NotAnswering
<1>1. /\ sending # None /\ sending.stage = "native"
      /\ del' = Accept(sending.run, sending.inputs)
      /\ req' = [r \in Requests |-> IF r \in OwnedBy(sending.run)
                                    THEN [req[r] EXCEPT !.status = "working"] ELSE req[r]]
      /\ later' = later \ sending.inputs /\ sending' = None
      /\ UNCHANGED <<made, run, turns, typing, held, gone, typed>>
  BY DEF Accepted
<1>2. /\ TurnsTyped /\ TurnsOnce /\ SendUnderWay /\ PersonsNext /\ TurnsInv /\ RecordsInv
      /\ ItsOwnRun /\ RunFits /\ WorkedOnceAccepted /\ AnswersRead
      /\ req \in [Requests -> ReqRecords] /\ later \subseteq Deliveries
  BY Known DEF TurnsInv, AssignmentsInv
<1>3. PICK x \in Runs : x = sending.run /\ run[x].status = "running"
  BY <1>1, SendFacts
<1>4. \A r \in Requests :
         /\ r \notin OwnedBy(x) => req'[r] = req[r]
         /\ r \in OwnedBy(x) => req'[r] = [req[r] EXCEPT !.status = "working"]
  BY <1>1, <1>3
<1>5. ASSUME NEW r \in Requests
      PROVE  /\ req'[r] \in ReqRecords /\ req'[r].run = req[r].run /\ req'[r].parent = req[r].parent
             /\ r \in OwnedBy(x) => (req'[r].status = "working" /\ Open(r) /\ req[r].run = x)
  <2>1. req[r] \in ReqRecords
    BY <1>2
  <2>2. /\ [req[r] EXCEPT !.status = "working"] \in ReqRecords
        /\ [req[r] EXCEPT !.status = "working"].run = req[r].run
        /\ [req[r] EXCEPT !.status = "working"].parent = req[r].parent
        /\ [req[r] EXCEPT !.status = "working"].status = "working"
    BY <2>1 DEF ReqRecords, OpenStatus
  <2>3. QED
    BY <1>4, <2>1, <2>2 DEF OwnedBy
<1>6. req' \in [Requests -> ReqRecords]
  BY <1>1, <1>5
<1>7. Alike(del', del, {})
  BY <1>1, <1>3, AcceptIsAlike
<1>8. OutcomesOf({}) = {} /\ Once(made', ToSet(made) \cup OutcomesOf({}), Deliveries)
  BY <1>1, <1>2 DEF OutcomesOf, Once, RecordsInv, RecordsTyped
<1>9. Ends({})
  <2>1. \A r \in Requests : /\ ~Open(r) => req'[r] = req[r]
                            /\ Open(r) => req'[r].status \in OpenStatus
    <3>1. "working" \in OpenStatus
      BY DEF OpenStatus
    <3>2. QED
      BY <1>4, <1>5, <3>1 DEF Open
  <2>2. QED
    BY <1>5, <1>6, <1>7, <1>8, <2>1 DEF Ends, Alike
<1>10. RecordsInv'
  BY <1>2, <1>9, EndsKeepsRecords
<1>11. TurnsInv'
  <2>1. TurnsTyped'
    BY <1>1, <1>2 DEF TurnsTyped
  <2>2. TurnsOnce' /\ SendUnderWay' /\ PersonsNext'
    BY <1>1, <1>2 DEF TurnsOnce, SendUnderWay, PersonsNext
  <2>3. QED
    BY <2>1, <2>2 DEF TurnsInv
<1>12. ItsOwnRun'
  BY <1>1, <1>2, <1>5 DEF ItsOwnRun, UnderWay, RunsOf
<1>13. RunFits'
  <2>1. \A r \in Requests : r \in OwnedBy(x) =>
           (req'[r].status = "working" /\ req'[r].run = x /\ x # None /\ run'[x].status = "running")
    BY <1>1, <1>3, <1>5, RunNames
  <2>2. \A r \in Requests : r \notin OwnedBy(x) => req'[r] = req[r]
    BY <1>4
  <2>3. run' = run
    BY <1>1
  <2>4. ASSUME NEW r \in Requests
        PROVE  /\ (req'[r].status = "queued" /\ req'[r].run # None) =>
                    run'[req'[r].run].status \in {"queued", "running", "failed"}
               /\ req'[r].status = "waiting" =>
                    (req'[r].run # None /\ run'[req'[r].run].status = "completed")
               /\ req'[r].status = "working" =>
                    (req'[r].run # None /\ run'[req'[r].run].status \in {"running", "failed"})
    <3>1. CASE r \in OwnedBy(x)
      BY <2>1, <3>1
    <3>2. CASE r \notin OwnedBy(x)
      BY <1>2, <2>2, <2>3, <3>2 DEF RunFits
    <3>3. QED
      BY <3>1, <3>2
  <2>5. QED
    BY <2>4 DEF RunFits
<1>14. WorkedOnceAccepted'
  <2>1. ASSUME NEW r \in Requests, NEW c \in Chats, req'[r].status = "queued",
               req'[r].run \in ToSet(turns[c])
        PROVE  FALSE
    <3>1. r \notin OwnedBy(x)
      BY <1>5, <2>1
    <3>2. req'[r] = req[r]
      BY <1>4, <3>1
    <3>3. req[r].run = x
      BY <1>2, <1>3, <2>1, <3>2 DEF WorkedOnceAccepted
    <3>4. Open(r)
      BY <2>1, <3>2 DEF Open, OpenStatus
    <3>5. QED
      BY <3>1, <3>3, <3>4 DEF OwnedBy
  <2>2. QED
    BY <1>1, <2>1 DEF WorkedOnceAccepted
<1>15. ASSUME NEW q \in Requests, del'[Outcome(q)].cont # None
       PROVE  /\ req'[q].parent \in Requests /\ del'[Outcome(q)].cont \in RunsOf(req'[q].parent)
              /\ \/ run'[del'[Outcome(q)].cont].status = "completed"
                 \/ req'[req'[q].parent].status \notin OpenStatus
                 \/ req'[req'[q].parent].run = del'[Outcome(q)].cont
  <2>1. del'[Outcome(q)].cont = del[Outcome(q)].cont /\ req'[q].parent = req[q].parent
    BY <1>5, <1>7, DeliveryNames DEF Alike
  <2>2. PICK y, r : y = del[Outcome(q)].cont /\ r = req[q].parent
    OBVIOUS
  <2>3. /\ r \in Requests /\ y \in RunsOf(r)
        /\ (run[y].status = "completed" \/ ~Open(r) \/ req[r].run = y)
    BY <1>2, <1>15, <2>1, <2>2 DEF AnswersRead
  <2>4. ~Open(r) => req'[r].status \notin OpenStatus
    BY <1>4, <2>3 DEF Open, OwnedBy
  <2>5. req'[r].run = req[r].run
    BY <1>5, <2>3
  <2>6. QED
    BY <1>1, <2>1, <2>2, <2>3, <2>4, <2>5
<1>16. AnswersRead'
  BY <1>15 DEF AnswersRead, Open, RunsOf
<1>17. CoordInv'
  BY <1>10, <1>11, <1>12, <1>13, <1>14, <1>16 DEF CoordInv, AssignmentsInv
<1>18. NotAnswering
  BY <1>4, <1>5 DEF NotAnswering
<1>19. QED
  BY <1>17, <1>18

LEMMA SendFailsKeeps ==
  ASSUME CoordInv, SendFails
  PROVE  CoordInv' /\ NotAnswering
<1>1. PICK own, R :
        /\ sending # None
        /\ run' = [run EXCEPT ![sending.run].status = "failed"]
        /\ Finish(Failed(own), R, "failed")
        /\ turns' = [turns EXCEPT ![sending.chat] = Without(@, {sending.run})]
        /\ sending' = None
        /\ UNCHANGED <<later, typing, held, gone, typed>>
  BY Zenon DEF SendFails
<1>2. TurnsTyped /\ TurnsOnce /\ SendUnderWay /\ PersonsNext /\ TurnsInv /\ RecordsInv
  BY Known DEF TurnsInv
<1>3. PICK x \in Runs, c \in Chats : x = sending.run /\ c = sending.chat
  BY <1>1, SendFacts
<1>4. /\ ~IsPersons(x) /\ UnderWay(x) /\ \A e \in Chats : x \in ToSet(turns[e]) => e = c
  BY <1>1, <1>3, SendFacts DEF UnderWay
<1>5. /\ run' \in [Runs -> RunRecords] /\ run'[x].status = "failed"
      /\ \A y \in Runs : y # x => run'[y] = run[y]
  BY <1>1, <1>2, <1>3, RunChanges
<1>6. /\ turns \in [Chats -> Seq(Runs)] /\ turns[c] \in Seq(Runs) /\ IsInjective(turns[c])
  BY <1>2 DEF TurnsTyped, TurnsOnce
<1>7. turns'[c] = Without(turns[c], {x}) /\ \A e \in Chats : e # c => turns'[e] = turns[e]
  BY <1>1, <1>3, <1>6
<1>8. Once(turns'[c], ToSet(turns[c]) \ {x}, Runs)
  BY <1>6, <1>7, OnceWithout
<1>9. turns' \in [Chats -> Seq(Runs)]
  BY <1>1, <1>3, <1>6, <1>7, <1>8 DEF Once
<1>10. \A e \in Chats : /\ IsInjective(turns'[e])
                        /\ ToSet(turns'[e]) = ToSet(turns[e]) \ {x}
  BY <1>2, <1>4, <1>7, <1>8 DEF Once, TurnsOnce
<1>11. \A e \in Chats : \A y \in ToSet(turns'[e]) :
          y # x /\ y \in Runs /\ y \in ToSet(turns[e]) /\ run'[y].status = "running"
  BY <1>2, <1>5, <1>10, TurnsAreRuns DEF InTurnsAreRuns, TurnsOnce
<1>12. TurnsTyped'
  BY <1>1, <1>2, <1>5, <1>9 DEF TurnsTyped
<1>13. TurnsOnce'
  BY <1>2, <1>10, <1>11 DEF TurnsOnce
<1>14. SendUnderWay'
  BY <1>1 DEF SendUnderWay
<1>15. PersonsNext'
  <2>1. \A y \in Runs : (IsPersons(y) /\ run[y].status = "none") => run'[y].status = "none"
    BY <1>4, <1>5
  <2>2. QED
    BY <1>1, <1>2, <2>1, PersonsKept
<1>16. TurnsInv'
  BY <1>12, <1>13, <1>14, <1>15 DEF TurnsInv
<1>17. "failed" \in Closed
  BY DEF Closed
<1>18. Closes(Ending(R))
  BY <1>1, <1>2, <1>17, FailedIsAlike, FinishCloses
<1>19. Onward
  <2>1. \A y \in Runs : \/ run'[y].status = run[y].status
                        \/ UnderWay(y) /\ run'[y].status = "failed"
    BY <1>4, <1>5
  <2>2. QED
    BY <1>1, <1>3, <1>11, <2>1 DEF Onward
<1>20. CoordInv'
  BY <1>16, <1>18, <1>19, StepKeeps
<1>21. req' = Ended(R, "failed")
  BY <1>1 DEF Finish
<1>22. QED
  BY <1>2, <1>17, <1>20, <1>21, EndedAnswers

LEMMA RestartKeeps ==
  ASSUME CoordInv, Restart
  PROVE  CoordInv' /\ NotAnswering
<1>1. /\ sending' = None
      /\ turns' = [c \in Chats |-> <<>>] /\ typing' = [c \in Chats |-> None]
      /\ run' = [x \in Runs |-> IF run[x].status = "running"
                                THEN [run[x] EXCEPT !.status = "failed"] ELSE run[x]]
      /\ req' = req /\ del' = del /\ made' = made /\ later' = later /\ held' = held
      /\ gone' = gone /\ typed' = typed
  BY DEF Restart
<1>2. TurnsTyped /\ PersonsNext
  BY Known DEF TurnsInv
<1>3. ASSUME NEW x \in Runs
      PROVE  /\ run'[x] \in RunRecords
             /\ run'[x].status = IF run[x].status = "running" THEN "failed" ELSE run[x].status
  <2>1. run[x] \in RunRecords
    BY <1>2 DEF TurnsTyped
  <2>2. /\ [run[x] EXCEPT !.status = "failed"] \in RunRecords
        /\ [run[x] EXCEPT !.status = "failed"].status = "failed"
    BY <2>1 DEF RunRecords
  <2>3. QED
    BY <1>1, <2>1, <2>2
<1>4. run' \in [Runs -> RunRecords]
  BY <1>1, <1>3
<1>5. Once(<<>>, {}, Runs)
  BY OnceEmpty
<1>6. \A c \in Chats : Once(turns'[c], {}, Runs) /\ typing'[c] = None
  BY <1>1, <1>5
<1>7. turns' \in [Chats -> Seq(Runs)] /\ typing' \in [Chats -> Typings \cup {None}]
  BY <1>1, <1>5 DEF Once
<1>8. TurnsTyped'
  BY <1>1, <1>2, <1>4, <1>7 DEF TurnsTyped
<1>9. TurnsOnce'
  BY <1>6 DEF TurnsOnce, Once
<1>10. SendUnderWay'
  BY <1>1 DEF SendUnderWay
<1>11. PersonsNext'
  <2>1. \A c \in Chats, n \in 1..2 : Person(c, n) \in Runs
    BY RunNames
  <2>2. \A c \in Chats : \A n \in 1..2 : n > typed[c] => run'[Person(c, n)].status = "none"
    BY <1>2, <1>3, <2>1 DEF PersonsNext
  <2>3. QED
    BY <1>1, <1>6, <2>2 DEF PersonsNext
<1>12. TurnsInv'
  BY <1>8, <1>9, <1>10, <1>11 DEF TurnsInv
<1>13. Closes({})
  BY <1>1, Known, StillCloses
<1>14. Onward
  <2>1. \A x \in Runs : \/ run'[x].status = run[x].status
                        \/ UnderWay(x) /\ run'[x].status = "failed"
    BY <1>3 DEF UnderWay
  <2>2. \A c \in Chats : ToSet(turns'[c]) = {}
    BY <1>6 DEF Once
  <2>3. QED
    BY <1>1, <2>1, <2>2 DEF Onward
<1>15. CoordInv'
  BY <1>12, <1>13, <1>14, StepKeeps
<1>16. QED
  BY <1>1, <1>15 DEF NotAnswering

----------------------------------------------------------------------------
(* A turn ends *)

(* The property HeardAll says of every step.                                *)
HeardStep == \A r \in Requests :
  req[r].status = "working" /\ req'[r].status = "completed" /\ run'[req[r].run].status = "completed"
  => \A q \in Children(r) :
       /\ ~Open(q)
       /\ \/ del[Outcome(q)].status \in {"failed", "cancelled"}
          \/ del[Outcome(q)].cont \in RunsOf(r) /\ run'[del[Outcome(q)].cont].status = "completed"

LEMMA ProducerIsHead ==
  ASSUME CoordInv, NEW c \in Chats, Producer(c) # None
  PROVE  /\ turns[c] # <<>> /\ Producer(c) = Head(turns[c])
         /\ Producer(c) \in ToSet(turns[c]) /\ Producer(c) \in Runs
         /\ run[Producer(c)].status = "running"
         /\ Once(Tail(turns[c]), ToSet(turns[c]) \ {Producer(c)}, Runs)
<1>1. TurnsTyped /\ TurnsOnce
  BY Known DEF TurnsInv
<1>2. turns[c] # <<>> /\ Producer(c) = Head(turns[c])
  BY DEF Producer
<1>3. turns[c] \in Seq(Runs) /\ IsInjective(turns[c])
  BY <1>1 DEF TurnsTyped, TurnsOnce
<1>4. /\ Head(turns[c]) \in ToSet(turns[c]) /\ Head(turns[c]) \in Runs
      /\ Once(Tail(turns[c]), ToSet(turns[c]) \ {Head(turns[c])}, Runs)
  BY <1>2, <1>3, OnceHead
<1>5. run[Head(turns[c])].status = "running"
  BY <1>1, <1>4 DEF TurnsOnce
<1>6. QED
  BY <1>2, <1>4, <1>5

LEMMA EndTurnTurns ==
  ASSUME CoordInv, NEW c \in Chats, NEW ok \in BOOLEAN, EndTurn(c, ok)
  PROVE  /\ TurnsInv'
         /\ Producer(c) \in Runs /\ Producer(c) # None /\ run[Producer(c)].status = "running"
         /\ run'[Producer(c)].status = IF ok THEN "completed" ELSE "failed"
         /\ \A y \in Runs : y # Producer(c) => run'[y] = run[y]
         /\ \A e \in Chats : ToSet(turns'[e]) = ToSet(turns[e]) \ {Producer(c)}
         /\ Producer(c) \in ToSet(turns[c])
<1> DEFINE s == IF ok THEN "completed" ELSE "failed"
<1>1. /\ Producer(c) # None /\ (sending # None => sending.run # Producer(c))
      /\ turns' = [turns EXCEPT ![c] = Tail(@)]
      /\ run' = [run EXCEPT ![Producer(c)].status = s]
      /\ UNCHANGED <<later, sending, typing, held, gone, typed>>
  BY DEF EndTurn
<1>2. TurnsTyped /\ TurnsOnce /\ SendUnderWay /\ PersonsNext /\ TurnsInv
  BY Known DEF TurnsInv
<1>3. PICK x \in Runs : x = Producer(c)
  BY <1>1, ProducerIsHead
<1>4. /\ x \in ToSet(turns[c]) /\ run[x].status = "running"
      /\ Once(Tail(turns[c]), ToSet(turns[c]) \ {x}, Runs)
  BY <1>1, <1>3, ProducerIsHead
<1>5. s \in {"queued", "running", "completed", "failed"}
  OBVIOUS
<1>6. /\ run' \in [Runs -> RunRecords] /\ run'[x].status = s
      /\ \A y \in Runs : y # x => run'[y] = run[y]
  <2>1. run' = [run EXCEPT ![x].status = s]
    BY <1>1, <1>3
  <2> HIDE DEF s
  <2>2. QED
    BY <1>2, <1>5, <2>1, RunChanges
<1>7. turns \in [Chats -> Seq(Runs)] /\ \A e \in Chats : IsInjective(turns[e])
  BY <1>2 DEF TurnsTyped, TurnsOnce
<1>8. turns'[c] = Tail(turns[c]) /\ \A e \in Chats : e # c => turns'[e] = turns[e]
  BY <1>1, <1>7
<1>9. turns' \in [Chats -> Seq(Runs)]
  BY <1>1, <1>4, <1>7, <1>8 DEF Once
<1>10. \A e \in Chats : e # c => x \notin ToSet(turns[e])
  BY <1>2, <1>4 DEF TurnsOnce
<1>11. \A e \in Chats : /\ IsInjective(turns'[e])
                        /\ ToSet(turns'[e]) = ToSet(turns[e]) \ {x}
  BY <1>4, <1>7, <1>8, <1>10 DEF Once
<1>12. \A e \in Chats : \A y \in ToSet(turns'[e]) :
          y # x /\ y \in Runs /\ y \in ToSet(turns[e]) /\ run'[y].status = "running"
  BY <1>2, <1>6, <1>11, TurnsAreRuns DEF InTurnsAreRuns, TurnsOnce
<1>13. TurnsTyped'
  BY <1>1, <1>2, <1>6, <1>9 DEF TurnsTyped
<1>14. TurnsOnce'
  BY <1>2, <1>11, <1>12 DEF TurnsOnce
<1>15. SendUnderWay'
  <2>1. sending # None => (sending.run \in Runs /\ sending.run # x)
    BY <1>1, <1>3, SendFacts
  <2>2. QED
    BY <1>1, <1>2, <1>6, <1>12, <2>1 DEF SendUnderWay
<1>16. PersonsNext'
  <2>1. \A y \in Runs : (IsPersons(y) /\ run[y].status = "none") => run'[y].status = "none"
    BY <1>4, <1>6
  <2>2. QED
    BY <1>1, <1>2, <2>1, PersonsKept
<1>17. TurnsInv'
  BY <1>13, <1>14, <1>15, <1>16 DEF TurnsInv
<1>18. QED
  BY <1>1, <1>3, <1>4, <1>6, <1>11, <1>17

(* The requests a turn's run is for are worked on; each ends or waits.      *)
LEMMA EndTurnRequests ==
  ASSUME CoordInv, NEW c \in Chats, NEW ok \in BOOLEAN, EndTurn(c, ok)
  PROVE  \E E, W \in SUBSET Requests :
           /\ Ends(E) /\ E \cap W = {}
           /\ \A r \in Requests :
                /\ (Open(r) /\ req[r].run = Producer(c)) <=> r \in E \cup W
                /\ r \in E \cup W => req[r].status = "working"
                /\ req'[r].run = req[r].run
                /\ r \notin E \cup W => req'[r] = req[r]
                /\ r \in E => (ok => ~Owes(r)) /\ (req'[r].status = "completed" => ok)
                /\ r \in W => (ok /\ req'[r].status = "waiting")
           /\ \A d \in Deliveries : del'[d].cont = del[d].cont
<1> DEFINE R == {r \in OwnedBy(Producer(c)) : req[r].status # "queued"}
           W == {r \in R : ok /\ Owes(r)}
           status == IF ok THEN "completed" ELSE "failed"
           E == Ending(R \ W)
<1>1. /\ Producer(c) # None /\ (sending # None => sending.run # Producer(c))
      /\ req' = [r \in Requests |-> IF r \in W THEN [req[r] EXCEPT !.status = "waiting"]
                                    ELSE Ended(R \ W, status)[r]]
      /\ del' = Settled(del, R \ W) /\ made' = made \o Outcomes(R \ W)
  BY Zenon DEF EndTurn, settleAgentRequestsForRun
<1>2. RecordsInv /\ RecordsTyped /\ ItsOwnRun /\ RunFits /\ WorkedOnceAccepted
  BY Known DEF AssignmentsInv
<1>3. Producer(c) \in ToSet(turns[c]) /\ run[Producer(c)].status = "running"
  BY <1>1, ProducerIsHead
<1>4. ASSUME NEW r \in Requests, Open(r), req[r].run = Producer(c)
      PROVE  req[r].status = "working"
  <2>1. req[r].status # "queued"
    BY <1>1, <1>2, <1>3, <1>4 DEF WorkedOnceAccepted
  <2>2. req[r].status # "waiting"
    BY <1>2, <1>3, <1>4 DEF RunFits
  <2>3. QED
    BY <1>4, <2>1, <2>2 DEF Open, OpenStatus
<1>5. \A r \in Requests : r \in R <=> (Open(r) /\ req[r].run = Producer(c))
  BY <1>4 DEF OwnedBy
<1>6. R \subseteq Requests /\ W \subseteq R
  BY DEF OwnedBy
<1>7. \A r \in R : r \in E <=> r \notin W
  BY <1>5, <1>6 DEF Ending
<1>8. E \subseteq R /\ E \subseteq Requests
  BY DEF Ending, OwnedBy
<1>9. status \in Closed
  BY DEF Closed
<1>10. PICK B : B = R \ W
  OBVIOUS
<1>11. E = Ending(B)
  BY <1>10
<1>12. PICK st \in Closed : st = status
  BY <1>9
<1>13. /\ Ended(B, st) \in [Requests -> ReqRecords]
       /\ \A r \in Requests :
            /\ r \in Ending(B) => Ended(B, st)[r] = [req[r] EXCEPT !.status = st]
            /\ r \notin Ending(B) => Ended(B, st)[r] = req[r]
            /\ Ended(B, st)[r].parent = req[r].parent
            /\ Ended(B, st)[r].run = req[r].run
            /\ r \in Ending(B) => Ended(B, st)[r].status = st
  BY <1>2, EndedFields
<1>14. \A r \in Requests : /\ r \in W => req'[r] = [req[r] EXCEPT !.status = "waiting"]
                           /\ r \notin W => req'[r] = Ended(B, st)[r]
  BY <1>1, <1>10, <1>12
<1>15. Alike(del', del, E)
  <2>1. del \in [Deliveries -> DelRecords]
    BY Known
  <2>2. QED
    BY <1>1, <1>10, <1>11, <2>1, SettledIsAlike
<1>16. Once(made', ToSet(made) \cup OutcomesOf(E), Deliveries)
  BY <1>1, <1>2, <1>10, <1>11, MadeGrows
<1>17. /\ st = "completed" => ok
       /\ \A r \in E : ok => ~Owes(r)
       /\ \A r \in W : ok
  BY <1>7, <1>8, <1>12
<1> HIDE DEF E, W, R, status
<1>18. ASSUME NEW r \in Requests
       PROVE  /\ req'[r] \in ReqRecords /\ req'[r].run = req[r].run /\ req'[r].parent = req[r].parent
              /\ r \in W => req'[r].status = "waiting"
              /\ r \in E => req'[r].status = st
              /\ r \notin E \cup W => req'[r] = req[r]
  <2>1. req[r] \in ReqRecords
    BY <1>2 DEF RecordsTyped
  <2>2. /\ [req[r] EXCEPT !.status = "waiting"] \in ReqRecords
        /\ [req[r] EXCEPT !.status = "waiting"].run = req[r].run
        /\ [req[r] EXCEPT !.status = "waiting"].parent = req[r].parent
        /\ [req[r] EXCEPT !.status = "waiting"].status = "waiting"
    BY <2>1 DEF ReqRecords, OpenStatus
  <2>3. CASE r \in W
    BY <1>6, <1>7, <1>14, <2>2, <2>3
  <2>4. CASE r \notin W
    BY <1>11, <1>13, <1>14, <2>4
  <2>5. QED
    BY <2>3, <2>4
<1>19. req' \in [Requests -> ReqRecords]
  BY <1>1, <1>18
<1>20. \A r \in Requests : r \in E \cup W <=> r \in R
  BY <1>6, <1>7, <1>8
<1>21. \A r \in Requests : (r \in E \/ r \in W) => Open(r)
  BY <1>5, <1>20
<1>22. Ends(E)
  <2>1. \A r \in Requests :
           /\ r \in E => (Open(r) /\ req'[r].status \in Closed /\ req'[r].run = req[r].run)
           /\ (r \notin E /\ ~Open(r)) => req'[r] = req[r]
           /\ (r \notin E /\ Open(r)) => req'[r].status \in OpenStatus
    BY <1>18, <1>21 DEF Open, OpenStatus
  <2>2. QED
    BY <1>8, <1>15, <1>16, <1>18, <1>19, <2>1 DEF Ends, Alike
<1>23. E \cap W = {}
  BY <1>6, <1>7
<1>24. \A r \in Requests : r \in E \cup W => req[r].status = "working"
  BY <1>4, <1>5, <1>20
<1>25. \A d \in Deliveries : del'[d].cont = del[d].cont
  BY <1>15 DEF Alike
<1>26. \A r \in Requests :
         /\ (Open(r) /\ req[r].run = Producer(c)) <=> r \in E \cup W
         /\ r \in E \cup W => req[r].status = "working"
         /\ req'[r].run = req[r].run
         /\ r \notin E \cup W => req'[r] = req[r]
         /\ r \in E => (ok => ~Owes(r)) /\ (req'[r].status = "completed" => ok)
         /\ r \in W => (ok /\ req'[r].status = "waiting")
  BY <1>5, <1>17, <1>18, <1>20, <1>24
<1>27. E \in SUBSET Requests /\ W \in SUBSET Requests
  BY <1>6, <1>8
<1>28. QED
  BY <1>22, <1>23, <1>25, <1>26, <1>27

LEMMA EndTurnKeeps ==
  ASSUME CoordInv, NEW c \in Chats, NEW ok \in BOOLEAN, EndTurn(c, ok)
  PROVE  CoordInv' /\ HeardStep
<1>1. PICK E \in SUBSET Requests, W \in SUBSET Requests :
        /\ Ends(E) /\ E \cap W = {}
        /\ \A r \in Requests :
             /\ (Open(r) /\ req[r].run = Producer(c)) <=> r \in E \cup W
             /\ r \in E \cup W => req[r].status = "working"
             /\ req'[r].run = req[r].run
             /\ r \notin E \cup W => req'[r] = req[r]
             /\ r \in E => (ok => ~Owes(r)) /\ (req'[r].status = "completed" => ok)
             /\ r \in W => (ok /\ req'[r].status = "waiting")
        /\ \A d \in Deliveries : del'[d].cont = del[d].cont
  BY EndTurnRequests
<1>2. PICK x \in Runs : x = Producer(c) /\ x # None
  BY EndTurnTurns
<1>3. /\ TurnsInv' /\ run[x].status = "running"
      /\ run'[x].status = IF ok THEN "completed" ELSE "failed"
      /\ \A y \in Runs : y # x => run'[y] = run[y]
      /\ \A e \in Chats : ToSet(turns'[e]) = ToSet(turns[e]) \ {x}
  BY <1>2, EndTurnTurns
<1>4. sending' = sending /\ (sending # None => sending.run # x)
  BY <1>2 DEF EndTurn
<1>5. /\ RecordsInv /\ ItsOwnRun /\ RunFits /\ WorkedOnceAccepted /\ AnswersRead
      /\ AnsweredOnce /\ AskedFirst /\ RecordsTyped
  BY Known DEF AssignmentsInv, RecordsInv
<1>6. \A r \in Requests :
        /\ req'[r].parent = req[r].parent
        /\ r \in E => req'[r].status \in Closed
  BY <1>1 DEF Ends
<1>7. \A r \in Requests : \A y \in RunsOf(r) : y \in Runs
  BY RunNames
<1>8. RecordsInv'
  BY <1>1, <1>5, EndsKeepsRecords
<1>9. ItsOwnRun'
  <2>1. ASSUME NEW r \in Requests, NEW y \in RunsOf(r), run'[y].status \in {"queued", "running"}
        PROVE  run[y].status \in {"queued", "running"}
    BY <1>3, <1>7, <2>1
  <2>2. \A r \in Requests : req[r].run # None => req[r].run \in RunsOf(r)
    BY <1>5 DEF ItsOwnRun
  <2>3. \A r \in Requests : \A y \in RunsOf(r) :
          run[y].status \in {"queued", "running"} => req[r].run = y
    BY <1>5 DEF ItsOwnRun, UnderWay
  <2>4. \A r \in Requests :
          /\ req'[r].run # None => req'[r].run \in RunsOf(r)
          /\ \A y \in RunsOf(r) : run'[y].status \in {"queued", "running"} => req'[r].run = y
    BY <1>1, <2>1, <2>2, <2>3
  <2>5. QED
    BY <2>4 DEF ItsOwnRun, UnderWay, RunsOf
<1>10. RunFits'
  <2>1. ASSUME NEW r \in Requests
        PROVE  /\ (req'[r].status = "queued" /\ req'[r].run # None) =>
                    run'[req'[r].run].status \in {"queued", "running", "failed"}
               /\ req'[r].status = "waiting" => (req'[r].run # None /\ run'[req'[r].run].status = "completed")
               /\ req'[r].status = "working" =>
                    (req'[r].run # None /\ run'[req'[r].run].status \in {"running", "failed"})
    <3>1. CASE r \in E
      BY <1>6, <3>1 DEF Closed
    <3>2. CASE r \in W
      <4>1. req'[r].status = "waiting" /\ ok /\ req[r].run = x
        BY <1>1, <1>2, <3>2
      <4>2. QED
        BY <1>1, <1>2, <1>3, <4>1
    <3>3. CASE r \notin E \cup W
      <4>1. req'[r] = req[r] /\ ~(Open(r) /\ req[r].run = x)
        BY <1>1, <1>2, <3>3
      <4>2. req[r].run # None => req[r].run \in Runs
        BY <1>5, <1>7 DEF ItsOwnRun
      <4>3. /\ (req[r].status = "queued" /\ req[r].run # None) =>
                 run[req[r].run].status \in {"queued", "running", "failed"}
            /\ req[r].status = "waiting" => (req[r].run # None /\ run[req[r].run].status = "completed")
            /\ req[r].status = "working" =>
                 (req[r].run # None /\ run[req[r].run].status \in {"running", "failed"})
        BY <1>5 DEF RunFits
      <4>4. Open(r) => (req[r].run # None => run'[req[r].run] = run[req[r].run])
        BY <1>3, <4>1, <4>2
      <4>5. req[r].status \in {"queued", "waiting", "working"} => Open(r)
        BY DEF Open, OpenStatus
      <4>6. QED
        BY <4>1, <4>3, <4>4, <4>5
    <3>4. QED
      BY <3>1, <3>2, <3>3
  <2>2. QED
    BY <2>1 DEF RunFits
<1>11. WorkedOnceAccepted'
  <2>1. ASSUME NEW r \in Requests
        PROVE  /\ \A e \in Chats : (req'[r].status = "queued" /\ req'[r].run \in ToSet(turns'[e])) =>
                    (sending # None /\ sending.run = req'[r].run)
               /\ (sending # None /\ req'[r].run = sending.run) =>
                    req'[r].status \notin {"working", "waiting"}
    <3>1. CASE r \in E \cup W
      <4>1. req'[r].status # "queued" /\ req'[r].run = x
        BY <1>1, <1>2, <1>6, <3>1 DEF Closed
      <4>2. QED
        BY <1>4, <4>1
    <3>2. CASE r \notin E \cup W
      <4>1. req'[r] = req[r]
        BY <1>1, <3>2
      <4>2. QED
        BY <1>3, <1>5, <4>1 DEF WorkedOnceAccepted
    <3>3. QED
      BY <3>1, <3>2
  <2>2. QED
    BY <1>4, <2>1 DEF WorkedOnceAccepted
<1>12. ASSUME NEW q \in Requests, del'[Outcome(q)].cont # None
       PROVE  /\ req'[q].parent \in Requests /\ del'[Outcome(q)].cont \in RunsOf(req'[q].parent)
              /\ \/ run'[del'[Outcome(q)].cont].status = "completed"
                 \/ req'[req'[q].parent].status \notin OpenStatus
                 \/ req'[req'[q].parent].run = del'[Outcome(q)].cont
  <2>1. del'[Outcome(q)].cont = del[Outcome(q)].cont /\ req'[q].parent = req[q].parent
    BY <1>1, <1>6, DeliveryNames
  <2>2. PICK y, r : y = del[Outcome(q)].cont /\ r = req[q].parent
    OBVIOUS
  <2>3. /\ r \in Requests /\ y \in RunsOf(r)
        /\ (run[y].status = "completed" \/ ~Open(r) \/ req[r].run = y)
    BY <1>5, <1>12, <2>1, <2>2 DEF AnswersRead
  <2>4. run[y].status = "completed" => run'[y].status = "completed"
    BY <1>3, <1>7, <2>3
  <2>5. ~Open(r) => req'[r].status \notin OpenStatus
    <3>1. ~Open(r) => req'[r] = req[r]
      BY <1>1, <2>3 DEF Ends
    <3>2. QED
      BY <3>1 DEF Open
  <2>6. req'[r].run = req[r].run
    BY <1>1, <2>3
  <2>7. QED
    BY <2>1, <2>2, <2>3, <2>4, <2>5, <2>6
<1>13. AnswersRead'
  BY <1>12 DEF AnswersRead, Open, RunsOf
<1>14. CoordInv'
  BY <1>3, <1>8, <1>9, <1>10, <1>11, <1>13 DEF CoordInv, AssignmentsInv
<1>15. ASSUME NEW r \in Requests, req[r].status = "working", req'[r].status = "completed",
              NEW q \in Children(r)
       PROVE  /\ ~Open(q)
              /\ \/ del[Outcome(q)].status \in {"failed", "cancelled"}
                 \/ del[Outcome(q)].cont \in RunsOf(r) /\ run'[del[Outcome(q)].cont].status = "completed"
  <2>1. r \in E /\ ok
    <3>1. r \notin W
      BY <1>1, <1>15
    <3>2. QED
      BY <1>1, <1>15, <3>1
  <2>2. ~Owes(r) /\ req[r].run = x
    BY <1>1, <1>2, <2>1
  <2>3. ~Open(q) /\ ~(del[Outcome(q)].status \in {"queued", "delivered", "accepted"}
                      /\ del[Outcome(q)].cont = None)
    BY <2>2 DEF Owes
  <2>4. q \in Requests /\ req[q].parent = r
    BY DEF Children
  <2>5. req[q].status # "none"
    BY <1>5, <2>4 DEF AskedFirst
  <2>6. req[q].status \in Closed
    <3>1. req[q] \in ReqRecords
      BY <1>5, <2>4 DEF RecordsTyped
    <3>2. req[q].status \in OpenStatus \cup {"none", "completed", "failed", "cancelled"}
      BY <3>1, RecordFields
    <3>3. QED
      BY <2>3, <2>5, <3>2 DEF Open, Closed
  <2>7. del[Outcome(q)].status \notin {"none", "awaiting_approval", "denied"}
    BY <1>5, <2>4, <2>6 DEF AnsweredOnce
  <2>8. del[Outcome(q)].status \in DeliveryStatus
    <3>1. del[Outcome(q)] \in DelRecords
      BY <1>5, <2>4, DeliveryNames DEF RecordsTyped
    <3>2. QED
      BY <3>1, RecordFields
  <2>9. CASE del[Outcome(q)].status \in {"failed", "cancelled"}
    BY <2>3, <2>9
  <2>10. CASE del[Outcome(q)].cont # None
    <3>1. PICK y : y = del[Outcome(q)].cont
      OBVIOUS
    <3>2. y \in RunsOf(r) /\ (run[y].status = "completed" \/ ~Open(r) \/ req[r].run = y)
      BY <1>5, <2>4, <2>10, <3>1 DEF AnswersRead
    <3>3. Open(r)
      BY <1>15 DEF Open, OpenStatus
    <3>4. y \in Runs
      BY <1>7, <3>2
    <3>5. run'[y].status = "completed"
      BY <1>3, <2>1, <2>2, <3>2, <3>3, <3>4
    <3>6. QED
      BY <2>3, <3>1, <3>2, <3>5
  <2>11. del[Outcome(q)].status \in {"failed", "cancelled", "queued", "delivered", "accepted"}
    BY <2>7, <2>8 DEF DeliveryStatus
  <2>12. QED
    BY <2>3, <2>9, <2>10, <2>11
<1>16. HeardStep
  BY <1>15 DEF HeardStep
<1>17. QED
  BY <1>14, <1>16

(* A reply answers in a turn that is still under way.                       *)
LEMMA ReplyHeard ==
  ASSUME CoordInv, NEW r \in Requests, Reply(r)
  PROVE  HeardStep
<1>1. /\ Open(r) /\ req[r].status = "working" /\ Producer(Target[r]) = req[r].run
      /\ Finish(del, {r}, "completed") /\ run' = run
  BY DEF Reply, finishAgentRequest
<1>2. RecordsInv /\ RecordsTyped /\ RunFits
  BY Known DEF AssignmentsInv
<1>3. Target[r] \in Chats /\ req[r].run # None
  BY <1>1, <1>2, CoordAssumption DEF RunFits
<1>4. run[req[r].run].status = "running"
  BY <1>1, <1>3, ProducerIsHead
<1>5. "completed" \in Closed
  BY DEF Closed
<1>6. \A q \in Requests :
        /\ q \in Ending({r}) => Ended({r}, "completed")[q] = [req[q] EXCEPT !.status = "completed"]
        /\ q \notin Ending({r}) => Ended({r}, "completed")[q] = req[q]
        /\ Ended({r}, "completed")[q].parent = req[q].parent
        /\ Ended({r}, "completed")[q].run = req[q].run
        /\ q \in Ending({r}) => Ended({r}, "completed")[q].status = "completed"
  BY <1>2, <1>5, EndedFields
<1>7. \A q \in Requests : q # r => req'[q] = req[q]
  BY <1>1, <1>6 DEF Finish, Ending
<1>8. QED
  BY <1>1, <1>4, <1>7 DEF HeardStep

----------------------------------------------------------------------------
(* The pass starts a turn *)

LEMMA SendStarts ==
  ASSUME CoordInv, sending = None, NEW c \in Chats, NEW x \in Runs, ~IsPersons(x),
         run[x].status # "running", NEW inputs \in SUBSET Deliveries, Send(c, x, inputs),
         later' \subseteq Deliveries, UNCHANGED <<turns, typing, held, gone, typed>>
  PROVE  /\ TurnsInv' /\ run'[x].status = "queued"
         /\ \A y \in Runs : y # x => run'[y] = run[y]
         /\ sending' # None /\ sending'.run = x
<1>1. TurnsTyped /\ TurnsOnce /\ PersonsNext /\ TurnsInv
  BY Known DEF TurnsInv
<1>2. PICK kept : /\ kept = IF run[x].inputs = {} THEN inputs ELSE run[x].inputs
                  /\ run' = [run EXCEPT ![x] = [status |-> "queued", inputs |-> kept]]
                  /\ sending' = [chat |-> c, run |-> x, inputs |-> kept, stage |-> "preparing"]
  BY Zenon DEF Send
<1>3. kept \in SUBSET Deliveries
  <2>1. run[x] \in RunRecords
    BY <1>1 DEF TurnsTyped
  <2>2. run[x].inputs \subseteq Deliveries
    BY <2>1, RecordFields
  <2>3. QED
    BY <1>2, <2>2
<1>4. [status |-> "queued", inputs |-> kept] \in RunRecords
  BY <1>3 DEF RunRecords
<1>5. /\ run'[x] = [status |-> "queued", inputs |-> kept]
      /\ \A y \in Runs : y # x => run'[y] = run[y]
      /\ run' \in [Runs -> RunRecords]
  BY <1>1, <1>2, <1>4 DEF TurnsTyped
<1>6. run'[x].status = "queued"
  BY <1>5
<1>7. sending' \in Sends /\ sending'.run = x /\ sending'.stage = "preparing"
  BY <1>2, <1>3 DEF Sends
<1>8. sending' # None
  BY <1>7, RunNames
<1>9. \A e \in Chats : \A y \in ToSet(turns[e]) : y \in Runs /\ y # x /\ run'[y].status = "running"
  BY <1>1, <1>5, TurnsAreRuns DEF InTurnsAreRuns, TurnsOnce
<1>10. turns' = turns /\ typing' = typing /\ typed' = typed /\ held' = held /\ gone' = gone
  OBVIOUS
<1>11. TurnsTyped'
  BY <1>1, <1>5, <1>7, <1>10 DEF TurnsTyped
<1>12. TurnsOnce'
  BY <1>1, <1>9, <1>10 DEF TurnsOnce
<1>13. SendUnderWay'
  BY <1>6, <1>7, <1>9, <1>10 DEF SendUnderWay
<1>14. PersonsNext'
  <2>1. \A y \in Runs : (IsPersons(y) /\ run[y].status = "none") => run'[y].status = "none"
    BY <1>5
  <2>2. QED
    BY <1>1, <1>10, <2>1, PersonsKept
<1>15. QED
  BY <1>5, <1>6, <1>7, <1>8, <1>11, <1>12, <1>13, <1>14 DEF TurnsInv

(* Inputs that begin no assignment.                                         *)
LEMMA OrdinaryKeeps ==
  ASSUME CoordInv, sending = None, NEW c \in Chats, NEW inputs \in SUBSET Waits(c),
         inputs # {}, \A d \in inputs : d[1] # "request", ActivateOrdinary(c, inputs),
         later' \subseteq Deliveries, UNCHANGED <<made, turns, typing, held, gone, typed>>
  PROVE  CoordInv' /\ NotAnswering
<1>1. PICK x, D : /\ x = First(Earliest(inputs)) /\ run[x].status \in {"none", "queued"}
                  /\ Send(c, x, inputs) /\ del' = Failed(D) /\ req' = req
  BY Zenon DEF ActivateOrdinary
<1>2. /\ RecordsInv /\ RecordsTyped /\ MadeIsRecorded
      /\ ItsOwnRun /\ RunFits /\ WorkedOnceAccepted /\ AnswersRead
  BY Known DEF AssignmentsInv, RecordsInv
<1>3. inputs \in SUBSET Deliveries /\ inputs \in SUBSET ToSet(made)
  BY <1>2 DEF Waits, MadeIsRecorded
<1>4. PICK d \in inputs : d = Earliest(inputs)
  BY <1>2, <1>3, EarliestIsOne
<1>5. x = First(d) /\ d \in Deliveries /\ d[1] # "request"
  BY <1>1, <1>3, <1>4
<1>6. x \in Runs /\ ~IsPersons(x)
  BY <1>5, RunNames
<1>7. \A r \in Requests : x \notin RunsOf(r)
  <2>1. ASSUME NEW r \in Requests, x \in RunsOf(r)
        PROVE  FALSE
    <3>1. d = Asks(r)
      BY <1>5, <2>1, RunNames
    <3>2. QED
      BY <1>5, <3>1, DeliveryNames
  <2>2. QED
    BY <2>1
<1>8. /\ TurnsInv' /\ \A y \in Runs : y # x => run'[y] = run[y]
      /\ sending' # None /\ sending'.run = x
  BY <1>1, <1>3, <1>6, SendStarts
<1>9. Alike(del', del, {})
  BY <1>1, FailedIsAlike
<1>10. Closes({})
  BY <1>1, <1>2, <1>9, StillCloses
<1>11. RecordsInv'
  BY <1>2, <1>10, EndsKeepsRecords DEF Closes
<1>12. \A r \in Requests : \A y \in RunsOf(r) : y \in Runs /\ y # x /\ run'[y] = run[y]
  BY <1>7, <1>8, RunNames
<1>13. \A r \in Requests : req[r].run # None => req[r].run \in RunsOf(r)
  BY <1>2 DEF ItsOwnRun
<1>14. ItsOwnRun'
  <2>1. \A r \in Requests : \A y \in RunsOf(r) :
          run'[y].status \in {"queued", "running"} => req[r].run = y
    BY <1>2, <1>12 DEF ItsOwnRun, UnderWay
  <2>2. QED
    BY <1>1, <1>13, <2>1 DEF ItsOwnRun, UnderWay, RunsOf
<1>15. RunFits'
  <2>1. \A r \in Requests : req[r].run # None => run'[req[r].run] = run[req[r].run]
    BY <1>12, <1>13
  <2>2. QED
    BY <1>1, <1>2, <2>1 DEF RunFits
<1>16. WorkedOnceAccepted'
  <2>1. \A r \in Requests : req[r].run # x
    BY <1>6, <1>12, <1>13, RunNames
  <2>2. turns' = turns
    OBVIOUS
  <2>3. QED
    BY <1>1, <1>2, <1>8, <2>1, <2>2 DEF WorkedOnceAccepted
<1>17. AnswersRead'
  <2>1. \A q \in Requests : del'[Outcome(q)].cont = del[Outcome(q)].cont
    BY <1>9, DeliveryNames DEF Alike
  <2>2. ASSUME NEW q \in Requests, NEW y, y = del[Outcome(q)].cont, y # None
        PROVE  /\ req[q].parent \in Requests /\ y \in RunsOf(req[q].parent)
               /\ (run'[y].status = "completed" \/ ~Open(req[q].parent) \/ req[req[q].parent].run = y)
    <3>1. /\ req[q].parent \in Requests /\ y \in RunsOf(req[q].parent)
          /\ (run[y].status = "completed" \/ ~Open(req[q].parent) \/ req[req[q].parent].run = y)
      BY <1>2, <2>2 DEF AnswersRead
    <3>2. run'[y] = run[y]
      BY <1>12, <3>1
    <3>3. QED
      BY <3>1, <3>2
  <2>3. QED
    BY <1>1, <2>1, <2>2 DEF AnswersRead, Open, RunsOf
<1>18. QED
  BY <1>1, <1>8, <1>11, <1>14, <1>15, <1>16, <1>17 DEF CoordInv, AssignmentsInv, NotAnswering

(* The run reserved for a request is one of its own, and no other of them   *)
(* is under way.                                                            *)
LEMMA ReservedIsItsOwn ==
  ASSUME CoordInv, NEW r \in Requests, Open(r), Reservable(r)
  PROVE  /\ ReservedRun(r) \in RunsOf(r) /\ run[ReservedRun(r)].status # "running"
         /\ \A y \in RunsOf(r) : UnderWay(y) => y = ReservedRun(r)
<1>1. ItsOwnRun
  BY Known DEF AssignmentsInv
<1>2. CASE Starting(r)
  <2>1. ReservedRun(r) = req[r].run /\ req[r].run # None /\ run[req[r].run].status = "queued"
    BY <1>2 DEF ReservedRun, Starting, Reservable
  <2>2. QED
    BY <1>1, <2>1 DEF ItsOwnRun
<1>3. CASE ~Starting(r)
  <2>1. ASSUME NEW y \in RunsOf(r), UnderWay(y)
        PROVE  FALSE
    <3>1. req[r].run = y
      BY <1>1, <2>1 DEF ItsOwnRun
    <3>2. y # None
      BY RunNames
    <3>3. QED
      BY <1>3, <2>1, <3>1, <3>2 DEF Starting
  <2>2. ReservedRun(r) \in RunsOf(r)
    <3>1. CASE req[r].status = "waiting"
      <4>1. ReservedRun(r) = Resume(r, Updates(r))
        BY <1>3, <3>1 DEF ReservedRun
      <4>2. Updates(r) # {}
        BY <1>3, <3>1 DEF Reservable
      <4>3. Updates(r) \in (SUBSET {Outcome(q) : q \in Requests}) \ {{}}
        BY <4>2 DEF Updates, Children
      <4>4. Resume(r, Updates(r)) \in Runs
        BY <4>3, RunNames
      <4>5. QED
        BY <4>1, <4>4, RunNames
    <3>2. CASE req[r].status # "waiting"
      <4>1. ReservedRun(r) = First(Asks(r))
        BY <1>3, <3>2 DEF ReservedRun
      <4>2. QED
        BY <4>1, RunNames
    <3>3. QED
      BY <3>1, <3>2
  <2>3. QED
    BY <2>1, <2>2 DEF UnderWay
<1>4. QED
  BY <1>2, <1>3

(* What an assignment's turn changes of requests and deliveries.            *)
LEMMA AssignedRecords ==
  ASSUME CoordInv, NEW c \in Chats, NEW r \in Requests, Open(r), ReservedRun(r) \in Runs,
         ActivateAssigned(c, r), made' = made
  PROVE  /\ Ends({})
         /\ req'[r].run = ReservedRun(r) /\ req'[r].status = "queued"
         /\ \A q \in Requests : q # r => req'[q] = req[q]
         /\ \A q \in Requests :
              \/ del'[Outcome(q)].cont = del[Outcome(q)].cont
              \/ ~Starting(r) /\ q \in Children(r) /\ del'[Outcome(q)].cont = ReservedRun(r)
<1>1. PICK x, updates : x = ReservedRun(r) /\ updates = (IF Starting(r) THEN {} ELSE Updates(r))
  OBVIOUS
<1>2. PICK D, dl : D = {d \in Waits(c) : Stale(d)} /\ dl = Failed(D)
  OBVIOUS
<1>3. /\ req' = [req EXCEPT ![r].run = x, ![r].status = "queued"]
      /\ del' = [d \in Deliveries |-> IF d \in updates THEN [dl[d] EXCEPT !.cont = x] ELSE dl[d]]
  BY <1>1, <1>2 DEF ActivateAssigned
<1>4. /\ RecordsInv /\ req \in [Requests -> ReqRecords] /\ x \in Runs
  BY <1>1, <1>2, <1>3, Known
<1>5. Alike(dl, del, {})
  BY <1>1, <1>2, <1>3, FailedIsAlike
<1>6. dl \in [Deliveries -> DelRecords]
  BY <1>5 DEF Alike
<1>7. \A d \in updates : /\ ~Starting(r) /\ d[1] = "outcome" /\ d[2] \in Children(r)
                         /\ del[d].status # "none"
  <2>1. ASSUME NEW d \in updates
        PROVE  /\ ~Starting(r) /\ d[1] = "outcome" /\ d[2] \in Children(r) /\ del[d].status # "none"
    <3>1. ~Starting(r) /\ d \in Updates(r)
      BY <1>1, <1>2, <1>3, <2>1
    <3>2. PICK q \in Children(r) : d = Outcome(q) /\ del[d].status \in {"delivered", "accepted"}
      BY <3>1 DEF Updates
    <3>3. q \in Requests
      BY DEF Children
    <3>4. d[1] = "outcome" /\ d[2] = q
      BY <3>2, <3>3, DeliveryNames
    <3>5. QED
      BY <3>1, <3>2, <3>4
  <2>2. QED
    BY <2>1
<1>8. ASSUME NEW d \in Deliveries
      PROVE  /\ del'[d] \in DelRecords /\ del'[d].status = dl[d].status
             /\ d \notin updates => del'[d].cont = dl[d].cont
             /\ d \in updates => del'[d].cont = x
  <2>1. dl[d] \in DelRecords
    BY <1>6
  <2>2. /\ d \notin updates => del'[d] = dl[d]
        /\ d \in updates => del'[d] = [dl[d] EXCEPT !.cont = x]
    BY <1>1, <1>2, <1>3
  <2>3. /\ [dl[d] EXCEPT !.cont = x] \in DelRecords /\ [dl[d] EXCEPT !.cont = x].cont = x
        /\ [dl[d] EXCEPT !.cont = x].status = dl[d].status
    BY <1>4, <2>1 DEF DelRecords
  <2>4. QED
    BY <2>1, <2>2, <2>3
<1>9. del' \in [Deliveries -> DelRecords]
  BY <1>1, <1>2, <1>3, <1>8
<1>10. OutcomesOf({}) = {} /\ Once(made', ToSet(made) \cup OutcomesOf({}), Deliveries)
  BY <1>4 DEF OutcomesOf, Once, RecordsInv, RecordsTyped
<1>11. \A d \in Deliveries :
        /\ (del'[d].status # "none") <=> (del[d].status # "none" \/ d \in OutcomesOf({}))
        /\ (d[1] = "outcome" /\ del[d].status \notin Approvals) => del'[d].status \notin Approvals
        /\ del'[d].cont = del[d].cont \/ (d[1] = "outcome" /\ del[d].status # "none")
  BY <1>5, <1>7, <1>8 DEF Alike
<1>12. /\ \A q \in Requests : q # r => req'[q] = req[q]
       /\ req'[r] = [req[r] EXCEPT !.run = x, !.status = "queued"]
  BY <1>1, <1>2, <1>3, <1>4
<1>13. /\ req'[r] \in ReqRecords /\ req'[r].run = x /\ req'[r].status = "queued"
       /\ req'[r].parent = req[r].parent
  <2>1. req[r] \in ReqRecords
    BY <1>4
  <2>2. QED
    BY <1>4, <1>12, <2>1 DEF ReqRecords, OpenStatus
<1>14. req' \in [Requests -> ReqRecords]
  BY <1>1, <1>2, <1>3, <1>4, <1>12, <1>13
<1>15. \A q \in Requests : /\ req'[q].parent = req[q].parent
                           /\ ~Open(q) => req'[q] = req[q]
                           /\ Open(q) => req'[q].status \in OpenStatus
  <2>1. "queued" \in OpenStatus
    BY DEF OpenStatus
  <2>2. QED
    BY <1>12, <1>13, <2>1 DEF Open
<1>16. Ends({})
  BY <1>9, <1>10, <1>11, <1>14, <1>15 DEF Ends
<1>17. ASSUME NEW q \in Requests
       PROVE  \/ del'[Outcome(q)].cont = del[Outcome(q)].cont
              \/ ~Starting(r) /\ q \in Children(r) /\ del'[Outcome(q)].cont = x
  <2>1. Outcome(q) \in Deliveries /\ Outcome(q)[2] = q
    BY DeliveryNames
  <2>2. CASE Outcome(q) \in updates
    BY <1>7, <1>8, <2>1, <2>2
  <2>3. CASE Outcome(q) \notin updates
    BY <1>5, <1>8, <2>1, <2>3 DEF Alike
  <2>4. QED
    BY <2>2, <2>3
<1>18. QED
  BY <1>1, <1>2, <1>3, <1>12, <1>13, <1>16, <1>17

LEMMA AssignedKeeps ==
  ASSUME CoordInv, sending = None, ~\E q \in Requests : Interrupted(q),
         NEW c \in Chats, NEW r \in Requests, Open(r), ActivateAssigned(c, r),
         later' \subseteq Deliveries, UNCHANGED <<made, turns, typing, held, gone, typed>>
  PROVE  CoordInv' /\ NotAnswering
<1>1. Reservable(r) /\ \E inputs : Send(c, ReservedRun(r), inputs)
  BY Zenon DEF ActivateAssigned
<1>2. /\ RecordsInv /\ TurnsTyped /\ TurnsOnce
      /\ ItsOwnRun /\ RunFits /\ WorkedOnceAccepted /\ AnswersRead
  BY Known DEF AssignmentsInv, TurnsInv
<1>3. PICK x : x = ReservedRun(r)
  OBVIOUS
<1>4. /\ x \in RunsOf(r) /\ run[x].status # "running"
      /\ \A y \in RunsOf(r) : UnderWay(y) => y = x
  BY <1>1, <1>3, ReservedIsItsOwn
<1>5. x \in Runs /\ ~IsPersons(x) /\ x # None
  BY <1>4, RunNames
<1>6. /\ Ends({})
      /\ req'[r].run = x /\ req'[r].status = "queued"
      /\ \A q \in Requests : q # r => req'[q] = req[q]
      /\ \A q \in Requests :
           \/ del'[Outcome(q)].cont = del[Outcome(q)].cont
           \/ ~Starting(r) /\ q \in Children(r) /\ del'[Outcome(q)].cont = x
  BY <1>3, <1>5, AssignedRecords
<1>7. PICK inputs \in SUBSET Deliveries : Send(c, x, inputs)
  <2>1. ReservedRun(r) = x
    BY <1>3
  <2>2. PICK updates : /\ updates = (IF Starting(r) THEN {} ELSE Updates(r))
                       /\ Send(c, ReservedRun(r), updates \cup IF req[r].status = "waiting" THEN {} ELSE {Asks(r)})
    BY Zenon DEF ActivateAssigned
  <2>3. Updates(r) \subseteq Deliveries
    BY DeliveryNames DEF Updates, Children
  <2>4. (updates \cup IF req[r].status = "waiting" THEN {} ELSE {Asks(r)}) \in SUBSET Deliveries
    BY <2>2, <2>3, DeliveryNames
  <2>5. QED
    BY <2>1, <2>2, <2>4
<1>8. /\ TurnsInv' /\ run'[x].status = "queued"
      /\ \A y \in Runs : y # x => run'[y] = run[y]
      /\ sending' # None /\ sending'.run = x
  BY <1>4, <1>5, <1>7, SendStarts
<1>9. RecordsInv'
  BY <1>2, <1>6, EndsKeepsRecords
<1>10. \A q \in Requests : q # r => \A y \in RunsOf(q) : y \in Runs /\ y # x /\ run'[y] = run[y]
  BY <1>4, <1>8, RunNames
<1>11. \A y \in RunsOf(r) : y \in Runs /\ (y # x => run'[y] = run[y])
  BY <1>8, RunNames
<1>12. \A q \in Requests : req[q].run # None => req[q].run \in RunsOf(q)
  BY <1>2 DEF ItsOwnRun
<1>13. ItsOwnRun'
  <2>1. ASSUME NEW q \in Requests, q # r
        PROVE  /\ req'[q].run # None => req'[q].run \in RunsOf(q)
               /\ \A y \in RunsOf(q) : run'[y].status \in {"queued", "running"} => req'[q].run = y
    BY <1>2, <1>6, <1>10, <2>1 DEF ItsOwnRun, UnderWay
  <2>2. \A y \in RunsOf(r) : run'[y].status \in {"queued", "running"} => x = y
    BY <1>4, <1>11 DEF UnderWay
  <2>3. QED
    BY <1>4, <1>6, <2>1, <2>2 DEF ItsOwnRun, UnderWay, RunsOf
<1>14. RunFits'
  <2>1. ASSUME NEW q \in Requests, q # r
        PROVE  /\ req'[q] = req[q]
               /\ req[q].run # None => run'[req[q].run] = run[req[q].run]
    BY <1>6, <1>10, <1>12, <2>1
  <2>2. ASSUME NEW q \in Requests
        PROVE  /\ (req'[q].status = "queued" /\ req'[q].run # None) =>
                    run'[req'[q].run].status \in {"queued", "running", "failed"}
               /\ req'[q].status = "waiting" => (req'[q].run # None /\ run'[req'[q].run].status = "completed")
               /\ req'[q].status = "working" =>
                    (req'[q].run # None /\ run'[req'[q].run].status \in {"running", "failed"})
    <3>1. CASE q = r
      BY <1>6, <1>8, <3>1
    <3>2. CASE q # r
      BY <1>2, <2>1, <3>2 DEF RunFits
    <3>3. QED
      BY <3>1, <3>2
  <2>3. QED
    BY <2>2 DEF RunFits
<1>15. WorkedOnceAccepted'
  <2>1. turns' = turns
    OBVIOUS
  <2>2. \A e \in Chats : x \notin ToSet(turns[e])
    BY <1>2, <1>4 DEF TurnsOnce
  <2>3. ASSUME NEW q \in Requests
        PROVE  /\ \A e \in Chats : ~(req'[q].status = "queued" /\ req'[q].run \in ToSet(turns[e]))
               /\ req'[q].run = x => req'[q].status \notin {"working", "waiting"}
    <3>1. CASE q = r
      BY <1>6, <2>2, <3>1
    <3>2. CASE q # r
      <4>1. req'[q] = req[q] /\ req[q].run # x
        BY <1>5, <1>6, <1>10, <1>12, <3>2
      <4>2. QED
        BY <1>2, <4>1 DEF WorkedOnceAccepted
    <3>3. QED
      BY <3>1, <3>2
  <2>4. QED
    BY <1>8, <2>1, <2>3 DEF WorkedOnceAccepted
<1>16. \A y \in RunsOf(r) : (y # x /\ req[r].run = y) => run[y].status = "completed"
  <2>1. ASSUME NEW y \in RunsOf(r), y # x, req[r].run = y
        PROVE  run[y].status = "completed"
    <3>1. y \in Runs /\ y # None
      BY RunNames
    <3>2. ~Starting(r)
      BY <1>3, <2>1 DEF ReservedRun
    <3>3. run[y].status \notin {"queued", "running"}
      BY <2>1, <3>1, <3>2 DEF Starting, UnderWay
    <3>4. run[y].status # "failed"
      BY <2>1, <3>1 DEF Interrupted
    <3>5. req[r].status # "queued"
      BY <1>2, <2>1, <3>1, <3>3, <3>4 DEF RunFits
    <3>6. req[r].status = "waiting"
      BY <1>1, <3>5 DEF Reservable
    <3>7. QED
      BY <1>2, <2>1, <3>6 DEF RunFits
  <2>2. QED
    BY <2>1
<1>17. ASSUME NEW q \in Requests, del'[Outcome(q)].cont # None
       PROVE  /\ req'[q].parent \in Requests /\ del'[Outcome(q)].cont \in RunsOf(req'[q].parent)
              /\ \/ run'[del'[Outcome(q)].cont].status = "completed"
                 \/ req'[req'[q].parent].status \notin OpenStatus
                 \/ req'[req'[q].parent].run = del'[Outcome(q)].cont
  <2>1. req'[q].parent = req[q].parent
    BY <1>6 DEF Ends
  <2>2. CASE q \in Children(r) /\ del'[Outcome(q)].cont = x
    <3>1. req[q].parent = r
      BY <2>2 DEF Children
    <3>2. QED
      BY <1>4, <1>6, <2>1, <2>2, <3>1
  <2>3. CASE del'[Outcome(q)].cont = del[Outcome(q)].cont
    <3>1. PICK y, p : y = del[Outcome(q)].cont /\ p = req[q].parent
      OBVIOUS
    <3>2. /\ p \in Requests /\ y \in RunsOf(p)
          /\ (run[y].status = "completed" \/ ~Open(p) \/ req[p].run = y)
      BY <1>2, <1>17, <2>3, <3>1 DEF AnswersRead
    <3>3. CASE p # r
      <4>1. run'[y] = run[y] /\ req'[p] = req[p]
        BY <1>6, <1>10, <3>2, <3>3
      <4>2. QED
        BY <2>1, <2>3, <3>1, <3>2, <4>1 DEF Open
    <3>4. CASE p = r
      <4>1. CASE y = x
        BY <1>6, <2>1, <2>3, <3>1, <3>2, <3>4, <4>1
      <4>2. CASE y # x
        <5>1. run[y].status = "completed"
          BY <1>16, <3>2, <3>4, <4>2
        <5>2. run'[y].status = "completed"
          BY <1>11, <3>2, <3>4, <4>2, <5>1
        <5>3. QED
          BY <2>1, <2>3, <3>1, <3>2, <5>2
      <4>3. QED
        BY <4>1, <4>2
    <3>5. QED
      BY <3>3, <3>4
  <2>4. QED
    BY <1>6, <2>2, <2>3
<1>18. AnswersRead'
  BY <1>17 DEF AnswersRead, Open, RunsOf
<1>19. CoordInv'
  BY <1>8, <1>9, <1>13, <1>14, <1>15, <1>18 DEF CoordInv, AssignmentsInv
<1>20. NotAnswering
  BY <1>6 DEF NotAnswering
<1>21. QED
  BY <1>19, <1>20

LEMMA ActivateKeeps ==
  ASSUME CoordInv, NEW c \in Chats, Activate(c)
  PROVE  CoordInv' /\ NotAnswering
<1> DEFINE stale == {d \in Waits(c) : Stale(d)}
           pending == Waits(c) \ (stale \cup later)
           starting == {r \in AskedBy(c) : Starting(r)}
           asked == {r \in IF starting = {} THEN AskedBy(c) ELSE starting : Reservable(r) \/ Starting(r)}
           ordinary == {d \in pending : d[1] # "request"
                          /\ ~(d[1] = "outcome" /\ req[d[2]].parent # None /\ Open(req[d[2]].parent)
                               /\ del[d].cont = None)}
           steering == {d \in pending \ Preparing : d[1] = "message"}
<1>1. sending = None /\ ~\E q \in Requests : Interrupted(q)
  BY DEF Activate
<1>2. made' = made /\ turns' = turns /\ typing' = typing /\ held' = held /\ gone' = gone /\ typed' = typed
  BY DEF Activate
<1>3. \/ later' = later /\ asked # {} /\ ActivateAssigned(c, Earliest({Asks(r) : r \in asked})[2])
      \/ later' = later /\ ordinary # {} /\ ActivateOrdinary(c, ordinary)
      \/ later' = later \cup Waits(c) /\ steering # {} /\ ActivateOrdinary(c, steering)
      \/ /\ later' = later \/ later' = later \cup Waits(c)
         /\ del' = Failed(stale) /\ UNCHANGED <<req, run, sending>>
  BY DEF Activate
<1>4. asked \in SUBSET AskedBy(c)
  OBVIOUS
<1>5. /\ ordinary \in SUBSET Waits(c) /\ \A d \in ordinary : d[1] # "request"
      /\ steering \in SUBSET Waits(c) /\ \A d \in steering : d[1] # "request"
  OBVIOUS
<1> HIDE DEF stale, pending, starting, asked, ordinary, steering
<1>6. RecordsInv /\ RecordsTyped /\ later \subseteq Deliveries /\ held \subseteq Chats /\ gone \subseteq Chats
  BY Known
<1>7. Waits(c) \subseteq Deliveries
  BY DEF Waits
<1>8. later' \subseteq Deliveries
  BY <1>3, <1>6, <1>7
<1>9. CASE asked # {} /\ ActivateAssigned(c, Earliest({Asks(r) : r \in asked})[2])
  <2>1. PICK D : D = {Asks(r) : r \in asked}
    OBVIOUS
  <2>2. \A r \in asked : r \in Requests /\ Open(r)
    BY <1>4 DEF AskedBy
  <2>3. asked \in SUBSET {r \in Requests : Open(r)}
    BY <2>2
  <2>4. D \in SUBSET ToSet(made) /\ D # {}
    BY <1>6, <1>9, <2>1, <2>3, OpenWereAsked
  <2>5. Earliest(D) \in D
    BY <1>6, <2>4, EarliestIsOne
  <2>6. PICK r \in asked : Earliest(D) = Asks(r)
    BY <2>1, <2>5
  <2>7. r \in Requests /\ Open(r)
    BY <2>2
  <2>8. ActivateAssigned(c, r)
    BY <1>9, <2>1, <2>6, <2>7, DeliveryNames
  <2>9. QED
    BY <1>1, <1>2, <1>8, <2>7, <2>8, AssignedKeeps
<1>10. CASE ordinary # {} /\ ActivateOrdinary(c, ordinary)
  BY <1>1, <1>2, <1>5, <1>8, <1>10, OrdinaryKeeps
<1>11. CASE steering # {} /\ ActivateOrdinary(c, steering)
  BY <1>1, <1>2, <1>5, <1>8, <1>11, OrdinaryKeeps
<1>12. CASE del' = Failed(stale) /\ UNCHANGED <<req, run, sending>>
  <2>1. Alike(del', del, {})
    BY <1>12, FailedIsAlike
  <2>2. RestTyped
    BY <1>2, <1>6, <1>8 DEF RestTyped
  <2>3. QED
    BY <1>2, <1>12, <2>1, <2>2, StayQuiet
<1>13. QED
  BY <1>3, <1>9, <1>10, <1>11, <1>12

----------------------------------------------------------------------------
(* Every step *)

LEMMA InitInv ==
  ASSUME CoordInit
  PROVE  CoordInv
<1>1. /\ req = [r \in Requests |-> [status |-> "none", run |-> None, parent |-> None]]
      /\ del = [d \in Deliveries |-> [status |-> "none", cont |-> None, by |-> None]]
      /\ made = <<>> /\ later = {}
      /\ run = [x \in Runs |-> [status |-> "none", inputs |-> {}]]
      /\ turns = [c \in Chats |-> <<>>]
      /\ sending = None /\ typing = [c \in Chats |-> None]
      /\ held = {} /\ gone = {} /\ typed = [c \in Chats |-> 0]
  BY DEF CoordInit
<1>2. /\ Once(made, {}, Deliveries) /\ \A c \in Chats : Once(turns[c], {}, Runs)
  BY <1>1, OnceEmpty
<1>3. None \notin Requests /\ None \notin Runs
  BY RunNames
<1>4. \A r \in Requests : /\ req[r] \in ReqRecords /\ req[r].status = "none"
                          /\ req[r].run = None /\ req[r].parent = None
  BY <1>1 DEF ReqRecords
<1>5. \A d \in Deliveries : del[d] \in DelRecords /\ del[d].status = "none" /\ del[d].cont = None
  BY <1>1 DEF DelRecords, DeliveryStatus
<1>6. \A x \in Runs : run[x] \in RunRecords /\ run[x].status = "none"
  BY <1>1 DEF RunRecords
<1>7. RecordsInv
  <2>1. RecordsTyped
    BY <1>1, <1>2, <1>4, <1>5 DEF RecordsTyped, Once
  <2>2. MadeIsRecorded
    BY <1>2, <1>5 DEF MadeIsRecorded, Once
  <2>3. AskedFirst /\ AnsweredOnce
    BY <1>3, <1>4, <1>5, DeliveryNames DEF AskedFirst, AnsweredOnce, Closed
  <2>4. AnswersContinue
    BY <1>5 DEF AnswersContinue
  <2>5. QED
    BY <2>1, <2>2, <2>3, <2>4 DEF RecordsInv
<1>8. TurnsInv
  <2>1. TurnsTyped
    BY <1>1, <1>2, <1>6 DEF TurnsTyped, Once
  <2>2. TurnsOnce
    BY <1>2 DEF TurnsOnce, Once
  <2>3. SendUnderWay
    BY <1>1 DEF SendUnderWay
  <2>4. PersonsNext
    BY <1>1, <1>6, RunNames DEF PersonsNext
  <2>5. QED
    BY <2>1, <2>2, <2>3, <2>4 DEF TurnsInv
<1>9. AssignmentsInv
  <2>1. ItsOwnRun
    BY <1>4, <1>6, RunNames DEF ItsOwnRun, UnderWay
  <2>2. RunFits
    BY <1>4 DEF RunFits
  <2>3. WorkedOnceAccepted
    BY <1>1, <1>4 DEF WorkedOnceAccepted
  <2>4. AnswersRead
    BY <1>5, DeliveryNames DEF AnswersRead
  <2>5. QED
    BY <2>1, <2>2, <2>3, <2>4 DEF AssignmentsInv
<1>10. QED
  BY <1>7, <1>8, <1>9 DEF CoordInv

LEMMA UnansweredIsHeard == NotAnswering => HeardStep
BY DEF NotAnswering, HeardStep

LEMMA NextKeeps ==
  ASSUME CoordInv, [CoordNext]_vars
  PROVE  CoordInv' /\ HeardStep
<1>1. CASE UNCHANGED vars
  <2>1. /\ req' = req /\ del' = del /\ made' = made /\ later' = later /\ held' = held /\ gone' = gone
        /\ UNCHANGED <<run, turns, sending, typing, typed>>
    BY <1>1 DEF vars
  <2>2. RestTyped /\ Alike(del', del, {})
    BY <2>1, Known DEF RestTyped
  <2>3. QED
    BY <2>1, <2>2, StayQuiet, UnansweredIsHeard
<1>2. CASE Agents
  <2>1. ASSUME NEW d \in Deliveries, submitAgentRequest(d)
        PROVE  CoordInv' /\ NotAnswering
    BY <2>1, SubmitKeeps
  <2>2. ASSUME NEW r \in Requests, Reply(r)
        PROVE  CoordInv' /\ HeardStep
    BY <2>2, ReplyKeeps, ReplyHeard
  <2>3. ASSUME NEW r \in Requests, Cancel(r)
        PROVE  CoordInv' /\ NotAnswering
    BY <2>3, CancelKeeps
  <2>4. ASSUME NEW c \in Chats, NEW ok \in BOOLEAN, EndTurn(c, ok)
        PROVE  CoordInv' /\ HeardStep
    BY <2>4, EndTurnKeeps
  <2>5. QED
    BY <1>2, <2>1, <2>2, <2>3, <2>4, UnansweredIsHeard DEF Agents
<1>3. CASE People
  <2>1. ASSUME NEW d \in Deliveries, Allow(d) \/ Deny(d)
        PROVE  CoordInv' /\ NotAnswering
    BY <2>1, AllowKeeps, DenyKeeps
  <2>2. ASSUME NEW c \in Chats, Stop(c) \/ Hold(c) \/ Release(c) \/ Archive(c) \/ Delete(c)
        PROVE  CoordInv' /\ NotAnswering
    BY <2>2, StopKeeps, HoldsKeep, DeleteKeeps
  <2>3. ASSUME NEW c \in Chats, Type(c) \/ TypedTaken(c) \/ TypedFails(c)
        PROVE  CoordInv' /\ NotAnswering
    BY <2>3, TypeKeeps, TypedTakenKeeps, TypedFailsKeeps
  <2>4. QED
    BY <1>3, <2>1, <2>2, <2>3, UnansweredIsHeard DEF People
<1>4. CASE Passes
  <2>1. ASSUME NEW r \in Requests, Reconcile(r)
        PROVE  CoordInv' /\ NotAnswering
    BY <2>1, ReconcileKeeps
  <2>2. ASSUME NEW d \in Deliveries, Persist(d) \/ Abandon(d)
        PROVE  CoordInv' /\ NotAnswering
    BY <2>2, PersistKeeps, AbandonKeeps
  <2>3. ASSUME NEW c \in Chats, Activate(c) \/ ActivateGone(c) \/ TimePasses(c)
        PROVE  CoordInv' /\ NotAnswering
    BY <2>3, ActivateKeeps, ActivateGoneKeeps, HoldsKeep
  <2>4. ASSUME Boundary \/ Give \/ Accepted \/ HeldBack \/ SendRetry \/ SendFails
        PROVE  CoordInv' /\ NotAnswering
    BY <2>4, BoundaryKeeps, GiveKeeps, AcceptedKeeps, HeldBackKeeps, SendRetryKeeps, SendFailsKeeps
  <2>5. QED
    BY <1>4, <2>1, <2>2, <2>3, <2>4, UnansweredIsHeard DEF Passes
<1>5. CASE Restart
  BY <1>5, RestartKeeps, UnansweredIsHeard
<1>6. QED
  BY <1>1, <1>2, <1>3, <1>4, <1>5 DEF CoordNext

----------------------------------------------------------------------------
(* What holds of every history *)

(* Requests, deliveries, runs, turns and sends agree with one another in    *)
(* every state: what the theorems below rest on.                            *)
THEOREM CoordInvariant == CoordSpec => []CoordInv
<1>1. CoordInit => CoordInv
  BY InitInv
<1>2. CoordInv /\ [CoordNext]_vars => CoordInv'
  BY NextKeeps
<1>3. QED
  BY <1>1, <1>2, PTL DEF CoordSpec

(* Every variable has its type, through any sends, passes, turns, holds and *)
(* restarts: a delivery is made once, and nothing is said of another.       *)
THEOREM CoordTyped == CoordSpec => []CoordTypeOK
<1>1. CoordInv => CoordTypeOK
  <2>1. ASSUME CoordInv
        PROVE  CoordTypeOK
    <3>1. RecordsTyped /\ TurnsTyped
      BY <2>1, Known
    <3>2. sending = None \/ sending.stage \in {"preparing", "started", "native"}
      BY <2>1, SendFacts
    <3>3. /\ req \in [Requests -> [status : OpenStatus \cup {"none", "completed", "failed", "cancelled"},
                                   run : Runs \cup {None}, parent : Requests \cup {None}]]
          /\ del \in [Deliveries -> [status : DeliveryStatus, cont : Runs \cup {None},
                                     by : Runs \cup {None}]]
          /\ made \in Seq(Deliveries) /\ IsInjective(made)
      BY <3>1 DEF RecordsTyped, ReqRecords, DelRecords
    <3>4. /\ later \subseteq Deliveries
          /\ run \in [Runs -> [status : {"none", "queued", "running", "completed", "failed"},
                               inputs : SUBSET Deliveries]]
          /\ \A c \in Chats : turns[c] \in Seq(Runs)
          /\ held \subseteq Chats /\ gone \subseteq Chats
      BY <3>1 DEF TurnsTyped, RunRecords
    <3>5. QED
      BY <3>2, <3>3, <3>4 DEF CoordTypeOK
  <2>2. QED
    BY <2>1
<1>2. QED
  BY <1>1, CoordInvariant, PTL

(* A request is worked on by one run at a time, whatever is retried, held   *)
(* back, cancelled, interrupted by a restart or asked again: of the run     *)
(* that begins it and those that continue it at most one is under way.      *)
THEOREM OneRun == CoordSpec => []OneRunEach
<1>1. CoordInv => OneRunEach
  <2>1. ASSUME CoordInv, NEW r \in Requests
        PROVE  Cardinality({x \in RunsOf(r) : UnderWay(x)}) <= 1
    <3>1. \A x, y \in {z \in RunsOf(r) : UnderWay(z)} : x = y
      <4>1. ItsOwnRun
        BY <2>1, Known DEF AssignmentsInv
      <4>2. \A x \in RunsOf(r) : UnderWay(x) => req[r].run = x
        BY <4>1 DEF ItsOwnRun
      <4>3. QED
        BY <4>2
    <3>2. QED
      BY <3>1, AtMostOneOf
  <2>2. QED
    BY <2>1 DEF OneRunEach
<1>2. QED
  BY <1>1, CoordInvariant, PTL

(* An assignment that its turn's end answers (settleAgentRequestsForRun)    *)
(* has asked nothing that is open, and each answer to it was given up or    *)
(* read by a turn of its own that is over.                                  *)
THEOREM Heard == CoordSpec => HeardAll
<1>1. CoordInv /\ [CoordNext]_vars => HeardStep
  BY NextKeeps
<1>2. HeardStep => [HeardStep]_vars
  OBVIOUS
<1>3. CoordSpec => [][HeardStep]_vars
  BY <1>1, <1>2, CoordInvariant, PTL DEF CoordSpec
<1>4. QED
  BY <1>3 DEF HeardAll, HeardStep

----------------------------------------------------------------------------
(* What is reserved for a turn of the agents, and what a person's message   *)
(* takes along: PersonNotRefused is no invariant by itself.  A step may free *)
(* what a turn had, so who has what is stated for every run.                *)

Unsent == {"none", "awaiting_approval", "queued", "denied"}
IsResume(x) == x[1] = "resume"
Delivered(d) == del[d].status = "delivered"
Claimed(d) == \E c \in Chats : typing[c] # None /\ d \in typing[c].inputs
IsSent(x) == sending # None /\ sending.run = x

(* The chat a run is in.                                                    *)
HomeOf(x) == IF IsResume(x) THEN Target[x[2][1]] ELSE IF IsPersons(x) THEN x[2][1] ELSE Receiver(x[2])

(* Nothing is reserved for what was not delivered yet.                      *)
NotYetReserved == \A e \in Deliveries :
  del[e].status \in Unsent => (run[First(e)].status = "none" /\ del[e].cont = None)

TakenIsAccepted == \A d \in Deliveries : del[d].by # None => del[d].status = "accepted"

(* What a person's message claims is for its chat and in nobody's turn yet. *)
ClaimsHold == \A c \in Chats : typing[c] # None => \A d \in typing[c].inputs :
  Receiver(d) = c /\ (d \notin Unreserved => del[d].by = None)

(* A batch is saved with its run, and names it.                             *)
Batches ==
  /\ \A x \in Runs : (~IsPersons(x) /\ run[x].status = "none") => run[x].inputs = {}
  /\ \A x \in Runs : (~IsPersons(x) /\ UnderWay(x)) => run[x].inputs # {}
  /\ \A e \in Deliveries : \A d \in run[First(e)].inputs : Receiver(d) = Receiver(e)
  /\ \A r \in Requests : run[First(Asks(r))].inputs \subseteq {Asks(r)}
  /\ \A q \in Requests : run[First(Outcome(q))].status # "none" => req[q].parent = None

(* The answers an assignment is continued with are those its run has.       *)
Updating ==
  /\ \A x \in Runs : IsResume(x) => \A d \in Deliveries : (d \in run[x].inputs) <=> (del[d].cont = x)
  /\ \A x \in Runs : (IsResume(x) /\ run[x].status # "none") => \A d \in x[2][2] : del[d].cont = x
  /\ \A d \in Deliveries : del[d].cont # None => IsResume(del[d].cont)
  /\ \A d \in Deliveries : (Delivered(d) /\ del[d].cont # None) =>
        \/ run[del[d].cont].status \in {"queued", "failed"}
        \/ run[del[d].cont].status = "running" /\ IsSent(del[d].cont)

InItsChat ==
  /\ \A c \in Chats : \A x \in ToSet(turns[c]) : HomeOf(x) = c
  /\ sending # None => sending.chat = HomeOf(sending.run)
  /\ \A q \in Requests : req[q].parent # None =>
       (Target[req[q].parent] = Source[q] /\ req[req[q].parent].run # None)

(* The send the pass waits for takes the saved batch, and what the batch is *)
(* named for is still to be taken.                                          *)
SendsBatch == sending # None =>
  /\ sending.inputs = run[sending.run].inputs
  /\ \A e \in Deliveries : sending.run = First(e) =>
       (del[e].status \in {"delivered", "cancelled"} \/ sending.inputs \subseteq {e})

(* What is reserved nobody claims, and nothing claimed is reserved.         *)
Unclaimed ==
  /\ \A e \in Deliveries : (Delivered(e) /\ UnderWay(First(e))) =>
       \A d \in run[First(e)].inputs : ~Claimed(d)
  /\ \A e \in Deliveries : (Delivered(e) /\ UnderWay(First(e))) => ~Claimed(e)
  /\ \A d \in Deliveries : (Delivered(d) /\ del[d].cont # None /\ UnderWay(del[d].cont)) => ~Claimed(d)

ReservedInv == /\ NotYetReserved /\ TakenIsAccepted /\ ClaimsHold /\ Batches
               /\ Updating /\ InItsChat /\ SendsBatch /\ Unclaimed

----------------------------------------------------------------------------
(* What is reserved, and what is claimed *)

LEMMA RunKinds ==
  /\ \A d \in Deliveries : /\ ~IsResume(First(d)) /\ HomeOf(First(d)) = Receiver(d)
                           /\ \A e \in Deliveries : First(d) = First(e) => d = e
  /\ \A c, n : HomeOf(Person(c, n)) = c
  /\ \A r \in Requests : /\ Receiver(Asks(r)) = Target[r] /\ Receiver(Outcome(r)) = Source[r]
                         /\ \A x \in RunsOf(r) : HomeOf(x) = Target[r]
                         /\ \A x \in RunsOf(r) : x = First(Asks(r)) \/ IsResume(x)
                         /\ \A u : IsResume(Resume(r, u)) /\ Resume(r, u)[2][2] = u
  /\ \A x \in Runs : /\ IsResume(x) => ~IsPersons(x)
                     /\ IsPersons(x) \/ IsResume(x) \/ \E e \in Deliveries : x = First(e)
<1>1. \A d : First(d)[1] = "first" /\ First(d)[2] = d
  BY DEF First
<1>2. \A c, n : Person(c, n)[1] = "person" /\ Person(c, n)[2][1] = c
  BY DEF Person
<1>3. \A r, u : Resume(r, u)[1] = "resume" /\ Resume(r, u)[2][1] = r /\ Resume(r, u)[2][2] = u
  BY DEF Resume
<1>4. \A d \in Deliveries : /\ ~IsResume(First(d)) /\ HomeOf(First(d)) = Receiver(d)
                            /\ \A e \in Deliveries : First(d) = First(e) => d = e
  BY <1>1 DEF IsResume, HomeOf, IsPersons
<1>5. \A c, n : HomeOf(Person(c, n)) = c
  BY <1>2 DEF IsResume, HomeOf, IsPersons
<1>6. \A r \in Requests : Receiver(Asks(r)) = Target[r] /\ Receiver(Outcome(r)) = Source[r]
  BY DeliveryNames DEF Receiver
<1>7. ASSUME NEW r \in Requests, NEW x \in RunsOf(r)
      PROVE  /\ x = First(Asks(r)) \/ IsResume(x)
             /\ HomeOf(x) = Target[r]
  <2>1. CASE x = First(Asks(r))
    BY <1>4, <1>6, <2>1, DeliveryNames
  <2>2. CASE x[1] = "resume" /\ x[2][1] = r
    BY <2>2 DEF IsResume, HomeOf
  <2>3. QED
    BY <2>1, <2>2 DEF RunsOf, IsResume
<1>8. \A r \in Requests : \A u : IsResume(Resume(r, u)) /\ Resume(r, u)[2][2] = u
  BY <1>3 DEF IsResume
<1>9. ASSUME NEW x \in Runs
      PROVE  /\ IsResume(x) => ~IsPersons(x)
             /\ IsPersons(x) \/ IsResume(x) \/ \E e \in Deliveries : x = First(e)
  <2>1. \/ x \in {First(d) : d \in Deliveries}
        \/ \E r, u : x = Resume(r, u)
        \/ \E c, n : x = Person(c, n)
    BY DEF Runs
  <2>2. QED
    BY <1>2, <1>3, <2>1 DEF IsResume, IsPersons
<1>10. QED
  BY <1>4, <1>5, <1>6, <1>7, <1>8, <1>9

LEMMA UnreservedIs ==
  ASSUME NEW d
  PROVE  d \in Unreserved <=> \E e \in Deliveries :
           del[e].status = "cancelled" /\ d \in run[First(e)].inputs /\ d # e
BY DEF Unreserved

LEMMA PreparingIs ==
  ASSUME NEW d
  PROVE  d \in Preparing <=> Claimed(d)
BY DEF Preparing, Claimed

(* dl is old, but for what is withdrawn or, while it is not delivered yet,  *)
(* goes on; what is withdrawn after it was delivered has a status of S.     *)
Wanes(dl, old, S) ==
  /\ dl \in [Deliveries -> DelRecords]
  /\ \A d \in Deliveries :
       /\ dl[d].cont = old[d].cont /\ dl[d].by = old[d].by
       /\ old[d].status \in Unsent => dl[d].status \in Unsent \cup {"failed", "cancelled"}
       /\ old[d].status = "delivered" => dl[d].status \in {"delivered"} \cup S
       /\ old[d].status \in {"accepted", "failed", "cancelled"} => dl[d].status = old[d].status

Given_up == {"failed", "cancelled"}

LEMMA WanesItself ==
  ASSUME NEW dl \in [Deliveries -> DelRecords], NEW S
  PROVE  Wanes(dl, dl, S)
BY DEF Wanes, Unsent

LEMMA WanesTwice ==
  ASSUME NEW a, NEW b, NEW c, NEW S \in SUBSET Given_up, Wanes(a, b, S), Wanes(b, c, S)
  PROVE  Wanes(a, c, S)
<1>1. ASSUME NEW d \in Deliveries
      PROVE  /\ a[d].cont = c[d].cont /\ a[d].by = c[d].by
             /\ c[d].status \in Unsent => a[d].status \in Unsent \cup {"failed", "cancelled"}
             /\ c[d].status = "delivered" => a[d].status \in {"delivered"} \cup S
             /\ c[d].status \in {"accepted", "failed", "cancelled"} => a[d].status = c[d].status
  BY DEF Wanes, Unsent, Given_up
<1>2. QED
  BY <1>1 DEF Wanes

LEMMA WanesMore ==
  ASSUME NEW a, NEW b, NEW S, NEW T, S \subseteq T, Wanes(a, b, S)
  PROVE  Wanes(a, b, T)
BY DEF Wanes

LEMMA GoneWanes ==
  ASSUME NEW dl \in [Deliveries -> DelRecords], NEW D, NEW S,
         NEW status \in {"failed", "cancelled"}, status \in S
  PROVE  Wanes(Gone(dl, D, status), dl, S)
<1> DEFINE g == Gone(dl, D, status)
<1>1. \A d \in Deliveries : g[d] = IF d \in D /\ dl[d].status \in Unaccepted
                                   THEN [dl[d] EXCEPT !.status = status] ELSE dl[d]
  BY DEF Gone
<1>2. g \in [Deliveries -> DelRecords]
  <2>1. Alike(g, dl, {})
    BY GoneIsAlike
  <2>2. QED
    BY <2>1 DEF Alike
<1> HIDE DEF g
<1>3. ASSUME NEW d \in Deliveries
      PROVE  /\ g[d].cont = dl[d].cont /\ g[d].by = dl[d].by
             /\ dl[d].status \in Unsent => g[d].status \in Unsent \cup {"failed", "cancelled"}
             /\ dl[d].status = "delivered" => g[d].status \in {"delivered"} \cup S
             /\ dl[d].status \in {"accepted", "failed", "cancelled"} => g[d].status = dl[d].status
  <2>1. dl[d] \in DelRecords
    OBVIOUS
  <2>2. CASE d \in D /\ dl[d].status \in Unaccepted
    <3>1. g[d] = [dl[d] EXCEPT !.status = status]
      BY <1>1, <2>2
    <3>2. g[d].status = status /\ g[d].cont = dl[d].cont /\ g[d].by = dl[d].by
      BY <2>1, <3>1 DEF DelRecords
    <3>3. dl[d].status \notin {"accepted", "failed", "cancelled"}
      BY <2>2 DEF Unaccepted
    <3>4. QED
      BY <3>2, <3>3
  <2>3. CASE ~(d \in D /\ dl[d].status \in Unaccepted)
    BY <1>1, <2>3
  <2>4. QED
    BY <2>2, <2>3
<1>4. QED
  BY <1>2, <1>3 DEF Wanes, g

(* An approval that is refused was not delivered.                           *)
LEMMA DeniedWanes ==
  ASSUME NEW dl \in [Deliveries -> DelRecords], NEW D, NEW S,
         \A d \in D : d[1] # "outcome" /\ dl[d].status = "awaiting_approval"
  PROVE  Wanes(Gone(dl, D, "denied"), dl, S)
<1> DEFINE g == Gone(dl, D, "denied")
<1>1. \A d \in Deliveries : g[d] = IF d \in D /\ dl[d].status \in Unaccepted
                                   THEN [dl[d] EXCEPT !.status = "denied"] ELSE dl[d]
  BY DEF Gone
<1>2. g \in [Deliveries -> DelRecords]
  <2>1. Alike(g, dl, {})
    BY GoneIsAlike
  <2>2. QED
    BY <2>1 DEF Alike
<1> HIDE DEF g
<1>3. ASSUME NEW d \in Deliveries
      PROVE  /\ g[d].cont = dl[d].cont /\ g[d].by = dl[d].by
             /\ dl[d].status \in Unsent => g[d].status \in Unsent
             /\ dl[d].status \notin Unsent => g[d].status = dl[d].status
  <2>1. dl[d] \in DelRecords
    OBVIOUS
  <2>2. CASE d \in D /\ dl[d].status \in Unaccepted
    <3>1. g[d] = [dl[d] EXCEPT !.status = "denied"]
      BY <1>1, <2>2
    <3>2. g[d].status = "denied" /\ g[d].cont = dl[d].cont /\ g[d].by = dl[d].by
      BY <2>1, <3>1 DEF DelRecords
    <3>3. QED
      BY <2>2, <3>2 DEF Unsent
  <2>3. CASE ~(d \in D /\ dl[d].status \in Unaccepted)
    BY <1>1, <2>3
  <2>4. QED
    BY <2>2, <2>3
<1>4. QED
  BY <1>2, <1>3 DEF Wanes, Unsent, g

(* An outcome is made once, when its request ends.                          *)
LEMMA SettledWanes ==
  ASSUME NEW dl \in [Deliveries -> DelRecords], NEW R, NEW S, "cancelled" \in S,
         \A q \in Requests : Open(q) => dl[Outcome(q)].status \in Unsent
  PROVE  Wanes(Settled(dl, R), dl, S)
<1> DEFINE g == Settled(dl, R)
           ends(d, kind) == d[1] = kind /\ d[2] \in R /\ Open(d[2])
<1>1. \A d \in Deliveries :
        g[d] = IF ends(d, "outcome") THEN [dl[d] EXCEPT !.status = "queued"]
               ELSE IF ends(d, "request") /\ dl[d].status \in Unaccepted
               THEN [dl[d] EXCEPT !.status = "cancelled"] ELSE dl[d]
  BY DEF Settled
<1>2. g \in [Deliveries -> DelRecords]
  <2>1. Alike(g, dl, Ending(R))
    BY SettledIsAlike
  <2>2. QED
    BY <2>1 DEF Alike
<1> HIDE DEF g
<1>3. ASSUME NEW d \in Deliveries
      PROVE  /\ g[d].cont = dl[d].cont /\ g[d].by = dl[d].by
             /\ dl[d].status \in Unsent => g[d].status \in Unsent \cup {"failed", "cancelled"}
             /\ dl[d].status = "delivered" => g[d].status \in {"delivered"} \cup S
             /\ dl[d].status \in {"accepted", "failed", "cancelled"} => g[d].status = dl[d].status
  <2>1. dl[d] \in DelRecords
    OBVIOUS
  <2>2. CASE ends(d, "outcome")
    <3>1. g[d].status = "queued" /\ g[d].cont = dl[d].cont /\ g[d].by = dl[d].by
      BY <1>1, <2>1, <2>2 DEF DelRecords
    <3>2. dl[d].status \in Unsent
      BY <2>2, DeliveryNames
    <3>3. QED
      BY <3>1, <3>2 DEF Unsent
  <2>3. CASE ~ends(d, "outcome") /\ ends(d, "request") /\ dl[d].status \in Unaccepted
    <3>1. g[d].status = "cancelled" /\ g[d].cont = dl[d].cont /\ g[d].by = dl[d].by
      BY <1>1, <2>1, <2>3 DEF DelRecords
    <3>2. QED
      BY <2>3, <3>1 DEF Unaccepted
  <2>4. CASE ~ends(d, "outcome") /\ ~(ends(d, "request") /\ dl[d].status \in Unaccepted)
    BY <1>1, <2>4
  <2>5. QED
    BY <2>2, <2>3, <2>4
<1>4. QED
  BY <1>2, <1>3 DEF Wanes, g

(* What Finish leaves of the deliveries.                                    *)
LEMMA FinishWanes ==
  ASSUME CoordInv, NEW R, NEW S \in SUBSET Given_up, "cancelled" \in S, NEW dl,
         Alike(dl, del, {}), Wanes(dl, del, S), del' = Settled(dl, R)
  PROVE  Wanes(del', del, S)
<1>1. \A q \in Requests : Open(q) => del[Outcome(q)].status = "none"
  <2>1. AnsweredOnce
    BY Known DEF RecordsInv
  <2>2. QED
    BY <2>1 DEF AnsweredOnce, Open, OpenStatus, Closed
<1>2. \A d \in Deliveries : del[d].status = "none" => dl[d].status = "none"
  BY DEF Alike, OutcomesOf
<1>3. \A q \in Requests : Open(q) => dl[Outcome(q)].status \in Unsent
  BY <1>1, <1>2, DeliveryNames DEF Unsent
<1>4. dl \in [Deliveries -> DelRecords]
  BY DEF Alike
<1>5. Wanes(del', dl, S)
  BY <1>3, <1>4, SettledWanes
<1>6. QED
  BY <1>5, WanesTwice

LEMMA ResumesAnswers ==
  ASSUME NEW x \in Runs, IsResume(x)
  PROVE  x[2][2] \in SUBSET {Outcome(q) : q \in Requests} /\ x[2][2] \subseteq Deliveries
<1>1. \/ x \in {First(d) : d \in Deliveries}
      \/ \E r \in Requests : \E u \in (SUBSET {Outcome(q) : q \in Requests}) \ {{}} : x = Resume(r, u)
      \/ \E c, n : x = Person(c, n)
  BY DEF Runs
<1>2. ~(x \in {First(d) : d \in Deliveries}) /\ ~\E c, n : x = Person(c, n)
  BY DEF IsResume, First, Person
<1>3. PICK r \in Requests : \E u \in (SUBSET {Outcome(q) : q \in Requests}) \ {{}} : x = Resume(r, u)
  BY <1>1, <1>2
<1>4. PICK u \in (SUBSET {Outcome(q) : q \in Requests}) \ {{}} : x = Resume(r, u)
  BY <1>3
<1>5. x[2][2] = u
  BY <1>4 DEF Resume
<1>6. QED
  BY <1>5, DeliveryNames

----------------------------------------------------------------------------
(* Steps that only use up, withdraw or give up what is reserved *)

GoesOn ==
  /\ Wanes(del', del, Given_up)
  /\ sending' # None =>
       /\ sending # None /\ Wanes(del', del, {"cancelled"})
       /\ sending'.chat = sending.chat /\ sending'.run = sending.run
       /\ sending'.inputs = sending.inputs
  /\ \A x \in Runs : ~IsPersons(x) =>
       /\ run'[x].inputs = run[x].inputs
       /\ (run'[x].status = "none") <=> (run[x].status = "none")
       /\ run'[x].status \in {"queued", "running"} => UnderWay(x)
  /\ \A c \in Chats : typing'[c] \in {typing[c], None}
  /\ \A c \in Chats : \A x \in ToSet(turns'[c]) :
       x \in ToSet(turns[c]) \/ (sending # None /\ sending.chat = c /\ sending.run = x)
  /\ \A q \in Requests : \/ req'[q].parent = req[q].parent
                         \/ /\ del[Outcome(q)].status = "none"
                            /\ req'[q].parent # None => (/\ req'[q].parent \in Requests
                                                         /\ Target[req'[q].parent] = Source[q]
                                                         /\ req[req'[q].parent].run # None)
  /\ \A q \in Requests : req[q].run # None => req'[q].run # None
  /\ \A d \in Deliveries : (del'[d].status = "delivered" /\ del[d].cont # None) =>
       \/ run'[del[d].cont].status \in {"queued", "failed"}
       \/ run'[del[d].cont].status = "running" /\ sending' # None /\ sending'.run = del[d].cont

LEMMA WaningStatus ==
  ASSUME RecordsTyped, Wanes(del', del, Given_up), NEW d \in Deliveries
  PROVE  /\ del'[d].cont = del[d].cont /\ del'[d].by = del[d].by
         /\ del'[d].status \in Unsent => del[d].status \in Unsent
         /\ del'[d].status = "delivered" => del[d].status = "delivered"
         /\ del[d].status = "accepted" => del'[d].status = "accepted"
         /\ del[d].status = "cancelled" => del'[d].status = "cancelled"
<1>1. del[d].status \in DeliveryStatus
  BY RecordFields DEF RecordsTyped
<1>2. del[d].status \in Unsent \cup {"delivered", "accepted", "failed", "cancelled"}
  BY <1>1 DEF DeliveryStatus, Unsent
<1>3. QED
  BY <1>2 DEF Wanes, Unsent, Given_up

LEMMA StillUnreserved ==
  ASSUME \A e \in Deliveries : del[e].status = "cancelled" => del'[e].status = "cancelled",
         \A e \in Deliveries : run[First(e)].inputs \subseteq run'[First(e)].inputs,
         NEW d, d \in Unreserved
  PROVE  (d \in Unreserved)'
<1>1. PICK e \in Deliveries : del[e].status = "cancelled" /\ d \in run[First(e)].inputs /\ d # e
  BY UnreservedIs
<1>2. del'[e].status = "cancelled" /\ d \in run'[First(e)].inputs
  BY <1>1
<1>3. QED
  BY <1>1, <1>2 DEF Unreserved

LEMMA GoesOnKeeps ==
  ASSUME CoordInv, ReservedInv, GoesOn
  PROVE  ReservedInv'
<1>1. /\ NotYetReserved /\ TakenIsAccepted /\ ClaimsHold /\ Batches
      /\ Updating /\ InItsChat /\ SendsBatch /\ Unclaimed
  BY DEF ReservedInv
<1>2. \A d \in Deliveries :
         /\ del'[d].cont = del[d].cont /\ del'[d].by = del[d].by
         /\ del'[d].status \in Unsent => del[d].status \in Unsent
         /\ del'[d].status = "delivered" => del[d].status = "delivered"
         /\ del[d].status = "accepted" => del'[d].status = "accepted"
         /\ del[d].status = "cancelled" => del'[d].status = "cancelled"
  BY Known, WaningStatus DEF GoesOn
<1>3. \A x \in Runs : ~IsPersons(x) =>
       /\ run'[x].inputs = run[x].inputs
       /\ (run'[x].status = "none") <=> (run[x].status = "none")
       /\ run'[x].status \in {"queued", "running"} => UnderWay(x)
  BY DEF GoesOn
<1>4. \A d \in Deliveries : First(d) \in Runs /\ ~IsPersons(First(d))
  BY RunNames
<1>5. \A c \in Chats : typing'[c] \in {typing[c], None}
  BY DEF GoesOn
<1>6. \A d : Claimed(d)' => Claimed(d)
  BY <1>5 DEF Claimed
<1>7. NotYetReserved'
  BY <1>1, <1>2, <1>3, <1>4 DEF NotYetReserved
<1>8. TakenIsAccepted'
  BY <1>1, <1>2 DEF TakenIsAccepted
<1>9. ClaimsHold'
  <2>1. ASSUME NEW c \in Chats, typing'[c] # None, NEW d \in typing'[c].inputs
        PROVE  Receiver(d) = c /\ ((d \notin Unreserved)' => del'[d].by = None)
    <3>1. typing'[c] = typing[c]
      BY <1>5, <2>1
    <3>2. Receiver(d) = c /\ (d \notin Unreserved => del[d].by = None)
      BY <1>1, <2>1, <3>1 DEF ClaimsHold
    <3>3. d \in Deliveries
      <4>1. typing[c] \in Typings
        BY <2>1, <3>1, Known DEF TurnsTyped
      <4>2. QED
        BY <2>1, <3>1, <4>1, RecordFields
    <3>4. d \in Unreserved => (d \in Unreserved)'
      BY <1>2, <1>3, <1>4, StillUnreserved
    <3>5. QED
      BY <1>2, <3>2, <3>3, <3>4
  <2>2. QED
    BY <2>1 DEF ClaimsHold
<1>10. Batches'
  <2>1. \A q \in Requests : run'[First(Outcome(q))].status # "none" => req'[q].parent = None
    <3>1. ASSUME NEW q \in Requests, run'[First(Outcome(q))].status # "none"
          PROVE  req'[q].parent = None
      <4>1. run[First(Outcome(q))].status # "none" /\ Outcome(q) \in Deliveries
        BY <1>3, <1>4, <3>1, DeliveryNames
      <4>2. req[q].parent = None
        BY <1>1, <4>1 DEF Batches
      <4>3. del[Outcome(q)].status # "none"
        BY <1>1, <4>1 DEF NotYetReserved, Unsent
      <4>4. QED
        BY <4>2, <4>3 DEF GoesOn
    <3>2. QED
      BY <3>1
  <2>2. \A x \in Runs : (~IsPersons(x) /\ run'[x].status = "none") => run'[x].inputs = {}
    BY <1>1, <1>3 DEF Batches
  <2>3. \A x \in Runs : (~IsPersons(x) /\ run'[x].status \in {"queued", "running"}) => run'[x].inputs # {}
    BY <1>1, <1>3 DEF Batches
  <2>4. \A e \in Deliveries : \A d \in run'[First(e)].inputs : Receiver(d) = Receiver(e)
    BY <1>1, <1>3, <1>4 DEF Batches
  <2>5. \A r \in Requests : run'[First(Asks(r))].inputs \subseteq {Asks(r)}
    BY <1>1, <1>3, <1>4, DeliveryNames DEF Batches
  <2>6. QED
    BY <2>1, <2>2, <2>3, <2>4, <2>5 DEF Batches, UnderWay
<1>11. Updating'
  <2>1. \A x \in Runs : IsResume(x) => ~IsPersons(x)
    BY RunKinds
  <2>2. \A x \in Runs : IsResume(x) => \A d \in Deliveries : (d \in run'[x].inputs) <=> (del'[d].cont = x)
    <3>1. ASSUME NEW x \in Runs, IsResume(x), NEW d \in Deliveries
          PROVE  (d \in run'[x].inputs) <=> (del'[d].cont = x)
      <4>1. (d \in run[x].inputs) <=> (del[d].cont = x)
        BY <1>1, <3>1 DEF Updating
      <4>2. QED
        BY <1>2, <1>3, <2>1, <3>1, <4>1
    <3>2. QED
      BY <3>1
  <2>3. \A x \in Runs : (IsResume(x) /\ run'[x].status # "none") => \A d \in x[2][2] : del'[d].cont = x
    <3>1. ASSUME NEW x \in Runs, IsResume(x), run'[x].status # "none", NEW d \in x[2][2]
          PROVE  del'[d].cont = x
      <4>1. del[d].cont = x
        BY <1>1, <1>3, <2>1, <3>1 DEF Updating
      <4>2. d \in Deliveries
        BY <3>1, ResumesAnswers
      <4>3. QED
        BY <1>2, <4>1, <4>2
    <3>2. QED
      BY <3>1
  <2>4. \A d \in Deliveries : del'[d].cont # None => IsResume(del'[d].cont)
    BY <1>1, <1>2 DEF Updating
  <2>5. \A d \in Deliveries : (del'[d].status = "delivered" /\ del'[d].cont # None) =>
        \/ run'[del'[d].cont].status \in {"queued", "failed"}
        \/ run'[del'[d].cont].status = "running" /\ sending' # None /\ sending'.run = del'[d].cont
    BY <1>2 DEF GoesOn
  <2>6. QED
    BY <2>2, <2>3, <2>4, <2>5 DEF Updating, Delivered, IsSent
<1>12. InItsChat'
  <2>1. \A c \in Chats : \A x \in ToSet(turns'[c]) : HomeOf(x) = c
    BY <1>1 DEF InItsChat, GoesOn
  <2>2. sending' # None => sending'.chat = HomeOf(sending'.run)
    BY <1>1 DEF InItsChat, GoesOn
  <2>3. \A q \in Requests : req'[q].parent # None =>
          (Target[req'[q].parent] = Source[q] /\ req'[req'[q].parent].run # None)
    <3>1. ASSUME NEW q \in Requests, req'[q].parent # None
          PROVE  Target[req'[q].parent] = Source[q] /\ req[req'[q].parent].run # None
      BY <1>1, <3>1 DEF InItsChat, GoesOn
    <3>2. \A q \in Requests : req'[q].parent # None => req'[q].parent \in Requests
      <4>1. \A q \in Requests : req[q].parent # None => req[q].parent \in Requests
        BY Known, RecordFields
      <4>2. QED
        BY <4>1 DEF GoesOn
    <3>3. \A q \in Requests : req[q].run # None => req'[q].run # None
      BY DEF GoesOn
    <3>4. QED
      BY <3>1, <3>2, <3>3
  <2>4. QED
    BY <2>1, <2>2, <2>3 DEF InItsChat
<1>13. SendsBatch'
  <2>1. ASSUME sending' # None
        PROVE  /\ sending'.inputs = run'[sending'.run].inputs
               /\ \A e \in Deliveries : sending'.run = First(e) =>
                    (del'[e].status \in {"delivered", "cancelled"} \/ sending'.inputs \subseteq {e})
    <3>1. /\ sending # None /\ Wanes(del', del, {"cancelled"})
          /\ sending'.run = sending.run /\ sending'.inputs = sending.inputs
      BY <2>1 DEF GoesOn
    <3>2. /\ sending.inputs = run[sending.run].inputs
          /\ \A e \in Deliveries : sending.run = First(e) =>
               (del[e].status \in {"delivered", "cancelled"} \/ sending.inputs \subseteq {e})
      BY <1>1, <3>1 DEF SendsBatch
    <3>3. sending.run \in Runs /\ ~IsPersons(sending.run)
      BY <3>1, SendFacts
    <3>4. \A e \in Deliveries : del[e].status \in {"delivered", "cancelled"}
                                => del'[e].status \in {"delivered", "cancelled"}
      BY <3>1 DEF Wanes
    <3>5. QED
      BY <1>3, <3>1, <3>2, <3>3, <3>4
  <2>2. QED
    BY <2>1 DEF SendsBatch
<1>14. Unclaimed'
  <2>1. \A d \in Deliveries : Delivered(d)' => Delivered(d)
    BY <1>2 DEF Delivered
  <2>2. \A x \in Runs : ~IsPersons(x) => (UnderWay(x)' => UnderWay(x))
    BY <1>3 DEF UnderWay
  <2>3. ASSUME NEW e \in Deliveries, Delivered(e)', UnderWay(First(e))'
        PROVE  ~Claimed(e)' /\ \A d \in run'[First(e)].inputs : ~Claimed(d)'
    BY <1>1, <1>3, <1>4, <1>6, <2>1, <2>2, <2>3 DEF Unclaimed
  <2>4. ASSUME NEW d \in Deliveries, Delivered(d)', del'[d].cont # None,
               run'[del'[d].cont].status \in {"queued", "running"}
        PROVE  ~Claimed(d)'
    <3>1. del[d].cont # None /\ IsResume(del[d].cont)
      BY <1>1, <1>2, <2>4 DEF Updating
    <3>2. del[d].cont \in Runs /\ ~IsPersons(del[d].cont)
      BY <3>1, Known, RecordFields, RunKinds
    <3>3. UnderWay(del[d].cont)
      BY <1>2, <1>3, <2>4, <3>2
    <3>4. QED
      BY <1>1, <1>6, <2>1, <2>4, <3>1, <3>3 DEF Unclaimed
  <2>5. QED
    BY <1>2, <2>3, <2>4 DEF Unclaimed, UnderWay
<1>15. QED
  BY <1>7, <1>8, <1>9, <1>10, <1>11, <1>12, <1>13, <1>14 DEF ReservedInv

(* The runs, the turns and the sends stay as they are.                      *)
LEMMA QuietGoesOn ==
  ASSUME CoordInv, ReservedInv, UNCHANGED <<run, turns, sending, typing>>,
         Wanes(del', del, Given_up), sending # None => Wanes(del', del, {"cancelled"}),
         \A q \in Requests : \/ req'[q].parent = req[q].parent
                             \/ /\ del[Outcome(q)].status = "none"
                                /\ req'[q].parent # None => (/\ req'[q].parent \in Requests
                                                             /\ Target[req'[q].parent] = Source[q]
                                                             /\ req[req'[q].parent].run # None),
         \A q \in Requests : req[q].run # None => req'[q].run # None
  PROVE  ReservedInv'
<1>1. ASSUME NEW d \in Deliveries, del'[d].status = "delivered", del[d].cont # None
      PROVE  \/ run'[del[d].cont].status \in {"queued", "failed"}
             \/ run'[del[d].cont].status = "running" /\ sending' # None /\ sending'.run = del[d].cont
  <2>1. Delivered(d)
    BY <1>1, Known, WaningStatus DEF Delivered
  <2>2. QED
    BY <1>1, <2>1 DEF ReservedInv, Updating, IsSent
<1>2. \A x \in Runs : ~IsPersons(x) =>
       /\ run'[x].inputs = run[x].inputs
       /\ (run'[x].status = "none") <=> (run[x].status = "none")
       /\ run'[x].status \in {"queued", "running"} => UnderWay(x)
  BY DEF UnderWay
<1>3. GoesOn
  BY <1>1, <1>2 DEF GoesOn
<1>4. QED
  BY <1>3, GoesOnKeeps

LEMMA GivenUpWithin ==
  /\ {"cancelled"} \in SUBSET Given_up /\ Given_up \in SUBSET Given_up
  /\ "cancelled" \in {"cancelled"} /\ "cancelled" \in Given_up /\ "failed" \in Given_up
  /\ {"cancelled"} \subseteq Given_up
BY DEF Given_up

LEMMA EndedParents ==
  ASSUME CoordInv, NEW R, NEW status \in Closed
  PROVE  \A q \in Requests : /\ Ended(R, status)[q].parent = req[q].parent
                             /\ Ended(R, status)[q].run = req[q].run
<1>1. \A r \in Requests :
         /\ r \in Ending(R) => Ended(R, status)[r] = [req[r] EXCEPT !.status = status]
         /\ r \notin Ending(R) => Ended(R, status)[r] = req[r]
         /\ Ended(R, status)[r].parent = req[r].parent
         /\ Ended(R, status)[r].run = req[r].run
         /\ r \in Ending(R) => Ended(R, status)[r].status = status
  BY Known, EndedFields
<1>2. QED
  BY <1>1

(* Requests end; dl are the deliveries but for what that does to them.      *)
LEMMA FinishReserved ==
  ASSUME CoordInv, ReservedInv, NEW R, NEW status \in Closed, NEW dl, NEW S \in SUBSET Given_up,
         "cancelled" \in S, sending # None => S = {"cancelled"},
         Alike(dl, del, {}), Wanes(dl, del, S), Finish(dl, R, status),
         UNCHANGED <<run, turns, sending, typing>>
  PROVE  ReservedInv'
<1>1. req' = Ended(R, status) /\ del' = Settled(dl, R)
  BY DEF Finish
<1>2. Wanes(del', del, S)
  BY <1>1, FinishWanes
<1>3. Wanes(del', del, Given_up)
  BY <1>2, WanesMore
<1>4. \A q \in Requests : req'[q].parent = req[q].parent /\ req'[q].run = req[q].run
  BY <1>1, EndedParents
<1>5. sending # None => Wanes(del', del, {"cancelled"})
  BY <1>2
<1>6. QED
  BY <1>3, <1>4, <1>5, QuietGoesOn

LEMMA DelWanesItself ==
  ASSUME CoordInv
  PROVE  Wanes(del, del, {"cancelled"}) /\ Wanes(del, del, Given_up)
BY Known, WanesItself

LEMMA ClosedStatus == "completed" \in Closed /\ "failed" \in Closed /\ "cancelled" \in Closed
BY DEF Closed

LEMMA RequestsEndReserved ==
  ASSUME CoordInv, ReservedInv, NEW R, NEW status \in Closed, Finish(del, R, status),
         UNCHANGED <<run, turns, sending, typing>>
  PROVE  ReservedInv'
<1>1. Alike(del, del, {}) /\ Wanes(del, del, {"cancelled"})
  BY Known, DelWanesItself
<1>2. QED
  BY <1>1, GivenUpWithin, FinishReserved

LEMMA FailedReserved ==
  ASSUME CoordInv, ReservedInv, NEW D, sending = None, failAgentDelivery(D),
         UNCHANGED <<run, turns, sending, typing>>
  PROVE  ReservedInv'
<1>1. PICK R : Finish(Failed(D), R, "failed")
  BY DEF failAgentDelivery
<1>2. Alike(Failed(D), del, {})
  BY FailedIsAlike
<1>3. Wanes(Failed(D), del, Given_up)
  BY Known, GivenUpWithin, GoneWanes DEF Failed
<1>4. QED
  BY <1>1, <1>2, <1>3, GivenUpWithin, ClosedStatus, FinishReserved

LEMMA DenyReserved ==
  ASSUME CoordInv, ReservedInv, NEW d \in Deliveries, Deny(d)
  PROVE  ReservedInv'
<1>1. /\ del[d].status = "awaiting_approval"
      /\ Finish(Gone(del, {d}, "denied"), Asked({d}), "cancelled")
      /\ UNCHANGED <<run, turns, sending, typing>>
  BY DEF Deny
<1>2. del \in [Deliveries -> DelRecords] /\ RecordsInv
  BY Known
<1>3. d[1] # "outcome"
  BY <1>1, <1>2, DeliveryNames DEF RecordsInv, AnsweredOnce
<1>4. Alike(Gone(del, {d}, "denied"), del, {})
  BY <1>2, <1>3, GoneIsAlike
<1>5. Wanes(Gone(del, {d}, "denied"), del, {"cancelled"})
  BY <1>1, <1>2, <1>3, DeniedWanes
<1>6. QED
  BY <1>1, <1>4, <1>5, GivenUpWithin, ClosedStatus, FinishReserved

LEMMA EndingsReserved ==
  ASSUME CoordInv, ReservedInv,
         \/ \E r \in Requests : Reply(r) \/ Cancel(r) \/ Reconcile(r)
         \/ \E c \in Chats : Stop(c)
  PROVE  ReservedInv'
<1>1. \A r : Reply(r) => \E R : \E s \in Closed : Finish(del, R, s) /\ UNCHANGED <<run, turns, sending, typing>>
  BY ClosedStatus DEF Reply, finishAgentRequest
<1>2. \A r : Cancel(r) => \E R : \E s \in Closed : Finish(del, R, s) /\ UNCHANGED <<run, turns, sending, typing>>
  BY ClosedStatus DEF Cancel, finishAgentRequest
<1>3. \A r : Reconcile(r) => \E R : \E s \in Closed : Finish(del, R, s) /\ UNCHANGED <<run, turns, sending, typing>>
  BY ClosedStatus DEF Reconcile, finishAgentRequest
<1>4. \A c : Stop(c) => \E R : \E s \in Closed : Finish(del, R, s) /\ UNCHANGED <<run, turns, sending, typing>>
  BY ClosedStatus DEF Stop, finishAgentRequest
<1>5. \E R : \E s \in Closed : Finish(del, R, s) /\ UNCHANGED <<run, turns, sending, typing>>
  BY <1>1, <1>2, <1>3, <1>4
<1>6. QED
  BY <1>5, RequestsEndReserved

LEMMA HoldsReserved ==
  ASSUME CoordInv, ReservedInv,
         NEW c \in Chats, Hold(c) \/ Release(c) \/ Archive(c) \/ TimePasses(c)
  PROVE  ReservedInv'
<1>1. req' = req /\ del' = del /\ UNCHANGED <<run, turns, sending, typing>>
  BY DEF Hold, Release, Archive, TimePasses
<1>2. QED
  BY <1>1, DelWanesItself, QuietGoesOn

LEMMA DeleteReserved ==
  ASSUME CoordInv, ReservedInv, NEW c \in Chats, Delete(c)
  PROVE  ReservedInv'
<1>1. PICK R, D : /\ req' = Ended(R, "cancelled")
                  /\ del' = Gone(Settled(del, R), D, "cancelled")
                  /\ UNCHANGED <<run, turns, sending, typing>>
  BY Zenon DEF Delete
<1>2. RecordsInv /\ RecordsTyped /\ del \in [Deliveries -> DelRecords]
  BY Known
<1>3. \A q \in Requests : Open(q) => del[Outcome(q)].status \in Unsent
  BY <1>2 DEF RecordsInv, AnsweredOnce, Open, OpenStatus, Closed, Unsent
<1>4. Wanes(Settled(del, R), del, {"cancelled"})
  BY <1>2, <1>3, SettledWanes
<1>5. Wanes(del', Settled(del, R), {"cancelled"})
  <2>1. Settled(del, R) \in [Deliveries -> DelRecords]
    BY <1>4 DEF Wanes
  <2>2. QED
    BY <1>1, <2>1, GoneWanes
<1>6. Wanes(del', del, {"cancelled"})
  BY <1>4, <1>5, GivenUpWithin, WanesTwice
<1>7. Wanes(del', del, Given_up)
  BY <1>6, GivenUpWithin, WanesMore
<1>8. \A q \in Requests : req'[q].parent = req[q].parent /\ req'[q].run = req[q].run
  BY <1>1, ClosedStatus, EndedParents
<1>9. QED
  BY <1>1, <1>6, <1>7, <1>8, QuietGoesOn

LEMMA AssignmentIsHere ==
  ASSUME CoordInv, ReservedInv, NEW c \in Chats, Assignment(c) # None
  PROVE  /\ Assignment(c) \in Requests /\ Open(Assignment(c)) /\ Target[Assignment(c)] = c
         /\ req[Assignment(c)].run = Producer(c) /\ Producer(c) # None
         /\ Producer(c) \in RunsOf(Assignment(c))
<1>1. Producer(c) # None /\ OwnedBy(Producer(c)) # {}
      /\ Assignment(c) = CHOOSE r \in OwnedBy(Producer(c)) : TRUE
  BY DEF Assignment
<1>2. PICK p : p = Assignment(c)
  OBVIOUS
<1>3. p \in OwnedBy(Producer(c))
  BY <1>1, <1>2
<1>4. p \in Requests /\ Open(p) /\ req[p].run = Producer(c)
  BY <1>3 DEF OwnedBy
<1>5. Producer(c) \in RunsOf(p)
  BY <1>1, <1>4, Known DEF AssignmentsInv, ItsOwnRun
<1>6. HomeOf(Producer(c)) = Target[p]
  BY <1>4, <1>5, RunKinds
<1>7. Producer(c) \in ToSet(turns[c])
  BY <1>1, ProducerIsHead
<1>8. HomeOf(Producer(c)) = c
  BY <1>7 DEF ReservedInv, InItsChat
<1>9. QED
  BY <1>1, <1>2, <1>4, <1>5, <1>6, <1>8

LEMMA OneStatusWanes ==
  ASSUME CoordInv, NEW d \in Deliveries, NEW s \in Unsent, del[d].status \in Unsent,
         del' = [del EXCEPT ![d].status = s], NEW S
  PROVE  Wanes(del', del, S)
<1>1. del \in [Deliveries -> DelRecords]
  BY Known
<1>2. \A e \in Deliveries : /\ e # d => del'[e] = del[e]
                            /\ e = d => del'[e] = [del[d] EXCEPT !.status = s]
  BY <1>1
<1>3. s \in DeliveryStatus
  BY DEF Unsent, DeliveryStatus
<1>4. /\ del'[d] \in DelRecords /\ del'[d].status = s
      /\ del'[d].cont = del[d].cont /\ del'[d].by = del[d].by
  BY <1>1, <1>2, <1>3 DEF DelRecords
<1>5. del' \in [Deliveries -> DelRecords]
  BY <1>1, <1>2, <1>4
<1>6. QED
  BY <1>2, <1>4, <1>5 DEF Wanes, Unsent

LEMMA SubmitReserved ==
  ASSUME CoordInv, ReservedInv, NEW d \in Deliveries, submitAgentRequest(d)
  PROVE  ReservedInv'
<1>1. /\ d[1] # "outcome" /\ del[d].status = "none"
      /\ del' = [del EXCEPT ![d].status = Permitted(d)]
      /\ UNCHANGED <<run, turns, sending, typing>>
  BY DEF submitAgentRequest, MaySubmit
<1>2. req' = [r \in Requests |-> IF d = Asks(r)
                THEN [status |-> "queued", run |-> None, parent |-> Assignment(Source[r])] ELSE req[r]]
  BY DEF submitAgentRequest
<1>3. Permitted(d) \in Unsent /\ del[d].status \in Unsent
  BY <1>1 DEF Permitted, Unsent
<1>4. Wanes(del', del, {"cancelled"}) /\ Wanes(del', del, Given_up)
  BY <1>1, <1>3, OneStatusWanes
<1>5. ASSUME NEW q \in Requests, d = Asks(q)
      PROVE  /\ del[Outcome(q)].status = "none"
             /\ req'[q].parent # None => (/\ req'[q].parent \in Requests
                                          /\ Target[req'[q].parent] = Source[q]
                                          /\ req[req'[q].parent].run # None)
             /\ req[q].run = None
  <2>1. req'[q].parent = Assignment(Source[q])
    BY <1>2, <1>5
  <2>2. Source[q] \in Chats
    BY CoordAssumption
  <2>3. req'[q].parent # None => (/\ req'[q].parent \in Requests
                                  /\ Target[req'[q].parent] = Source[q]
                                  /\ req[req'[q].parent].run # None)
    BY <2>1, <2>2, AssignmentIsHere
  <2>4. req[q].status = "none" /\ req[q].run = None
    BY <1>1, <1>5, Known DEF RecordsInv, AskedFirst
  <2>5. del[Outcome(q)].status = "none"
    BY <2>4, Known DEF RecordsInv, AnsweredOnce, Closed
  <2>6. QED
    BY <2>3, <2>4, <2>5
<1>6. \A q \in Requests : d # Asks(q) => (req'[q].parent = req[q].parent /\ req'[q].run = req[q].run)
  BY <1>2
<1>7. QED
  BY <1>1, <1>4, <1>5, <1>6, QuietGoesOn

LEMMA AllowReserved ==
  ASSUME CoordInv, ReservedInv, NEW d \in Deliveries, Allow(d)
  PROVE  ReservedInv'
<1>1. /\ del[d].status = "awaiting_approval" /\ del' = [del EXCEPT ![d].status = "queued"]
      /\ req' = req /\ UNCHANGED <<run, turns, sending, typing>>
  BY DEF Allow
<1>2. del[d].status \in Unsent /\ "queued" \in Unsent
  BY <1>1 DEF Unsent
<1>3. Wanes(del', del, {"cancelled"}) /\ Wanes(del', del, Given_up)
  BY <1>1, <1>2, OneStatusWanes
<1>4. QED
  BY <1>1, <1>3, QuietGoesOn

(* What is delivered now was reserved by nothing.                           *)
LEMMA DeliverReserved ==
  ASSUME CoordInv, ReservedInv, NEW d \in Deliveries, sending = None, del[d].status = "queued",
         del' = [del EXCEPT ![d].status = "delivered"], req' = req,
         UNCHANGED <<run, turns, sending, typing>>
  PROVE  ReservedInv'
<1>1. del \in [Deliveries -> DelRecords]
  BY Known
<1>2. \A e \in Deliveries : /\ e # d => del'[e] = del[e]
                            /\ e = d => del'[e] = [del[d] EXCEPT !.status = "delivered"]
  BY <1>1
<1>3. del'[d].status = "delivered" /\ del'[d].cont = del[d].cont /\ del'[d].by = del[d].by
  BY <1>1, <1>2 DEF DelRecords
<1>4. \A e \in Deliveries : del'[e].cont = del[e].cont /\ del'[e].by = del[e].by
  BY <1>2, <1>3
<1>5. /\ NotYetReserved /\ TakenIsAccepted /\ ClaimsHold /\ Batches
      /\ Updating /\ InItsChat /\ SendsBatch /\ Unclaimed
  BY DEF ReservedInv
<1>6. run[First(d)].status = "none" /\ del[d].cont = None /\ del[d].by = None
  BY <1>5 DEF NotYetReserved, Unsent, TakenIsAccepted
<1>7. \A e \in Deliveries : del'[e].status \in Unsent => (e # d /\ del[e].status \in Unsent)
  BY <1>2, <1>3 DEF Unsent
<1>8. NotYetReserved'
  BY <1>4, <1>5, <1>7 DEF NotYetReserved
<1>9. TakenIsAccepted'
  BY <1>2, <1>4, <1>5, <1>6 DEF TakenIsAccepted
<1>10. ClaimsHold'
  <2>1. ASSUME NEW c \in Chats, typing[c] # None, NEW e \in typing[c].inputs
        PROVE  Receiver(e) = c /\ ((e \notin Unreserved)' => del'[e].by = None)
    <3>1. Receiver(e) = c /\ (e \notin Unreserved => del[e].by = None)
      BY <1>5, <2>1 DEF ClaimsHold
    <3>2. e \in Deliveries
      <4>1. typing[c] \in Typings
        BY <2>1, Known DEF TurnsTyped
      <4>2. QED
        BY <2>1, <4>1, RecordFields
    <3>3. \A f \in Deliveries : del[f].status = "cancelled" => del'[f].status = "cancelled"
      BY <1>2
    <3>4. e \in Unreserved => (e \in Unreserved)'
      BY <3>3, StillUnreserved
    <3>5. QED
      BY <1>4, <3>1, <3>2, <3>4
  <2>2. QED
    BY <2>1 DEF ClaimsHold
<1>11. Batches'
  BY <1>5 DEF Batches, UnderWay
<1>12. Updating'
  <2>1. /\ \A x \in Runs : IsResume(x) => \A e \in Deliveries : (e \in run'[x].inputs) <=> (del'[e].cont = x)
        /\ \A e \in Deliveries : del'[e].cont # None => IsResume(del'[e].cont)
    BY <1>4, <1>5 DEF Updating
  <2>2. \A x \in Runs : (IsResume(x) /\ run'[x].status # "none") => \A e \in x[2][2] : del'[e].cont = x
    <3>1. ASSUME NEW x \in Runs, IsResume(x), run'[x].status # "none", NEW e \in x[2][2]
          PROVE  del'[e].cont = x
      BY <1>4, <1>5, <3>1, ResumesAnswers DEF Updating
    <3>2. QED
      BY <3>1
  <2>3. \A e \in Deliveries : (del'[e].status = "delivered" /\ del'[e].cont # None) =>
          \/ run'[del'[e].cont].status \in {"queued", "failed"}
          \/ run'[del'[e].cont].status = "running" /\ sending' # None /\ sending'.run = del'[e].cont
    BY <1>2, <1>4, <1>5, <1>6 DEF Updating, Delivered, IsSent
  <2>4. QED
    BY <2>1, <2>2, <2>3 DEF Updating, Delivered, IsSent
<1>13. InItsChat' /\ SendsBatch'
  BY <1>5 DEF InItsChat, SendsBatch
<1>14. Unclaimed'
  <2>1. \A e \in Deliveries : (Delivered(e)' /\ e # d) => Delivered(e)
    BY <1>2 DEF Delivered
  <2>2. \A e : Claimed(e)' => Claimed(e)
    BY DEF Claimed
  <2>3. ~UnderWay(First(d))
    BY <1>6 DEF UnderWay
  <2>4. \A e \in Deliveries : (Delivered(e)' /\ run'[First(e)].status \in {"queued", "running"}) =>
          (~Claimed(e)' /\ \A f \in run'[First(e)].inputs : ~Claimed(f)')
    BY <1>5, <2>1, <2>2, <2>3 DEF Unclaimed, UnderWay
  <2>5. \A e \in Deliveries : (Delivered(e)' /\ del'[e].cont # None
          /\ run'[del'[e].cont].status \in {"queued", "running"}) => ~Claimed(e)'
    BY <1>4, <1>5, <1>6, <2>1, <2>2 DEF Unclaimed, UnderWay
  <2>6. QED
    BY <2>4, <2>5 DEF Unclaimed, UnderWay
<1>15. QED
  BY <1>8, <1>9, <1>10, <1>11, <1>12, <1>13, <1>14 DEF ReservedInv

LEMMA PersistReserved ==
  ASSUME CoordInv, ReservedInv, NEW d \in Deliveries, Persist(d)
  PROVE  ReservedInv'
<1>1. /\ sending = None /\ del[d].status = "queued" /\ UNCHANGED <<run, turns, sending, typing>>
      /\ \/ Finish(Gone(del, {d}, "cancelled"), Asked({d}), "cancelled")
         \/ failAgentDelivery({d})
         \/ del' = [del EXCEPT ![d].status = "delivered"] /\ req' = req
  BY DEF Persist
<1>2. CASE Finish(Gone(del, {d}, "cancelled"), Asked({d}), "cancelled")
  <2>1. Alike(Gone(del, {d}, "cancelled"), del, {})
    BY Known, GoneIsAlike
  <2>2. Wanes(Gone(del, {d}, "cancelled"), del, {"cancelled"})
    BY Known, GoneWanes
  <2>3. QED
    BY <1>1, <1>2, <2>1, <2>2, GivenUpWithin, ClosedStatus, FinishReserved
<1>3. CASE failAgentDelivery({d})
  BY <1>1, <1>3, FailedReserved
<1>4. CASE del' = [del EXCEPT ![d].status = "delivered"] /\ req' = req
  BY <1>1, <1>4, DeliverReserved
<1>5. QED
  BY <1>1, <1>2, <1>3, <1>4

LEMMA GivenUpReserved ==
  ASSUME CoordInv, ReservedInv,
         \/ \E d \in Deliveries : Abandon(d)
         \/ \E c \in Chats : ActivateGone(c)
  PROVE  ReservedInv'
<1>1. \A d : Abandon(d) => \E D : sending = None /\ failAgentDelivery(D) /\ UNCHANGED <<run, turns, sending, typing>>
  BY DEF Abandon
<1>2. \A c : ActivateGone(c) => \E D : sending = None /\ failAgentDelivery(D) /\ UNCHANGED <<run, turns, sending, typing>>
  BY DEF ActivateGone
<1>3. QED
  BY <1>1, <1>2, FailedReserved

LEMMA RunStepFields ==
  ASSUME TurnsTyped, NEW x \in Runs, NEW s,
         run' = [run EXCEPT ![x].status = s]
  PROVE  /\ run'[x].status = s /\ \A y \in Runs : run'[y].inputs = run[y].inputs
         /\ \A y \in Runs : y # x => run'[y] = run[y]
<1>1. run \in [Runs -> RunRecords] /\ run[x] \in RunRecords
  BY DEF TurnsTyped
<1>2. run'[x] = [run[x] EXCEPT !.status = s] /\ \A y \in Runs : y # x => run'[y] = run[y]
  BY <1>1
<1>3. run'[x].status = s /\ run'[x].inputs = run[x].inputs
  BY <1>1, <1>2 DEF RunRecords
<1>4. QED
  BY <1>2, <1>3

(* The send that is prepared goes on or is put off.                         *)
LEMMA SendMovesReserved ==
  ASSUME CoordInv, ReservedInv, sending # None, sending.stage # "native",
         NEW s \in {"queued", "running"}, run' = [run EXCEPT ![sending.run].status = s],
         \/ sending' = None /\ s = "queued"
         \/ s = "running" /\ sending' = [sending EXCEPT !.stage = "started"],
         UNCHANGED <<req, del, turns, typing>>
  PROVE  ReservedInv'
<1>1. PICK x \in Runs : x = sending.run
  BY SendFacts
<1>2. sending \in Sends /\ UnderWay(x)
  BY <1>1, SendFacts DEF UnderWay
<1>3. /\ run'[x].status = s /\ \A y \in Runs : run'[y].inputs = run[y].inputs
      /\ \A y \in Runs : y # x => run'[y] = run[y]
  BY <1>1, Known, RunStepFields DEF TurnsInv
<1>4. sending' # None => /\ s = "running" /\ sending'.run = x
                         /\ sending'.chat = sending.chat /\ sending'.inputs = sending.inputs
  BY <1>1, <1>2 DEF Sends
<1>5. \A y \in Runs : ~IsPersons(y) =>
       /\ run'[y].inputs = run[y].inputs
       /\ (run'[y].status = "none") <=> (run[y].status = "none")
       /\ run'[y].status \in {"queued", "running"} => UnderWay(y)
  BY <1>2, <1>3 DEF UnderWay
<1>6. ASSUME NEW d \in Deliveries, del'[d].status = "delivered", del[d].cont # None
      PROVE  \/ run'[del[d].cont].status \in {"queued", "failed"}
             \/ run'[del[d].cont].status = "running" /\ sending' # None /\ sending'.run = del[d].cont
  <2>1. del[d].cont \in Runs
    BY <1>6, Known, RecordFields
  <2>2. CASE del[d].cont = x
    <3>1. s = "running" => sending' # None
      <4>1. s = "running" => sending' \in Sends
        BY <1>2 DEF Sends
      <4>2. QED
        BY <4>1, RunNames
    <3>2. QED
      BY <1>3, <1>4, <2>2, <3>1
  <2>3. CASE del[d].cont # x
    <3>1. run'[del[d].cont] = run[del[d].cont]
      BY <1>3, <2>1, <2>3
    <3>2. run[del[d].cont].status \in {"queued", "failed"}
      BY <1>1, <1>6, <2>3 DEF ReservedInv, Updating, Delivered, IsSent
    <3>3. QED
      BY <3>1, <3>2
  <2>4. QED
    BY <2>2, <2>3
<1>7. Wanes(del', del, Given_up) /\ Wanes(del', del, {"cancelled"})
  BY DelWanesItself
<1>8. GoesOn
  BY <1>1, <1>4, <1>5, <1>6, <1>7 DEF GoesOn
<1>9. QED
  BY <1>8, GoesOnKeeps

LEMMA SendsReserved ==
  ASSUME CoordInv, ReservedInv, Boundary \/ HeldBack \/ SendRetry
  PROVE  ReservedInv'
<1>1. CASE Boundary
  BY <1>1, SendMovesReserved DEF Boundary
<1>2. CASE HeldBack
  BY <1>2, SendMovesReserved DEF HeldBack
<1>3. CASE SendRetry
  BY <1>3, SendMovesReserved DEF SendRetry
<1>4. QED
  BY <1>1, <1>2, <1>3

LEMMA GiveReserved ==
  ASSUME CoordInv, ReservedInv, Give
  PROVE  ReservedInv'
<1>1. /\ sending # None /\ sending.stage = "started"
      /\ turns' = [turns EXCEPT ![sending.chat] = Append(@, sending.run)]
      /\ sending' = [sending EXCEPT !.stage = "native"]
      /\ UNCHANGED <<req, del, run, typing>>
  BY DEF Give, Gives
<1>2. PICK x \in Runs, c \in Chats : x = sending.run /\ c = sending.chat
  BY <1>1, SendFacts
<1>3. sending \in Sends /\ \A e \in Chats : x \notin ToSet(turns[e])
  BY <1>1, <1>2, SendFacts
<1>4. /\ ToSet(turns'[c]) = ToSet(turns[c]) \cup {x}
      /\ \A e \in Chats : e # c => ToSet(turns'[e]) = ToSet(turns[e])
  BY <1>1, <1>2, <1>3, Known, TurnAppended
<1>5. /\ sending' # None => sending # None /\ sending'.chat = sending.chat
      /\ sending'.run = sending.run /\ sending'.inputs = sending.inputs
  BY <1>1, <1>3 DEF Sends
<1>6. sending' # None
  <2>1. sending' \in Sends
    BY <1>1, <1>3 DEF Sends
  <2>2. QED
    BY <2>1, RunNames
<1>7. \A c1 \in Chats : \A y \in ToSet(turns'[c1]) :
        y \in ToSet(turns[c1]) \/ (sending # None /\ sending.chat = c1 /\ sending.run = y)
  BY <1>1, <1>2, <1>4
<1>8. \A d \in Deliveries : (del'[d].status = "delivered" /\ del[d].cont # None) =>
       \/ run'[del[d].cont].status \in {"queued", "failed"}
       \/ run'[del[d].cont].status = "running" /\ sending' # None /\ sending'.run = del[d].cont
  BY <1>1, <1>5, <1>6 DEF ReservedInv, Updating, Delivered, IsSent
<1>9. Wanes(del', del, Given_up) /\ Wanes(del', del, {"cancelled"})
  BY <1>1, DelWanesItself
<1>10. GoesOn
  BY <1>1, <1>5, <1>7, <1>8, <1>9 DEF GoesOn, UnderWay
<1>11. QED
  BY <1>10, GoesOnKeeps

LEMMA SendFailsReserved ==
  ASSUME CoordInv, ReservedInv, SendFails
  PROVE  ReservedInv'
<1>1. PICK own, R :
        /\ sending # None
        /\ run' = [run EXCEPT ![sending.run].status = "failed"]
        /\ Finish(Failed(own), R, "failed")
        /\ turns' = [turns EXCEPT ![sending.chat] = Without(@, {sending.run})]
        /\ sending' = None
        /\ UNCHANGED typing
  BY Zenon DEF SendFails
<1>2. PICK x \in Runs, c \in Chats : x = sending.run /\ c = sending.chat
  BY <1>1, SendFacts
<1>3. UnderWay(x)
  BY <1>1, <1>2, SendFacts DEF UnderWay
<1>4. /\ run'[x].status = "failed" /\ \A y \in Runs : run'[y].inputs = run[y].inputs
      /\ \A y \in Runs : y # x => run'[y] = run[y]
  BY <1>1, <1>2, Known, RunStepFields DEF TurnsInv
<1>5. turns \in [Chats -> Seq(Runs)] /\ turns[c] \in Seq(Runs) /\ IsInjective(turns[c])
  BY Known DEF TurnsInv, TurnsTyped, TurnsOnce
<1>6. turns'[c] = Without(turns[c], {x}) /\ \A e \in Chats : e # c => turns'[e] = turns[e]
  BY <1>1, <1>2, <1>5
<1>7. Once(turns'[c], ToSet(turns[c]) \ {x}, Runs)
  BY <1>5, <1>6, OnceWithout
<1>8. \A e \in Chats : ToSet(turns'[e]) \subseteq ToSet(turns[e])
  BY <1>6, <1>7 DEF Once
<1>9. req' = Ended(R, "failed") /\ del' = Settled(Failed(own), R)
  BY <1>1 DEF Finish
<1>10. Wanes(del', del, Given_up)
  <2>1. Alike(Failed(own), del, {})
    BY FailedIsAlike
  <2>2. Wanes(Failed(own), del, Given_up)
    BY Known, GivenUpWithin, GoneWanes DEF Failed
  <2>3. QED
    BY <1>9, <2>1, <2>2, GivenUpWithin, FinishWanes
<1>11. \A q \in Requests : req'[q].parent = req[q].parent /\ req'[q].run = req[q].run
  BY <1>9, ClosedStatus, EndedParents
<1>12. \A y \in Runs : ~IsPersons(y) =>
        /\ run'[y].inputs = run[y].inputs
        /\ (run'[y].status = "none") <=> (run[y].status = "none")
        /\ run'[y].status \in {"queued", "running"} => UnderWay(y)
  BY <1>3, <1>4 DEF UnderWay
<1>13. ASSUME NEW d \in Deliveries, del'[d].status = "delivered", del[d].cont # None
       PROVE  run'[del[d].cont].status \in {"queued", "failed"}
  <2>1. del[d].cont \in Runs
    BY <1>13, Known, RecordFields
  <2>2. Delivered(d)
    BY <1>10, <1>13, Known, WaningStatus DEF Delivered
  <2>3. del[d].cont = x \/ run[del[d].cont].status \in {"queued", "failed"}
    BY <1>2, <1>13, <2>2 DEF ReservedInv, Updating, IsSent
  <2>4. QED
    BY <1>4, <2>1, <2>3
<1>14. GoesOn
  BY <1>1, <1>8, <1>10, <1>11, <1>12, <1>13 DEF GoesOn
<1>15. QED
  BY <1>14, GoesOnKeeps

LEMMA RestartReserved ==
  ASSUME CoordInv, ReservedInv, Restart
  PROVE  ReservedInv'
<1>1. /\ sending' = None
      /\ turns' = [c \in Chats |-> <<>>] /\ typing' = [c \in Chats |-> None]
      /\ run' = [x \in Runs |-> IF run[x].status = "running"
                                THEN [run[x] EXCEPT !.status = "failed"] ELSE run[x]]
      /\ req' = req /\ del' = del
  BY DEF Restart
<1>2. ASSUME NEW x \in Runs
      PROVE  /\ run'[x].inputs = run[x].inputs
             /\ run'[x].status = IF run[x].status = "running" THEN "failed" ELSE run[x].status
  <2>1. run[x] \in RunRecords
    BY Known DEF TurnsTyped
  <2>2. /\ [run[x] EXCEPT !.status = "failed"].inputs = run[x].inputs
        /\ [run[x] EXCEPT !.status = "failed"].status = "failed"
    BY <2>1 DEF RunRecords
  <2>3. QED
    BY <1>1, <2>2
<1>3. Once(<<>>, {}, Runs)
  BY OnceEmpty
<1>4. \A c \in Chats : ToSet(turns'[c]) = {} /\ typing'[c] = None
  BY <1>1, <1>3 DEF Once
<1>5. \A d \in Deliveries : (del'[d].status = "delivered" /\ del[d].cont # None) =>
        run'[del[d].cont].status \in {"queued", "failed"}
  <2>1. \A d \in Deliveries : del[d].cont # None => del[d].cont \in Runs
    BY Known, RecordFields
  <2>2. QED
    BY <1>1, <1>2, <2>1 DEF ReservedInv, Updating, Delivered
<1>6. Wanes(del', del, Given_up)
  BY <1>1, DelWanesItself
<1>7. \A y \in Runs : ~IsPersons(y) =>
        /\ run'[y].inputs = run[y].inputs
        /\ (run'[y].status = "none") <=> (run[y].status = "none")
        /\ run'[y].status \in {"queued", "running"} => UnderWay(y)
  BY <1>2 DEF UnderWay
<1>8. GoesOn
  BY <1>1, <1>4, <1>5, <1>6, <1>7 DEF GoesOn
<1>9. QED
  BY <1>8, GoesOnKeeps

LEMMA TypedFailsReserved ==
  ASSUME CoordInv, ReservedInv, NEW c \in Chats, TypedFails(c)
  PROVE  ReservedInv'
<1>1. typing' = [typing EXCEPT ![c] = None] /\ UNCHANGED <<req, del, run, turns, sending>>
  BY DEF TypedFails
<1>2. typing \in [Chats -> Typings \cup {None}]
  BY Known DEF TurnsTyped
<1>3. \A e \in Chats : typing'[e] \in {typing[e], None}
  BY <1>1, <1>2
<1>4. \A d \in Deliveries : (del'[d].status = "delivered" /\ del[d].cont # None) =>
       \/ run'[del[d].cont].status \in {"queued", "failed"}
       \/ run'[del[d].cont].status = "running" /\ sending' # None /\ sending'.run = del[d].cont
  BY <1>1 DEF ReservedInv, Updating, Delivered, IsSent
<1>5. Wanes(del', del, Given_up) /\ Wanes(del', del, {"cancelled"})
  BY <1>1, DelWanesItself
<1>6. GoesOn
  BY <1>1, <1>3, <1>4, <1>5 DEF GoesOn, UnderWay
<1>7. QED
  BY <1>6, GoesOnKeeps

LEMMA EndTurnReserved ==
  ASSUME CoordInv, ReservedInv, NEW c \in Chats, NEW ok \in BOOLEAN, EndTurn(c, ok)
  PROVE  ReservedInv'
<1>1. PICK x : x = Producer(c)
  OBVIOUS
<1>2. /\ x \in Runs /\ x # None /\ run[x].status = "running"
      /\ run'[x].status = IF ok THEN "completed" ELSE "failed"
      /\ \A y \in Runs : y # x => run'[y] = run[y]
      /\ \A e \in Chats : ToSet(turns'[e]) = ToSet(turns[e]) \ {x}
  BY <1>1, EndTurnTurns
<1>3. /\ run' = [run EXCEPT ![x].status = IF ok THEN "completed" ELSE "failed"]
      /\ settleAgentRequestsForRun(x, ok) /\ (sending # None => sending.run # x)
      /\ UNCHANGED <<sending, typing>>
  BY <1>1 DEF EndTurn
<1>4. \A y \in Runs : run'[y].inputs = run[y].inputs
  BY <1>2, <1>3, Known, RunStepFields DEF TurnsInv
<1>5. PICK W, E :
        /\ req' = [r \in Requests |-> IF r \in W THEN [req[r] EXCEPT !.status = "waiting"]
                                      ELSE Ended(E, IF ok THEN "completed" ELSE "failed")[r]]
        /\ del' = Settled(del, E)
  BY <1>3, Zenon DEF settleAgentRequestsForRun
<1>6. \A q \in Requests : req'[q].parent = req[q].parent /\ req'[q].run = req[q].run
  <2>1. \A q \in Requests :
          /\ Ended(E, IF ok THEN "completed" ELSE "failed")[q].parent = req[q].parent
          /\ Ended(E, IF ok THEN "completed" ELSE "failed")[q].run = req[q].run
    BY ClosedStatus, EndedParents
  <2>2. \A q \in Requests : /\ [req[q] EXCEPT !.status = "waiting"].parent = req[q].parent
                            /\ [req[q] EXCEPT !.status = "waiting"].run = req[q].run
    BY Known DEF ReqRecords
  <2>3. QED
    BY <1>5, <2>1, <2>2
<1>7. Wanes(del', del, {"cancelled"}) /\ Wanes(del', del, Given_up)
  <2>1. Alike(del, del, {}) /\ Wanes(del, del, {"cancelled"}) /\ Wanes(del, del, Given_up)
    BY Known, DelWanesItself
  <2>2. QED
    BY <1>5, <2>1, GivenUpWithin, FinishWanes
<1>8. \A y \in Runs : ~IsPersons(y) =>
        /\ run'[y].inputs = run[y].inputs
        /\ (run'[y].status = "none") <=> (run[y].status = "none")
        /\ run'[y].status \in {"queued", "running"} => UnderWay(y)
  BY <1>2, <1>4 DEF UnderWay
<1>9. ASSUME NEW d \in Deliveries, del'[d].status = "delivered", del[d].cont # None
      PROVE  \/ run'[del[d].cont].status \in {"queued", "failed"}
             \/ run'[del[d].cont].status = "running" /\ sending' # None /\ sending'.run = del[d].cont
  <2>1. Delivered(d)
    BY <1>7, <1>9, Known, WaningStatus DEF Delivered
  <2>2. \/ run[del[d].cont].status \in {"queued", "failed"}
        \/ run[del[d].cont].status = "running" /\ sending # None /\ sending.run = del[d].cont
    BY <1>9, <2>1 DEF ReservedInv, Updating, IsSent
  <2>3. del[d].cont # x /\ del[d].cont \in Runs
    BY <1>2, <1>3, <1>9, <2>2, Known, RecordFields
  <2>4. QED
    BY <1>2, <1>3, <2>2, <2>3
<1>10. GoesOn
  BY <1>2, <1>3, <1>6, <1>7, <1>8, <1>9 DEF GoesOn
<1>11. QED
  BY <1>10, GoesOnKeeps

----------------------------------------------------------------------------
(* What a person's message takes along *)

(* A run named for an answer that continues an assignment never is.         *)
LEMMA NamedContinuesNothing ==
  ASSUME CoordInv, ReservedInv, NEW e \in Deliveries, run[First(e)].status # "none"
  PROVE  del[e].cont = None
<1>1. SUFFICES ASSUME del[e].cont # None
               PROVE  FALSE
  OBVIOUS
<1>2. e[1] = "outcome"
  BY <1>1, Known DEF RecordsInv, AnswersContinue
<1>3. PICK q \in Requests : e = Outcome(q)
  BY <1>2, DeliveryNames
<1>4. req[q].parent \in Requests
  BY <1>1, <1>3, Known DEF AssignmentsInv, AnswersRead
<1>5. req[q].parent = None
  BY <1>3 DEF ReservedInv, Batches
<1>6. QED
  BY <1>4, <1>5, RunNames

LEMMA ReservedHas ==
  ASSUME NEW c, NEW d \in Waits(c)
  PROVE  /\ (del[d].cont = None /\ UnderWay(First(d))) =>
              (d \in Reserved(c) /\ run[First(d)].inputs \subseteq Reserved(c))
         /\ (del[d].cont # None /\ UnderWay(del[d].cont)) => d \in Reserved(c)
<1> DEFINE of(e) == LET x == IF del[e].cont # None THEN del[e].cont ELSE First(e) IN
                    IF UnderWay(x) THEN {e} \cup run[x].inputs ELSE {}
<1>1. Reserved(c) = UNION {of(e) : e \in Waits(c)}
  BY DEF Reserved
<1>2. of(d) \subseteq Reserved(c)
  BY <1>1
<1>3. (del[d].cont = None /\ UnderWay(First(d))) => of(d) = {d} \cup run[First(d)].inputs
  OBVIOUS
<1>4. (del[d].cont # None /\ UnderWay(del[d].cont)) => d \in of(d)
  OBVIOUS
<1> HIDE DEF of
<1>5. QED
  BY <1>2, <1>3, <1>4

(* What is reserved nobody types along.                                     *)
LEMMA TypeReserved ==
  ASSUME CoordInv, ReservedInv, NEW c \in Chats, Type(c)
  PROVE  ReservedInv'
<1>1. /\ typing[c] = None
      /\ typing' = [typing EXCEPT ![c] = [run |-> Person(c, typed[c] + 1), inputs |-> Context(c)]]
      /\ UNCHANGED <<req, del, run, turns, sending>>
  BY DEF Type
<1>2. typing \in [Chats -> Typings \cup {None}]
  BY Known DEF TurnsTyped
<1>3. /\ \A e \in Chats : e # c => typing'[e] = typing[e]
      /\ typing'[c].inputs = Context(c)
  BY <1>1, <1>2
<1>4. Context(c) \subseteq Waits(c) \ Reserved(c)
  BY DEF Context
<1>5. /\ NotYetReserved /\ TakenIsAccepted /\ ClaimsHold /\ Batches
      /\ Updating /\ InItsChat /\ SendsBatch /\ Unclaimed
  BY DEF ReservedInv
<1>6. NotYetReserved' /\ TakenIsAccepted'
  BY <1>1, <1>5 DEF NotYetReserved, TakenIsAccepted
<1>7. Batches' /\ Updating'
  BY <1>1, <1>5 DEF Batches, Updating, UnderWay, Delivered, IsSent
<1>8. InItsChat' /\ SendsBatch'
  BY <1>1, <1>5 DEF InItsChat, SendsBatch
<1>9. \A d : (d \in Unreserved)' <=> d \in Unreserved
  BY <1>1 DEF Unreserved
<1>10. ClaimsHold'
  <2>1. ASSUME NEW e \in Chats, typing'[e] # None, NEW d \in typing'[e].inputs
        PROVE  Receiver(d) = e /\ ((d \notin Unreserved)' => del'[d].by = None)
    <3>1. CASE e = c
      <4>1. d \in Waits(c)
        BY <1>3, <1>4, <2>1, <3>1
      <4>2. d \in Deliveries /\ Receiver(d) = c /\ del[d].status = "delivered"
        BY <4>1 DEF Waits
      <4>3. QED
        BY <1>1, <1>5, <3>1, <4>2 DEF TakenIsAccepted
    <3>2. CASE e # c
      BY <1>1, <1>3, <1>5, <1>9, <2>1, <3>2 DEF ClaimsHold
    <3>3. QED
      BY <3>1, <3>2
  <2>2. QED
    BY <2>1 DEF ClaimsHold
<1>11. \A d : Claimed(d)' => (Claimed(d) \/ d \in Context(c))
  BY <1>3 DEF Claimed
<1>12. Unclaimed'
  <2>1. ASSUME NEW e \in Deliveries, Delivered(e), UnderWay(First(e))
        PROVE  e \notin Context(c) /\ \A d \in run[First(e)].inputs : d \notin Context(c)
    <3>1. del[e].cont = None
      BY <2>1, NamedContinuesNothing DEF UnderWay
    <3>2. CASE Receiver(e) = c
      <4>1. e \in Waits(c)
        BY <2>1, <3>2 DEF Waits, Delivered
      <4>2. e \in Reserved(c) /\ run[First(e)].inputs \subseteq Reserved(c)
        BY <2>1, <3>1, <4>1, ReservedHas
      <4>3. QED
        BY <1>4, <4>2
    <3>3. CASE Receiver(e) # c
      <4>1. \A d \in run[First(e)].inputs : Receiver(d) # c
        BY <1>5, <3>3 DEF Batches
      <4>2. \A d \in Context(c) : Receiver(d) = c
        BY <1>4 DEF Waits
      <4>3. QED
        BY <3>3, <4>1, <4>2
    <3>4. QED
      BY <3>2, <3>3
  <2>2. ASSUME NEW d \in Deliveries, Delivered(d), del[d].cont # None, UnderWay(del[d].cont)
        PROVE  d \notin Context(c)
    <3>1. CASE d \in Waits(c)
      BY <1>4, <2>2, <3>1, ReservedHas
    <3>2. CASE d \notin Waits(c)
      BY <1>4, <3>2
    <3>3. QED
      BY <3>1, <3>2
  <2>3. \A e \in Deliveries : /\ Delivered(e)' <=> Delivered(e)
                              /\ UnderWay(First(e))' <=> UnderWay(First(e))
    BY <1>1 DEF Delivered, UnderWay
  <2>4. \A e \in Deliveries : (Delivered(e)' /\ UnderWay(First(e))') =>
          (~Claimed(e)' /\ \A f \in run'[First(e)].inputs : ~Claimed(f)')
    BY <1>1, <1>5, <1>11, <2>1, <2>3 DEF Unclaimed
  <2>5. \A e \in Deliveries : (Delivered(e)' /\ del'[e].cont # None
          /\ run'[del'[e].cont].status \in {"queued", "running"}) => ~Claimed(e)'
    BY <1>1, <1>5, <1>11, <2>2, <2>3 DEF Unclaimed, UnderWay
  <2>6. QED
    BY <2>4, <2>5 DEF Unclaimed, UnderWay
<1>13. QED
  BY <1>6, <1>7, <1>8, <1>10, <1>12 DEF ReservedInv

LEMMA AcceptFields ==
  ASSUME CoordInv, NEW x, NEW inputs, del' = Accept(x, inputs), NEW d \in Deliveries
  PROVE  /\ del'[d].cont = del[d].cont
         /\ d \in inputs /\ del[d].status = "delivered" =>
              (del'[d].status = "accepted" /\ del'[d].by = x)
         /\ d \notin inputs \/ del[d].status # "delivered" => del'[d] = del[d]
<1>1. del'[d] = IF d \in inputs /\ del[d].status = "delivered"
                THEN [del[d] EXCEPT !.status = "accepted", !.by = x] ELSE del[d]
  BY DEF Accept
<1>2. del[d] \in DelRecords
  BY Known
<1>3. QED
  BY <1>1, <1>2 DEF DelRecords

(* What accepting inputs leaves as it was.                                  *)
LEMMA AcceptKeepsRest ==
  ASSUME CoordInv, ReservedInv, NEW x, NEW inputs, del' = Accept(x, inputs),
         \A y \in Runs : ~IsPersons(y) => run'[y] = run[y]
  PROVE  /\ NotYetReserved' /\ TakenIsAccepted'
         /\ \A d : d \in Unreserved => (d \in Unreserved)'
         /\ \A d \in Deliveries : Delivered(d)' => (Delivered(d) /\ d \notin inputs)
<1>1. NotYetReserved /\ TakenIsAccepted
  BY DEF ReservedInv
<1>2. \A d \in Deliveries :
         /\ del'[d].cont = del[d].cont
         /\ (d \in inputs /\ del[d].status = "delivered") =>
              (del'[d].status = "accepted" /\ del'[d].by = x)
         /\ (d \notin inputs \/ del[d].status # "delivered") => del'[d] = del[d]
  BY AcceptFields
<1>3. \A e \in Deliveries : run'[First(e)] = run[First(e)]
  BY RunNames
<1>4. NotYetReserved'
  BY <1>1, <1>2, <1>3 DEF NotYetReserved, Unsent
<1>5. TakenIsAccepted'
  BY <1>1, <1>2 DEF TakenIsAccepted
<1>6. \A e \in Deliveries : del[e].status = "cancelled" => del'[e].status = "cancelled"
  BY <1>2
<1>7. \A d : d \in Unreserved => (d \in Unreserved)'
  BY <1>3, <1>6, StillUnreserved
<1>8. \A d \in Deliveries : Delivered(d)' => (Delivered(d) /\ d \notin inputs)
  BY <1>2 DEF Delivered
<1>9. QED
  BY <1>4, <1>5, <1>7, <1>8

(* The conjuncts of ReservedInv that speak of runs of the agents only.      *)
LEMMA BatchesStay ==
  ASSUME ReservedInv, \A y \in Runs : ~IsPersons(y) => run'[y] = run[y],
         \A q \in Requests : req'[q].parent = req[q].parent
  PROVE  Batches'
<1>1. Batches
  BY DEF ReservedInv
<1>2. \A e \in Deliveries : run'[First(e)] = run[First(e)]
  BY RunNames
<1>3. /\ \A x \in Runs : (~IsPersons(x) /\ run'[x].status = "none") => run'[x].inputs = {}
      /\ \A x \in Runs : (~IsPersons(x) /\ UnderWay(x)') => run'[x].inputs # {}
  BY <1>1 DEF Batches, UnderWay
<1>4. /\ \A e \in Deliveries : \A d \in run'[First(e)].inputs : Receiver(d) = Receiver(e)
      /\ \A r \in Requests : run'[First(Asks(r))].inputs \subseteq {Asks(r)}
      /\ \A q \in Requests : run'[First(Outcome(q))].status # "none" => req'[q].parent = None
  BY <1>1, <1>2, DeliveryNames DEF Batches
<1>5. QED
  BY <1>3, <1>4 DEF Batches

LEMMA UpdatingStays ==
  ASSUME CoordInv, ReservedInv, \A y \in Runs : ~IsPersons(y) => run'[y] = run[y],
         \A d \in Deliveries : del'[d].cont = del[d].cont,
         \A d \in Deliveries : (Delivered(d)' /\ del[d].cont # None) =>
           (Delivered(d) /\ (IsSent(del[d].cont) => sending' = sending))
  PROVE  Updating'
<1>1. Updating
  BY DEF ReservedInv
<1>2. \A x \in Runs : IsResume(x) => run'[x] = run[x]
  BY RunKinds
<1>3. /\ \A x \in Runs : IsResume(x) => \A e \in Deliveries : (e \in run'[x].inputs) <=> (del'[e].cont = x)
      /\ \A e \in Deliveries : del'[e].cont # None => IsResume(del'[e].cont)
  BY <1>1, <1>2 DEF Updating
<1>4. \A x \in Runs : (IsResume(x) /\ run'[x].status # "none") => \A e \in x[2][2] : del'[e].cont = x
  <2>1. ASSUME NEW x \in Runs, IsResume(x), run'[x].status # "none", NEW e \in x[2][2]
        PROVE  del'[e].cont = x
    BY <1>1, <1>2, <2>1, ResumesAnswers DEF Updating
  <2>2. QED
    BY <2>1
<1>5. ASSUME NEW d \in Deliveries, Delivered(d)', del'[d].cont # None
      PROVE  \/ run'[del'[d].cont].status \in {"queued", "failed"}
             \/ run'[del'[d].cont].status = "running" /\ sending' # None /\ sending'.run = del'[d].cont
  <2>1. /\ del'[d].cont = del[d].cont /\ del[d].cont # None /\ Delivered(d)
        /\ IsSent(del[d].cont) => sending' = sending
    BY <1>5
  <2>2. run'[del[d].cont] = run[del[d].cont]
    BY <1>1, <1>2, <2>1, Known, RecordFields DEF Updating
  <2>3. \/ run[del[d].cont].status \in {"queued", "failed"}
        \/ run[del[d].cont].status = "running" /\ IsSent(del[d].cont)
    BY <1>1, <2>1 DEF Updating
  <2>4. QED
    BY <2>1, <2>2, <2>3 DEF IsSent
<1>6. QED
  BY <1>3, <1>4, <1>5 DEF Updating, IsSent

LEMMA UnclaimedStays ==
  ASSUME CoordInv, ReservedInv, \A y \in Runs : ~IsPersons(y) => run'[y] = run[y],
         \A d \in Deliveries : del'[d].cont = del[d].cont,
         \A d \in Deliveries : Delivered(d)' => Delivered(d),
         \A d : Claimed(d)' => Claimed(d)
  PROVE  Unclaimed'
<1>1. Unclaimed /\ Updating
  BY DEF ReservedInv
<1>2. \A e \in Deliveries : run'[First(e)] = run[First(e)]
  BY RunNames
<1>3. \A e \in Deliveries : (Delivered(e)' /\ UnderWay(First(e))') =>
        (~Claimed(e)' /\ \A f \in run'[First(e)].inputs : ~Claimed(f)')
  BY <1>1, <1>2 DEF Unclaimed, UnderWay
<1>4. ASSUME NEW d \in Deliveries, Delivered(d)', del'[d].cont # None,
             run'[del'[d].cont].status \in {"queued", "running"}
      PROVE  ~Claimed(d)'
  <2>1. del'[d].cont = del[d].cont /\ del[d].cont # None /\ Delivered(d)
    BY <1>4
  <2>2. run'[del[d].cont] = run[del[d].cont]
    BY <1>1, <2>1, Known, RecordFields, RunKinds DEF Updating
  <2>3. QED
    BY <1>1, <1>4, <2>1, <2>2 DEF Unclaimed, UnderWay
<1>5. QED
  BY <1>3, <1>4 DEF Unclaimed, UnderWay

LEMMA TypedTakenReserved ==
  ASSUME CoordInv, ReservedInv, NEW c \in Chats, TypedTaken(c)
  PROVE  ReservedInv'
<1> DEFINE t == typing[c]
<1>1. /\ t # None /\ typing' = [typing EXCEPT ![c] = None]
      /\ turns' = [turns EXCEPT ![c] = Append(@, t.run)]
      /\ run' = [run EXCEPT ![t.run] = [status |-> "running", inputs |-> t.inputs]]
      /\ del' = Accept(t.run, t.inputs)
      /\ req' = req /\ sending' = sending
  BY DEF TypedTaken
<1>2. TurnsTyped /\ TurnsOnce /\ PersonsNext /\ TurnsInv
  BY Known DEF TurnsInv
<1>3. t \in Typings /\ t.inputs \subseteq Deliveries
  BY <1>1, <1>2 DEF TurnsTyped, Typings
<1>4. /\ typed[c] \in 1..2 /\ t.run = Person(c, typed[c]) /\ run[t.run].status = "none"
  BY <1>1, <1>2 DEF PersonsNext
<1>5. PICK I : I = t.inputs
  OBVIOUS
<1>6. PICK x \in Runs : x = t.run /\ IsPersons(x) /\ run[x].status = "none" /\ HomeOf(x) = c
  BY <1>4, RunNames, RunKinds
<1>7. \A d \in I : Receiver(d) = c /\ Claimed(d) /\ d \in Deliveries
  BY <1>1, <1>3, <1>5 DEF ReservedInv, ClaimsHold, Claimed
<1>8. /\ typing'[c] = None /\ \A e \in Chats : e # c => typing'[e] = typing[e]
  BY <1>1, <1>2 DEF TurnsTyped
<1>9. /\ del' = Accept(x, I) /\ turns' = [turns EXCEPT ![c] = Append(@, x)]
      /\ run' = [run EXCEPT ![x] = [status |-> "running", inputs |-> I]]
  BY <1>1, <1>5, <1>6
<1> HIDE DEF t
<1>10. \A y \in Runs : ~IsPersons(y) => run'[y] = run[y]
  BY <1>2, <1>6, <1>9 DEF TurnsTyped
<1>11. \A e \in Chats : x \notin ToSet(turns[e])
  BY <1>2, <1>6 DEF TurnsOnce
<1>12. /\ ToSet(turns'[c]) = ToSet(turns[c]) \cup {x}
       /\ \A e \in Chats : e # c => ToSet(turns'[e]) = ToSet(turns[e])
  BY <1>2, <1>9, <1>11, TurnAppended
<1>13. /\ NotYetReserved' /\ TakenIsAccepted'
       /\ \A d : d \in Unreserved => (d \in Unreserved)'
       /\ \A d \in Deliveries : Delivered(d)' => (Delivered(d) /\ d \notin I)
  BY <1>9, <1>10, AcceptKeepsRest
<1>14. \A d \in Deliveries :
         /\ del'[d].cont = del[d].cont
         /\ (d \in I /\ del[d].status = "delivered") =>
              (del'[d].status = "accepted" /\ del'[d].by = x)
         /\ (d \notin I \/ del[d].status # "delivered") => del'[d] = del[d]
  BY <1>9, AcceptFields
<1>15. ClaimsHold'
  <2>1. ASSUME NEW e \in Chats, typing'[e] # None, NEW d \in typing'[e].inputs
        PROVE  Receiver(d) = e /\ ((d \notin Unreserved)' => del'[d].by = None)
    <3>1. e # c /\ typing'[e] = typing[e]
      BY <1>8, <2>1
    <3>2. Receiver(d) = e /\ (d \notin Unreserved => del[d].by = None)
      BY <2>1, <3>1 DEF ReservedInv, ClaimsHold
    <3>3. d \notin I
      BY <1>7, <3>1, <3>2
    <3>4. d \in Deliveries
      <4>1. typing[e] \in Typings
        BY <1>2, <2>1, <3>1 DEF TurnsTyped
      <4>2. QED
        BY <2>1, <3>1, <4>1, RecordFields
    <3>5. QED
      BY <1>13, <1>14, <3>2, <3>3, <3>4
  <2>2. QED
    BY <2>1 DEF ClaimsHold
<1>16. Batches'
  BY <1>1, <1>10, BatchesStay
<1>17. Updating'
  <2>1. \A d \in Deliveries : (Delivered(d)' /\ del[d].cont # None) =>
          (Delivered(d) /\ (IsSent(del[d].cont) => sending' = sending))
    BY <1>1, <1>13
  <2>2. QED
    BY <1>10, <1>14, <2>1, UpdatingStays
<1>18. InItsChat'
  BY <1>1, <1>6, <1>12 DEF ReservedInv, InItsChat
<1>19. SendsBatch'
  <2>1. ASSUME sending # None
        PROVE  /\ sending.inputs = run'[sending.run].inputs
               /\ \A e \in Deliveries : sending.run = First(e) =>
                    (del'[e].status \in {"delivered", "cancelled"} \/ sending.inputs \subseteq {e})
    <3>1. sending.run \in Runs /\ ~IsPersons(sending.run) /\ UnderWay(sending.run)
      BY <2>1, SendFacts DEF UnderWay
    <3>2. /\ sending.inputs = run[sending.run].inputs
          /\ \A e \in Deliveries : sending.run = First(e) =>
               (del[e].status \in {"delivered", "cancelled"} \/ sending.inputs \subseteq {e})
      BY <2>1 DEF ReservedInv, SendsBatch
    <3>3. ASSUME NEW e \in Deliveries, sending.run = First(e), del[e].status = "delivered"
          PROVE  e \notin I
      BY <1>7, <3>1, <3>3 DEF ReservedInv, Unclaimed, Delivered
    <3>4. QED
      BY <1>10, <1>14, <3>1, <3>2, <3>3
  <2>2. QED
    BY <1>1, <2>1 DEF SendsBatch
<1>20. Unclaimed'
  <2>1. \A d : Claimed(d)' => Claimed(d)
    BY <1>8 DEF Claimed
  <2>2. QED
    BY <1>10, <1>13, <1>14, <2>1, UnclaimedStays
<1>21. QED
  BY <1>13, <1>15, <1>16, <1>17, <1>18, <1>19, <1>20 DEF ReservedInv

(* What the pass's send takes nobody claims, but for what a deleted chat    *)
(* left unreserved.                                                         *)
LEMMA SentIsUnclaimed ==
  ASSUME CoordInv, ReservedInv, sending # None, NEW d \in sending.inputs, Delivered(d),
         d \notin Unreserved
  PROVE  ~Claimed(d)
<1>1. /\ sending.run \in Runs /\ ~IsPersons(sending.run) /\ UnderWay(sending.run)
      /\ d \in Deliveries
  BY SendFacts DEF UnderWay
<1>2. d \in run[sending.run].inputs
  BY DEF ReservedInv, SendsBatch
<1>3. CASE IsResume(sending.run)
  <2>1. del[d].cont = sending.run
    BY <1>1, <1>2, <1>3 DEF ReservedInv, Updating
  <2>2. sending.run # None
    BY <1>1, RunNames
  <2>3. QED
    BY <1>1, <2>1, <2>2 DEF ReservedInv, Unclaimed
<1>4. ASSUME NEW e \in Deliveries, sending.run = First(e)
      PROVE  ~Claimed(d)
  <2>1. del[e].status \in {"delivered", "cancelled"} \/ sending.inputs \subseteq {e}
    BY <1>4 DEF ReservedInv, SendsBatch
  <2>2. CASE del[e].status = "delivered"
    BY <1>1, <1>2, <1>4, <2>2 DEF ReservedInv, Unclaimed, Delivered
  <2>3. CASE del[e].status = "cancelled"
    <3>1. d # e
      BY <2>3 DEF Delivered
    <3>2. QED
      BY <1>2, <1>4, <2>3, <3>1, UnreservedIs
  <2>4. CASE sending.inputs \subseteq {e}
    BY <1>1, <1>4, <2>4 DEF ReservedInv, Unclaimed, Delivered
  <2>5. QED
    BY <2>1, <2>2, <2>3, <2>4
<1>5. QED
  BY <1>1, <1>3, <1>4, RunKinds

LEMMA AcceptedReserved ==
  ASSUME CoordInv, ReservedInv, Accepted
  PROVE  ReservedInv'
<1>1. /\ sending # None
      /\ del' = Accept(sending.run, sending.inputs)
      /\ req' = [r \in Requests |-> IF r \in OwnedBy(sending.run)
                                    THEN [req[r] EXCEPT !.status = "working"] ELSE req[r]]
      /\ sending' = None /\ UNCHANGED <<run, turns, typing>>
  BY DEF Accepted
<1>2. \A q \in Requests : req'[q].parent = req[q].parent /\ req'[q].run = req[q].run
  <2>1. \A q \in Requests : req[q] \in ReqRecords
    BY Known
  <2>2. \A q \in Requests : /\ [req[q] EXCEPT !.status = "working"].parent = req[q].parent
                            /\ [req[q] EXCEPT !.status = "working"].run = req[q].run
    BY <2>1 DEF ReqRecords
  <2>3. QED
    BY <1>1, <2>2
<1>3. PICK x, I : x = sending.run /\ I = sending.inputs
  OBVIOUS
<1>4. del' = Accept(x, I) /\ \A y \in Runs : ~IsPersons(y) => run'[y] = run[y]
  BY <1>1, <1>3
<1>5. /\ NotYetReserved' /\ TakenIsAccepted'
      /\ \A d : d \in Unreserved => (d \in Unreserved)'
      /\ \A d \in Deliveries : Delivered(d)' => (Delivered(d) /\ d \notin I)
  BY <1>4, AcceptKeepsRest
<1>6. \A d \in Deliveries :
        /\ del'[d].cont = del[d].cont
        /\ (d \in I /\ del[d].status = "delivered") =>
             (del'[d].status = "accepted" /\ del'[d].by = x)
        /\ (d \notin I \/ del[d].status # "delivered") => del'[d] = del[d]
  BY <1>4, AcceptFields
<1>7. ClaimsHold'
  <2>1. ASSUME NEW e \in Chats, typing[e] # None, NEW d \in typing[e].inputs
        PROVE  Receiver(d) = e /\ ((d \notin Unreserved)' => del'[d].by = None)
    <3>1. Receiver(d) = e /\ (d \notin Unreserved => del[d].by = None)
      BY <2>1 DEF ReservedInv, ClaimsHold
    <3>2. d \in Deliveries
      <4>1. typing[e] \in Typings
        BY <2>1, Known DEF TurnsTyped
      <4>2. QED
        BY <2>1, <4>1, RecordFields
    <3>3. Claimed(d)
      BY <2>1 DEF Claimed
    <3>4. (d \in I /\ del[d].status = "delivered") => d \in Unreserved
      BY <1>1, <1>3, <3>3, SentIsUnclaimed DEF Delivered
    <3>5. QED
      BY <1>5, <1>6, <3>1, <3>2, <3>4
  <2>2. QED
    BY <1>1, <2>1 DEF ClaimsHold
<1>8. Batches'
  BY <1>2, <1>4, BatchesStay
<1>9. Updating'
  <2>1. ASSUME NEW d \in Deliveries, Delivered(d)', del[d].cont # None
        PROVE  Delivered(d) /\ ~IsSent(del[d].cont)
    <3>1. Delivered(d) /\ d \notin I
      BY <1>5, <2>1
    <3>2. SUFFICES ASSUME del[d].cont = x
                   PROVE  FALSE
      BY <1>3, <3>1 DEF IsSent
    <3>3. x \in Runs /\ IsResume(x)
      BY <2>1, <3>2, Known, RecordFields DEF ReservedInv, Updating
    <3>4. d \in run[x].inputs
      BY <3>2, <3>3 DEF ReservedInv, Updating
    <3>5. I = run[x].inputs
      BY <1>1, <1>3 DEF ReservedInv, SendsBatch
    <3>6. QED
      BY <3>1, <3>4, <3>5
  <2>2. QED
    BY <1>4, <1>6, <2>1, UpdatingStays
<1>10. InItsChat'
  <2>1. \A q \in Requests : req[q].parent # None => req[q].parent \in Requests
    BY Known, RecordFields
  <2>2. QED
    BY <1>1, <1>2, <2>1 DEF ReservedInv, InItsChat
<1>11. SendsBatch'
  BY <1>1 DEF SendsBatch
<1>12. Unclaimed'
  <2>1. \A d : Claimed(d)' => Claimed(d)
    BY <1>1 DEF Claimed
  <2>2. QED
    BY <1>4, <1>5, <1>6, <2>1, UnclaimedStays
<1>13. QED
  BY <1>5, <1>7, <1>8, <1>9, <1>10, <1>11, <1>12 DEF ReservedInv

----------------------------------------------------------------------------
(* A pass's send is reserved *)

LEMMA SendFields ==
  ASSUME CoordInv, NEW c \in Chats, NEW x \in Runs, NEW inputs \in SUBSET Deliveries, Send(c, x, inputs)
  PROVE  \E kept \in SUBSET Deliveries :
           /\ kept = IF run[x].inputs = {} THEN inputs ELSE run[x].inputs
           /\ run'[x].status = "queued" /\ run'[x].inputs = kept
           /\ \A y \in Runs : y # x => run'[y] = run[y]
           /\ sending' # None /\ sending'.chat = c /\ sending'.run = x /\ sending'.inputs = kept
<1>1. TurnsTyped
  BY Known
<1>2. PICK kept : /\ kept = IF run[x].inputs = {} THEN inputs ELSE run[x].inputs
                  /\ run' = [run EXCEPT ![x] = [status |-> "queued", inputs |-> kept]]
                  /\ sending' = [chat |-> c, run |-> x, inputs |-> kept, stage |-> "preparing"]
  BY Zenon DEF Send
<1>3. kept \in SUBSET Deliveries
  <2>1. run[x] \in RunRecords
    BY <1>1 DEF TurnsTyped
  <2>2. run[x].inputs \subseteq Deliveries
    BY <2>1, RecordFields
  <2>3. QED
    BY <1>2, <2>2
<1>4. /\ run'[x] = [status |-> "queued", inputs |-> kept]
      /\ \A y \in Runs : y # x => run'[y] = run[y]
  BY <1>1, <1>2 DEF TurnsTyped
<1>5. run'[x].status = "queued" /\ run'[x].inputs = kept
  BY <1>4
<1>6. sending' \in Sends /\ sending'.chat = c /\ sending'.run = x /\ sending'.inputs = kept
  BY <1>2, <1>3 DEF Sends
<1>7. sending' # None
  BY <1>6, RunNames
<1>8. QED
  BY <1>2, <1>3, <1>4, <1>5, <1>6, <1>7

(* A run x of the chat c is reserved what is kept, and with it continues    *)
(* the answers U; dl are the deliveries but for that.                       *)
Reserves(c, x, kept, dl, U) ==
  /\ ~IsPersons(x) /\ HomeOf(x) = c /\ kept # {} /\ run[x].inputs \subseteq kept
  /\ run'[x].status = "queued" /\ run'[x].inputs = kept
  /\ \A y \in Runs : y # x => run'[y] = run[y]
  /\ sending' # None /\ sending'.chat = c /\ sending'.run = x /\ sending'.inputs = kept
  /\ UNCHANGED <<turns, typing>>
  /\ \A q \in Requests : req'[q].parent = req[q].parent /\ (req[q].run # None => req'[q].run # None)
  /\ Wanes(dl, del, Given_up)
  /\ \A d \in Deliveries : /\ del'[d].status = dl[d].status /\ del'[d].by = dl[d].by
                            /\ del'[d].cont = IF d \in U THEN x ELSE dl[d].cont
  /\ \A d \in U : IsResume(x) /\ del[d].cont = None /\ del[d].status \notin Unsent
  /\ IsResume(x) => (/\ \A d \in Deliveries : (d \in kept) <=> (del'[d].cont = x)
                     /\ \A d \in x[2][2] : del'[d].cont = x)
  /\ \A e \in Deliveries : x = First(e) =>
       /\ del[e].status \notin Unsent /\ ~Claimed(e)
       /\ \A d \in kept : Receiver(d) = Receiver(e)
       /\ del'[e].status = "delivered" \/ kept \subseteq {e}
  /\ \A r \in Requests : x = First(Asks(r)) => kept \subseteq {Asks(r)}
  /\ \A q \in Requests : x = First(Outcome(q)) => req[q].parent = None
  /\ \A d \in kept : ~Claimed(d)

LEMMA SendStartsReserved ==
  ASSUME CoordInv, ReservedInv, sending = None, NEW c \in Chats, NEW x \in Runs,
         NEW kept \in SUBSET Deliveries, NEW dl, NEW U \in SUBSET Deliveries,
         Reserves(c, x, kept, dl, U)
  PROVE  ReservedInv'
<1>1. /\ NotYetReserved /\ TakenIsAccepted /\ ClaimsHold /\ Batches
      /\ Updating /\ InItsChat /\ Unclaimed
  BY DEF ReservedInv
<1> USE DEF Reserves
<1>2. x # None
  BY RunNames
<1>3. ASSUME NEW d \in Deliveries
      PROVE  /\ del'[d].by = del[d].by /\ del'[d].cont = IF d \in U THEN x ELSE del[d].cont
             /\ del'[d].status \in Unsent => del[d].status \in Unsent
             /\ del'[d].status = "delivered" => del[d].status = "delivered"
             /\ del[d].status = "accepted" => del'[d].status = "accepted"
             /\ del[d].status = "cancelled" => del'[d].status = "cancelled"
  <2>1. dl[d].by = del[d].by /\ dl[d].cont = del[d].cont
    BY DEF Wanes
  <2>2. del[d].status \in Unsent \cup {"delivered", "accepted", "failed", "cancelled"}
    <3>1. del[d].status \in DeliveryStatus
      BY Known, RecordFields
    <3>2. QED
      BY <3>1 DEF DeliveryStatus, Unsent
  <2>3. QED
    BY <2>1, <2>2 DEF Wanes, Unsent, Given_up
<1>4. \A e \in Deliveries : /\ First(e) \in Runs /\ ~IsPersons(First(e)) /\ ~IsResume(First(e))
                            /\ First(e) # x => run'[First(e)] = run[First(e)]
                            /\ run[First(e)].inputs \subseteq run'[First(e)].inputs
  BY RunNames, RunKinds
<1>5. NotYetReserved'
  <2>1. ASSUME NEW e \in Deliveries, del'[e].status \in Unsent
        PROVE  run'[First(e)].status = "none" /\ del'[e].cont = None
    <3>1. del[e].status \in Unsent
      BY <1>3, <2>1
    <3>2. run[First(e)].status = "none" /\ del[e].cont = None
      BY <1>1, <3>1 DEF NotYetReserved
    <3>3. First(e) # x /\ e \notin U
      BY <3>1
    <3>4. QED
      BY <1>3, <1>4, <3>2, <3>3
  <2>2. QED
    BY <2>1 DEF NotYetReserved
<1>6. TakenIsAccepted'
  BY <1>1, <1>3 DEF TakenIsAccepted
<1>7. ClaimsHold'
  <2>1. \A d : d \in Unreserved => (d \in Unreserved)'
    BY <1>3, <1>4, StillUnreserved
  <2>2. ASSUME NEW e \in Chats, typing[e] # None, NEW d \in typing[e].inputs
        PROVE  Receiver(d) = e /\ ((d \notin Unreserved)' => del'[d].by = None)
    <3>1. Receiver(d) = e /\ (d \notin Unreserved => del[d].by = None)
      BY <1>1, <2>2 DEF ClaimsHold
    <3>2. d \in Deliveries
      <4>1. typing[e] \in Typings
        BY <2>2, Known DEF TurnsTyped
      <4>2. QED
        BY <2>2, <4>1, RecordFields
    <3>3. QED
      BY <1>3, <2>1, <3>1, <3>2
  <2>3. QED
    BY <2>2 DEF ClaimsHold
<1>8. Batches'
  <2>1. \A y \in Runs : (~IsPersons(y) /\ run'[y].status = "none") => run'[y].inputs = {}
    BY <1>1 DEF Batches
  <2>2. \A y \in Runs : (~IsPersons(y) /\ run'[y].status \in {"queued", "running"}) => run'[y].inputs # {}
    BY <1>1 DEF Batches, UnderWay
  <2>3. \A e \in Deliveries : \A d \in run'[First(e)].inputs : Receiver(d) = Receiver(e)
    BY <1>1, <1>4 DEF Batches
  <2>4. \A r \in Requests : run'[First(Asks(r))].inputs \subseteq {Asks(r)}
    BY <1>1, <1>4, DeliveryNames DEF Batches
  <2>5. \A q \in Requests : run'[First(Outcome(q))].status # "none" => req'[q].parent = None
    BY <1>1, <1>4, DeliveryNames DEF Batches
  <2>6. QED
    BY <2>1, <2>2, <2>3, <2>4, <2>5 DEF Batches, UnderWay
<1>9. Updating'
  <2>1. \A y \in Runs : IsResume(y) => \A d \in Deliveries : (d \in run'[y].inputs) <=> (del'[d].cont = y)
    <3>1. ASSUME NEW y \in Runs, IsResume(y), y # x, NEW d \in Deliveries
          PROVE  (d \in run'[y].inputs) <=> (del'[d].cont = y)
      <4>1. (d \in run[y].inputs) <=> (del[d].cont = y)
        BY <1>1, <3>1 DEF Updating
      <4>2. run'[y] = run[y] /\ y # None
        BY <3>1, RunNames
      <4>3. CASE d \in U
        BY <1>3, <3>1, <4>1, <4>2, <4>3
      <4>4. CASE d \notin U
        BY <1>3, <4>1, <4>2, <4>4
      <4>5. QED
        BY <4>3, <4>4
    <3>2. QED
      BY <3>1
  <2>2. \A y \in Runs : (IsResume(y) /\ run'[y].status # "none") => \A d \in y[2][2] : del'[d].cont = y
    <3>1. ASSUME NEW y \in Runs, IsResume(y), y # x, run'[y].status # "none", NEW d \in y[2][2]
          PROVE  del'[d].cont = y
      <4>1. del[d].cont = y /\ y # None
        BY <1>1, <3>1, RunNames DEF Updating
      <4>2. d \in Deliveries /\ d \notin U
        BY <3>1, <4>1, ResumesAnswers
      <4>3. QED
        BY <1>3, <4>1, <4>2
    <3>2. QED
      BY <3>1
  <2>3. \A d \in Deliveries : del'[d].cont # None => IsResume(del'[d].cont)
    BY <1>1, <1>3 DEF Updating
  <2>4. ASSUME NEW d \in Deliveries, del'[d].status = "delivered", del'[d].cont # None
        PROVE  run'[del'[d].cont].status \in {"queued", "failed"}
    <3>1. CASE d \in U
      BY <1>3, <3>1
    <3>2. CASE d \notin U
      <4>1. del'[d].cont = del[d].cont /\ Delivered(d) /\ del[d].cont # None
        BY <1>3, <2>4, <3>2 DEF Delivered
      <4>2. run[del[d].cont].status \in {"queued", "failed"}
        BY <1>1, <4>1 DEF Updating, IsSent
      <4>3. del[d].cont \in Runs
        BY <4>1, Known, RecordFields
      <4>4. QED
        BY <4>1, <4>2, <4>3
    <3>3. QED
      BY <3>1, <3>2
  <2>5. QED
    BY <2>1, <2>2, <2>3, <2>4 DEF Updating, Delivered
<1>10. InItsChat'
  <2>1. \A q \in Requests : req[q].parent # None => req[q].parent \in Requests
    BY Known, RecordFields
  <2>2. \A q \in Requests : req'[q].parent # None =>
          (Target[req'[q].parent] = Source[q] /\ req'[req'[q].parent].run # None)
    BY <1>1, <2>1 DEF InItsChat
  <2>3. \A e \in Chats : \A y \in ToSet(turns'[e]) : HomeOf(y) = e
    BY <1>1 DEF InItsChat
  <2>4. QED
    BY <2>2, <2>3 DEF InItsChat
<1>11. SendsBatch'
  BY DEF SendsBatch
<1>12. Unclaimed'
  <2>1. \A d : Claimed(d)' => Claimed(d)
    BY DEF Claimed
  <2>2. ASSUME NEW e \in Deliveries, Delivered(e)', run'[First(e)].status \in {"queued", "running"}
        PROVE  ~Claimed(e) /\ \A d \in run'[First(e)].inputs : ~Claimed(d)
    <3>1. CASE First(e) = x
      BY <3>1
    <3>2. CASE First(e) # x
      BY <1>1, <1>3, <1>4, <2>2, <3>2 DEF Unclaimed, Delivered, UnderWay
    <3>3. QED
      BY <3>1, <3>2
  <2>3. ASSUME NEW d \in Deliveries, Delivered(d)', del'[d].cont # None,
               run'[del'[d].cont].status \in {"queued", "running"}
        PROVE  ~Claimed(d)
    <3>1. IsResume(del'[d].cont)
      BY <1>1, <1>3, <2>3 DEF Updating
    <3>2. CASE del'[d].cont = x
      BY <3>1, <3>2
    <3>3. CASE del'[d].cont # x
      <4>1. del'[d].cont = del[d].cont /\ Delivered(d) /\ del[d].cont # None
        BY <1>3, <2>3, <3>3 DEF Delivered
      <4>2. del[d].cont \in Runs
        BY <4>1, Known, RecordFields
      <4>3. UnderWay(del[d].cont)
        BY <2>3, <3>3, <4>1, <4>2 DEF UnderWay
      <4>4. QED
        BY <1>1, <4>1, <4>3 DEF Unclaimed
    <3>4. QED
      BY <3>2, <3>3
  <2>4. QED
    BY <2>1, <2>2, <2>3 DEF Unclaimed, UnderWay
<1>13. QED
  BY <1>5, <1>6, <1>7, <1>8, <1>9, <1>10, <1>11, <1>12 DEF ReservedInv

LEMMA FailedWanes ==
  ASSUME CoordInv, NEW D
  PROVE  Wanes(Failed(D), del, Given_up)
         /\ \A d \in Deliveries : d \notin D => Failed(D)[d] = del[d]
<1>1. Wanes(Failed(D), del, Given_up)
  BY Known, GivenUpWithin, GoneWanes DEF Failed
<1>2. QED
  BY <1>1 DEF Failed, Gone

(* Inputs that begin no assignment.                                         *)
LEMMA OrdinaryReserves ==
  ASSUME CoordInv, ReservedInv, sending = None, NEW c \in Chats, NEW inputs \in SUBSET Waits(c),
         inputs # {}, \A d \in inputs : d[1] # "request" /\ ~Stale(d) /\ ~Claimed(d),
         \A q \in Requests : Outcome(q) \in inputs => req[q].parent = None,
         ActivateOrdinary(c, inputs), UNCHANGED <<turns, typing>>
  PROVE  \E x \in Runs : \E kept \in SUBSET Deliveries : \E dl :
           /\ Reserves(c, x, kept, dl, {}) /\ \A r \in Requests : x # First(Asks(r))
           /\ run[x].status \in {"none", "queued"} /\ kept \subseteq inputs \cup run[x].inputs
<1>1. PICK x, D : /\ D = {d \in Waits(c) : Stale(d)}
                  /\ x = First(Earliest(inputs)) /\ run[x].status \in {"none", "queued"}
                  /\ Send(c, x, inputs) /\ del' = Failed(D) /\ req' = req
  BY Zenon DEF ActivateOrdinary
<1>2. RecordsTyped /\ MadeIsRecorded
  BY Known DEF RecordsInv
<1>3. inputs \in SUBSET Deliveries /\ inputs \in SUBSET ToSet(made)
  BY <1>2 DEF Waits, MadeIsRecorded
<1>4. PICK d \in inputs : d = Earliest(inputs)
  BY <1>2, <1>3, EarliestIsOne
<1>5. /\ x = First(d) /\ d \in Deliveries /\ d[1] # "request" /\ ~Stale(d) /\ ~Claimed(d)
      /\ Receiver(d) = c /\ Delivered(d) /\ del[d].status = "delivered"
  BY <1>1, <1>3, <1>4 DEF Waits, Delivered
<1>6. x \in Runs /\ ~IsPersons(x) /\ ~IsResume(x) /\ HomeOf(x) = c
  BY <1>5, RunNames, RunKinds
<1>7. PICK kept \in SUBSET Deliveries :
           /\ kept = IF run[x].inputs = {} THEN inputs ELSE run[x].inputs
           /\ run'[x].status = "queued" /\ run'[x].inputs = kept
           /\ \A y \in Runs : y # x => run'[y] = run[y]
           /\ sending' # None /\ sending'.chat = c /\ sending'.run = x /\ sending'.inputs = kept
  BY <1>1, <1>3, <1>6, SendFields
<1>8. kept # {} /\ run[x].inputs \subseteq kept
  BY <1>7
<1>9. /\ Wanes(Failed(D), del, Given_up)
      /\ \A e \in Deliveries : e \notin D => Failed(D)[e] = del[e]
  BY FailedWanes
<1>10. d \notin D /\ del'[d].status = "delivered"
  BY <1>1, <1>5, <1>9
<1>11. \A e \in kept : Receiver(e) = Receiver(d) /\ ~Claimed(e)
  <2>1. CASE run[x].inputs = {}
    <3>1. kept = inputs
      BY <1>7, <2>1
    <3>2. QED
      BY <1>5, <3>1 DEF Waits
  <2>2. CASE run[x].inputs # {}
    <3>1. kept = run[First(d)].inputs
      BY <1>5, <1>7, <2>2
    <3>2. UnderWay(First(d))
      BY <1>1, <1>5, <1>6, <2>2 DEF UnderWay, ReservedInv, Batches
    <3>3. QED
      BY <1>5, <3>1, <3>2 DEF ReservedInv, Batches, Unclaimed
  <2>3. QED
    BY <2>1, <2>2
<1>12. \A e \in Deliveries : x = First(e) => e = d
  BY <1>5, RunKinds
<1>13. \A r \in Requests : x # First(Asks(r))
  BY <1>5, <1>12, DeliveryNames
<1>14. \A q \in Requests : x = First(Outcome(q)) => req[q].parent = None
  BY <1>4, <1>12, DeliveryNames
<1>15. \A e \in Deliveries : x = First(e) =>
         /\ del[e].status \notin Unsent /\ ~Claimed(e)
         /\ \A f \in kept : Receiver(f) = Receiver(e)
         /\ del'[e].status = "delivered" \/ kept \subseteq {e}
  BY <1>5, <1>10, <1>11, <1>12 DEF Unsent
<1>16. PICK dl, U : dl = Failed(D) /\ U = {}
  OBVIOUS
<1>17. Wanes(dl, del, Given_up) /\ U \in SUBSET Deliveries
  BY <1>9, <1>16
<1>18. \A e \in Deliveries : /\ del'[e].status = dl[e].status /\ del'[e].by = dl[e].by
                             /\ del'[e].cont = IF e \in U THEN x ELSE dl[e].cont
  BY <1>1, <1>16
<1>19. \A e \in U : IsResume(x) /\ del[e].cont = None /\ del[e].status \notin Unsent
  BY <1>16
<1>20. IsResume(x) => /\ \A e \in Deliveries : (e \in kept) <=> (del'[e].cont = x)
                      /\ \A e \in x[2][2] : del'[e].cont = x
  BY <1>6
<1>21. \A q \in Requests : req'[q].parent = req[q].parent /\ (req[q].run # None => req'[q].run # None)
  BY <1>1
<1>22. \A e \in kept : ~Claimed(e)
  BY <1>11
<1>23. \A r \in Requests : x = First(Asks(r)) => kept \subseteq {Asks(r)}
  BY <1>13
<1>24. UNCHANGED <<turns, typing>>
  OBVIOUS
<1>25. Reserves(c, x, kept, dl, U)
  BY <1>6, <1>7, <1>8, <1>14, <1>15, <1>17, <1>18, <1>19, <1>20, <1>21, <1>22, <1>23, <1>24
     DEF Reserves
<1>26. kept \subseteq inputs \cup run[x].inputs
  BY <1>7
<1>27. QED
  BY <1>1, <1>6, <1>13, <1>16, <1>25, <1>26

LEMMA OrdinaryReserved ==
  ASSUME CoordInv, ReservedInv, sending = None, NEW c \in Chats, NEW inputs \in SUBSET Waits(c),
         inputs # {}, \A d \in inputs : d[1] # "request" /\ ~Stale(d) /\ ~Claimed(d),
         \A q \in Requests : Outcome(q) \in inputs => req[q].parent = None,
         ActivateOrdinary(c, inputs), UNCHANGED <<turns, typing>>
  PROVE  ReservedInv'
<1>1. PICK x \in Runs : \E kept \in SUBSET Deliveries : \E dl : Reserves(c, x, kept, dl, {})
  BY OrdinaryReserves
<1>2. PICK kept \in SUBSET Deliveries : \E dl : Reserves(c, x, kept, dl, {})
  BY <1>1
<1>3. PICK dl : Reserves(c, x, kept, dl, {})
  BY <1>2
<1>4. QED
  BY <1>3, SendStartsReserved

(* The run of an assignment.                                                *)
LEMMA AssignedReserves ==
  ASSUME CoordInv, ReservedInv, sending = None, ~\E q \in Requests : Interrupted(q),
         NEW c \in Chats, NEW r \in Requests, Open(r), Target[r] = c, typing[c] = None,
         ActivateAssigned(c, r), UNCHANGED <<turns, typing>>
  PROVE  \E kept \in SUBSET Deliveries : \E dl :
           Reserves(c, ReservedRun(r), kept, dl, IF Starting(r) THEN {} ELSE Updates(r))
<1>1. PICK x, U, D, dl, inputs :
        /\ x = ReservedRun(r) /\ U = (IF Starting(r) THEN {} ELSE Updates(r))
        /\ D = {d \in Waits(c) : Stale(d)} /\ dl = Failed(D)
        /\ inputs = U \cup IF req[r].status = "waiting" THEN {} ELSE {Asks(r)}
  OBVIOUS
<1>2. /\ Reservable(r) /\ Send(c, x, inputs)
      /\ req' = [req EXCEPT ![r].run = x, ![r].status = "queued"]
      /\ del' = [d \in Deliveries |-> IF d \in U THEN [dl[d] EXCEPT !.cont = x] ELSE dl[d]]
  BY <1>1 DEF ActivateAssigned
<1>3. x \in RunsOf(r) /\ run[x].status # "running"
  BY <1>1, <1>2, ReservedIsItsOwn
<1>4. /\ x \in Runs /\ x # None /\ ~IsPersons(x) /\ HomeOf(x) = c
      /\ x = First(Asks(r)) \/ IsResume(x)
  BY <1>3, RunNames, RunKinds
<1>5. \A d : Receiver(d) = c => ~Claimed(d)
  BY DEF ReservedInv, ClaimsHold, Claimed
<1>6. U \subseteq Updates(r) /\ inputs \in SUBSET Deliveries
      /\ \A d \in U : \E q \in Children(r) :
           d = Outcome(q) /\ del[d].status \in {"delivered", "accepted"} /\ del[d].cont = None
  <2>1. \A d \in Updates(r) : \E q \in Children(r) :
          d = Outcome(q) /\ del[d].status \in {"delivered", "accepted"} /\ del[d].cont = None
    BY DEF Updates
  <2>2. U \subseteq Updates(r)
    BY <1>1
  <2>3. inputs \in SUBSET Deliveries
    BY <1>1, <2>1, <2>2, DeliveryNames DEF Children
  <2>4. QED
    BY <2>1, <2>2, <2>3
<1>7. PICK kept \in SUBSET Deliveries :
           /\ kept = IF run[x].inputs = {} THEN inputs ELSE run[x].inputs
           /\ run'[x].status = "queued" /\ run'[x].inputs = kept
           /\ \A y \in Runs : y # x => run'[y] = run[y]
           /\ sending' # None /\ sending'.chat = c /\ sending'.run = x /\ sending'.inputs = kept
  BY <1>2, <1>4, <1>6, SendFields
<1>8. /\ Wanes(dl, del, Given_up) /\ dl \in [Deliveries -> DelRecords]
      /\ \A d \in Deliveries : dl[d].cont = del[d].cont
  BY <1>1, FailedWanes DEF Wanes
<1>9. \A d \in Deliveries : /\ del'[d].status = dl[d].status /\ del'[d].by = dl[d].by
                            /\ del'[d].cont = IF d \in U THEN x ELSE dl[d].cont
  <2>1. \A d \in Deliveries : dl[d] \in DelRecords
    BY <1>8
  <2>2. \A d \in Deliveries : /\ d \notin U => del'[d] = dl[d]
                              /\ d \in U => del'[d] = [dl[d] EXCEPT !.cont = x]
    BY <1>2
  <2>3. \A d \in Deliveries : /\ [dl[d] EXCEPT !.cont = x].cont = x
                              /\ [dl[d] EXCEPT !.cont = x].status = dl[d].status
                              /\ [dl[d] EXCEPT !.cont = x].by = dl[d].by
    BY <2>1 DEF DelRecords
  <2>4. QED
    BY <2>2, <2>3
<1>10. \A q \in Requests : req'[q].parent = req[q].parent /\ (req[q].run # None => req'[q].run # None)
  <2>1. \A q \in Requests : req[q] \in ReqRecords
    BY Known
  <2>2. /\ \A q \in Requests : q # r => req'[q] = req[q]
        /\ req'[r] = [req[r] EXCEPT !.run = x, !.status = "queued"]
    BY <1>2, Known
  <2>3. req'[r].parent = req[r].parent /\ req'[r].run = x
    BY <2>1, <2>2 DEF ReqRecords
  <2>4. QED
    BY <1>4, <2>2, <2>3
<1>11. U \in SUBSET Deliveries
  BY <1>1, <1>6
<1>12. \A e \in Deliveries : x = First(e) => (e = Asks(r) /\ Receiver(e) = c /\ ~Claimed(e))
  BY <1>3, <1>5, RunNames, RunKinds
<1>13. \A q \in Requests : x # First(Outcome(q))
  BY <1>12, DeliveryNames
<1>14. UNCHANGED <<turns, typing>>
  OBVIOUS
<1>15. ASSUME kept \subseteq {Asks(r)}, kept # {}, U = {}, del[Asks(r)].status \notin Unsent, ~IsResume(x)
       PROVE  Reserves(c, x, kept, dl, U)
  <2>1. run[x].inputs \subseteq kept
    BY <1>7
  <2>2. Receiver(Asks(r)) = c
    BY RunKinds
  <2>3. \A e \in Deliveries : x = First(e) =>
          /\ del[e].status \notin Unsent /\ ~Claimed(e)
          /\ \A d \in kept : Receiver(d) = Receiver(e)
          /\ del'[e].status = "delivered" \/ kept \subseteq {e}
    BY <1>12, <1>15
  <2>4. \A q \in Requests : x = First(Asks(q)) => kept \subseteq {Asks(q)}
    BY <1>12, <1>15, DeliveryNames
  <2>5. \A d \in kept : ~Claimed(d)
    BY <1>5, <1>15, <2>2
  <2>6. \A d \in U : IsResume(x) /\ del[d].cont = None /\ del[d].status \notin Unsent
    BY <1>15
  <2>7. \A q \in Requests : x = First(Outcome(q)) => req[q].parent = None
    BY <1>13
  <2>8. IsResume(x) => (/\ \A d \in Deliveries : (d \in kept) <=> (del'[d].cont = x)
                        /\ \A d \in x[2][2] : del'[d].cont = x)
    BY <1>15
  <2>9. kept # {}
    BY <1>15
  <2>10. QED
    BY <1>4, <1>7, <1>8, <1>9, <1>10, <1>14, <2>1, <2>3, <2>4, <2>5, <2>6, <2>7, <2>8, <2>9 DEF Reserves
<1>16. ASSUME Starting(r)
       PROVE  Reserves(c, x, kept, dl, U)
  <2>1. U = {} /\ x = req[r].run /\ run[x].status = "queued"
    BY <1>1, <1>2, <1>16 DEF ReservedRun, Starting, Reservable
  <2>2. run[x].inputs # {} /\ kept = run[x].inputs
    <3>1. run[x].inputs # {}
      BY <1>4, <2>1 DEF ReservedInv, Batches, UnderWay
    <3>2. QED
      BY <1>7, <3>1
  <2>3. CASE x = First(Asks(r))
    <3>1. kept \subseteq {Asks(r)}
      BY <2>2, <2>3 DEF ReservedInv, Batches
    <3>2. del[Asks(r)].status \notin Unsent
      BY <2>1, <2>3, DeliveryNames DEF ReservedInv, NotYetReserved
    <3>3. ~IsResume(x)
      BY <2>3, DeliveryNames, RunKinds
    <3>4. QED
      BY <1>15, <2>1, <2>2, <3>1, <3>2, <3>3
  <2>4. CASE IsResume(x)
    <3>1. \A d \in Deliveries : (d \in kept) <=> (del'[d].cont = x)
      BY <1>4, <1>8, <1>9, <2>1, <2>2, <2>4 DEF ReservedInv, Updating
    <3>2. \A d \in x[2][2] : del'[d].cont = x
      <4>1. \A d \in x[2][2] : del[d].cont = x /\ d \in Deliveries
        BY <1>4, <2>1, <2>4, ResumesAnswers DEF ReservedInv, Updating
      <4>2. QED
        BY <1>8, <1>9, <2>1, <4>1
    <3>3. ASSUME NEW d \in kept
          PROVE  ~Claimed(d)
      <4>1. d \in Deliveries /\ del[d].cont = x
        BY <1>8, <1>9, <2>1, <3>1, <3>3
      <4>2. d[1] = "outcome"
        BY <1>4, <4>1, Known DEF RecordsInv, AnswersContinue
      <4>3. PICK q \in Requests : d = Outcome(q)
        BY <4>1, <4>2, DeliveryNames
      <4>4. req[q].parent \in Requests /\ x \in RunsOf(req[q].parent)
        BY <1>4, <4>1, <4>3, Known DEF AssignmentsInv, AnswersRead
      <4>5. req[q].parent = r
        BY <1>3, <4>4, RunNames
      <4>6. Source[q] = c
        BY <4>4, <4>5, RunNames DEF ReservedInv, InItsChat
      <4>7. Receiver(d) = c
        BY <4>3, <4>6, RunKinds
      <4>8. QED
        BY <1>5, <4>7
    <3>4. run[x].inputs \subseteq kept /\ kept # {}
      BY <2>2
    <3>5. \A e \in Deliveries : x # First(e)
      BY <2>4, RunKinds
    <3>6. QED
      BY <1>4, <1>7, <1>8, <1>9, <1>10, <1>13, <1>14, <2>1, <3>1, <3>2, <3>3, <3>4, <3>5, DeliveryNames
         DEF Reserves
  <2>5. QED
    BY <1>4, <2>3, <2>4
<1>17. ASSUME ~Starting(r) /\ req[r].status # "waiting"
       PROVE  Reserves(c, x, kept, dl, U)
  <2>1. /\ req[r].status = "queued" /\ del[Asks(r)].status \in {"delivered", "accepted"}
        /\ x = First(Asks(r)) /\ inputs = U \cup {Asks(r)}
    BY <1>1, <1>2, <1>17 DEF Reservable, ReservedRun
  <2>2. req[r].run = None
    <3>1. req[r].run # None => run[req[r].run].status \in {"queued", "running", "failed"}
      BY <2>1, Known DEF AssignmentsInv, RunFits
    <3>2. QED
      BY <1>17, <3>1 DEF Starting, UnderWay, Interrupted
  <2>3. U = {}
    <3>1. \A q \in Children(r) : q \in Requests /\ req[q].parent = r
      BY DEF Children
    <3>2. Children(r) = {}
      BY <2>2, <3>1, RunNames DEF ReservedInv, InItsChat
    <3>3. QED
      BY <1>6, <3>2
  <2>4. run[x].inputs \subseteq {Asks(r)}
    BY <2>1 DEF ReservedInv, Batches
  <2>5. kept \subseteq {Asks(r)} /\ kept # {}
    BY <1>7, <2>1, <2>3, <2>4
  <2>6. del[Asks(r)].status \notin Unsent /\ ~IsResume(x)
    BY <2>1, DeliveryNames, RunKinds DEF Unsent
  <2>7. QED
    BY <1>15, <2>3, <2>5, <2>6
<1>18. ASSUME ~Starting(r) /\ req[r].status = "waiting"
       PROVE  Reserves(c, x, kept, dl, U)
  <2>1. x = Resume(r, U) /\ U = Updates(r) /\ U # {} /\ inputs = U
    BY <1>1, <1>2, <1>18 DEF Reservable, ReservedRun
  <2>2. IsResume(x) /\ x[2][2] = U
    BY <2>1, RunKinds
  <2>3. run[x].status = "none"
    <3>1. run[x].status # "none" => \A d \in U : del[d].cont = x
      BY <1>4, <2>2 DEF ReservedInv, Updating
    <3>2. \A d \in U : del[d].cont = None
      BY <1>6
    <3>3. QED
      BY <1>4, <2>1, <3>1, <3>2
  <2>4. run[x].inputs = {}
    BY <1>4, <2>3 DEF ReservedInv, Batches
  <2>5. kept = U /\ kept # {} /\ run[x].inputs \subseteq kept
    BY <1>7, <2>1, <2>4
  <2>6. \A d \in Deliveries : del[d].cont # x
    BY <1>4, <2>2, <2>4 DEF ReservedInv, Updating
  <2>7. \A d \in Deliveries : (d \in kept) <=> (del'[d].cont = x)
    BY <1>8, <1>9, <2>5, <2>6
  <2>8. \A d \in x[2][2] : del'[d].cont = x
    BY <1>9, <1>11, <2>2
  <2>9. ASSUME NEW d \in kept
        PROVE  ~Claimed(d)
    <3>1. PICK q \in Children(r) : d = Outcome(q)
      BY <1>6, <2>5, <2>9
    <3>2. q \in Requests /\ req[q].parent = r
      BY DEF Children
    <3>3. Source[q] = c
      BY <3>2, RunNames DEF ReservedInv, InItsChat
    <3>4. QED
      BY <1>5, <3>1, <3>2, <3>3, RunKinds
  <2>10. \A d \in U : IsResume(x) /\ del[d].cont = None /\ del[d].status \notin Unsent
    BY <1>6, <2>2 DEF Unsent
  <2>11. \A e \in Deliveries : x # First(e)
    BY <2>2, RunKinds
  <2>12. QED
    BY <1>4, <1>7, <1>8, <1>9, <1>10, <1>13, <1>14, <2>5, <2>7, <2>8, <2>9, <2>10, <2>11, DeliveryNames
       DEF Reserves
<1>19. Reserves(c, x, kept, dl, U)
  BY <1>16, <1>17, <1>18
<1>20. QED
  BY <1>1, <1>19

LEMMA AssignedReserved ==
  ASSUME CoordInv, ReservedInv, sending = None, ~\E q \in Requests : Interrupted(q),
         NEW c \in Chats, NEW r \in Requests, Open(r), Target[r] = c, typing[c] = None,
         ActivateAssigned(c, r), UNCHANGED <<turns, typing>>
  PROVE  ReservedInv'
<1>1. PICK x, U : x = ReservedRun(r) /\ U = IF Starting(r) THEN {} ELSE Updates(r)
  OBVIOUS
<1>2. PICK kept \in SUBSET Deliveries : \E dl : Reserves(c, x, kept, dl, U)
  BY <1>1, AssignedReserves
<1>3. PICK dl : Reserves(c, x, kept, dl, U)
  BY <1>2
<1>4. x \in Runs
  <2>1. Reservable(r)
    BY DEF ActivateAssigned
  <2>2. QED
    BY <1>1, <2>1, ReservedIsItsOwn, RunNames
<1>5. U \in SUBSET Deliveries
  <2>1. \A d \in Updates(r) : \E q \in Requests : d = Outcome(q)
    BY DEF Updates, Children
  <2>2. QED
    BY <1>1, <2>1, DeliveryNames
<1>6. QED
  BY <1>3, <1>4, <1>5, SendStartsReserved

(* An answer that is delivered on its own was asked by no assignment: that  *)
(* of an open assignment would have it started instead.                     *)
LEMMA AnswerOfNone ==
  ASSUME CoordInv, ReservedInv, sending = None, ~\E r \in Requests : Interrupted(r),
         NEW c \in Chats, ~\E r \in AskedBy(c) : Starting(r),
         NEW q \in Requests, Outcome(q) \in Waits(c), ~Stale(Outcome(q)),
         ~(req[q].parent # None /\ Open(req[q].parent) /\ del[Outcome(q)].cont = None)
  PROVE  req[q].parent = None
<1>1. SUFFICES ASSUME req[q].parent # None
               PROVE  FALSE
  OBVIOUS
<1>2. PICK d, p, y : d = Outcome(q) /\ p = req[q].parent /\ y = del[d].cont
  OBVIOUS
<1>3. d \in Deliveries /\ d[1] = "outcome" /\ d[2] = q /\ Delivered(d) /\ Receiver(d) = c
  BY <1>2, DeliveryNames DEF Waits, Delivered
<1>4. p \in Requests /\ Open(p) /\ y # None
  <2>1. p \in Requests
    BY <1>1, <1>2, Known, RecordFields
  <2>2. Open(p)
    BY <1>1, <1>2, <1>3 DEF Stale
  <2>3. QED
    BY <1>1, <1>2, <2>1, <2>2
<1>5. Target[p] = c
  BY <1>1, <1>2, <1>3, RunKinds DEF ReservedInv, InItsChat
<1>6. run[y].status \in {"queued", "failed"}
  BY <1>2, <1>3, <1>4 DEF ReservedInv, Updating, IsSent
<1>7. req[p].run = y
  BY <1>2, <1>4, <1>6, Known DEF AssignmentsInv, AnswersRead
<1>8. CASE run[y].status = "queued"
  BY <1>4, <1>5, <1>7, <1>8 DEF AskedBy, Starting, UnderWay
<1>9. CASE run[y].status = "failed"
  BY <1>4, <1>7, <1>9 DEF Interrupted
<1>10. QED
  BY <1>6, <1>8, <1>9

(* What a pass does in a chat: it starts an assignment's turn or one with   *)
(* other inputs, or only gives up what is stale.                            *)
Ordinary(c, inputs) ==
  /\ inputs # {} /\ \A d \in inputs : d[1] # "request" /\ ~Stale(d) /\ ~Claimed(d)
  /\ \A q \in Requests : Outcome(q) \in inputs => req[q].parent = None
  /\ ActivateOrdinary(c, inputs)
Assigned(c, r) ==
  Open(r) /\ Target[r] = c /\ typing[c] = None /\ ActivateAssigned(c, r)

LEMMA ActivateCases ==
  ASSUME CoordInv, ReservedInv, NEW c \in Chats, Activate(c)
  PROVE  /\ sending = None /\ ~\E q \in Requests : Interrupted(q)
         /\ UNCHANGED <<turns, typing, given, lost>>
         /\ \/ \E r \in Requests : Assigned(c, r)
            \/ \E inputs \in SUBSET Waits(c) : Ordinary(c, inputs)
            \/ \E D : del' = Failed(D) /\ UNCHANGED <<req, run, sending>>
<1> DEFINE stale == {d \in Waits(c) : Stale(d)}
           pending == Waits(c) \ (stale \cup later)
           starting == {r \in AskedBy(c) : Starting(r)}
           asked == {r \in IF starting = {} THEN AskedBy(c) ELSE starting : Reservable(r) \/ Starting(r)}
           ordinary == {d \in pending : d[1] # "request"
                          /\ ~(d[1] = "outcome" /\ req[d[2]].parent # None /\ Open(req[d[2]].parent)
                               /\ del[d].cont = None)}
           steering == {d \in pending \ Preparing : d[1] = "message"}
<1>1. sending = None /\ ~\E q \in Requests : Interrupted(q)
  BY DEF Activate
<1>2. turns' = turns /\ typing' = typing /\ given' = given /\ lost' = lost
  BY DEF Activate
<1>3. \/ ~Busy(c) /\ asked # {} /\ ActivateAssigned(c, Earliest({Asks(r) : r \in asked})[2])
      \/ ~Busy(c) /\ asked = {} /\ ordinary # {} /\ ActivateOrdinary(c, ordinary)
      \/ steering # {} /\ ActivateOrdinary(c, steering)
      \/ del' = Failed(stale) /\ UNCHANGED <<req, run, sending>>
  BY DEF Activate
<1>4. asked \in SUBSET AskedBy(c) /\ (asked = {} => ~\E r \in AskedBy(c) : Starting(r))
  OBVIOUS
<1>5. /\ ordinary \in SUBSET Waits(c) /\ \A d \in ordinary : d[1] # "request" /\ ~Stale(d)
      /\ \A d \in ordinary : ~(d[1] = "outcome" /\ req[d[2]].parent # None /\ Open(req[d[2]].parent)
                               /\ del[d].cont = None)
  OBVIOUS
<1>6. /\ steering \in SUBSET Waits(c) /\ \A d \in steering : d[1] = "message" /\ ~Stale(d)
      /\ \A d \in steering : d \notin Preparing
  OBVIOUS
<1> HIDE DEF stale, pending, starting, asked, ordinary, steering
<1>7. RecordsInv /\ RecordsTyped
  BY Known
<1>8. ~Busy(c) => (typing[c] = None /\ \A d : Receiver(d) = c => ~Claimed(d))
  BY DEF Busy, ReservedInv, ClaimsHold, Claimed
<1>9. CASE ~Busy(c) /\ asked # {} /\ ActivateAssigned(c, Earliest({Asks(r) : r \in asked})[2])
  <2>1. PICK D : D = {Asks(r) : r \in asked}
    OBVIOUS
  <2>2. \A r \in asked : r \in Requests /\ Open(r) /\ Target[r] = c
    BY <1>4 DEF AskedBy
  <2>3. asked \in SUBSET {r \in Requests : Open(r)}
    BY <2>2
  <2>4. D \in SUBSET ToSet(made) /\ D # {}
    BY <1>7, <1>9, <2>1, <2>3, OpenWereAsked
  <2>5. Earliest(D) \in D
    BY <1>7, <2>4, EarliestIsOne
  <2>6. PICK r \in asked : Earliest(D) = Asks(r)
    BY <2>1, <2>5
  <2>7. r \in Requests /\ Open(r) /\ Target[r] = c
    BY <2>2
  <2>8. ActivateAssigned(c, r)
    BY <1>9, <2>1, <2>6, <2>7, DeliveryNames
  <2>9. QED
    BY <1>1, <1>2, <1>8, <1>9, <2>7, <2>8 DEF Assigned
<1>10. CASE ~Busy(c) /\ asked = {} /\ ordinary # {} /\ ActivateOrdinary(c, ordinary)
  <2>1. \A d \in ordinary : d[1] # "request" /\ ~Stale(d) /\ ~Claimed(d)
    BY <1>5, <1>8, <1>10 DEF Waits
  <2>2. ASSUME NEW q \in Requests, Outcome(q) \in ordinary
        PROVE  req[q].parent = None
    <3>1. /\ Outcome(q) \in Waits(c) /\ ~Stale(Outcome(q))
          /\ ~(req[q].parent # None /\ Open(req[q].parent) /\ del[Outcome(q)].cont = None)
      BY <1>5, <2>2, DeliveryNames
    <3>2. ~\E r \in AskedBy(c) : Starting(r)
      BY <1>4, <1>10
    <3>3. QED
      BY <1>1, <3>1, <3>2, AnswerOfNone
  <2>3. QED
    BY <1>1, <1>2, <1>5, <1>10, <2>1, <2>2 DEF Ordinary
<1>11. CASE steering # {} /\ ActivateOrdinary(c, steering)
  <2>1. \A d \in steering : d[1] # "request" /\ ~Stale(d) /\ ~Claimed(d)
    BY <1>6, PreparingIs
  <2>2. \A q \in Requests : Outcome(q) \in steering => req[q].parent = None
    BY <1>6, DeliveryNames
  <2>3. QED
    BY <1>1, <1>2, <1>6, <1>11, <2>1, <2>2 DEF Ordinary
<1>12. CASE del' = Failed(stale) /\ UNCHANGED <<req, run, sending>>
  BY <1>1, <1>2, <1>12
<1>13. QED
  BY <1>3, <1>9, <1>10, <1>11, <1>12

LEMMA ActivateReserved ==
  ASSUME CoordInv, ReservedInv, NEW c \in Chats, Activate(c)
  PROVE  ReservedInv'
<1>1. /\ sending = None /\ ~\E q \in Requests : Interrupted(q)
      /\ UNCHANGED <<turns, typing, given, lost>>
  BY ActivateCases
<1>2. CASE \E r \in Requests : Assigned(c, r)
  BY <1>1, <1>2, AssignedReserved DEF Assigned
<1>3. CASE \E inputs \in SUBSET Waits(c) : Ordinary(c, inputs)
  BY <1>1, <1>3, OrdinaryReserved DEF Ordinary
<1>4. CASE \E D : del' = Failed(D) /\ UNCHANGED <<req, run, sending>>
  <2>1. Wanes(del', del, Given_up)
    BY <1>4, FailedWanes
  <2>2. QED
    BY <1>1, <1>4, <2>1, QuietGoesOn
<1>5. QED
  BY <1>2, <1>3, <1>4, ActivateCases

----------------------------------------------------------------------------
(* Every step, again *)

LEMMA InitReserved ==
  ASSUME CoordInit
  PROVE  ReservedInv
<1>1. /\ req = [r \in Requests |-> [status |-> "none", run |-> None, parent |-> None]]
      /\ del = [d \in Deliveries |-> [status |-> "none", cont |-> None, by |-> None]]
      /\ run = [x \in Runs |-> [status |-> "none", inputs |-> {}]]
      /\ turns = [c \in Chats |-> <<>>]
      /\ sending = None /\ typing = [c \in Chats |-> None]
  BY DEF CoordInit
<1>2. \A r \in Requests : req[r].parent = None
  BY <1>1
<1>3. \A d \in Deliveries : del[d].status = "none" /\ del[d].cont = None /\ del[d].by = None
  BY <1>1
<1>4. \A x \in Runs : run[x].status = "none" /\ run[x].inputs = {}
  BY <1>1
<1>5. \A c \in Chats : typing[c] = None
  BY <1>1
<1>6. \A c \in Chats : ToSet(turns[c]) = {}
  <2>1. Once(<<>>, {}, Runs)
    BY OnceEmpty
  <2>2. QED
    BY <1>1, <2>1 DEF Once
<1>7. \A x \in Runs : x # None
  BY RunNames
<1>8. \A e \in Deliveries : First(e) \in Runs
  BY RunNames
<1>9. NotYetReserved /\ TakenIsAccepted /\ ClaimsHold
  BY <1>3, <1>4, <1>5, <1>8 DEF NotYetReserved, TakenIsAccepted, ClaimsHold
<1>10. Batches
  BY <1>2, <1>4, <1>8, DeliveryNames DEF Batches, UnderWay
<1>11. Updating
  BY <1>3, <1>4, <1>7 DEF Updating
<1>12. InItsChat /\ SendsBatch
  BY <1>1, <1>2, <1>6 DEF InItsChat, SendsBatch
<1>13. Unclaimed
  BY <1>3, <1>4, <1>8 DEF Unclaimed, UnderWay, Delivered
<1>14. QED
  BY <1>9, <1>10, <1>11, <1>12, <1>13 DEF ReservedInv

LEMMA NextReserved ==
  ASSUME CoordInv, ReservedInv, [CoordNext]_vars
  PROVE  ReservedInv'
<1>1. CASE Agents
  <2>1. CASE \E d \in Deliveries : submitAgentRequest(d)
    BY <2>1, SubmitReserved
  <2>2. CASE \E r \in Requests : Reply(r) \/ Cancel(r)
    BY <2>2, EndingsReserved
  <2>3. CASE \E c \in Chats, ok \in BOOLEAN : EndTurn(c, ok)
    BY <2>3, EndTurnReserved
  <2>4. QED
    BY <1>1, <2>1, <2>2, <2>3 DEF Agents
<1>2. CASE People
  <2>1. CASE \E d \in Deliveries : Allow(d) \/ Deny(d)
    BY <2>1, AllowReserved, DenyReserved
  <2>2. CASE \E c \in Chats : Stop(c) \/ Hold(c) \/ Release(c) \/ Archive(c) \/ Delete(c)
    BY <2>2, EndingsReserved, HoldsReserved, DeleteReserved
  <2>3. CASE \E c \in Chats : Type(c) \/ TypedTaken(c) \/ TypedFails(c)
    BY <2>3, TypeReserved, TypedTakenReserved, TypedFailsReserved
  <2>4. QED
    BY <1>2, <2>1, <2>2, <2>3 DEF People
<1>3. CASE Passes
  <2>1. CASE \E r \in Requests : Reconcile(r)
    BY <2>1, EndingsReserved
  <2>2. CASE \E d \in Deliveries : Persist(d) \/ Abandon(d)
    BY <2>2, PersistReserved, GivenUpReserved
  <2>3. CASE \E c \in Chats : Activate(c) \/ ActivateGone(c) \/ TimePasses(c)
    BY <2>3, ActivateReserved, GivenUpReserved, HoldsReserved
  <2>4. CASE Boundary \/ Give \/ Accepted \/ HeldBack \/ SendRetry \/ SendFails
    BY <2>4, SendsReserved, GiveReserved, AcceptedReserved, SendFailsReserved
  <2>5. QED
    BY <1>3, <2>1, <2>2, <2>3, <2>4 DEF Passes
<1>4. CASE Restart
  BY <1>4, RestartReserved
<1>5. CASE UNCHANGED vars
  <2>1. req' = req /\ del' = del /\ UNCHANGED <<run, turns, sending, typing>>
    BY <1>5 DEF vars
  <2>2. QED
    BY <2>1, DelWanesItself, QuietGoesOn
<1>6. QED
  BY <1>1, <1>2, <1>3, <1>4, <1>5 DEF CoordNext

(* ReservedInv is an invariant: an input of the agents is reserved for one  *)
(* run, with the run saved as what it is reserved for, and nothing reserved *)
(* is taken along by a person (reserve and claimPreparingInputs).           *)
THEOREM ReservedInvariant == CoordSpec => []ReservedInv
<1>1. CoordInit => ReservedInv
  BY InitReserved
<1>2. CoordInv /\ ReservedInv /\ [CoordNext]_vars => ReservedInv'
  BY NextReserved
<1>3. QED
  BY <1>1, <1>2, CoordInvariant, PTL DEF CoordSpec

(* What a person's message takes along (humanCoordinationContext) is not    *)
(* taken by a turn of the agents while the message is prepared: the person  *)
(* is never refused for it (agentMessageAdmission).                         *)
THEOREM NeverRefused == CoordSpec => []PersonNotRefused
<1>1. ReservedInv => PersonNotRefused
  BY DEF ReservedInv, ClaimsHold, PersonNotRefused, TakenElsewhere
<1>2. QED
  BY <1>1, ReservedInvariant, PTL

----------------------------------------------------------------------------
(* How often a turn is shown what was sent.  What bounds it is which runs   *)
(* had the input, and which are still to come; what a harness has now, or   *)
(* had though nothing says so, is not counted by these.                     *)
recorded == [d \in Deliveries |-> given[d] - lost[d] - IF d \in AtHarness THEN 1 ELSE 0]
CountsTyped == given \in [Deliveries -> Int] /\ lost \in [Deliveries -> Int]

LEMMA MoreTyped ==
  ASSUME NEW count \in [Deliveries -> Int], NEW inputs
  PROVE  More(count, inputs) \in [Deliveries -> Int]
BY DEF More

LEMMA RecordedStays ==
  ASSUME UNCHANGED <<given, lost>>, AtHarness' = AtHarness
  PROVE  recorded' = recorded
BY DEF recorded

(* What is handed over and not recorded is counted twice, and so not at all.*)
LEMMA RecordedNot ==
  ASSUME CountsTyped, NEW inputs,
         \/ given' = More(given, inputs) /\ lost' = More(lost, inputs) /\ AtHarness' = AtHarness
         \/ given' = More(given, inputs) /\ lost' = More(More(lost, inputs), AtHarness) /\ AtHarness' = {}
         \/ given' = given /\ lost' = More(lost, AtHarness) /\ AtHarness' = {}
         \/ given' = More(given, inputs) /\ lost' = lost /\ AtHarness = {} /\ AtHarness' = inputs
  PROVE  recorded' = recorded
<1>1. \A d \in Deliveries : given[d] \in Int /\ lost[d] \in Int
  BY DEF CountsTyped
<1>2. ASSUME NEW d \in Deliveries
      PROVE  given'[d] - lost'[d] - (IF d \in AtHarness' THEN 1 ELSE 0)
             = given[d] - lost[d] - (IF d \in AtHarness THEN 1 ELSE 0)
  BY <1>1 DEF More
<1>3. QED
  BY <1>2 DEF recorded

(* A handover is recorded, at once or after the harness had it.             *)
LEMMA RecordedMore ==
  ASSUME CountsTyped, NEW inputs, lost' = lost,
         \/ given' = More(given, inputs) /\ AtHarness' = AtHarness
         \/ given' = given /\ AtHarness = inputs /\ AtHarness' = {}
  PROVE  recorded' = [d \in Deliveries |-> recorded[d] + IF d \in inputs THEN 1 ELSE 0]
<1>1. \A d \in Deliveries : given[d] \in Int /\ lost[d] \in Int
  BY DEF CountsTyped
<1>2. ASSUME NEW d \in Deliveries
      PROVE  given'[d] - lost'[d] - (IF d \in AtHarness' THEN 1 ELSE 0)
             = recorded[d] + IF d \in inputs THEN 1 ELSE 0
  BY <1>1 DEF More, recorded
<1>3. QED
  BY <1>2 DEF recorded

(* What was not taken yet was never shown.                                  *)
NotShownYet == \A d \in Deliveries : del[d].status \in Unsent \cup {"delivered"} => recorded[d] = 0

(* What a run has, or a person's message takes along, was delivered.        *)
BatchesDelivered ==
  /\ \A x \in Runs : \A d \in run[x].inputs : del[d].status \notin Unsent
  /\ \A c \in Chats : typing[c] # None => \A d \in typing[c].inputs : del[d].status \notin Unsent

(* A run named for a delivery has no request but that, and no answer to an  *)
(* assignment; the run named for a request is begun for it.                 *)
OwnBatches ==
  /\ \A e \in Deliveries : \A d \in run[First(e)].inputs :
       /\ d[1] = "request" => d = e
       /\ d[1] = "outcome" => req[d[2]].parent = None
  /\ \A r \in Requests : run[First(Asks(r))].status # "none" => req[r].run # None

(* What was taken was taken by a run that has begun and is sent no more.    *)
TakenBy == \A d \in Deliveries : del[d].status = "accepted" =>
  /\ del[d].by \in Runs /\ run[del[d].by].status \notin {"none", "queued"} /\ ~IsSent(del[d].by)
  /\ ~IsPersons(del[d].by) => d \in run[del[d].by].inputs

(* Only what a person's message took along is shown once more.              *)
Again(d) == d[1] = "request" \/ del[d].cont # None \/ d \in Unreserved
ShownTwice == \A d \in Deliveries : (del[d].status = "accepted" /\ recorded[d] > 1) =>
  (recorded[d] = 2 /\ IsPersons(del[d].by) /\ Again(d))

(* It is not yet while the run it is for is queued or is being sent.        *)
Awaited(x) == run[x].status \in {"none", "queued"} \/ IsSent(x)
ShownLater == \A d \in Deliveries : del[d].status = "accepted" =>
  /\ (d[1] = "request" /\ Awaited(First(d))) => recorded[d] <= 1
  /\ (del[d].cont # None /\ Awaited(del[d].cont)) => recorded[d] <= 1

(* What the harness has now, and a person's message took before.            *)
TakenBefore(d, x) ==
  /\ recorded[d] <= 1 /\ IsPersons(del[d].by)
  /\ d[1] = "request" \/ del[d].cont = x \/ d \in Unreserved
ShownNow == (sending # None /\ sending.stage = "native") =>
  \A d \in sending.inputs : del[d].by # None => TakenBefore(d, sending.run)

ShownRest == /\ recorded \in [Deliveries -> Nat] /\ NotShownYet /\ BatchesDelivered
             /\ OwnBatches /\ TakenBy /\ ShownTwice /\ ShownLater
ShownInv == ShownRest /\ ShownNow

----------------------------------------------------------------------------
(* Steps that show nothing *)

(* What is sent goes on or is given up, and no run takes it; no run is      *)
(* queued again but the one being sent.                                     *)
NothingTaken ==
  \A d \in Deliveries :
    /\ del'[d].cont = del[d].cont /\ del'[d].by = del[d].by
    /\ del'[d].status \in Unsent => del[d].status \in Unsent
    /\ del'[d].status = "delivered" => del[d].status \in Unsent \cup {"delivered"}
    /\ (del'[d].status = "accepted") <=> (del[d].status = "accepted")
    /\ del[d].status = "cancelled" => del'[d].status = "cancelled"
NothingSent ==
  /\ \A x \in Runs : /\ run'[x].inputs = run[x].inputs
                     /\ (run'[x].status = "none") <=> (run[x].status = "none")
                     /\ run'[x].status = "queued" => (run[x].status = "queued" \/ IsSent(x))
  /\ sending' # None => (sending # None /\ sending'.run = sending.run /\ sending'.inputs = sending.inputs)
NothingClaimed == \A c \in Chats : typing'[c] # None =>
  (typing'[c] = typing[c] \/ \A d \in typing'[c].inputs : d \in Deliveries /\ Delivered(d))
RequestsGoOn == \A q \in Requests :
  /\ req'[q].parent = req[q].parent \/ del[Outcome(q)].status = "none"
  /\ (req[q].run # None) => (req'[q].run # None)
ShowsNothing ==
  recorded' = recorded /\ NothingTaken /\ NothingSent /\ NothingClaimed /\ RequestsGoOn

LEMMA StaysAgain ==
  ASSUME NothingTaken, NothingSent, NEW d \in Deliveries, Again(d)
  PROVE  Again(d)'
<1>1. \A e \in Deliveries : del[e].status = "cancelled" => del'[e].status = "cancelled"
  BY DEF NothingTaken
<1>2. \A e \in Deliveries : run[First(e)].inputs \subseteq run'[First(e)].inputs
  BY RunNames DEF NothingSent
<1>3. d \in Unreserved => (d \in Unreserved)'
  BY <1>1, <1>2, StillUnreserved
<1>4. del'[d].cont = del[d].cont
  BY DEF NothingTaken
<1>5. QED
  BY <1>3, <1>4 DEF Again

LEMMA ShowsNothingRest ==
  ASSUME CoordInv, ShownRest, ShowsNothing
  PROVE  ShownRest'
<1>1. /\ recorded \in [Deliveries -> Nat] /\ NotShownYet /\ BatchesDelivered
      /\ OwnBatches /\ TakenBy /\ ShownTwice /\ ShownLater
  BY DEF ShownRest
<1>2. recorded' = recorded /\ NothingTaken /\ NothingSent /\ NothingClaimed /\ RequestsGoOn
  BY DEF ShowsNothing
<1>3. \A d \in Deliveries : First(d) \in Runs
  BY RunNames
<1>4. \A x \in Runs : run[x].inputs \subseteq Deliveries
  BY Known, RecordFields DEF TurnsTyped
<1>5. \A x : IsSent(x)' => IsSent(x)
  BY <1>2 DEF NothingSent, IsSent
<1>6. \A x \in Runs : Awaited(x)' => Awaited(x)
  BY <1>2, <1>5 DEF NothingSent, Awaited
<1>7. NotShownYet'
  BY <1>1, <1>2 DEF NotShownYet, NothingTaken
<1>8. BatchesDelivered'
  <2>1. ASSUME NEW x \in Runs, NEW d \in run'[x].inputs
        PROVE  del'[d].status \notin Unsent
    <3>1. d \in run[x].inputs /\ d \in Deliveries
      BY <1>2, <1>4, <2>1 DEF NothingSent
    <3>2. QED
      BY <1>1, <1>2, <3>1 DEF BatchesDelivered, NothingTaken
  <2>2. ASSUME NEW c \in Chats, typing'[c] # None, NEW d \in typing'[c].inputs
        PROVE  del'[d].status \notin Unsent
    <3>1. del[d].status \notin Unsent
      BY <1>1, <1>2, <2>2 DEF BatchesDelivered, NothingClaimed, Delivered, Unsent
    <3>2. d \in Deliveries
      <4>1. typing[c] # None => typing[c] \in Typings
        BY Known DEF TurnsTyped
      <4>2. typing[c] # None => typing[c].inputs \subseteq Deliveries
        BY <4>1, RecordFields
      <4>3. QED
        BY <1>2, <2>2, <4>2 DEF NothingClaimed
    <3>3. QED
      BY <1>2, <3>1, <3>2 DEF NothingTaken
  <2>3. QED
    BY <2>1, <2>2 DEF BatchesDelivered
<1>9. OwnBatches'
  <2>1. ASSUME NEW e \in Deliveries, NEW d \in run'[First(e)].inputs
        PROVE  /\ d[1] = "request" => d = e
               /\ d[1] = "outcome" => req'[d[2]].parent = None
    <3>1. d \in run[First(e)].inputs /\ d \in Deliveries
      BY <1>2, <1>3, <1>4, <2>1 DEF NothingSent
    <3>2. /\ d[1] = "request" => d = e
          /\ d[1] = "outcome" => req[d[2]].parent = None
      BY <1>1, <3>1 DEF OwnBatches
    <3>3. del[d].status # "none"
      BY <1>1, <1>3, <3>1 DEF BatchesDelivered, Unsent
    <3>4. d[1] = "outcome" => (d[2] \in Requests /\ d = Outcome(d[2]))
      BY <3>1, DeliveryNames
    <3>5. QED
      BY <1>2, <3>2, <3>3, <3>4 DEF RequestsGoOn
  <2>2. \A r \in Requests : run'[First(Asks(r))].status # "none" => req'[r].run # None
    BY <1>1, <1>2, <1>3, DeliveryNames DEF OwnBatches, NothingSent, RequestsGoOn
  <2>3. QED
    BY <2>1, <2>2 DEF OwnBatches
<1>10. TakenBy'
  <2>1. ASSUME NEW d \in Deliveries, del'[d].status = "accepted"
        PROVE  /\ del'[d].by \in Runs /\ run'[del'[d].by].status \notin {"none", "queued"}
               /\ ~(sending' # None /\ sending'.run = del'[d].by)
               /\ ~IsPersons(del'[d].by) => d \in run'[del'[d].by].inputs
    <3>1. del[d].status = "accepted" /\ del'[d].by = del[d].by
      BY <1>2, <2>1 DEF NothingTaken
    <3>2. /\ del[d].by \in Runs /\ run[del[d].by].status \notin {"none", "queued"} /\ ~IsSent(del[d].by)
          /\ ~IsPersons(del[d].by) => d \in run[del[d].by].inputs
      BY <1>1, <3>1 DEF TakenBy
    <3>3. QED
      BY <1>2, <3>1, <3>2 DEF NothingSent, IsSent
  <2>2. QED
    BY <2>1 DEF TakenBy, IsSent
<1>11. ShownTwice'
  <2>1. ASSUME NEW d \in Deliveries, del'[d].status = "accepted", recorded'[d] > 1
        PROVE  recorded'[d] = 2 /\ IsPersons(del'[d].by) /\ Again(d)'
    <3>1. del[d].status = "accepted" /\ del'[d].by = del[d].by
      BY <1>2, <2>1 DEF NothingTaken
    <3>2. recorded[d] = 2 /\ IsPersons(del[d].by) /\ Again(d)
      BY <1>1, <1>2, <2>1, <3>1 DEF ShownTwice
    <3>3. QED
      BY <1>2, <3>1, <3>2, StaysAgain
  <2>2. QED
    BY <2>1 DEF ShownTwice
<1>12. ShownLater'
  <2>1. ASSUME NEW d \in Deliveries, del'[d].status = "accepted"
        PROVE  /\ (d[1] = "request" /\ Awaited(First(d))') => recorded'[d] <= 1
               /\ (del'[d].cont # None /\ (run'[del'[d].cont].status \in {"none", "queued"}
                                            \/ (sending' # None /\ sending'.run = del'[d].cont))) => recorded'[d] <= 1
    <3>1. del[d].status = "accepted" /\ del'[d].cont = del[d].cont
      BY <1>2, <2>1 DEF NothingTaken
    <3>2. del[d].cont # None => del[d].cont \in Runs
      BY Known, RecordFields
    <3>3. /\ (d[1] = "request" /\ Awaited(First(d))) => recorded[d] <= 1
          /\ (del[d].cont # None /\ Awaited(del[d].cont)) => recorded[d] <= 1
      BY <1>1, <3>1 DEF ShownLater
    <3>4. (d[1] = "request" /\ Awaited(First(d))') => recorded'[d] <= 1
      BY <1>2, <1>3, <1>6, <3>3
    <3>5. ASSUME del'[d].cont # None,
                 \/ run'[del'[d].cont].status \in {"none", "queued"}
                 \/ sending' # None /\ sending'.run = del'[d].cont
          PROVE  recorded'[d] <= 1
      <4>1. PICK y \in Runs : y = del[d].cont
        BY <3>1, <3>2, <3>5
      <4>2. Awaited(y)'
        BY <3>1, <3>5, <4>1 DEF Awaited, IsSent
      <4>3. QED
        BY <1>2, <1>6, <3>1, <3>3, <3>5, <4>1, <4>2
    <3>6. QED
      BY <3>4, <3>5
  <2>2. QED
    BY <2>1 DEF ShownLater, Awaited, IsSent
<1>13. recorded' \in [Deliveries -> Nat]
  BY <1>1, <1>2
<1>14. QED
  BY <1>7, <1>8, <1>9, <1>10, <1>11, <1>12, <1>13 DEF ShownRest

LEMMA ShowsNothingKeeps ==
  ASSUME CoordInv, ShownInv, ShowsNothing,
         (sending' # None /\ sending'.stage = "native") => sending.stage = "native"
  PROVE  ShownInv'
<1>1. ShownRest /\ ShownNow
  BY DEF ShownInv
<1>2. ShownRest'
  BY <1>1, ShowsNothingRest
<1>3. recorded' = recorded /\ NothingTaken /\ NothingSent
  BY DEF ShowsNothing
<1>4. ASSUME sending' # None, sending'.stage = "native", NEW d \in sending'.inputs, del'[d].by # None
      PROVE  /\ recorded'[d] <= 1 /\ IsPersons(del'[d].by)
             /\ d[1] = "request" \/ del'[d].cont = sending'.run \/ (d \in Unreserved)'
  <2>1. /\ sending # None /\ sending.stage = "native"
        /\ sending'.run = sending.run /\ sending'.inputs = sending.inputs
    BY <1>3, <1>4 DEF NothingSent
  <2>2. d \in Deliveries
    BY <1>4, <2>1, SendFacts
  <2>3. del'[d].by = del[d].by /\ del'[d].cont = del[d].cont
    BY <1>3, <2>2 DEF NothingTaken
  <2>4. TakenBefore(d, sending.run)
    BY <1>1, <1>4, <2>1, <2>3 DEF ShownNow
  <2>5. d \in Unreserved => (d \in Unreserved)'
    <3>1. \A e \in Deliveries : del[e].status = "cancelled" => del'[e].status = "cancelled"
      BY <1>3 DEF NothingTaken
    <3>2. \A e \in Deliveries : run[First(e)].inputs \subseteq run'[First(e)].inputs
      BY <1>3, RunNames DEF NothingSent
    <3>3. QED
      BY <3>1, <3>2, StillUnreserved
  <2>6. QED
    BY <1>3, <2>1, <2>3, <2>4, <2>5 DEF TakenBefore
<1>5. ShownNow'
  BY <1>4 DEF ShownNow, TakenBefore
<1>6. QED
  BY <1>2, <1>5 DEF ShownInv

LEMMA WanesNothingTaken ==
  ASSUME CoordInv, Wanes(del', del, Given_up)
  PROVE  NothingTaken
<1>1. ASSUME NEW d \in Deliveries
      PROVE  /\ del'[d].cont = del[d].cont /\ del'[d].by = del[d].by
             /\ del'[d].status \in Unsent => del[d].status \in Unsent
             /\ del'[d].status = "delivered" => del[d].status \in Unsent \cup {"delivered"}
             /\ (del'[d].status = "accepted") <=> (del[d].status = "accepted")
             /\ del[d].status = "cancelled" => del'[d].status = "cancelled"
  <2>1. /\ del'[d].cont = del[d].cont /\ del'[d].by = del[d].by
        /\ del'[d].status \in Unsent => del[d].status \in Unsent
        /\ del'[d].status = "delivered" => del[d].status = "delivered"
        /\ del[d].status = "accepted" => del'[d].status = "accepted"
        /\ del[d].status = "cancelled" => del'[d].status = "cancelled"
    BY Known, WaningStatus
  <2>2. del[d].status \in DeliveryStatus
    BY Known, RecordFields
  <2>3. del'[d].status = "accepted" => del[d].status = "accepted"
    BY <2>2 DEF Wanes, Unsent, Given_up, DeliveryStatus
  <2>4. QED
    BY <2>1, <2>3
<1>2. QED
  BY <1>1 DEF NothingTaken

(* The runs and the send stay as they are, and nobody types.                *)
LEMMA QuietShown ==
  ASSUME CoordInv, ShownInv, UNCHANGED <<run, sending, typing, given, lost>>, NothingTaken, RequestsGoOn
  PROVE  ShownInv'
<1>1. NothingSent /\ NothingClaimed
  BY DEF NothingSent, NothingClaimed
<1>2. recorded' = recorded
  BY RecordedStays DEF AtHarness
<1>3. ShowsNothing
  BY <1>1, <1>2 DEF ShowsNothing
<1>4. QED
  BY <1>3, ShowsNothingKeeps

LEMMA FinishGoesOn ==
  ASSUME CoordInv, NEW R, NEW status \in Closed, NEW dl,
         Alike(dl, del, {}), Wanes(dl, del, Given_up), Finish(dl, R, status)
  PROVE  NothingTaken /\ RequestsGoOn
<1>1. req' = Ended(R, status) /\ del' = Settled(dl, R)
  BY DEF Finish
<1>2. Wanes(del', del, Given_up)
  BY <1>1, GivenUpWithin, FinishWanes
<1>3. \A q \in Requests : req'[q].parent = req[q].parent /\ req'[q].run = req[q].run
  BY <1>1, EndedParents
<1>4. QED
  BY <1>2, <1>3, WanesNothingTaken DEF RequestsGoOn

LEMMA RequestsEndShown ==
  ASSUME CoordInv, ShownInv, NEW R, NEW status \in Closed, Finish(del, R, status),
         UNCHANGED <<run, sending, typing, given, lost>>
  PROVE  ShownInv'
<1>1. Alike(del, del, {}) /\ Wanes(del, del, Given_up)
  BY Known, DelWanesItself
<1>2. QED
  BY <1>1, FinishGoesOn, QuietShown

LEMMA FailedShown ==
  ASSUME CoordInv, ShownInv, NEW D, failAgentDelivery(D), UNCHANGED <<run, sending, typing, given, lost>>
  PROVE  ShownInv'
<1>1. PICK R : Finish(Failed(D), R, "failed")
  BY DEF failAgentDelivery
<1>2. Alike(Failed(D), del, {}) /\ Wanes(Failed(D), del, Given_up)
  BY FailedIsAlike, FailedWanes
<1>3. QED
  BY <1>1, <1>2, ClosedStatus, FinishGoesOn, QuietShown

LEMMA DenyShown ==
  ASSUME CoordInv, ShownInv, NEW d \in Deliveries, Deny(d)
  PROVE  ShownInv'
<1>1. /\ del[d].status = "awaiting_approval"
      /\ Finish(Gone(del, {d}, "denied"), Asked({d}), "cancelled")
      /\ UNCHANGED <<run, sending, typing, given, lost>>
  BY DEF Deny
<1>2. del \in [Deliveries -> DelRecords] /\ RecordsInv
  BY Known
<1>3. d[1] # "outcome"
  BY <1>1, <1>2, DeliveryNames DEF RecordsInv, AnsweredOnce
<1>4. Alike(Gone(del, {d}, "denied"), del, {})
  BY <1>2, <1>3, GoneIsAlike
<1>5. Wanes(Gone(del, {d}, "denied"), del, Given_up)
  BY <1>1, <1>2, <1>3, DeniedWanes
<1>6. QED
  BY <1>1, <1>4, <1>5, ClosedStatus, FinishGoesOn, QuietShown

LEMMA EndingsShown ==
  ASSUME CoordInv, ShownInv,
         \/ \E r \in Requests : Reply(r) \/ Cancel(r) \/ Reconcile(r)
         \/ \E c \in Chats : Stop(c)
  PROVE  ShownInv'
<1>1. \A r : Reply(r) => \E R : \E s \in Closed : Finish(del, R, s) /\ UNCHANGED <<run, sending, typing, given, lost>>
  BY ClosedStatus DEF Reply, finishAgentRequest
<1>2. \A r : Cancel(r) => \E R : \E s \in Closed : Finish(del, R, s) /\ UNCHANGED <<run, sending, typing, given, lost>>
  BY ClosedStatus DEF Cancel, finishAgentRequest
<1>3. \A r : Reconcile(r) => \E R : \E s \in Closed : Finish(del, R, s) /\ UNCHANGED <<run, sending, typing, given, lost>>
  BY ClosedStatus DEF Reconcile, finishAgentRequest
<1>4. \A c : Stop(c) => \E R : \E s \in Closed : Finish(del, R, s) /\ UNCHANGED <<run, sending, typing, given, lost>>
  BY ClosedStatus DEF Stop, finishAgentRequest
<1>5. \E R : \E s \in Closed : Finish(del, R, s) /\ UNCHANGED <<run, sending, typing, given, lost>>
  BY <1>1, <1>2, <1>3, <1>4
<1>6. QED
  BY <1>5, RequestsEndShown

LEMMA HoldsShown ==
  ASSUME CoordInv, ShownInv,
         NEW c \in Chats, Hold(c) \/ Release(c) \/ Archive(c) \/ TimePasses(c)
  PROVE  ShownInv'
<1>1. req' = req /\ del' = del /\ UNCHANGED <<run, sending, typing, given, lost>>
  BY DEF Hold, Release, Archive, TimePasses
<1>2. NothingTaken
  BY <1>1, DelWanesItself, WanesNothingTaken
<1>3. QED
  BY <1>1, <1>2, QuietShown DEF RequestsGoOn

LEMMA DeleteShown ==
  ASSUME CoordInv, ShownInv, NEW c \in Chats, Delete(c)
  PROVE  ShownInv'
<1>1. PICK R, D : /\ req' = Ended(R, "cancelled")
                  /\ del' = Gone(Settled(del, R), D, "cancelled")
                  /\ UNCHANGED <<run, sending, typing, given, lost>>
  BY Zenon DEF Delete
<1>2. RecordsInv /\ RecordsTyped /\ del \in [Deliveries -> DelRecords]
  BY Known
<1>3. \A q \in Requests : Open(q) => del[Outcome(q)].status \in Unsent
  BY <1>2 DEF RecordsInv, AnsweredOnce, Open, OpenStatus, Closed, Unsent
<1>4. Wanes(Settled(del, R), del, Given_up)
  BY <1>2, <1>3, GivenUpWithin, SettledWanes
<1>5. Wanes(del', Settled(del, R), Given_up)
  <2>1. Settled(del, R) \in [Deliveries -> DelRecords]
    BY <1>4 DEF Wanes
  <2>2. QED
    BY <1>1, <2>1, GivenUpWithin, GoneWanes
<1>6. Wanes(del', del, Given_up)
  BY <1>4, <1>5, GivenUpWithin, WanesTwice
<1>7. \A q \in Requests : req'[q].parent = req[q].parent /\ req'[q].run = req[q].run
  BY <1>1, ClosedStatus, EndedParents
<1>8. QED
  BY <1>1, <1>6, <1>7, WanesNothingTaken, QuietShown DEF RequestsGoOn

LEMMA SubmitShown ==
  ASSUME CoordInv, ShownInv, NEW d \in Deliveries, submitAgentRequest(d)
  PROVE  ShownInv'
<1>1. /\ d[1] # "outcome" /\ del[d].status = "none"
      /\ del' = [del EXCEPT ![d].status = Permitted(d)]
      /\ UNCHANGED <<run, sending, typing, given, lost>>
  BY DEF submitAgentRequest, MaySubmit
<1>2. req' = [r \in Requests |-> IF d = Asks(r)
                THEN [status |-> "queued", run |-> None, parent |-> Assignment(Source[r])] ELSE req[r]]
  BY DEF submitAgentRequest
<1>3. Permitted(d) \in Unsent /\ del[d].status \in Unsent
  BY <1>1 DEF Permitted, Unsent
<1>4. NothingTaken
  BY <1>1, <1>3, OneStatusWanes, WanesNothingTaken
<1>5. ASSUME NEW q \in Requests, d = Asks(q)
      PROVE  del[Outcome(q)].status = "none" /\ req[q].run = None
  <2>1. req[q].status = "none" /\ req[q].run = None
    BY <1>1, <1>5, Known DEF RecordsInv, AskedFirst
  <2>2. QED
    BY <2>1, Known DEF RecordsInv, AnsweredOnce, Closed
<1>6. \A q \in Requests : d # Asks(q) => (req'[q].parent = req[q].parent /\ req'[q].run = req[q].run)
  BY <1>2
<1>7. RequestsGoOn
  BY <1>5, <1>6 DEF RequestsGoOn
<1>8. QED
  BY <1>1, <1>4, <1>7, QuietShown

LEMMA AllowShown ==
  ASSUME CoordInv, ShownInv, NEW d \in Deliveries, Allow(d)
  PROVE  ShownInv'
<1>1. /\ del[d].status = "awaiting_approval" /\ del' = [del EXCEPT ![d].status = "queued"]
      /\ req' = req /\ UNCHANGED <<run, sending, typing, given, lost>>
  BY DEF Allow
<1>2. del[d].status \in Unsent /\ "queued" \in Unsent
  BY <1>1 DEF Unsent
<1>3. NothingTaken
  BY <1>1, <1>2, OneStatusWanes, WanesNothingTaken
<1>4. QED
  BY <1>1, <1>3, QuietShown DEF RequestsGoOn

LEMMA PersistShown ==
  ASSUME CoordInv, ShownInv, NEW d \in Deliveries, Persist(d)
  PROVE  ShownInv'
<1>1. /\ del[d].status = "queued" /\ UNCHANGED <<run, sending, typing, given, lost>>
      /\ \/ Finish(Gone(del, {d}, "cancelled"), Asked({d}), "cancelled")
         \/ failAgentDelivery({d})
         \/ del' = [del EXCEPT ![d].status = "delivered"] /\ req' = req
  BY DEF Persist
<1>2. CASE Finish(Gone(del, {d}, "cancelled"), Asked({d}), "cancelled")
  <2>1. Alike(Gone(del, {d}, "cancelled"), del, {})
    BY Known, GoneIsAlike
  <2>2. Wanes(Gone(del, {d}, "cancelled"), del, Given_up)
    BY Known, GivenUpWithin, GoneWanes
  <2>3. QED
    BY <1>1, <1>2, <2>1, <2>2, ClosedStatus, FinishGoesOn, QuietShown
<1>3. CASE failAgentDelivery({d})
  BY <1>1, <1>3, FailedShown
<1>4. CASE del' = [del EXCEPT ![d].status = "delivered"] /\ req' = req
  <2>1. del \in [Deliveries -> DelRecords]
    BY Known
  <2>2. \A e \in Deliveries : /\ e # d => del'[e] = del[e]
                              /\ e = d => del'[e] = [del[d] EXCEPT !.status = "delivered"]
    BY <1>4, <2>1
  <2>3. del'[d].status = "delivered" /\ del'[d].cont = del[d].cont /\ del'[d].by = del[d].by
    BY <2>1, <2>2 DEF DelRecords
  <2>4. NothingTaken
    BY <1>1, <2>2, <2>3 DEF NothingTaken, Unsent
  <2>5. QED
    BY <1>1, <1>4, <2>4, QuietShown DEF RequestsGoOn
<1>5. QED
  BY <1>1, <1>2, <1>3, <1>4

LEMMA GivenUpShown ==
  ASSUME CoordInv, ShownInv,
         \/ \E d \in Deliveries : Abandon(d)
         \/ \E c \in Chats : ActivateGone(c)
  PROVE  ShownInv'
<1>1. \A d : Abandon(d) => \E D : failAgentDelivery(D) /\ UNCHANGED <<run, sending, typing, given, lost>>
  BY DEF Abandon
<1>2. \A c : ActivateGone(c) => \E D : failAgentDelivery(D) /\ UNCHANGED <<run, sending, typing, given, lost>>
  BY DEF ActivateGone
<1>3. QED
  BY <1>1, <1>2, FailedShown

(* What a run of the agents has is its own.                                 *)
LEMMA BatchOf ==
  ASSUME CoordInv, ReservedInv, OwnBatches, NEW y \in Runs, ~IsPersons(y), NEW d \in run[y].inputs
  PROVE  /\ d \in Deliveries
         /\ d[1] = "request" => y = First(d)
         /\ del[d].cont # None => y = del[d].cont
<1>1. d \in Deliveries
  <2>1. run[y] \in RunRecords
    BY Known DEF TurnsTyped
  <2>2. QED
    BY <2>1, RecordFields
<1>2. del[d].cont # None => d[1] = "outcome"
  BY <1>1, Known DEF RecordsInv, AnswersContinue
<1>3. CASE IsResume(y)
  <2>1. del[d].cont = y /\ y # None
    BY <1>1, <1>3, RunNames DEF ReservedInv, Updating
  <2>2. QED
    BY <1>1, <1>2, <2>1
<1>4. ASSUME NEW e \in Deliveries, y = First(e)
      PROVE  /\ d[1] = "request" => y = First(d)
             /\ del[d].cont # None => y = del[d].cont
  <2>1. /\ d[1] = "request" => d = e
        /\ d[1] = "outcome" => req[d[2]].parent = None
    BY <1>4 DEF OwnBatches
  <2>2. del[d].cont = None
    <3>1. SUFFICES ASSUME del[d].cont # None
                   PROVE  FALSE
      OBVIOUS
    <3>2. PICK q \in Requests : d = Outcome(q) /\ d[2] = q
      BY <1>1, <1>2, <3>1, DeliveryNames
    <3>3. req[q].parent \in Requests
      BY <3>1, <3>2, Known DEF AssignmentsInv, AnswersRead
    <3>4. QED
      BY <1>2, <2>1, <3>1, <3>2, <3>3, RunNames
  <2>3. QED
    BY <1>4, <2>1, <2>2
<1>5. QED
  BY <1>1, <1>3, <1>4, RunKinds

LEMMA TypeShown ==
  ASSUME CoordInv, ShownInv, NEW c \in Chats, Type(c)
  PROVE  ShownInv'
<1>1. /\ typing' = [typing EXCEPT ![c] = [run |-> Person(c, typed[c] + 1), inputs |-> Context(c)]]
      /\ UNCHANGED <<req, del, run, sending, given, lost>>
  BY DEF Type
<1>2. typing \in [Chats -> Typings \cup {None}]
  BY Known DEF TurnsTyped
<1>3. /\ \A e \in Chats : e # c => typing'[e] = typing[e]
      /\ typing'[c].inputs = Context(c)
  BY <1>1, <1>2
<1>4. \A d \in Context(c) : d \in Deliveries /\ Delivered(d)
  BY DEF Context, Waits, Delivered
<1>5. NothingClaimed
  BY <1>3, <1>4 DEF NothingClaimed
<1>6. NothingTaken
  BY <1>1, DelWanesItself, WanesNothingTaken
<1>7. NothingSent /\ RequestsGoOn
  BY <1>1 DEF NothingSent, RequestsGoOn
<1>8. recorded' = recorded
  BY <1>1, RecordedStays DEF AtHarness
<1>9. ShowsNothing
  BY <1>5, <1>6, <1>7, <1>8 DEF ShowsNothing
<1>10. QED
  BY <1>1, <1>9, ShowsNothingKeeps

LEMMA TypedFailsShown ==
  ASSUME CoordInv, CountsTyped, ShownInv, NEW c \in Chats, TypedFails(c)
  PROVE  ShownInv'
<1>1. /\ typing' = [typing EXCEPT ![c] = None]
      /\ UNCHANGED <<req, del, run, sending>>
  BY DEF TypedFails
<1>2. typing \in [Chats -> Typings \cup {None}]
  BY Known DEF TurnsTyped
<1>3. \A e \in Chats : typing'[e] \in {typing[e], None}
  BY <1>1, <1>2
<1>4. NothingClaimed
  BY <1>3 DEF NothingClaimed
<1>5. NothingTaken
  BY <1>1, DelWanesItself, WanesNothingTaken
<1>6. NothingSent /\ RequestsGoOn
  BY <1>1 DEF NothingSent, RequestsGoOn
<1>7. recorded' = recorded
  <2>1. AtHarness' = AtHarness
    BY <1>1 DEF AtHarness
  <2>2. \/ UNCHANGED <<given, lost>>
        \/ given' = More(given, typing[c].inputs) /\ lost' = More(lost, typing[c].inputs)
    BY DEF TypedFails, Counted, Unrecorded
  <2>3. QED
    BY <2>1, <2>2, RecordedStays, RecordedNot
<1>8. ShowsNothing
  BY <1>4, <1>5, <1>6, <1>7 DEF ShowsNothing
<1>9. QED
  BY <1>1, <1>8, ShowsNothingKeeps

LEMMA SendMovesShown ==
  ASSUME CoordInv, ShownInv, sending # None, sending.stage # "native",
         NEW s \in {"queued", "running"}, run' = [run EXCEPT ![sending.run].status = s],
         sending' = None \/ sending' = [sending EXCEPT !.stage = "started"],
         UNCHANGED <<req, del, typing, given, lost>>
  PROVE  ShownInv'
<1>1. PICK x \in Runs : x = sending.run
  BY SendFacts
<1>2. /\ sending \in Sends /\ run[x].status \in {"queued", "running"}
  BY <1>1, SendFacts
<1>3. /\ run'[x].status = s /\ \A y \in Runs : run'[y].inputs = run[y].inputs
      /\ \A y \in Runs : y # x => run'[y] = run[y]
  BY <1>1, Known, RunStepFields DEF TurnsInv
<1>4. sending' # None => /\ sending'.run = sending.run /\ sending'.inputs = sending.inputs
                         /\ sending'.stage = "started"
  BY <1>2 DEF Sends
<1>5. NothingSent
  BY <1>1, <1>2, <1>3, <1>4 DEF NothingSent, IsSent
<1>6. NothingTaken
  BY DelWanesItself, WanesNothingTaken
<1>7. NothingClaimed /\ RequestsGoOn
  BY DEF NothingClaimed, RequestsGoOn
<1>8. recorded' = recorded
  BY <1>4, RecordedStays DEF AtHarness
<1>9. ShowsNothing
  BY <1>5, <1>6, <1>7, <1>8 DEF ShowsNothing
<1>10. QED
  BY <1>4, <1>9, ShowsNothingKeeps

LEMMA SendsShown ==
  ASSUME CoordInv, ShownInv, Boundary \/ HeldBack \/ SendRetry
  PROVE  ShownInv'
<1>1. CASE Boundary
  BY <1>1, SendMovesShown DEF Boundary
<1>2. CASE HeldBack
  BY <1>2, SendMovesShown DEF HeldBack
<1>3. CASE SendRetry
  BY <1>3, SendMovesShown DEF SendRetry
<1>4. QED
  BY <1>1, <1>2, <1>3

LEMMA SendFailsShown ==
  ASSUME CoordInv, CountsTyped, ShownInv, SendFails
  PROVE  ShownInv'
<1>1. PICK own, R :
        /\ sending # None
        /\ run' = [run EXCEPT ![sending.run].status = "failed"]
        /\ Finish(Failed(own), R, "failed")
        /\ sending' = None
        /\ UNCHANGED <<typing, given>> /\ lost' = More(lost, AtHarness)
  BY Zenon DEF SendFails, Unrecorded
<1>2. PICK x \in Runs : x = sending.run
  BY <1>1, SendFacts
<1>3. /\ run'[x].status = "failed" /\ \A y \in Runs : run'[y].inputs = run[y].inputs
      /\ \A y \in Runs : y # x => run'[y] = run[y]
  BY <1>1, <1>2, Known, RunStepFields DEF TurnsInv
<1>4. run[x].status \in {"queued", "running"}
  BY <1>1, <1>2, SendFacts
<1>5. NothingSent
  BY <1>1, <1>3, <1>4 DEF NothingSent
<1>6. Alike(Failed(own), del, {}) /\ Wanes(Failed(own), del, Given_up)
  BY FailedIsAlike, FailedWanes
<1>7. NothingTaken /\ RequestsGoOn
  BY <1>1, <1>6, ClosedStatus, FinishGoesOn
<1>8. NothingClaimed
  BY <1>1 DEF NothingClaimed
<1>9. recorded' = recorded
  BY <1>1, RecordedNot DEF AtHarness
<1>10. ShowsNothing
  BY <1>5, <1>7, <1>8, <1>9 DEF ShowsNothing
<1>11. QED
  BY <1>1, <1>10, ShowsNothingKeeps

LEMMA RestartShown ==
  ASSUME CoordInv, CountsTyped, ShownInv, Restart
  PROVE  ShownInv'
<1>1. /\ sending' = None /\ typing' = [c \in Chats |-> None]
      /\ run' = [x \in Runs |-> IF run[x].status = "running"
                                THEN [run[x] EXCEPT !.status = "failed"] ELSE run[x]]
      /\ req' = req /\ del' = del
  BY DEF Restart
<1>2. ASSUME NEW x \in Runs
      PROVE  /\ run'[x].inputs = run[x].inputs
             /\ run'[x].status = IF run[x].status = "running" THEN "failed" ELSE run[x].status
  <2>1. run[x] \in RunRecords
    BY Known DEF TurnsTyped
  <2>2. /\ [run[x] EXCEPT !.status = "failed"].inputs = run[x].inputs
        /\ [run[x] EXCEPT !.status = "failed"].status = "failed"
    BY <2>1 DEF RunRecords
  <2>3. QED
    BY <1>1, <2>2
<1>3. NothingSent /\ NothingClaimed /\ RequestsGoOn
  BY <1>1, <1>2 DEF NothingSent, NothingClaimed, RequestsGoOn
<1>4. NothingTaken
  BY <1>1, DelWanesItself, WanesNothingTaken
<1>5. recorded' = recorded
  <2>1. PICK had : given' = More(given, had) /\ lost' = More(More(lost, had), AtHarness)
    BY Zenon DEF Restart, Counted
  <2>2. AtHarness' = {}
    BY <1>1 DEF AtHarness
  <2>3. QED
    BY <2>1, <2>2, RecordedNot
<1>6. ShowsNothing
  BY <1>3, <1>4, <1>5 DEF ShowsNothing
<1>7. QED
  BY <1>1, <1>6, ShowsNothingKeeps

LEMMA EndTurnShown ==
  ASSUME CoordInv, ShownInv, NEW c \in Chats, NEW ok \in BOOLEAN, EndTurn(c, ok)
  PROVE  ShownInv'
<1>1. PICK x : x = Producer(c)
  OBVIOUS
<1>2. /\ x \in Runs /\ run[x].status = "running"
      /\ run'[x].status = IF ok THEN "completed" ELSE "failed"
      /\ \A y \in Runs : y # x => run'[y] = run[y]
  BY <1>1, EndTurnTurns
<1>3. /\ run' = [run EXCEPT ![x].status = IF ok THEN "completed" ELSE "failed"]
      /\ settleAgentRequestsForRun(x, ok)
      /\ UNCHANGED <<sending, typing, given, lost>>
  BY <1>1 DEF EndTurn
<1>4. \A y \in Runs : run'[y].inputs = run[y].inputs
  BY <1>2, <1>3, Known, RunStepFields DEF TurnsInv
<1>5. PICK W, E :
        /\ req' = [r \in Requests |-> IF r \in W THEN [req[r] EXCEPT !.status = "waiting"]
                                      ELSE Ended(E, IF ok THEN "completed" ELSE "failed")[r]]
        /\ del' = Settled(del, E)
  BY <1>3, Zenon DEF settleAgentRequestsForRun
<1>6. \A q \in Requests : req'[q].parent = req[q].parent /\ req'[q].run = req[q].run
  <2>1. \A q \in Requests :
          /\ Ended(E, IF ok THEN "completed" ELSE "failed")[q].parent = req[q].parent
          /\ Ended(E, IF ok THEN "completed" ELSE "failed")[q].run = req[q].run
    BY ClosedStatus, EndedParents
  <2>2. \A q \in Requests : /\ [req[q] EXCEPT !.status = "waiting"].parent = req[q].parent
                            /\ [req[q] EXCEPT !.status = "waiting"].run = req[q].run
    BY Known DEF ReqRecords
  <2>3. QED
    BY <1>5, <2>1, <2>2
<1>7. Wanes(del', del, Given_up)
  <2>1. Alike(del, del, {}) /\ Wanes(del, del, Given_up)
    BY Known, DelWanesItself
  <2>2. QED
    BY <1>5, <2>1, GivenUpWithin, FinishWanes
<1>8. NothingTaken
  BY <1>7, WanesNothingTaken
<1>9. NothingSent
  BY <1>2, <1>3, <1>4 DEF NothingSent
<1>10. NothingClaimed /\ RequestsGoOn
  BY <1>3, <1>6 DEF NothingClaimed, RequestsGoOn
<1>11. recorded' = recorded
  BY <1>3, RecordedStays DEF AtHarness
<1>12. ShowsNothing
  BY <1>8, <1>9, <1>10, <1>11 DEF ShowsNothing
<1>13. QED
  BY <1>3, <1>12, ShowsNothingKeeps

(* The harness is given what the pass's send has: what was taken before is  *)
(* what this run was admitted with.                                         *)
LEMMA GiveShown ==
  ASSUME CoordInv, ReservedInv, CountsTyped, ShownInv, Give
  PROVE  ShownInv'
<1>1. /\ sending # None /\ sending.stage = "started"
      /\ Admits(sending.run, sending.inputs)
      /\ sending' = [sending EXCEPT !.stage = "native"]
      /\ given' = More(given, sending.inputs) /\ UNCHANGED <<req, del, run, typing, lost>>
  BY DEF Give, Counted
<1>2. PICK x \in Runs : x = sending.run
  BY <1>1, SendFacts
<1>3. sending \in Sends /\ ~IsPersons(x) /\ x # None /\ IsSent(x)
  BY <1>1, <1>2, SendFacts, RunNames DEF IsSent
<1>4. sending'.run = x /\ sending'.inputs = sending.inputs
  BY <1>1, <1>2, <1>3 DEF Sends
<1>5. ShownRest /\ OwnBatches /\ TakenBy /\ ShownLater
  BY DEF ShownInv, ShownRest
<1>6. NothingSent /\ NothingClaimed /\ RequestsGoOn
  BY <1>1, <1>2, <1>4 DEF NothingSent, NothingClaimed, RequestsGoOn
<1>7. NothingTaken
  BY <1>1, DelWanesItself, WanesNothingTaken
<1>7a. recorded' = recorded
  <2>1. sending' \in Sends /\ sending'.stage = "native"
    BY <1>1, <1>3 DEF Sends
  <2>2. AtHarness = {} /\ AtHarness' = sending.inputs
    BY <1>1, <1>4, <2>1, NoneAssumption DEF AtHarness
  <2>3. QED
    BY <1>1, <2>2, RecordedNot
<1>8. ShownRest'
  BY <1>5, <1>6, <1>7, <1>7a, ShowsNothingRest DEF ShowsNothing
<1>9. ASSUME NEW d \in sending.inputs, del[d].by # None
      PROVE  /\ recorded[d] <= 1 /\ IsPersons(del[d].by)
             /\ d[1] = "request" \/ del[d].cont = x
  <2>1. d \in Deliveries /\ d \in run[x].inputs
    BY <1>1, <1>2, <1>9, SendFacts DEF ReservedInv, SendsBatch
  <2>2. PICK y : y = del[d].by
    OBVIOUS
  <2>3. del[d].status = "accepted"
    BY <1>9, <2>1 DEF ReservedInv, TakenIsAccepted
  <2>4. /\ y \in Runs /\ ~IsSent(y) /\ y # x
        /\ ~IsPersons(y) => d \in run[y].inputs
    BY <1>3, <1>5, <2>1, <2>2, <2>3 DEF TakenBy
  <2>5. d[1] = "request" \/ del[d].cont = x
    BY <1>1, <1>2, <1>9, <2>2, <2>4 DEF Admits, TakenElsewhere
  <2>6. d[1] = "request" => x = First(d)
    BY <1>3, <1>5, <2>1, BatchOf
  <2>7. IsPersons(y)
    <3>1. ~IsPersons(y) => /\ d[1] = "request" => y = First(d)
                           /\ del[d].cont # None => y = del[d].cont
      BY <1>5, <2>4, BatchOf
    <3>2. QED
      BY <1>3, <2>4, <2>5, <2>6, <3>1
  <2>8. recorded[d] <= 1
    <3>1. Awaited(x)
      BY <1>3 DEF Awaited
    <3>2. /\ (d[1] = "request" /\ Awaited(First(d))) => recorded[d] <= 1
          /\ (del[d].cont # None /\ Awaited(del[d].cont)) => recorded[d] <= 1
      BY <1>5, <2>1, <2>3 DEF ShownLater
    <3>3. QED
      BY <1>3, <2>5, <2>6, <3>1, <3>2
  <2>9. QED
    BY <2>2, <2>5, <2>7, <2>8
<1>10. ShownNow'
  <2>1. \A d \in sending'.inputs : del'[d].by # None =>
          /\ recorded'[d] <= 1 /\ IsPersons(del'[d].by)
          /\ d[1] = "request" \/ del'[d].cont = sending'.run \/ (d \in Unreserved)'
    BY <1>1, <1>4, <1>7a, <1>9
  <2>2. QED
    BY <2>1 DEF ShownNow, TakenBefore
<1>11. QED
  BY <1>8, <1>10 DEF ShownInv

(* What a person's message takes no turn of the agents has taken.           *)
LEMMA ClaimedUntaken ==
  ASSUME CoordInv, ReservedInv, ShownInv, NEW x \in Runs, IsPersons(x), run[x].status = "none",
         NEW I \in SUBSET Deliveries, ~TakenElsewhere(x, I), NEW d \in I
  PROVE  del[d].status # "accepted"
<1>1. SUFFICES ASSUME del[d].status = "accepted"
               PROVE  FALSE
  OBVIOUS
<1>2. PICK y : y = del[d].by
  OBVIOUS
<1>3. y \in Runs /\ y # x /\ y # None
  BY <1>1, <1>2, RunNames DEF ShownInv, ShownRest, TakenBy
<1>4. del[d].cont = x \/ (d[1] = "request" /\ req[d[2]].run = x)
  BY <1>2, <1>3 DEF TakenElsewhere
<1>5. del[d].cont # x
  BY RunNames, RunKinds DEF ReservedInv, Updating
<1>6. d[1] = "request" => req[d[2]].run # x
  <2>1. ASSUME NEW r \in Requests
        PROVE  req[r].run # x
    <3>1. \A z \in RunsOf(r) : ~IsPersons(z)
      BY RunNames
    <3>2. QED
      BY <3>1, RunNames, Known DEF AssignmentsInv, ItsOwnRun
  <2>2. QED
    BY <2>1, DeliveryNames
<1>7. QED
  BY <1>4, <1>5, <1>6

LEMMA TypedTakenShown ==
  ASSUME CoordInv, ReservedInv, CountsTyped, ShownInv, NEW c \in Chats, TypedTaken(c)
  PROVE  ShownInv'
<1> DEFINE t == typing[c]
<1>1. /\ t # None /\ typing' = [typing EXCEPT ![c] = None]
      /\ ~TakenElsewhere(t.run, t.inputs)
      /\ run' = [run EXCEPT ![t.run] = [status |-> "running", inputs |-> t.inputs]]
      /\ del' = Accept(t.run, t.inputs) /\ Counted(t.inputs)
      /\ req' = req /\ sending' = sending /\ lost' = lost
  BY DEF TypedTaken
<1>2. TurnsTyped /\ PersonsNext /\ TurnsInv
  BY Known DEF TurnsInv
<1>3. t \in Typings /\ t.inputs \subseteq Deliveries
  BY <1>1, <1>2 DEF TurnsTyped, Typings
<1>4. /\ typed[c] \in 1..2 /\ t.run = Person(c, typed[c]) /\ run[t.run].status = "none"
  BY <1>1, <1>2 DEF PersonsNext
<1>5. PICK I \in SUBSET Deliveries : I = t.inputs
  BY <1>3
<1>6. PICK x \in Runs : x = t.run /\ IsPersons(x) /\ run[x].status = "none"
  BY <1>4, RunNames
<1>7. \A d \in I : Claimed(d) /\ del[d].status \notin Unsent
  BY <1>1, <1>5 DEF ShownInv, ShownRest, BatchesDelivered, Claimed
<1>8. typing'[c] = None /\ \A e \in Chats : e # c => typing'[e] = typing[e]
  BY <1>1, <1>2 DEF TurnsTyped
<1>9. /\ del' = Accept(x, I) /\ ~TakenElsewhere(x, I)
      /\ run' = [run EXCEPT ![x] = [status |-> "running", inputs |-> I]]
      /\ recorded' = [d \in Deliveries |-> recorded[d] + IF d \in I THEN 1 ELSE 0]
  BY <1>1, <1>5, <1>6, RecordedMore DEF Counted, AtHarness
<1> HIDE DEF t
<1>10. /\ run'[x].status = "running" /\ run'[x].inputs = I
       /\ \A y \in Runs : y # x => run'[y] = run[y]
  <2>1. run'[x] = [status |-> "running", inputs |-> I] /\ \A y \in Runs : y # x => run'[y] = run[y]
    BY <1>2, <1>9 DEF TurnsTyped
  <2>2. QED
    BY <2>1
<1>11. /\ \A y \in Runs : ~IsPersons(y) => run'[y] = run[y]
       /\ \A e \in Deliveries : First(e) \in Runs /\ run'[First(e)] = run[First(e)]
  BY <1>6, <1>10, RunNames
<1>12. \A d : d \in Unreserved => (d \in Unreserved)'
  BY <1>9, <1>11, AcceptKeepsRest
<1>13. \A d \in Deliveries :
         /\ del'[d].cont = del[d].cont
         /\ (d \in I /\ del[d].status = "delivered") =>
              (del'[d].status = "accepted" /\ del'[d].by = x)
         /\ (d \notin I \/ del[d].status # "delivered") => del'[d] = del[d]
  BY <1>9, AcceptFields
<1>14. \A d \in I : del[d].status # "accepted"
  BY <1>6, <1>9, ClaimedUntaken
<1>15. /\ recorded \in [Deliveries -> Nat] /\ NotShownYet /\ BatchesDelivered
       /\ OwnBatches /\ TakenBy /\ ShownTwice /\ ShownLater /\ ShownNow
  BY DEF ShownInv, ShownRest
<1>16. ~IsSent(x)
  BY <1>6, SendFacts DEF IsSent
<1>17. \A d \in Deliveries : del'[d].status = "accepted" =>
         \/ del[d].status = "accepted" /\ del'[d] = del[d] /\ recorded'[d] = recorded[d]
         \/ d \in I /\ del'[d].by = x /\ recorded'[d] = 1
  <2>1. ASSUME NEW d \in Deliveries, del'[d].status = "accepted", d \in I
        PROVE  del'[d].by = x /\ recorded'[d] = 1
    <3>1. del[d].status = "delivered"
      BY <1>13, <1>14, <2>1
    <3>2. recorded[d] = 0
      BY <1>15, <3>1 DEF NotShownYet
    <3>3. QED
      BY <1>9, <1>13, <2>1, <3>1, <3>2
  <2>2. ASSUME NEW d \in Deliveries, del'[d].status = "accepted", d \notin I
        PROVE  del[d].status = "accepted" /\ del'[d] = del[d] /\ recorded'[d] = recorded[d]
    BY <1>9, <1>13, <1>15, <2>2
  <2>3. QED
    BY <2>1, <2>2
<1>18. \A d \in Deliveries : recorded'[d] \in Nat
  <2>1. \A d \in Deliveries : recorded[d] \in Nat
    BY <1>15
  <2>2. QED
    BY <1>9, <2>1
<1>19. recorded' \in [Deliveries -> Nat]
  BY <1>9, <1>18
<1>20. NotShownYet'
  <2>1. ASSUME NEW d \in Deliveries, del'[d].status \in Unsent \cup {"delivered"}
        PROVE  recorded'[d] = 0
    <3>1. d \notin I
      BY <1>7, <1>13, <2>1 DEF Unsent
    <3>2. recorded[d] = 0
      BY <1>13, <1>15, <2>1, <3>1 DEF NotShownYet
    <3>3. QED
      BY <1>9, <3>1, <3>2
  <2>2. QED
    BY <2>1 DEF NotShownYet
<1>21. BatchesDelivered'
  <2>1. \A d \in Deliveries : del[d].status \notin Unsent => del'[d].status \notin Unsent
    BY <1>13 DEF Unsent
  <2>2. ASSUME NEW y \in Runs, NEW d \in run'[y].inputs
        PROVE  del'[d].status \notin Unsent
    <3>1. CASE y = x
      BY <1>7, <1>10, <2>1, <2>2, <3>1
    <3>2. CASE y # x
      <4>1. d \in run[y].inputs
        BY <1>10, <2>2, <3>2
      <4>2. run[y] \in RunRecords
        BY <1>2 DEF TurnsTyped
      <4>3. QED
        BY <1>15, <2>1, <4>1, <4>2, RecordFields DEF BatchesDelivered
    <3>3. QED
      BY <3>1, <3>2
  <2>3. ASSUME NEW e \in Chats, typing'[e] # None, NEW d \in typing'[e].inputs
        PROVE  del'[d].status \notin Unsent
    <3>1. e # c /\ typing'[e] = typing[e]
      BY <1>8, <2>3
    <3>2. typing[e] \in Typings
      BY <1>2, <2>3, <3>1 DEF TurnsTyped
    <3>3. QED
      BY <1>15, <2>1, <2>3, <3>1, <3>2, RecordFields DEF BatchesDelivered
  <2>4. QED
    BY <2>2, <2>3 DEF BatchesDelivered
<1>22. OwnBatches'
  BY <1>1, <1>11, <1>15, DeliveryNames DEF OwnBatches
<1>23. TakenBy'
  <2>1. ASSUME NEW d \in Deliveries, del'[d].status = "accepted"
        PROVE  /\ del'[d].by \in Runs /\ run'[del'[d].by].status \notin {"none", "queued"}
               /\ ~(sending # None /\ sending.run = del'[d].by)
               /\ ~IsPersons(del'[d].by) => d \in run'[del'[d].by].inputs
    <3>1. CASE d \in I /\ del'[d].by = x
      BY <1>6, <1>10, <1>16, <3>1 DEF IsSent
    <3>2. CASE del[d].status = "accepted" /\ del'[d] = del[d]
      <4>1. /\ del[d].by \in Runs /\ run[del[d].by].status \notin {"none", "queued"} /\ ~IsSent(del[d].by)
            /\ ~IsPersons(del[d].by) => d \in run[del[d].by].inputs
        BY <1>15, <3>2 DEF TakenBy
      <4>2. run'[del[d].by] = run[del[d].by]
        BY <1>6, <1>10, <4>1
      <4>3. QED
        BY <3>2, <4>1, <4>2 DEF IsSent
    <3>3. QED
      BY <1>17, <2>1, <3>1, <3>2
  <2>2. QED
    BY <1>1, <2>1 DEF TakenBy, IsSent
<1>24. ShownTwice'
  <2>1. ASSUME NEW d \in Deliveries, del'[d].status = "accepted", recorded'[d] > 1
        PROVE  /\ recorded'[d] = 2 /\ IsPersons(del'[d].by)
               /\ d[1] = "request" \/ del'[d].cont # None \/ (d \in Unreserved)'
    <3>1. del[d].status = "accepted" /\ del'[d] = del[d] /\ recorded'[d] = recorded[d]
      BY <1>17, <2>1
    <3>2. recorded[d] = 2 /\ IsPersons(del[d].by) /\ Again(d)
      BY <1>15, <2>1, <3>1 DEF ShownTwice
    <3>3. QED
      BY <1>12, <3>1, <3>2 DEF Again
  <2>2. QED
    BY <2>1 DEF ShownTwice, Again
<1>25. ShownLater'
  <2>1. ASSUME NEW d \in Deliveries, del'[d].status = "accepted"
        PROVE  /\ (d[1] = "request" /\ Awaited(First(d))') => recorded'[d] <= 1
               /\ (del'[d].cont # None /\ (run'[del'[d].cont].status \in {"none", "queued"}
                                            \/ (sending # None /\ sending.run = del'[d].cont))) => recorded'[d] <= 1
    <3>1. CASE recorded'[d] = 1
      BY <3>1
    <3>2. CASE del[d].status = "accepted" /\ del'[d] = del[d] /\ recorded'[d] = recorded[d]
      <4>1. /\ (d[1] = "request" /\ Awaited(First(d))) => recorded[d] <= 1
            /\ (del[d].cont # None /\ Awaited(del[d].cont)) => recorded[d] <= 1
        BY <1>15, <3>2 DEF ShownLater
      <4>2. Awaited(First(d))' => Awaited(First(d))
        BY <1>1, <1>11 DEF Awaited, IsSent
      <4>3. del[d].cont # None => (del[d].cont \in Runs /\ ~IsPersons(del[d].cont))
        BY Known, RecordFields, RunKinds DEF ReservedInv, Updating
      <4>4. del[d].cont # None => run'[del[d].cont] = run[del[d].cont]
        BY <1>11, <4>3
      <4>5. QED
        BY <3>2, <4>1, <4>2, <4>4 DEF Awaited, IsSent
    <3>3. QED
      BY <1>17, <2>1, <3>1, <3>2
  <2>2. QED
    BY <1>1, <2>1 DEF ShownLater, Awaited, IsSent
<1>26. ShownNow'
  <2>1. ASSUME sending # None, sending.stage = "native", NEW d \in sending.inputs, del'[d].by # None
        PROVE  /\ recorded'[d] <= 1 /\ IsPersons(del'[d].by)
               /\ d[1] = "request" \/ del'[d].cont = sending.run \/ (d \in Unreserved)'
    <3>1. d \in Deliveries
      BY <2>1, SendFacts
    <3>2. CASE d \in I /\ del[d].status = "delivered"
      <4>1. d \in Unreserved
        BY <1>7, <2>1, <3>2, SentIsUnclaimed DEF Delivered
      <4>2. recorded[d] = 0
        BY <1>15, <3>1, <3>2 DEF NotShownYet
      <4>3. QED
        BY <1>6, <1>9, <1>12, <1>13, <3>1, <3>2, <4>1, <4>2
    <3>3. CASE d \notin I \/ del[d].status # "delivered"
      <4>1. del'[d] = del[d]
        BY <1>13, <3>1, <3>3
      <4>2. TakenBefore(d, sending.run)
        BY <1>15, <2>1, <4>1 DEF ShownNow
      <4>3. del[d].status = "accepted"
        BY <2>1, <3>1, <4>1 DEF ReservedInv, TakenIsAccepted
      <4>4. d \notin I
        BY <1>14, <4>3
      <4>5. recorded'[d] = recorded[d]
        BY <1>9, <1>15, <3>1, <4>4
      <4>6. QED
        BY <1>12, <4>1, <4>2, <4>5 DEF TakenBefore
    <3>4. QED
      BY <3>2, <3>3
  <2>2. QED
    BY <1>1, <2>1 DEF ShownNow, TakenBefore
<1>27. ShownRest'
  BY <1>19, <1>20, <1>21, <1>22, <1>23, <1>24, <1>25 DEF ShownRest
<1>28. QED
  BY <1>26, <1>27 DEF ShownInv

(* What the harness has of the pass's send is shown to it, by the run it is *)
(* given for; what a person's message took before, for the second time.     *)
LEMMA AcceptedShown ==
  ASSUME CoordInv, ReservedInv, CountsTyped, ShownInv, Accepted
  PROVE  ShownInv'
<1>1. /\ sending # None /\ sending.stage = "native"
      /\ del' = Accept(sending.run, sending.inputs)
      /\ req' = [r \in Requests |-> IF r \in OwnedBy(sending.run)
                                    THEN [req[r] EXCEPT !.status = "working"] ELSE req[r]]
      /\ sending' = None /\ UNCHANGED <<run, typing, given, lost>>
  BY DEF Accepted
<1>2. \A q \in Requests : req'[q].parent = req[q].parent /\ req'[q].run = req[q].run
  <2>1. \A q \in Requests : req[q] \in ReqRecords
    BY Known
  <2>2. \A q \in Requests : /\ [req[q] EXCEPT !.status = "working"].parent = req[q].parent
                            /\ [req[q] EXCEPT !.status = "working"].run = req[q].run
    BY <2>1 DEF ReqRecords
  <2>3. QED
    BY <1>1, <2>2
<1>3. PICK x \in Runs, I \in SUBSET Deliveries : x = sending.run /\ I = sending.inputs
  BY <1>1, SendFacts
<1>4. /\ run[x].status = "running" /\ ~IsPersons(x) /\ x # None /\ I = run[x].inputs
  BY <1>1, <1>3, SendFacts, RunNames DEF ReservedInv, SendsBatch
<1>5. /\ del' = Accept(x, I) /\ \A y \in Runs : ~IsPersons(y) => run'[y] = run[y]
      /\ recorded' = [d \in Deliveries |-> recorded[d] + IF d \in I THEN 1 ELSE 0]
  BY <1>1, <1>3, RecordedMore DEF AtHarness
<1>6. \A d : d \in Unreserved => (d \in Unreserved)'
  BY <1>5, AcceptKeepsRest
<1>7. \A d \in Deliveries :
        /\ del'[d].cont = del[d].cont
        /\ (d \in I /\ del[d].status = "delivered") =>
             (del'[d].status = "accepted" /\ del'[d].by = x)
        /\ (d \notin I \/ del[d].status # "delivered") => del'[d] = del[d]
  BY <1>5, AcceptFields
<1>8. /\ recorded \in [Deliveries -> Nat] /\ NotShownYet /\ BatchesDelivered
      /\ OwnBatches /\ TakenBy /\ ShownTwice /\ ShownLater /\ ShownNow
  BY DEF ShownInv, ShownRest
<1>9. \A d \in I : /\ d[1] = "request" => x = First(d)
                   /\ del[d].cont # None => x = del[d].cont
  BY <1>4, <1>8, BatchOf
<1>10. ASSUME NEW d \in I, del[d].status = "accepted"
       PROVE  /\ recorded[d] <= 1 /\ IsPersons(del[d].by)
              /\ d[1] = "request" \/ del[d].cont = x \/ d \in Unreserved
  <2>1. del[d].by # None
    BY <1>8, <1>10, RunNames DEF TakenBy
  <2>2. QED
    BY <1>1, <1>3, <1>8, <1>10, <2>1 DEF ShownNow, TakenBefore
<1>11. ASSUME NEW d \in Deliveries, del'[d].status = "accepted"
       PROVE  \/ del[d].status = "accepted" /\ del'[d] = del[d] /\ recorded'[d] = recorded[d] /\ d \notin I
              \/ d \in I /\ del'[d].by = x /\ recorded'[d] = 1
              \/ /\ d \in I /\ del[d].status = "accepted" /\ del'[d] = del[d]
                 /\ recorded'[d] = recorded[d] + 1
  <2>1. CASE d \notin I
    BY <1>5, <1>7, <1>8, <1>11, <2>1
  <2>2. CASE d \in I /\ del[d].status = "delivered"
    <3>1. recorded[d] = 0
      BY <1>8, <2>2 DEF NotShownYet
    <3>2. QED
      BY <1>5, <1>7, <2>2, <3>1
  <2>3. CASE d \in I /\ del[d].status # "delivered"
    BY <1>5, <1>7, <1>11, <2>3
  <2>4. QED
    BY <2>1, <2>2, <2>3
<1>12. recorded' \in [Deliveries -> Nat]
  <2>1. \A d \in Deliveries : recorded[d] \in Nat
    BY <1>8
  <2>2. \A d \in Deliveries : recorded'[d] \in Nat
    BY <1>5, <2>1
  <2>3. QED
    BY <1>5, <2>2
<1>13. \A d \in Deliveries : del[d].status \notin Unsent => del'[d].status \notin Unsent
  BY <1>7 DEF Unsent
<1>14. \A y \in Runs : run[y].inputs \subseteq Deliveries
  <2>1. \A y \in Runs : run[y] \in RunRecords
    BY Known DEF TurnsTyped
  <2>2. QED
    BY <2>1, RecordFields
<1>15. NotShownYet'
  <2>1. ASSUME NEW d \in Deliveries, del'[d].status \in Unsent \cup {"delivered"}
        PROVE  recorded'[d] = 0
    <3>1. d \notin I
      BY <1>4, <1>7, <1>8, <1>13, <2>1 DEF BatchesDelivered, Unsent
    <3>2. recorded[d] = 0
      BY <1>7, <1>8, <2>1, <3>1 DEF NotShownYet
    <3>3. QED
      BY <1>5, <3>1, <3>2
  <2>2. QED
    BY <2>1 DEF NotShownYet
<1>16. BatchesDelivered'
  <2>1. \A y \in Runs : \A d \in run'[y].inputs : del'[d].status \notin Unsent
    BY <1>1, <1>8, <1>13, <1>14 DEF BatchesDelivered
  <2>2. ASSUME NEW e \in Chats, typing[e] # None, NEW d \in typing[e].inputs
        PROVE  del'[d].status \notin Unsent
    <3>1. typing[e] \in Typings
      BY <2>2, Known DEF TurnsTyped
    <3>2. QED
      BY <1>8, <1>13, <2>2, <3>1, RecordFields DEF BatchesDelivered
  <2>3. QED
    BY <1>1, <2>1, <2>2 DEF BatchesDelivered
<1>17. OwnBatches'
  <2>1. ASSUME NEW e \in Deliveries, NEW d \in run[First(e)].inputs
        PROVE  /\ d[1] = "request" => d = e
               /\ d[1] = "outcome" => req'[d[2]].parent = None
    <3>1. d \in Deliveries
      BY <1>14, <2>1, RunNames
    <3>2. d[1] = "outcome" => d[2] \in Requests
      BY <3>1, DeliveryNames
    <3>3. QED
      BY <1>2, <1>8, <2>1, <3>2 DEF OwnBatches
  <2>2. \A r \in Requests : run[First(Asks(r))].status # "none" => req'[r].run # None
    BY <1>2, <1>8 DEF OwnBatches
  <2>3. QED
    BY <1>1, <2>1, <2>2 DEF OwnBatches
<1>18. TakenBy'
  <2>1. ASSUME NEW d \in Deliveries, del'[d].status = "accepted"
        PROVE  /\ del'[d].by \in Runs /\ run[del'[d].by].status \notin {"none", "queued"}
               /\ ~IsPersons(del'[d].by) => d \in run[del'[d].by].inputs
    <3>1. CASE d \in I /\ del'[d].by = x
      BY <1>4, <3>1
    <3>2. CASE del[d].status = "accepted" /\ del'[d] = del[d]
      BY <1>8, <3>2 DEF TakenBy
    <3>3. QED
      BY <1>11, <2>1, <3>1, <3>2
  <2>2. QED
    BY <1>1, <2>1 DEF TakenBy, IsSent
<1>19. ShownTwice'
  <2>1. ASSUME NEW d \in Deliveries, del'[d].status = "accepted", recorded'[d] > 1
        PROVE  /\ recorded'[d] = 2 /\ IsPersons(del'[d].by)
               /\ d[1] = "request" \/ del'[d].cont # None \/ (d \in Unreserved)'
    <3>1. CASE del[d].status = "accepted" /\ del'[d] = del[d] /\ recorded'[d] = recorded[d]
      <4>1. recorded[d] = 2 /\ IsPersons(del[d].by) /\ Again(d)
        BY <1>8, <2>1, <3>1 DEF ShownTwice
      <4>2. QED
        BY <1>6, <3>1, <4>1 DEF Again
    <3>2. CASE /\ d \in I /\ del[d].status = "accepted" /\ del'[d] = del[d]
               /\ recorded'[d] = recorded[d] + 1
      <4>1. /\ recorded[d] <= 1 /\ IsPersons(del[d].by)
            /\ d[1] = "request" \/ del[d].cont = x \/ d \in Unreserved
        BY <1>10, <3>2
      <4>2. recorded[d] \in Nat /\ recorded'[d] = recorded[d] + 1
        BY <1>8, <3>2
      <4>3. recorded'[d] = 2
        BY <2>1, <4>1, <4>2
      <4>4. QED
        BY <1>4, <1>6, <3>2, <4>1, <4>3
    <3>3. CASE recorded'[d] = 1
      BY <2>1, <3>3
    <3>4. QED
      BY <1>11, <2>1, <3>1, <3>2, <3>3
  <2>2. QED
    BY <2>1 DEF ShownTwice, Again
<1>20. ShownLater'
  <2>1. ASSUME NEW d \in Deliveries, del'[d].status = "accepted"
        PROVE  /\ (d[1] = "request" /\ run[First(d)].status \in {"none", "queued"}) => recorded'[d] <= 1
               /\ (del'[d].cont # None /\ run[del'[d].cont].status \in {"none", "queued"}) => recorded'[d] <= 1
    <3>1. CASE d \in I
      <4>1. /\ d[1] = "request" => x = First(d)
            /\ del'[d].cont # None => x = del'[d].cont
        BY <1>7, <1>9, <3>1
      <4>2. QED
        BY <1>4, <4>1
    <3>2. CASE del[d].status = "accepted" /\ del'[d] = del[d] /\ recorded'[d] = recorded[d]
      BY <1>8, <3>2 DEF ShownLater, Awaited
    <3>3. QED
      BY <1>11, <2>1, <3>1, <3>2
  <2>2. QED
    BY <1>1, <2>1 DEF ShownLater, Awaited, IsSent
<1>21. ShownNow'
  BY <1>1 DEF ShownNow
<1>22. ShownRest'
  BY <1>12, <1>15, <1>16, <1>17, <1>18, <1>19, <1>20 DEF ShownRest
<1>23. QED
  BY <1>21, <1>22 DEF ShownInv

----------------------------------------------------------------------------
(* A run that is reserved shows nothing yet *)

(* What the run x has is its own and was delivered; what it continues with  *)
(* are answers to an assignment.                                            *)
Begins(x, U) ==
  /\ run[x].status \in {"none", "queued"} /\ sending'.stage = "preparing" /\ recorded' = recorded
  /\ \A d \in run'[x].inputs : del[d].status \notin Unsent
  /\ \A e \in Deliveries : x = First(e) => \A d \in run'[x].inputs :
       /\ d[1] = "request" => d = e
       /\ d[1] = "outcome" => req[d[2]].parent = None
  /\ \A r \in Requests : x = First(Asks(r)) => req'[r].run # None
  /\ \A d \in U : d[1] = "outcome" /\ req[d[2]].parent # None

LEMMA BeginsShown ==
  ASSUME CoordInv, ShownInv, NEW c \in Chats, NEW x \in Runs,
         NEW kept \in SUBSET Deliveries, NEW dl, NEW U,
         Reserves(c, x, kept, dl, U), Begins(x, U)
  PROVE  ShownInv'
<1>1. /\ recorded \in [Deliveries -> Nat] /\ NotShownYet /\ BatchesDelivered
      /\ OwnBatches /\ TakenBy /\ ShownTwice /\ ShownLater
  BY DEF ShownInv, ShownRest
<1>2. /\ ~IsPersons(x) /\ run[x].inputs \subseteq run'[x].inputs /\ run'[x].inputs = kept
      /\ \A y \in Runs : y # x => run'[y] = run[y]
      /\ sending' # None /\ sending'.run = x /\ typing' = typing
      /\ \A q \in Requests : req'[q].parent = req[q].parent /\ (req[q].run # None => req'[q].run # None)
      /\ Wanes(dl, del, Given_up)
      /\ \A d \in Deliveries : /\ del'[d].status = dl[d].status /\ del'[d].by = dl[d].by
                               /\ del'[d].cont = IF d \in U THEN x ELSE dl[d].cont
      /\ \A d \in U : del[d].cont = None
  BY DEF Reserves
<1>3. /\ run[x].status \in {"none", "queued"} /\ sending'.stage = "preparing" /\ recorded' = recorded
      /\ \A d \in run'[x].inputs : del[d].status \notin Unsent
      /\ \A e \in Deliveries : x = First(e) => \A d \in run'[x].inputs :
           /\ d[1] = "request" => d = e
           /\ d[1] = "outcome" => req[d[2]].parent = None
      /\ \A r \in Requests : x = First(Asks(r)) => req'[r].run # None
      /\ \A d \in U : d[1] = "outcome" /\ req[d[2]].parent # None
  BY DEF Begins
<1>4. ASSUME NEW d \in Deliveries
      PROVE  /\ del'[d].by = del[d].by /\ del'[d].cont = IF d \in U THEN x ELSE del[d].cont
             /\ del'[d].status \in Unsent => del[d].status \in Unsent
             /\ del'[d].status = "delivered" => del[d].status = "delivered"
             /\ (del'[d].status = "accepted") <=> (del[d].status = "accepted")
             /\ del[d].status = "cancelled" => del'[d].status = "cancelled"
  <2>1. dl[d].by = del[d].by /\ dl[d].cont = del[d].cont
    BY <1>2 DEF Wanes
  <2>2. del[d].status \in Unsent \cup {"delivered", "accepted", "failed", "cancelled"}
    <3>1. del[d].status \in DeliveryStatus
      BY Known, RecordFields
    <3>2. QED
      BY <3>1 DEF DeliveryStatus, Unsent
  <2>3. QED
    BY <1>2, <2>1, <2>2 DEF Wanes, Unsent, Given_up
<1>5. \A e \in Deliveries : First(e) \in Runs /\ run[First(e)].inputs \subseteq run'[First(e)].inputs
  BY <1>2, RunNames
<1>6. \A d : d \in Unreserved => (d \in Unreserved)'
  BY <1>4, <1>5, StillUnreserved
<1>7. x # None
  BY RunNames
<1>8. \A y \in Runs : run[y].inputs \subseteq Deliveries
  <2>1. \A y \in Runs : run[y] \in RunRecords
    BY Known DEF TurnsTyped
  <2>2. QED
    BY <2>1, RecordFields
<1>9. NotShownYet'
  BY <1>1, <1>3, <1>4 DEF NotShownYet
<1>10. BatchesDelivered'
  <2>1. ASSUME NEW y \in Runs, NEW d \in run'[y].inputs
        PROVE  del'[d].status \notin Unsent
    <3>1. d \in Deliveries /\ del[d].status \notin Unsent
      <4>1. CASE y = x
        BY <1>2, <1>3, <2>1, <4>1
      <4>2. CASE y # x
        BY <1>1, <1>2, <1>8, <2>1, <4>2 DEF BatchesDelivered
      <4>3. QED
        BY <4>1, <4>2
    <3>2. QED
      BY <1>4, <3>1
  <2>2. ASSUME NEW e \in Chats, typing[e] # None, NEW d \in typing[e].inputs
        PROVE  del'[d].status \notin Unsent
    <3>1. typing[e] \in Typings
      BY <2>2, Known DEF TurnsTyped
    <3>2. QED
      BY <1>1, <1>4, <2>2, <3>1, RecordFields DEF BatchesDelivered
  <2>3. QED
    BY <1>2, <2>1, <2>2 DEF BatchesDelivered
<1>11. OwnBatches'
  <2>1. ASSUME NEW e \in Deliveries, NEW d \in run'[First(e)].inputs
        PROVE  /\ d[1] = "request" => d = e
               /\ d[1] = "outcome" => req'[d[2]].parent = None
    <3>1. /\ d \in Deliveries
          /\ d[1] = "request" => d = e
          /\ d[1] = "outcome" => req[d[2]].parent = None
      <4>1. CASE First(e) = x
        BY <1>2, <1>3, <2>1, <4>1
      <4>2. CASE First(e) # x
        BY <1>1, <1>2, <1>5, <1>8, <2>1, <4>2 DEF OwnBatches
      <4>3. QED
        BY <4>1, <4>2
    <3>2. d[1] = "outcome" => d[2] \in Requests
      BY <3>1, DeliveryNames
    <3>3. QED
      BY <1>2, <3>1, <3>2
  <2>2. ASSUME NEW r \in Requests, run'[First(Asks(r))].status # "none"
        PROVE  req'[r].run # None
    <3>1. CASE x = First(Asks(r))
      BY <1>3, <3>1
    <3>2. CASE x # First(Asks(r))
      BY <1>1, <1>2, <1>5, <2>2, <3>2, DeliveryNames DEF OwnBatches
    <3>3. QED
      BY <3>1, <3>2
  <2>3. QED
    BY <2>1, <2>2 DEF OwnBatches
<1>12. TakenBy'
  <2>1. ASSUME NEW d \in Deliveries, del'[d].status = "accepted"
        PROVE  /\ del'[d].by \in Runs /\ run'[del'[d].by].status \notin {"none", "queued"}
               /\ sending'.run # del'[d].by
               /\ ~IsPersons(del'[d].by) => d \in run'[del'[d].by].inputs
    <3>1. PICK y : y = del[d].by /\ y = del'[d].by
      BY <1>4
    <3>2. /\ y \in Runs /\ run[y].status \notin {"none", "queued"}
          /\ ~IsPersons(y) => d \in run[y].inputs
      BY <1>1, <1>4, <2>1, <3>1 DEF TakenBy
    <3>3. y # x /\ run'[y] = run[y]
      BY <1>2, <1>3, <3>2
    <3>4. QED
      BY <1>2, <3>1, <3>2, <3>3
  <2>2. QED
    BY <2>1 DEF TakenBy, IsSent
<1>13. ShownTwice'
  <2>1. ASSUME NEW d \in Deliveries, del'[d].status = "accepted", recorded'[d] > 1
        PROVE  /\ recorded'[d] = 2 /\ IsPersons(del'[d].by)
               /\ d[1] = "request" \/ del'[d].cont # None \/ (d \in Unreserved)'
    <3>1. recorded[d] = 2 /\ IsPersons(del[d].by) /\ Again(d)
      BY <1>1, <1>3, <1>4, <2>1 DEF ShownTwice
    <3>2. QED
      BY <1>3, <1>4, <1>6, <1>7, <3>1 DEF Again
  <2>2. QED
    BY <2>1 DEF ShownTwice, Again
<1>14. ASSUME NEW d \in Deliveries, del[d].status = "accepted", d \in U
       PROVE  recorded[d] <= 1
  <2>1. d \notin Unreserved
    <3>1. SUFFICES ASSUME d \in Unreserved
                   PROVE  FALSE
      OBVIOUS
    <3>2. PICK e \in Deliveries : d \in run[First(e)].inputs
      BY <3>1, UnreservedIs
    <3>3. QED
      BY <1>1, <1>3, <1>14, <3>2 DEF OwnBatches
  <2>2. ~Again(d)
    BY <1>2, <1>3, <1>14, <2>1 DEF Again
  <2>3. ~(recorded[d] > 1)
    BY <1>1, <1>14, <2>2 DEF ShownTwice
  <2>4. recorded[d] \in Nat
    BY <1>1
  <2>5. QED
    BY <2>3, <2>4
<1>15. ShownLater'
  <2>1. ASSUME NEW d \in Deliveries, del'[d].status = "accepted"
        PROVE  /\ (d[1] = "request" /\ (run'[First(d)].status \in {"none", "queued"} \/ x = First(d))) => recorded'[d] <= 1
               /\ (del'[d].cont # None /\ (run'[del'[d].cont].status \in {"none", "queued"} \/ x = del'[d].cont))
                    => recorded'[d] <= 1
    <3>1. del[d].status = "accepted" /\ recorded'[d] = recorded[d]
      BY <1>3, <1>4, <2>1
    <3>2. \A y \in Runs : (run'[y].status \in {"none", "queued"} \/ x = y) => run[y].status \in {"none", "queued"}
      BY <1>2, <1>3
    <3>3. /\ (d[1] = "request" /\ Awaited(First(d))) => recorded[d] <= 1
          /\ (del[d].cont # None /\ Awaited(del[d].cont)) => recorded[d] <= 1
      BY <1>1, <3>1 DEF ShownLater
    <3>4. (d[1] = "request" /\ (run'[First(d)].status \in {"none", "queued"} \/ x = First(d))) => recorded'[d] <= 1
      BY <1>5, <3>1, <3>2, <3>3 DEF Awaited
    <3>5. ASSUME del'[d].cont # None,
                 run'[del'[d].cont].status \in {"none", "queued"} \/ x = del'[d].cont
          PROVE  recorded'[d] <= 1
      <4>1. CASE d \in U
        BY <1>14, <3>1, <4>1
      <4>2. CASE d \notin U
        <5>1. del[d].cont = del'[d].cont
          BY <1>4, <4>2
        <5>2. PICK y : y = del[d].cont
          OBVIOUS
        <5>3. y \in Runs
          BY <3>5, <5>1, <5>2, Known, RecordFields
        <5>4. run[y].status \in {"none", "queued"}
          BY <3>2, <3>5, <5>1, <5>2, <5>3
        <5>5. QED
          BY <3>1, <3>3, <3>5, <5>1, <5>2, <5>4 DEF Awaited
      <4>3. QED
        BY <4>1, <4>2
    <3>6. QED
      BY <3>4, <3>5
  <2>2. QED
    BY <1>2, <2>1 DEF ShownLater, Awaited, IsSent
<1>16. ShownNow'
  BY <1>3 DEF ShownNow
<1>17. recorded' \in [Deliveries -> Nat]
  BY <1>1, <1>3
<1>18. ShownRest'
  BY <1>9, <1>10, <1>11, <1>12, <1>13, <1>15, <1>17 DEF ShownRest
<1>19. QED
  BY <1>16, <1>18 DEF ShownInv

LEMMA SendPrepares ==
  ASSUME NEW c, NEW x, NEW inputs, Send(c, x, inputs)
  PROVE  sending'.stage = "preparing"
BY DEF Send

LEMMA OrdinaryShown ==
  ASSUME CoordInv, ReservedInv, ShownInv, sending = None, NEW c \in Chats,
         NEW inputs \in SUBSET Waits(c), Ordinary(c, inputs), UNCHANGED <<turns, typing, given, lost>>
  PROVE  ShownInv'
<1>1. /\ inputs # {} /\ \A d \in inputs : d[1] # "request" /\ ~Stale(d) /\ ~Claimed(d)
      /\ \A q \in Requests : Outcome(q) \in inputs => req[q].parent = None
      /\ ActivateOrdinary(c, inputs)
  BY DEF Ordinary
<1>2. PICK x \in Runs : \E kept \in SUBSET Deliveries : \E dl :
           /\ Reserves(c, x, kept, dl, {}) /\ \A r \in Requests : x # First(Asks(r))
           /\ run[x].status \in {"none", "queued"} /\ kept \subseteq inputs \cup run[x].inputs
  BY <1>1, OrdinaryReserves
<1>3. PICK kept \in SUBSET Deliveries : \E dl :
           /\ Reserves(c, x, kept, dl, {}) /\ \A r \in Requests : x # First(Asks(r))
           /\ run[x].status \in {"none", "queued"} /\ kept \subseteq inputs \cup run[x].inputs
  BY <1>2
<1>4. PICK dl :
           /\ Reserves(c, x, kept, dl, {}) /\ \A r \in Requests : x # First(Asks(r))
           /\ run[x].status \in {"none", "queued"} /\ kept \subseteq inputs \cup run[x].inputs
  BY <1>3
<1>5. run'[x].inputs = kept
  BY <1>4 DEF Reserves
<1>6. sending'.stage = "preparing"
  BY <1>1, SendPrepares DEF ActivateOrdinary
<1>7. BatchesDelivered /\ OwnBatches
  BY DEF ShownInv, ShownRest
<1>8. \A d \in inputs : d[1] # "request" /\ del[d].status \notin Unsent
  BY <1>1 DEF Waits, Unsent
<1>9. \A d \in kept : del[d].status \notin Unsent
  BY <1>4, <1>7, <1>8 DEF BatchesDelivered
<1>10. ASSUME NEW e \in Deliveries, x = First(e), NEW d \in kept
       PROVE  /\ d[1] = "request" => d = e
              /\ d[1] = "outcome" => req[d[2]].parent = None
  <2>1. CASE d \in inputs
    <3>1. d[1] = "outcome" => (d[2] \in Requests /\ d = Outcome(d[2]))
      BY DeliveryNames
    <3>2. QED
      BY <1>1, <1>8, <2>1, <3>1
  <2>2. CASE d \in run[x].inputs
    BY <1>7, <1>10, <2>2 DEF OwnBatches
  <2>3. QED
    BY <1>4, <2>1, <2>2
<1>10a. recorded' = recorded
  BY <1>6, RecordedStays DEF AtHarness
<1>11. Begins(x, {})
  BY <1>4, <1>5, <1>6, <1>9, <1>10, <1>10a DEF Begins
<1>12. QED
  BY <1>4, <1>11, BeginsShown

LEMMA AssignedShown ==
  ASSUME CoordInv, ReservedInv, ShownInv, sending = None, ~\E q \in Requests : Interrupted(q),
         NEW c \in Chats, NEW r \in Requests, Assigned(c, r), UNCHANGED <<turns, typing, given, lost>>
  PROVE  ShownInv'
<1>1. Open(r) /\ Target[r] = c /\ typing[c] = None /\ ActivateAssigned(c, r)
  BY DEF Assigned
<1>2. PICK x, U : x = ReservedRun(r) /\ U = IF Starting(r) THEN {} ELSE Updates(r)
  OBVIOUS
<1>3. PICK kept \in SUBSET Deliveries : \E dl : Reserves(c, x, kept, dl, U)
  BY <1>1, <1>2, AssignedReserves
<1>4. PICK dl : Reserves(c, x, kept, dl, U)
  BY <1>3
<1>5. /\ Reservable(r) /\ req' = [req EXCEPT ![r].run = x, ![r].status = "queued"]
      /\ \E inputs : Send(c, x, inputs)
  BY <1>1, <1>2 DEF ActivateAssigned
<1>6. sending'.stage = "preparing"
  BY <1>5, SendPrepares
<1>7. x \in RunsOf(r) /\ run[x].status # "running"
  BY <1>1, <1>2, <1>5, ReservedIsItsOwn
<1>8. x \in Runs /\ x # None /\ (x = First(Asks(r)) \/ IsResume(x))
  BY <1>7, RunNames, RunKinds
<1>9. req'[r].run = x
  <2>1. req[r] \in ReqRecords /\ req'[r] = [req[r] EXCEPT !.run = x, !.status = "queued"]
    BY <1>5, Known
  <2>2. QED
    BY <2>1 DEF ReqRecords
<1>10. \A e \in Deliveries : x = First(e) => e = Asks(r)
  BY <1>8, RunKinds, DeliveryNames
<1>11. \A d \in U : \E q \in Requests :
          d = Outcome(q) /\ req[q].parent = r /\ del[d].status \in {"delivered", "accepted"} /\ del[d].cont = None
  <2>1. \A d \in Updates(r) : \E q \in Requests :
          d = Outcome(q) /\ req[q].parent = r /\ del[d].status \in {"delivered", "accepted"} /\ del[d].cont = None
    BY DEF Updates, Children
  <2>2. QED
    BY <1>2, <2>1
<1>12. \A d \in U : d[1] = "outcome" /\ req[d[2]].parent # None
  BY <1>11, DeliveryNames, RunNames
<1>13. run[x].status \in {"none", "queued"}
  <2>1. CASE Starting(r)
    BY <1>2, <1>5, <2>1 DEF ReservedRun, Starting, Reservable
  <2>2. CASE ~Starting(r) /\ req[r].status # "waiting"
    <3>1. x = First(Asks(r)) /\ req[r].status = "queued"
      BY <1>2, <1>5, <2>2 DEF ReservedRun, Reservable
    <3>2. req[r].run # None => run[req[r].run].status \in {"queued", "running", "failed"}
      BY <3>1, Known DEF AssignmentsInv, RunFits
    <3>3. req[r].run = None
      BY <1>1, <2>2, <3>2 DEF Starting, UnderWay, Interrupted
    <3>4. QED
      BY <3>1, <3>3 DEF ShownInv, ShownRest, OwnBatches
  <2>3. CASE ~Starting(r) /\ req[r].status = "waiting"
    <3>1. x = Resume(r, U) /\ U # {}
      BY <1>2, <1>5, <2>3 DEF Reservable, ReservedRun
    <3>2. IsResume(x) /\ x[2][2] = U
      BY <3>1, RunKinds
    <3>3. run[x].status # "none" => \A d \in U : del[d].cont = x
      BY <1>8, <3>2 DEF ReservedInv, Updating
    <3>4. QED
      BY <1>8, <1>11, <3>1, <3>3
  <2>4. QED
    BY <2>1, <2>2, <2>3
<1>14. run'[x].inputs = kept
  BY <1>4 DEF Reserves
<1>15. x = First(Asks(r)) => kept \subseteq {Asks(r)} /\ del[Asks(r)].status \notin Unsent
  BY <1>4, DeliveryNames DEF Reserves
<1>16. ASSUME NEW d \in kept
       PROVE  del[d].status \notin Unsent
  <2>1. CASE x = First(Asks(r))
    BY <1>15, <1>16, <2>1
  <2>2. CASE IsResume(x)
    <3>1. del'[d].cont = x
      BY <1>4, <1>16, <2>2 DEF Reserves
    <3>2. d \in U \/ del[d].cont = x
      BY <1>4, <1>16, <3>1 DEF Reserves, Wanes
    <3>3. CASE d \in U
      BY <1>11, <3>3 DEF Unsent
    <3>4. CASE del[d].cont = x
      BY <1>8, <1>16, <3>4 DEF ReservedInv, NotYetReserved
    <3>5. QED
      BY <3>2, <3>3, <3>4
  <2>3. QED
    BY <1>8, <2>1, <2>2
<1>17. \A e \in Deliveries : x = First(e) => \A d \in kept :
         /\ d[1] = "request" => d = e
         /\ d[1] = "outcome" => req[d[2]].parent = None
  <2>1. \A e \in Deliveries : x = First(e) => \A d \in kept : d = e /\ d[1] = "request"
    BY <1>10, <1>15, DeliveryNames
  <2>2. QED
    BY <2>1
<1>18. \A q \in Requests : x = First(Asks(q)) => req'[q].run # None
  <2>1. \A q \in Requests : x = First(Asks(q)) => q = r
    BY <1>10, DeliveryNames
  <2>2. QED
    BY <1>8, <1>9, <2>1
<1>18a. recorded' = recorded
  BY <1>6, RecordedStays DEF AtHarness
<1>19. Begins(x, U)
  BY <1>6, <1>12, <1>13, <1>14, <1>16, <1>17, <1>18, <1>18a DEF Begins
<1>20. QED
  BY <1>4, <1>8, <1>19, BeginsShown

LEMMA ActivateShown ==
  ASSUME CoordInv, ReservedInv, ShownInv, NEW c \in Chats, Activate(c)
  PROVE  ShownInv'
<1>1. /\ sending = None /\ ~\E q \in Requests : Interrupted(q)
      /\ UNCHANGED <<turns, typing, given, lost>>
  BY ActivateCases
<1>2. CASE \E r \in Requests : Assigned(c, r)
  BY <1>1, <1>2, AssignedShown
<1>3. CASE \E inputs \in SUBSET Waits(c) : Ordinary(c, inputs)
  BY <1>1, <1>3, OrdinaryShown
<1>4. CASE \E D : del' = Failed(D) /\ UNCHANGED <<req, run, sending>>
  <2>1. Wanes(del', del, Given_up)
    BY <1>4, FailedWanes
  <2>2. QED
    BY <1>1, <1>4, <2>1, WanesNothingTaken, QuietShown DEF RequestsGoOn
<1>5. QED
  BY <1>2, <1>3, <1>4, ActivateCases

----------------------------------------------------------------------------
(* Every step, once more *)

LEMMA InitShown ==
  ASSUME CoordInit
  PROVE  ShownInv
<1>1. /\ req = [r \in Requests |-> [status |-> "none", run |-> None, parent |-> None]]
      /\ del = [d \in Deliveries |-> [status |-> "none", cont |-> None, by |-> None]]
      /\ run = [x \in Runs |-> [status |-> "none", inputs |-> {}]]
      /\ sending = None /\ typing = [c \in Chats |-> None]
      /\ given = [d \in Deliveries |-> 0] /\ lost = given
  BY DEF CoordInit
<1>1a. recorded = [d \in Deliveries |-> 0]
  BY <1>1 DEF recorded, AtHarness
<1>2. \A d \in Deliveries : del[d].status = "none" /\ recorded[d] = 0
  BY <1>1, <1>1a
<1>3. \A x \in Runs : run[x].status = "none" /\ run[x].inputs = {}
  BY <1>1
<1>4. \A c \in Chats : typing[c] = None
  BY <1>1
<1>5. \A e \in Deliveries : First(e) \in Runs
  BY RunNames
<1>6. recorded \in [Deliveries -> Nat] /\ NotShownYet
  BY <1>1a, <1>2 DEF NotShownYet
<1>7. BatchesDelivered
  BY <1>3, <1>4 DEF BatchesDelivered
<1>8. OwnBatches
  BY <1>3, <1>5, DeliveryNames DEF OwnBatches
<1>9. TakenBy /\ ShownTwice /\ ShownLater
  BY <1>2 DEF TakenBy, ShownTwice, ShownLater
<1>10. ShownNow
  BY <1>1 DEF ShownNow
<1>11. QED
  BY <1>6, <1>7, <1>8, <1>9, <1>10 DEF ShownInv, ShownRest

(* Only what a step hands over is counted. *)
CountsOn ==
  /\ \/ given' = given
     \/ \E inputs : given' = More(given, inputs)
  /\ \/ lost' = lost
     \/ \E inputs : lost' = More(lost, inputs)
     \/ \E inputs, more : lost' = More(More(lost, inputs), more)

LEMMA CountsGoOn ==
  ASSUME CountsTyped, CountsOn
  PROVE  CountsTyped'
<1>1. given \in [Deliveries -> Int] /\ lost \in [Deliveries -> Int]
  BY DEF CountsTyped
<1>2. given' \in [Deliveries -> Int]
  BY <1>1, MoreTyped DEF CountsOn
<1>3. \A inputs, more : More(More(lost, inputs), more) \in [Deliveries -> Int]
  <2>1. \A inputs : More(lost, inputs) \in [Deliveries -> Int]
    BY <1>1, MoreTyped
  <2>2. QED
    BY <2>1, MoreTyped
<1>4. lost' \in [Deliveries -> Int]
  BY <1>1, <1>3, MoreTyped DEF CountsOn
<1>5. QED
  BY <1>2, <1>4 DEF CountsTyped

LEMMA NextCounts ==
  ASSUME [CoordNext]_vars
  PROVE  CountsOn
<1> DEFINE Uncounted == UNCHANGED <<given, lost>>
<1>1. Uncounted => CountsOn
  BY DEF CountsOn
<1>2. CASE Agents
  <2>1. \A d \in Deliveries : submitAgentRequest(d) => Uncounted
    BY DEF submitAgentRequest
  <2>2. \A q \in Requests : Reply(q) \/ Cancel(q) => Uncounted
    BY DEF Reply, Cancel
  <2>3. \A c \in Chats, ok \in BOOLEAN : EndTurn(c, ok) => Uncounted
    BY DEF EndTurn
  <2>4. QED
    BY <1>1, <1>2, <2>1, <2>2, <2>3 DEF Agents
<1>3. CASE People
  <2>1. \A d \in Deliveries : Allow(d) \/ Deny(d) => Uncounted
    BY DEF Allow, Deny
  <2>2. \A c \in Chats : Stop(c) \/ Hold(c) \/ Release(c) \/ Archive(c) \/ Delete(c) \/ Type(c) => Uncounted
    BY DEF Stop, Hold, Release, Archive, Delete, Type
  <2>3. \A c \in Chats : TypedTaken(c) \/ TypedFails(c) => CountsOn
    BY DEF TypedTaken, TypedFails, Counted, Unrecorded, CountsOn
  <2>4. QED
    BY <1>1, <1>3, <2>1, <2>2, <2>3 DEF People
<1>4. CASE Passes
  <2>1. \A q \in Requests : Reconcile(q) => Uncounted
    BY DEF Reconcile
  <2>2. \A d \in Deliveries : Persist(d) \/ Abandon(d) => Uncounted
    BY DEF Persist, Abandon
  <2>3. \A c \in Chats : Activate(c) \/ ActivateGone(c) \/ TimePasses(c) => Uncounted
    BY DEF Activate, ActivateGone, TimePasses
  <2>4. Boundary \/ Accepted \/ HeldBack \/ SendRetry => Uncounted
    BY DEF Boundary, Accepted, HeldBack, SendRetry
  <2>5. Give \/ SendFails => CountsOn
    BY DEF Give, SendFails, Counted, Unrecorded, CountsOn
  <2>6. QED
    BY <1>1, <1>4, <2>1, <2>2, <2>3, <2>4, <2>5 DEF Passes
<1>5. CASE Restart
  BY <1>5 DEF Restart, Counted, CountsOn
<1>6. CASE UNCHANGED vars
  BY <1>1, <1>6 DEF vars
<1>7. QED
  BY <1>2, <1>3, <1>4, <1>5, <1>6 DEF CoordNext

LEMMA CountsInvariant == CoordSpec => []CountsTyped
<1>1. CoordInit => CountsTyped
  BY DEF CoordInit, CountsTyped
<1>2. CountsTyped /\ [CoordNext]_vars => CountsTyped'
  BY NextCounts, CountsGoOn
<1>3. QED
  BY <1>1, <1>2, PTL DEF CoordSpec

LEMMA NextShown ==
  ASSUME CoordInv, ReservedInv, CountsTyped, ShownInv, [CoordNext]_vars
  PROVE  ShownInv'
<1>1. CASE Agents
  <2>1. CASE \E d \in Deliveries : submitAgentRequest(d)
    BY <2>1, SubmitShown
  <2>2. CASE \E r \in Requests : Reply(r) \/ Cancel(r)
    BY <2>2, EndingsShown
  <2>3. CASE \E c \in Chats, ok \in BOOLEAN : EndTurn(c, ok)
    BY <2>3, EndTurnShown
  <2>4. QED
    BY <1>1, <2>1, <2>2, <2>3 DEF Agents
<1>2. CASE People
  <2>1. CASE \E d \in Deliveries : Allow(d) \/ Deny(d)
    BY <2>1, AllowShown, DenyShown
  <2>2. CASE \E c \in Chats : Stop(c) \/ Hold(c) \/ Release(c) \/ Archive(c) \/ Delete(c)
    BY <2>2, EndingsShown, HoldsShown, DeleteShown
  <2>3. CASE \E c \in Chats : Type(c) \/ TypedTaken(c) \/ TypedFails(c)
    BY <2>3, TypeShown, TypedTakenShown, TypedFailsShown
  <2>4. QED
    BY <1>2, <2>1, <2>2, <2>3 DEF People
<1>3. CASE Passes
  <2>1. CASE \E r \in Requests : Reconcile(r)
    BY <2>1, EndingsShown
  <2>2. CASE \E d \in Deliveries : Persist(d) \/ Abandon(d)
    BY <2>2, PersistShown, GivenUpShown
  <2>3. CASE \E c \in Chats : Activate(c) \/ ActivateGone(c) \/ TimePasses(c)
    BY <2>3, ActivateShown, GivenUpShown, HoldsShown
  <2>4. CASE Boundary \/ Give \/ Accepted \/ HeldBack \/ SendRetry \/ SendFails
    BY <2>4, SendsShown, GiveShown, AcceptedShown, SendFailsShown
  <2>5. QED
    BY <1>3, <2>1, <2>2, <2>3, <2>4 DEF Passes
<1>4. CASE Restart
  BY <1>4, RestartShown
<1>5. CASE UNCHANGED vars
  <2>1. req' = req /\ del' = del /\ UNCHANGED <<run, sending, typing, given, lost>>
    BY <1>5 DEF vars
  <2>2. NothingTaken
    BY <2>1, DelWanesItself, WanesNothingTaken
  <2>3. QED
    BY <2>1, <2>2, QuietShown DEF RequestsGoOn
<1>6. QED
  BY <1>1, <1>2, <1>3, <1>4, <1>5 DEF CoordNext

(* ShownInv is an invariant: an input whose handover was recorded was shown *)
(* by the run that took it, and for a second time only where a person's message took it first and    *)
(* the run it is for was still to come (agentMessageAdmission,              *)
(* acceptAgentDeliveriesForRun).                                            *)
THEOREM ShownInvariant == CoordSpec => []ShownInv
<1>1. CoordInit => ShownInv
  BY InitShown
<1>2. CoordInv /\ ReservedInv /\ CountsTyped /\ ShownInv /\ [CoordNext]_vars => ShownInv'
  BY NextShown
<1>3. QED
  BY <1>1, <1>2, CoordInvariant, ReservedInvariant, CountsInvariant, PTL DEF CoordSpec

(* Whatever is retried, held back or steered in, the agents' turns have an  *)
(* input once, and once more for each handover to a harness that was not    *)
(* recorded, as its send failed first or the home restarted (dispatchTurn   *)
(* records input_accepted after the harness has the input, and              *)
(* acceptAgentDeliveriesForRun after agentMessageAdmission).  A request or  *)
(* an answer that a person's message took along is shown at most once more, *)
(* to the assignment it is for, as is what a deleted chat left unreserved.  *)
THEOREM GivenAtMostOnce == CoordSpec => []GivenOnce
<1>1. CoordInv /\ CountsTyped /\ ShownInv => GivenOnce
  <2>1. ASSUME CoordInv, CountsTyped, ShownInv, NEW d \in Deliveries, del[d].status \notin {"failed", "cancelled"}
        PROVE  given[d] <= lost[d] + (IF ShownAgain(d) THEN 2 ELSE 1)
    <3>1. recorded[d] \in Nat /\ NotShownYet /\ ShownTwice /\ TakenBy
      BY <2>1 DEF ShownInv, ShownRest
    <3>2. /\ given[d] \in Int /\ lost[d] \in Int
          /\ given[d] = lost[d] + recorded[d] + IF d \in AtHarness THEN 1 ELSE 0
      BY <2>1 DEF CountsTyped, recorded
    <3>3. del[d].status \in DeliveryStatus
      BY <2>1, Known, RecordFields
    <3>4. del[d].by \in Runs /\ IsPersons(del[d].by) => del[d].by \in {Person(c, n) : c \in Chats, n \in 1..2}
      BY DEF Runs, IsPersons, First, Resume
    <3>5. CASE del[d].status # "accepted"
      <4>1. recorded[d] = 0
        BY <2>1, <3>1, <3>3, <3>5 DEF NotShownYet, Unsent, DeliveryStatus
      <4>2. QED
        BY <3>2, <4>1
    <3>6. CASE del[d].status = "accepted" /\ d \in AtHarness
      <4>1. sending # None /\ sending.stage = "native" /\ d \in sending.inputs
        BY <3>6 DEF AtHarness
      <4>2. del[d].by \in Runs /\ del[d].by # None
        BY <3>1, <3>6, RunNames DEF TakenBy
      <4>3. TakenBefore(d, sending.run)
        BY <2>1, <4>1, <4>2 DEF ShownInv, ShownNow
      <4>4. sending.run # None
        BY <2>1, <4>1, SendFacts, RunNames
      <4>5. recorded[d] <= 1 /\ IsPersons(del[d].by) /\ (d[1] = "request" \/ del[d].cont # None \/ d \in Unreserved)
        BY <4>3, <4>4 DEF TakenBefore
      <4>6. QED
        BY <3>1, <3>2, <3>4, <4>2, <4>5 DEF ShownAgain
    <3>7. CASE del[d].status = "accepted" /\ d \notin AtHarness /\ recorded[d] <= 1
      BY <3>1, <3>2, <3>7
    <3>8. CASE del[d].status = "accepted" /\ d \notin AtHarness /\ recorded[d] > 1
      <4>1. recorded[d] = 2 /\ IsPersons(del[d].by) /\ Again(d) /\ del[d].by \in Runs
        BY <2>1, <3>1, <3>8 DEF ShownTwice, TakenBy
      <4>2. QED
        BY <3>2, <3>4, <3>8, <4>1 DEF Again, ShownAgain
    <3>9. QED
      BY <3>1, <3>5, <3>6, <3>7, <3>8
  <2>2. QED
    BY <2>1 DEF GivenOnce
<1>2. QED
  BY <1>1, CoordInvariant, CountsInvariant, ShownInvariant, PTL

===============================================================================
