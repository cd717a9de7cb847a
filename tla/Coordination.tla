---------------------------- MODULE Coordination ----------------------------
(***************************************************************************)
(* Agents that ask each other (src/src/lib/coordination/service.ts and     *)
(* src/src/lib/db/coordination-queries.ts).  A chat's agent sends requests *)
(* and one-way messages to other chats; what is sent is a delivery, kept   *)
(* until a turn of the receiving chat takes it.  A request becomes that    *)
(* chat's assignment, with a run of its own; when the run ends the answer  *)
(* is a delivery back.  An assignment that asked others itself waits, and  *)
(* is continued with their answers.                                        *)
(*                                                                         *)
(* One pass delivers at a time and waits for each of its sends (`sending`),*)
(* while people type into the same chats, hold and close them, agents      *)
(* cancel, turns end and the home restarts.                                *)
(*                                                                         *)
(* Chats are addressed as sessions and run on the home.  A request or a    *)
(* message has one sender and one receiver; a delivery is the request, its *)
(* outcome, or the message.                                                *)
(***************************************************************************)
EXTENDS InOrder, Naturals, Sequences, FiniteSets, SequencesExt
CONSTANTS Chats, Requests, Messages,
          Source, Target,     \* of a request or a message: its chats
          Concurrent,         \* chats whose harness takes input during a turn
          Closable,           \* chats that may be archived, or deleted while empty
          Cautious,           \* chats whose sends a person approves first
          Typed,              \* how often a person writes to a chat, at most
          MaxSubmitted,       \* requests and messages sent, at most
          MaxUpsets,          \* holds, stops, closed chats, failures, retries and
                              \* restarts, at most that many together
          None
ASSUME CoordAssumption ==
  /\ Source \in [Requests \union Messages -> Chats]
  /\ Target \in [Requests \union Messages -> Chats]
  /\ \A x \in Requests \union Messages : Source[x] # Target[x]
  /\ Requests \intersect Messages = {}
  /\ Typed \in [Chats -> 0..2] /\ {MaxSubmitted, MaxUpsets} \subseteq Nat
  /\ Concurrent \union Cautious \subseteq Chats /\ Closable \subseteq Chats

VARIABLES
  req,      \* a request: its status, its run, the assignment it was asked under
  del,      \* a delivery: its status, the run it continues, the run that took it
  made,     \* deliveries in the order they were created
  later,    \* deliveries whose next attempt is not due
  run,      \* a run: its status and the inputs reserved for it
  turns,    \* the sends a chat's harness has, the one that produces output first
  sending,  \* the send the delivery pass waits for
  typing,   \* a person's message on its way, with the inputs claimed for it
  held,     \* chats on hold
  gone,     \* chats archived or deleted
  given,    \* how often an input went to a harness
  lost,     \* how often that was not recorded: its send failed first, or the home
            \* restarted
  typed,
  heldOnce, \* chats a hold was ever written in
  upsets
vars == <<req, del, made, later, run, turns, sending, typing, held, gone, given,
          lost, typed, heldOnce, upsets>>

Asks(r) == <<"request", r>>
Outcome(r) == <<"outcome", r>>
Says(m) == <<"message", m>>
Deliveries == {Asks(r) : r \in Requests} \union {Outcome(r) : r \in Requests}
              \union {Says(m) : m \in Messages}
Sender(d) == IF d[1] = "outcome" THEN Target[d[2]] ELSE Source[d[2]]
Receiver(d) == IF d[1] = "outcome" THEN Source[d[2]] ELSE Target[d[2]]

(* A run is named by what it is for: the delivery it takes first, the      *)
(* updates an assignment is continued with, or a person's message.         *)
First(d) == <<"first", d>>
Resume(r, updates) == <<"resume", <<r, updates>>>>
Person(c, n) == <<"person", <<c, n>>>>
Runs == {First(d) : d \in Deliveries}
        \union {Resume(r, u) : r \in Requests, u \in (SUBSET {Outcome(q) : q \in Requests}) \ {{}}}
        \union {Person(c, n) : c \in Chats, n \in 1..2}

(* The send the pass waits for: to a chat, as a run, with inputs.          *)
Sends == [chat : Chats, run : Runs, inputs : SUBSET Deliveries,
          stage : {"preparing", "started", "native"}]
ASSUME NoneAssumption == None \notin Requests \union Runs \union Sends

OpenStatus == {"queued", "working", "waiting"}
Open(r) == req[r].status \in OpenStatus
Unaccepted == {"awaiting_approval", "queued", "delivered"}
UnderWay(x) == run[x].status \in {"queued", "running"}
OwnedBy(x) == {r \in Requests : Open(r) /\ req[r].run = x}
AskedBy(c) == {r \in Requests : Open(r) /\ Target[r] = c}
Children(r) == {q \in Requests : req[q].parent = r}
Producer(c) == IF turns[c] = <<>> THEN None ELSE Head(turns[c])
Busy(c) == turns[c] # <<>> \/ typing[c] # None \/ (sending # None /\ sending.chat = c)
Waits(c) == {d \in Deliveries : Receiver(d) = c /\ del[d].status = "delivered"}
(* Mutant: what a person's message takes along is not claimed. *)
NoClaims == {}
Preparing == UNION {IF typing[c] = None THEN {} ELSE typing[c].inputs : c \in Chats}
Earliest(D) == CHOOSE d \in D : \A e \in D \ {d} : \E i, j \in 1..Len(made) :
                 i < j /\ made[i] = d /\ made[j] = e

CoordInit ==
  /\ req = [r \in Requests |-> [status |-> "none", run |-> None, parent |-> None]]
  /\ del = [d \in Deliveries |-> [status |-> "none", cont |-> None, by |-> None]]
  /\ made = <<>> /\ later = {}
  /\ run = [x \in Runs |-> [status |-> "none", inputs |-> {}]]
  /\ turns = [c \in Chats |-> <<>>]
  /\ sending = None /\ typing = [c \in Chats |-> None]
  /\ held = {} /\ gone = {}
  /\ given = [d \in Deliveries |-> 0] /\ lost = given
  /\ typed = [c \in Chats |-> 0] /\ heldOnce = {} /\ upsets = 0

-----------------------------------------------------------------------------
Upset == upsets < MaxUpsets /\ upsets' = upsets + 1
UpsetIf(bad) == IF bad THEN Upset ELSE UNCHANGED upsets

(* What is recorded together.                                              *)

(* A request ends: its outcome is queued, and what asks for it withdrawn.  *)
Ended(R, status) ==
  [r \in Requests |-> IF r \in R /\ Open(r) THEN [req[r] EXCEPT !.status = status] ELSE req[r]]
Settled(dl, R) ==
  LET ends(d, kind) == d[1] = kind /\ d[2] \in R /\ Open(d[2]) IN
  [d \in Deliveries |->
    CASE ends(d, "outcome") -> [dl[d] EXCEPT !.status = "queued"]
      [] ends(d, "request") /\ dl[d].status \in Unaccepted -> [dl[d] EXCEPT !.status = "cancelled"]
      [] OTHER -> dl[d]]
Outcomes(R) == SetToSeq({Outcome(r) : r \in {q \in Requests : q \in R /\ Open(q)}})
Finish(dl, R, status) ==
  req' = Ended(R, status) /\ del' = Settled(dl, R) /\ made' = made \o Outcomes(R)
finishAgentRequest(R, status) == Finish(del, R, status)

(* A delivery that cannot be made; a request that cannot be made fails.    *)
Asked(D) == {d[2] : d \in {e \in D : e[1] = "request"}}
Gone(dl, D, status) == [d \in Deliveries |->
  IF d \in D /\ dl[d].status \in Unaccepted THEN [dl[d] EXCEPT !.status = status] ELSE dl[d]]
Failed(D) == Gone(del, D, "failed")
failAgentDelivery(D) ==
  Finish(Failed(D), Asked({d \in D : del[d].status \in Unaccepted}), "failed")

(* The assignment a turn asks under, or None.                              *)
Assignment(c) == IF Producer(c) # None /\ OwnedBy(Producer(c)) # {}
                 THEN CHOOSE r \in OwnedBy(Producer(c)) : TRUE ELSE None

-----------------------------------------------------------------------------
(* What an agent does in its turn, and what people decide.                 *)

(* A send to the requester needs no approval.                              *)
Permitted(d) ==
  LET p == Assignment(Source[d[2]]) IN
  IF Source[d[2]] \in Cautious /\ ~(p # None /\ Target[d[2]] = Source[p]) THEN "awaiting_approval" ELSE "queued"
(* Mutant: a send that is repeated is recorded once more. *)
MaySubmitAgain(d) ==
  LET x == Producer(Source[d[2]]) IN
  /\ {Source[d[2]], Target[d[2]]} \intersect gone = {} /\ x # None
  /\ ~\E q \in Requests : req[q].run = x /\ req[q].status \in {"failed", "cancelled"}
MaySubmit(d) ==
  LET x == Producer(Source[d[2]]) IN
  /\ del[d].status = "none" /\ {Source[d[2]], Target[d[2]]} \intersect gone = {} /\ x # None
  /\ ~\E q \in Requests : req[q].run = x /\ req[q].status \in {"failed", "cancelled"}

submitAgentRequest(d) ==
  /\ d[1] # "outcome" /\ MaySubmit(d)
  /\ Cardinality({e \in Range(made) : e[1] # "outcome"}) < MaxSubmitted
  /\ req' = [r \in Requests |-> IF d = Asks(r)
                                THEN [status |-> "queued", run |-> None, parent |-> Assignment(Source[r])]
                                ELSE req[r]]
  /\ del' = [del EXCEPT ![d].status = Permitted(d)]
  /\ made' = Append(made, d)
  /\ UNCHANGED <<later, run, turns, sending, typing, held, gone, given, lost, typed, heldOnce, upsets>>

Allow(d) ==
  /\ del[d].status = "awaiting_approval"
  /\ del' = [del EXCEPT ![d].status = "queued"]
  /\ UNCHANGED <<req, made, later, run, turns, sending, typing, held, gone, given, lost, typed, heldOnce, upsets>>

Deny(d) ==
  /\ del[d].status = "awaiting_approval"
  /\ Finish(Gone(del, {d}, "denied"), Asked({d}), "cancelled")
  /\ UNCHANGED <<later, run, turns, sending, typing, held, gone, given, lost, typed, heldOnce, upsets>>

Reply(r) ==
  /\ Open(r) /\ req[r].status = "working" /\ Producer(Target[r]) = req[r].run
  /\ finishAgentRequest({r}, "completed")
  /\ UNCHANGED <<later, run, turns, sending, typing, held, gone, given, lost, typed, heldOnce, upsets>>

(* A request is cancelled with the open requests asked under it.           *)
Under(r) ==
  LET grown[n \in 0..Cardinality(Requests)] ==
        IF n = 0 THEN {r}
        ELSE grown[n - 1] \union {q \in Requests : Open(q) /\ req[q].parent \in grown[n - 1]}
  IN grown[Cardinality(Requests)]
Cancel(r) ==
  /\ Open(r) /\ Producer(Source[r]) # None
  /\ finishAgentRequest(Under(r), "cancelled")
  /\ Upset
  /\ UNCHANGED <<later, run, turns, sending, typing, held, gone, given, lost, typed, heldOnce>>

(* Stop ends the assignment whose turn it stops; the turn ends by itself.  *)
Stop(c) ==
  LET R == {r \in OwnedBy(Producer(c)) : req[r].status = "working"} IN
  /\ Producer(c) # None /\ R # {}
  /\ finishAgentRequest(R, "failed")
  /\ Upset
  /\ UNCHANGED <<later, run, turns, sending, typing, held, gone, given, lost, typed, heldOnce>>

Hold(c) ==
  /\ c \notin held \union gone /\ Upset
  /\ held' = held \union {c} /\ heldOnce' = heldOnce \union {c}
  /\ UNCHANGED <<req, del, made, later, run, turns, sending, typing, gone, given, lost, typed>>

Release(c) ==
  /\ c \in held
  /\ held' = held \ {c} /\ later' = later \ Waits(c)
  /\ UNCHANGED <<req, del, made, run, turns, sending, typing, gone, given, lost, typed, heldOnce, upsets>>

Quiet(c) == ~Busy(c) /\ c \in Closable \ gone

Archive(c) ==
  /\ Quiet(c)
  /\ gone' = gone \union {c}
  /\ Upset
  /\ UNCHANGED <<req, del, made, later, run, turns, sending, typing, held, given, lost, typed, heldOnce>>

(* A chat with nothing in it yet is deleted, with what was on its way.     *)
Delete(c) ==
  LET R == {r \in Requests : Open(r) /\ c \in {Source[r], Target[r]}} IN
  /\ Quiet(c) /\ typed[c] = 0 /\ c \notin heldOnce
  /\ \A d \in Deliveries : Receiver(d) = c => del[d].status \in {"none", "awaiting_approval", "queued", "denied"}
  /\ gone' = gone \union {c}
  /\ req' = Ended(R, "cancelled") /\ made' = made \o Outcomes(R)
  /\ del' = Gone(Settled(del, R), {d \in Deliveries : c \in {Sender(d), Receiver(d)}}, "cancelled")
  /\ Upset
  /\ UNCHANGED <<later, run, turns, sending, typing, held, given, lost, typed, heldOnce>>

-----------------------------------------------------------------------------
(* A person's message takes along what waits in the chat and is not        *)
(* reserved: under an assignment's turn, only what came of its requests.   *)

Reserved(c) == UNION {LET x == IF del[d].cont # None THEN del[d].cont ELSE First(d) IN
                      IF UnderWay(x) THEN {d} \union run[x].inputs ELSE {} : d \in Waits(c)}
Context(c) ==
  LET p == Assignment(c)
      starting == Producer(c) = None /\ \E r \in AskedBy(c) : req[r].run # None /\ UnderWay(req[r].run)
  IN {d \in Waits(c) \ (Reserved(c) \union Preparing) :
        ~starting /\ (p = None \/ (d[1] = "outcome" /\ req[d[2]].parent = p))}

Type(c) ==
  /\ typed[c] < Typed[c] /\ c \notin gone /\ typing[c] = None
  /\ c \in Concurrent \/ ~Busy(c)
  /\ typed' = [typed EXCEPT ![c] = @ + 1]
  /\ typing' = [typing EXCEPT ![c] = [run |-> Person(c, typed[c] + 1), inputs |-> Context(c)]]
  /\ UNCHANGED <<req, del, made, later, run, turns, sending, held, gone, given, lost, heldOnce, upsets>>

(* Taken by another run, and not to be shown again by this one.            *)
TakenElsewhere(x, inputs) == \E d \in inputs :
  /\ del[d].by \notin {None, x} /\ del[d].cont # x
  /\ ~(d[1] = "request" /\ req[d[2]].run = x)
Accept(x, inputs) == [d \in Deliveries |->
  IF d \in inputs /\ del[d].status = "delivered"
  THEN [del[d] EXCEPT !.status = "accepted", !.by = x] ELSE del[d]]

(* The harness has the inputs, and it is recorded after that, or it is not. *)
More(count, inputs) == [d \in Deliveries |-> count[d] + IF d \in inputs THEN 1 ELSE 0]
Counted(inputs) == given' = More(given, inputs)
Unrecorded(inputs) == lost' = More(lost, inputs)

TypedTaken(c) ==
  LET t == typing[c] IN
  /\ t # None /\ ~TakenElsewhere(t.run, t.inputs)
  /\ typing' = [typing EXCEPT ![c] = None]
  /\ turns' = [turns EXCEPT ![c] = Append(@, t.run)]
  /\ run' = [run EXCEPT ![t.run] = [status |-> "running", inputs |-> t.inputs]]
  /\ del' = Accept(t.run, t.inputs) /\ later' = later \ t.inputs /\ Counted(t.inputs)
  /\ UNCHANGED <<lost, req, made, sending, held, gone, typed, heldOnce, upsets>>

(* It fails, though the harness may have it already.                       *)
MayHave(c) == typing[c] # None /\ ~TakenElsewhere(typing[c].run, typing[c].inputs)
TypedFails(c) ==
  /\ typing[c] # None
  /\ typing' = [typing EXCEPT ![c] = None]
  /\ \/ UNCHANGED <<given, lost>>
     \/ MayHave(c) /\ Counted(typing[c].inputs) /\ Unrecorded(typing[c].inputs)
  /\ Upset
  /\ UNCHANGED <<req, del, made, later, run, turns, sending, held, gone, typed, heldOnce>>

-----------------------------------------------------------------------------
(* The delivery pass: it settles requests, persists what is queued, and    *)
(* starts a turn in one chat after another.                                *)

(* Mutant: an answer that came during the turn is forgotten. *)
OwesOpen(r) == \E q \in Children(r) : Open(q)
Owes(r) == \E q \in Children(r) :
  Open(q) \/ (del[Outcome(q)].status \in {"queued", "delivered", "accepted"} /\ del[Outcome(q)].cont = None)

(* A run is over: its assignment waits for what it asked, or is answered.  *)
settleAgentRequestsForRun(x, ok) ==
  LET R == {r \in OwnedBy(x) : req[r].status # "queued"}
      W == {r \in R : ok /\ Owes(r)}
      status == IF ok THEN "completed" ELSE "failed" IN
  /\ req' = [r \in Requests |-> IF r \in W THEN [req[r] EXCEPT !.status = "waiting"]
                                ELSE Ended(R \ W, status)[r]]
  /\ del' = Settled(del, R \ W) /\ made' = made \o Outcomes(R \ W)

(* A pass settles these before it starts anything: a run fails without its *)
(* assignment only by a restart.                                           *)
Interrupted(r) == Open(r) /\ req[r].run # None /\ run[req[r].run].status = "failed"
Reconcile(r) ==
  /\ sending = None /\ Open(r)
  /\ Target[r] \in gone \/ Interrupted(r)
  /\ finishAgentRequest({r}, "failed")
  /\ UNCHANGED <<later, run, turns, sending, typing, held, gone, given, lost, typed, heldOnce, upsets>>

Persist(d) ==
  /\ sending = None /\ del[d].status = "queued"
  /\ IF d[1] # "outcome" /\ Sender(d) \in gone
     THEN Finish(Gone(del, {d}, "cancelled"), Asked({d}), "cancelled")
     ELSE IF Receiver(d) \in gone THEN failAgentDelivery({d})
     ELSE del' = [del EXCEPT ![d].status = "delivered"] /\ UNCHANGED <<req, made>>
  /\ UNCHANGED <<later, run, turns, sending, typing, held, gone, given, lost, typed, heldOnce, upsets>>

(* What was delivered, and its run ended without its being taken.          *)
Abandon(d) ==
  /\ sending = None /\ del[d].status = "delivered" /\ d \notin later /\ run[First(d)].status = "failed"
  /\ failAgentDelivery({d})
  /\ UNCHANGED <<later, run, turns, sending, typing, held, gone, given, lost, typed, heldOnce, upsets>>

Stale(d) == \/ del[d].status \in {"denied", "failed", "cancelled", "awaiting_approval"}
            \/ d[1] = "request" /\ ~Open(d[2])
            \/ d[1] = "outcome" /\ req[d[2]].parent # None /\ ~Open(req[d[2]].parent)

Updates(r) == {d \in {Outcome(q) : q \in Children(r)} :
                 del[d].status \in {"delivered", "accepted"} /\ del[d].cont = None}
Starting(r) == req[r].run # None /\ UnderWay(req[r].run)
Reservable(r) ==
  /\ req[r].status \in {"queued", "waiting"}
  /\ IF Starting(r) THEN run[req[r].run].status = "queued" /\ run[req[r].run].inputs \intersect later = {}
     ELSE /\ del[Asks(r)].status \in {"delivered", "accepted"}
          /\ req[r].status = "waiting" => Updates(r) # {}
(* Mutant: a reservation that waits to be retried is not looked for. *)
ReservedAnew(r) == IF req[r].status = "waiting" THEN Resume(r, Updates(r)) ELSE First(Asks(r))
ReservedRun(r) ==
  IF Starting(r) THEN req[r].run ELSE IF req[r].status = "waiting" THEN Resume(r, Updates(r)) ELSE First(Asks(r))

Send(c, x, inputs) ==
  LET kept == IF run[x].inputs = {} THEN inputs ELSE run[x].inputs IN
  /\ run' = [run EXCEPT ![x] = [status |-> "queued", inputs |-> kept]]
  /\ sending' = [chat |-> c, run |-> x, inputs |-> kept, stage |-> "preparing"]

(* The assignments of a chat have its turn first, one that has a run       *)
(* before those that have none; inputs that begin no assignment otherwise. *)
ActivateAssigned(c, r) ==
  LET x == ReservedRun(r)
      updates == IF Starting(r) THEN {} ELSE Updates(r) IN
  /\ Reservable(r)
  /\ req' = [req EXCEPT ![r].run = x, ![r].status = "queued"]
  /\ del' = LET dl == Failed({d \in Waits(c) : Stale(d)}) IN
            [d \in Deliveries |-> IF d \in updates THEN [dl[d] EXCEPT !.cont = x] ELSE dl[d]]
  /\ Send(c, x, updates \union IF req[r].status = "waiting" THEN {} ELSE {Asks(r)})

ActivateOrdinary(c, inputs) ==
  LET x == First(Earliest(inputs)) IN
  /\ run[x].status \in {"none", "queued"}
  /\ Send(c, x, inputs)
  /\ del' = Failed({d \in Waits(c) : Stale(d)}) /\ UNCHANGED req

Activate(c) ==
  LET stale == {d \in Waits(c) : Stale(d)}
      pending == Waits(c) \ (stale \union later)
      starting == {r \in AskedBy(c) : Starting(r)}
      asked == {r \in IF starting = {} THEN AskedBy(c) ELSE starting : Reservable(r) \/ Starting(r)}
      ordinary == {d \in pending : d[1] # "request"
                     /\ ~(d[1] = "outcome" /\ req[d[2]].parent # None /\ Open(req[d[2]].parent) /\ del[d].cont = None)}
      steering == {d \in pending \ Preparing : d[1] = "message"}
      steers == /\ c \in Concurrent /\ steering # {} /\ Assignment(c) = None
                /\ Producer(c) = None => \A r \in AskedBy(c) : req[r].run = None
  IN
  /\ sending = None /\ c \notin gone /\ ~\E r \in Requests : Interrupted(r)
  /\ Waits(c) \ later # {} \/ \E r \in AskedBy(c) : req[r].status \in {"queued", "waiting"}
  /\ \/ /\ c \notin held /\ ~Busy(c) /\ UNCHANGED later
        /\ \/ asked # {} /\ ActivateAssigned(c, Earliest({Asks(r) : r \in asked})[2])
           \/ asked = {} /\ ordinary # {} /\ ActivateOrdinary(c, ordinary)
           \/ /\ asked = {} /\ ordinary = {} /\ stale # {}
              /\ del' = Failed(stale) /\ UNCHANGED <<req, run, sending>>
     \/ /\ c \notin held /\ Busy(c) /\ steers
        /\ ActivateOrdinary(c, steering)
        /\ later' = later \union Waits(c)
     \/ /\ c \in held \/ (Busy(c) /\ ~steers)
        /\ del' = Failed(stale) /\ later' = later \union Waits(c)
        /\ <<del, later>>' # <<del, later>>
        /\ UNCHANGED <<req, run, sending>>
  /\ UNCHANGED <<made, turns, typing, held, gone, given, lost, typed, heldOnce, upsets>>

ActivateGone(c) ==
  /\ sending = None /\ c \in gone /\ Waits(c) # {}
  /\ failAgentDelivery(Waits(c))
  /\ UNCHANGED <<later, run, turns, sending, typing, held, gone, given, lost, typed, heldOnce, upsets>>

-----------------------------------------------------------------------------
(* The pass's send: prepared, admitted, given to the harness, accepted.    *)

Gives(c, x) == turns' = [turns EXCEPT ![c] = Append(@, x)]
Withdrawn(x) == \/ \E d \in Deliveries : x = First(d) /\ Stale(d)
                \/ \E r \in Requests : req[r].run = x /\ ~Open(r)

(* The run starts; a harness that takes one message at a time is free.     *)
Boundary ==
  /\ sending # None /\ sending.stage = "preparing" /\ ~Withdrawn(sending.run)
  /\ sending.chat \in Concurrent \/ (turns[sending.chat] = <<>> /\ typing[sending.chat] = None)
  /\ run' = [run EXCEPT ![sending.run].status = "running"]
  /\ sending' = [sending EXCEPT !.stage = "started"]
  /\ UNCHANGED <<req, del, made, later, turns, typing, held, gone, given, lost, typed, heldOnce, upsets>>

(* Admitted once more right before the harness has it.                     *)
(* Mutant: what another run took is not looked at. *)
AdmitsTaken(x, inputs) == ~Withdrawn(x)
Admits(x, inputs) == ~Withdrawn(x) /\ ~TakenElsewhere(x, inputs)
Refused == \/ sending.stage = "preparing" /\ Withdrawn(sending.run)
           \/ sending.stage = "started" /\ ~Admits(sending.run, sending.inputs)
Give ==
  /\ sending # None /\ sending.stage = "started"
  /\ sending.chat \notin held /\ Admits(sending.run, sending.inputs)
  /\ Gives(sending.chat, sending.run) /\ Counted(sending.inputs)
  /\ sending' = [sending EXCEPT !.stage = "native"]
  /\ UNCHANGED <<req, del, made, later, run, typing, held, gone, lost, typed, heldOnce, upsets>>

(* The harness took it, and only now is that recorded.                     *)
AtHarness == IF sending # None /\ sending.stage = "native" THEN sending.inputs ELSE {}
Accepted ==
  /\ sending # None /\ sending.stage = "native"
  /\ del' = Accept(sending.run, sending.inputs)
  /\ req' = [r \in Requests |-> IF r \in OwnedBy(sending.run) THEN [req[r] EXCEPT !.status = "working"] ELSE req[r]]
  /\ later' = later \ sending.inputs
  /\ sending' = None
  /\ UNCHANGED <<made, run, turns, typing, held, gone, given, lost, typed, heldOnce, upsets>>

(* Hold came before the harness had it: the run keeps its inputs.          *)
HeldBack ==
  /\ sending # None /\ sending.stage = "started" /\ sending.chat \in held
  /\ run' = [run EXCEPT ![sending.run].status = "queued"]
  /\ sending' = None
  /\ UNCHANGED <<req, del, made, later, turns, typing, held, gone, given, lost, typed, heldOnce, upsets>>

(* Over budget, or the harness is taken: tried again later.                *)
(* Mutant: the run that is to be tried again is left running. *)
SendRetryRunning ==
  /\ sending # None /\ sending.stage = "preparing"
  /\ run' = [run EXCEPT ![sending.run].status = "running"]
  /\ later' = later \union {d \in sending.inputs : del[d].status = "delivered"}
  /\ sending' = None
  /\ Upset
  /\ UNCHANGED <<req, del, made, turns, typing, held, gone, given, lost, typed, heldOnce>>
SendRetry ==
  /\ sending # None /\ sending.stage = "preparing"
  /\ run' = [run EXCEPT ![sending.run].status = "queued"]
  /\ later' = later \union {d \in sending.inputs : del[d].status = "delivered"}
  /\ sending' = None
  /\ Upset
  /\ UNCHANGED <<req, del, made, turns, typing, held, gone, given, lost, typed, heldOnce>>

(* Refused or broken: its run fails, and with it its assignment and the    *)
(* delivery the run is named for.  What rode along stays delivered.        *)
SendFails ==
  LET x == sending.run
      own == {d \in Deliveries : x = First(d) /\ del[d].status = "delivered"}
      R == OwnedBy(x) \union Asked(own) IN
  /\ sending # None
  /\ run' = [run EXCEPT ![x].status = "failed"]
  /\ Finish(Failed(own), R, "failed")
  /\ turns' = [turns EXCEPT ![sending.chat] = Without(@, {x})]
  /\ sending' = None
  /\ Unrecorded(AtHarness)
  /\ UpsetIf(~Refused)
  /\ UNCHANGED <<later, typing, held, gone, given, typed, heldOnce>>

(* The turn that produces output ends.                                     *)
EndTurn(c, ok) ==
  LET x == Producer(c) IN
  /\ x # None /\ (sending # None => sending.run # x)
  /\ turns' = [turns EXCEPT ![c] = Tail(@)]
  /\ run' = [run EXCEPT ![x].status = IF ok THEN "completed" ELSE "failed"]
  /\ settleAgentRequestsForRun(x, ok)
  /\ UpsetIf(~ok)
  /\ UNCHANGED <<later, sending, typing, held, gone, given, lost, typed, heldOnce>>

TimePasses(c) ==
  /\ Waits(c) \intersect later # {}
  /\ later' = later \ Waits(c)
  /\ UNCHANGED <<req, del, made, run, turns, sending, typing, held, gone, given, lost, typed, heldOnce, upsets>>

(* The home restarts: runs that had started are failed, reservations kept. *)
Restart ==
  /\ Upset
  /\ sending' = None
  /\ turns' = [c \in Chats |-> <<>>] /\ typing' = [c \in Chats |-> None]
  /\ run' = [x \in Runs |-> IF run[x].status = "running" THEN [run[x] EXCEPT !.status = "failed"] ELSE run[x]]
  /\ \E C \in SUBSET {c \in Chats : MayHave(c)} :
       LET had == UNION {typing[c].inputs : c \in C} IN
       Counted(had) /\ lost' = More(More(lost, had), AtHarness)
  /\ UNCHANGED <<req, del, made, later, held, gone, typed, heldOnce>>

-----------------------------------------------------------------------------
Agents == \/ \E d \in Deliveries : submitAgentRequest(d)
          \/ \E r \in Requests : Reply(r) \/ Cancel(r)
          \/ \E c \in Chats, ok \in BOOLEAN : EndTurn(c, ok)
People == \/ \E d \in Deliveries : Allow(d) \/ Deny(d)
          \/ \E c \in Chats : Stop(c) \/ Hold(c) \/ Release(c) \/ Archive(c) \/ Delete(c)
          \/ \E c \in Chats : Type(c) \/ TypedTaken(c) \/ TypedFails(c)
Passes == \/ \E r \in Requests : Reconcile(r)
          \/ \E d \in Deliveries : Persist(d) \/ Abandon(d)
          \/ \E c \in Chats : Activate(c) \/ ActivateGone(c) \/ TimePasses(c)
          \/ Boundary \/ Give \/ Accepted \/ HeldBack \/ SendRetry \/ SendFails
CoordNext == Agents \/ People \/ Passes \/ Restart
CoordSpec == CoordInit /\ [][CoordNext]_vars

(* The pass runs every two seconds, its sends come to an end, turns and    *)
(* what people send do too.  A chat may be busy now and again.             *)
CoordLive ==
  /\ CoordSpec
  /\ \A r \in Requests : WF_vars(Reconcile(r))
  /\ \A d \in Deliveries : WF_vars(Persist(d)) /\ WF_vars(Abandon(d))
  /\ \A c \in Chats : /\ SF_vars(Activate(c)) /\ WF_vars(ActivateGone(c)) /\ WF_vars(TimePasses(c))
                      /\ WF_vars(EndTurn(c, TRUE)) /\ WF_vars(TypedTaken(c) \/ TypedFails(c))
  /\ WF_vars(Boundary \/ SendRetry \/ SendFails) /\ WF_vars(Give \/ HeldBack \/ SendFails)
  /\ WF_vars(Accepted)

-----------------------------------------------------------------------------
(* Every variable has its type.                                            *)
DeliveryStatus == {"none", "awaiting_approval", "queued", "delivered", "accepted",
                   "denied", "failed", "cancelled"}
CoordTypeOK ==
  /\ req \in [Requests -> [status : OpenStatus \union {"none", "completed", "failed", "cancelled"},
                           run : Runs \union {None}, parent : Requests \union {None}]]
  /\ del \in [Deliveries -> [status : DeliveryStatus, cont : Runs \union {None}, by : Runs \union {None}]]
  /\ made \in Seq(Deliveries) /\ IsInjective(made)
  /\ later \subseteq Deliveries
  /\ run \in [Runs -> [status : {"none", "queued", "running", "completed", "failed"},
                       inputs : SUBSET Deliveries]]
  /\ \A c \in Chats : turns[c] \in Seq(Runs)
  /\ sending = None \/ sending.stage \in {"preparing", "started", "native"}
  /\ held \subseteq Chats /\ gone \subseteq Chats

(* A request is worked on by one run at a time: the run that begins it and *)
(* those that continue it are never under way together.                    *)
RunsOf(r) == {First(Asks(r))} \union {x \in Runs : x[1] = "resume" /\ x[2][1] = r}
OneRunEach == \A r \in Requests : Cardinality({x \in RunsOf(r) : UnderWay(x)}) <= 1

(* Deleting a chat cancels its outcomes, delivered ones too.  The rest of  *)
(* the batch such a one gave its name is not reserved from then on.        *)
Unreserved == UNION {run[First(d)].inputs \ {d} : d \in {e \in Deliveries : del[e].status = "cancelled"}}

(* What a person's message took along, and what is not reserved.           *)
ShownAgain(d) ==
  LET read == del[d].by \in {Person(c, n) : c \in Chats, n \in 1..2} IN
  (read /\ (d[1] = "request" \/ del[d].cont # None)) \/ d \in Unreserved

(* Whatever is retried, held back or steered in, the agents' turns have an  *)
(* input once, and once more for each time a harness had it and that was    *)
(* not recorded: the send failed first, or the home restarted, and nothing  *)
(* tells what rode along from what was not given yet.  Otherwise only a     *)
(* request or an answer a person's message took along is shown once more,   *)
(* to the assignment it is for, and what a deleted chat left unreserved.    *)
(* What was given up (failed, or cancelled) and is in the saved batch of    *)
(* more than one run is shown by each of them: a saved batch is not gone    *)
(* through again.                                                           *)
GivenOnce == \A d \in Deliveries :
  \/ given[d] <= lost[d] + (IF ShownAgain(d) THEN 2 ELSE 1)
  \/ del[d].status \in {"failed", "cancelled"}

(* What a person's message takes along is not taken by an agents' turn     *)
(* while it is prepared: the person is never refused for it.               *)
PersonNotRefused == \A c \in Chats : typing[c] # None =>
  ~TakenElsewhere(typing[c].run, typing[c].inputs \ Unreserved)

(* An assignment that its turn's end answers has asked nothing that is     *)
(* open, and a turn of its own that is over has had each answer to it.     *)
HeardAll == [][\A r \in Requests :
  req[r].status = "working" /\ req'[r].status = "completed" /\ run'[req[r].run].status = "completed"
  => \A q \in Children(r) :
       /\ ~Open(q)
       /\ \/ del[Outcome(q)].status \in {"failed", "cancelled"}
          \/ del[Outcome(q)].cont \in RunsOf(r) /\ run'[del[Outcome(q)].cont].status = "completed"]_vars

(* Unless a chat is on hold or an approval is waited for, every request is *)
(* answered and everything sent is taken or given up.  An assignment whose *)
(* only open request was to a chat deleted before it began waits on.       *)
Parked == held # {} \/ \E d \in Deliveries : del[d].status = "awaiting_approval"
Deaf(r) == /\ req[r].status = "waiting"
           /\ \A q \in Children(r) : ~Open(q) /\ del[Outcome(q)].status = "cancelled"
RequestsSettle == []<>Parked \/ <>[](/\ \A r \in Requests : Open(r) => Deaf(r)
                                     /\ \A d \in Deliveries : del[d].status \notin {"queued", "delivered"})

(* What waits to be tried again is kept: no input of it goes elsewhere.    *)
RetryAdmitted == \A d \in Deliveries :
  run[First(d)].status = "queued" /\ del[d].status = "delivered" /\ ~Stale(d)
  => ~TakenElsewhere(First(d), run[First(d)].inputs)
=============================================================================
