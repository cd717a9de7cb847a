------------------------------ MODULE MovingWork ------------------------------
(***************************************************************************)
(* What moving work promises: one device has it at a time, its messages go *)
(* to that device, none goes there once it was stopped for a move, and it  *)
(* changes hands only then, to a generation never used before. A message   *)
(* is put in the queue of a connected device once. Transfer is shown to    *)
(* implement it.                                                           *)
(***************************************************************************)
EXTENDS Naturals, Sequences

CONSTANTS Devices, Home, Messages

VARIABLES
  owner,    \* [device, gen]: who has the work
  given,    \* [msg, device, gen]: what was given to whom, in order
  stopped   \* whether the owner's was stopped for a move

workVars == <<owner, given, stopped>>

Init ==
  /\ owner \in [device : Devices, gen : {1}]
  /\ given = <<>> /\ stopped = FALSE

InAQueue(m) == \E i \in DOMAIN given : given[i].msg = m /\ given[i].device # Home

Give(m) ==
  /\ ~stopped
  /\ owner.device # Home => ~InAQueue(m)
  /\ given' = Append(given, [msg |-> m, device |-> owner.device, gen |-> owner.gen])
  /\ UNCHANGED <<owner, stopped>>

Stop == ~stopped /\ stopped' = TRUE /\ UNCHANGED <<owner, given>>

Resume == stopped /\ stopped' = FALSE /\ UNCHANGED <<owner, given>>

Move ==
  /\ stopped /\ stopped' = FALSE
  /\ owner'.device \in Devices \ {owner.device} /\ owner'.gen > owner.gen
  /\ UNCHANGED given

Next == Stop \/ Resume \/ Move \/ \E m \in Messages : Give(m)

Spec == Init /\ [][Next]_workVars
===============================================================================
