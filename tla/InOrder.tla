------------------------------- MODULE InOrder -------------------------------
(***************************************************************************)
(* What the queues and logs of this project need of sequences, without     *)
(* recursion, so that theorems can be proved of it.                        *)
(***************************************************************************)
EXTENDS Naturals, Sequences, FiniteSets

(* S in the order of key[x], by how many of S go before it. *)
SortedBy(S, key) ==
  [n \in 1..Cardinality(S) |-> CHOOSE x \in S : Cardinality({y \in S : key[y] < key[x]}) = n - 1]

(* q without what is in S, in the same order. *)
Without(q, S) ==
  LET kept == {i \in DOMAIN q : q[i] \notin S}
      place == SortedBy(kept, [i \in kept |-> i])
  IN  [n \in 1..Cardinality(kept) |-> q[place[n]]]
=============================================================================
