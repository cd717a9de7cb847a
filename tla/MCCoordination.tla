--------------------------- MODULE MCCoordination ---------------------------
(***************************************************************************)
(* Two chats.  A person writes twice to a, whose harness takes input       *)
(* during a turn and whose sends are approved first; a asks b, and b may   *)
(* ask back, or tell a something, or both of them but one.                 *)
(***************************************************************************)
EXTENDS Coordination
CONSTANTS a, b, r1, r2, m

MCChats == {a, b}
MCRequests == {r1, r2}
MCMessages == {m}
MCSource == (r1 :> a) @@ (r2 :> b) @@ (m :> b)
MCTarget == (r1 :> b) @@ (r2 :> a) @@ (m :> a)
OnlyA == {a}
OnlyB == {b}
MCTyped == (a :> 2) @@ (b :> 0)
=============================================================================
