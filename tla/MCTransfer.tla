------------------------------ MODULE MCTransfer ------------------------------
(* An execution that moves between the home and a connected device. *)
EXTENDS Transfer
CONSTANTS home, away
Both == {home, away}
===============================================================================
