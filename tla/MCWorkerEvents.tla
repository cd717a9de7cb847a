--------------------------- MODULE MCWorkerEvents ---------------------------
(* One turn among the events of a worker, in posts of two. *)
EXTENDS WorkerEvents
CONSTANTS t1, none
OneTurn == {t1}
=============================================================================
