------------------------------ MODULE MCWorker ------------------------------
(* The model-checking instance of the Worker process.                       *)
EXTENDS WorkerInvariant
=============================================================================
