------------------------------ MODULE MCStorage ------------------------------
(* The model-checking instance of artifact storage.                         *)
EXTENDS StorageInvariant
=============================================================================
