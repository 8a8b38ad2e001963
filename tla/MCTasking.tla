------------------------------ MODULE MCTasking ------------------------------
(* Three workers beside the main thread: two neighbours of a thread that    *)
(* is linked or unlinked, and memory that is used again after a death.      *)
EXTENDS Tasking
=============================================================================
