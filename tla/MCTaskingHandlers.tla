-------------------------- MODULE MCTaskingHandlers --------------------------
(* A worker the main thread schedules, and one of the SCI handler.          *)
EXTENDS TaskingHandlers
=============================================================================
