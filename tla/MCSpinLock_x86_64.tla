-------------------------- MODULE MCSpinLock_x86_64 --------------------------
(* Two processors and one lock are enough for a release to read a flag     *)
(* that another processor's spinlock_lock has stored.                      *)
EXTENDS SpinLock_x86_64, TLC

CONSTANT pagingLock

MCRank == pagingLock :> 1
=============================================================================
