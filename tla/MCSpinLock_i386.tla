--------------------------- MODULE MCSpinLock_i386 ---------------------------
(* Two processors, kheap_lock and the pagingLock that is taken under it.   *)
EXTENDS SpinLock_i386, TLC

CONSTANTS kheapLock, pagingLock

MCRank == (kheapLock :> 1) @@ (pagingLock :> 2)
=============================================================================
