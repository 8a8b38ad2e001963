--------------------------- MODULE SpinLock_x86_64 ---------------------------
(***************************************************************************)
(* spinlock_lock and spinlock_release of the x86_64 build                  *)
(* (arch/x86_64/kernel/lock.asm): the lock is attempted with interrupts as *)
(* they are, and the saved flag is read back after the lock is given up.   *)
(***************************************************************************)
EXTENDS Interrupts

LockCall(x, l) ==
  /\ MayTake(x, l)
  /\ arg' = [arg EXCEPT ![x] = l]
  /\ Goto(x, "run", "bts")
  /\ UNCHANGED <<intr, inIrq, base, reg, held, bit, istate>>

LockBts(x)   == BitTestSet(x, "bts", "flags")
LockFlags(x) == SaveFlags(x, "flags", "store") /\ UNCHANGED arg
LockStore(x) == StoreFlags(x, "store", "cli")
LockCli(x)   == Cli(x, "cli", "run")

(* spinlock_release: the lock is given up first, InterruptState read next. *)
ReleaseClear(x) ==
  /\ held[x] # <<>>
  /\ arg' = [arg EXCEPT ![x] = Innermost(x)]
  /\ ClearBit(x, Innermost(x), "run", "load")

ReleaseLoad(x) == LoadFlags(x, arg[x], "load", "sti") /\ UNCHANGED arg
ReleaseSti(x)  == StiIfSaved(x, "sti", "run")

LockStep(x) ==
  \/ \E l \in Locks : LockCall(x, l)
  \/ LockBts(x)
  \/ LockFlags(x)
  \/ LockStore(x)
  \/ LockCli(x)
  \/ ReleaseClear(x)
  \/ ReleaseLoad(x)
  \/ ReleaseSti(x)

Next == (\E c \in CPUs : CpuStep(c)) \/ (\E x \in Contexts : LockStep(x))

Spec == Init /\ [][Next]_vars
=============================================================================
