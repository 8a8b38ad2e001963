---------------------------- MODULE SpinLock_i386 ----------------------------
(***************************************************************************)
(* spinlock_lock and spinlock_release of the i386 build                    *)
(* (arch/i386/kernel/lock.asm): the lock is attempted with interrupts off, *)
(* and the saved flag is read back before the lock is given up.            *)
(***************************************************************************)
EXTENDS Interrupts

(* spinlock_lock up to the saved flag: the caller's lock is the argument.  *)
LockCall(x, l) ==
  /\ MayTake(x, l)
  /\ arg' = [arg EXCEPT ![x] = l]
  /\ SaveFlags(x, "run", "cli")

(* The flag is saved but cli is left out.                                  *)
NoCliMutant(x) ==
  /\ Goto(x, "cli", "bts")
  /\ UNCHANGED <<intr, inIrq, base, arg, reg, held, bit, istate>>

LockCli(x)   == Cli(x, "cli", "bts")
LockBts(x)   == BitTestSet(x, "bts", "store")
LockStore(x) == StoreFlags(x, "store", "run")

(* spinlock_release: InterruptState is read while the lock is still held.  *)
ReleaseLoad(x) ==
  /\ held[x] # <<>>
  /\ arg' = [arg EXCEPT ![x] = Innermost(x)]
  /\ LoadFlags(x, Innermost(x), "run", "clear")

ReleaseClear(x) == ClearBit(x, arg[x], "clear", "sti") /\ UNCHANGED arg

(* InterruptState read only now, when the lock may be another's again.     *)
ReleaseStiLateReadMutant(x) ==
  /\ Goto(x, "sti", "run")
  /\ intr' = [intr EXCEPT ![Cpu(x)] = @ \/ istate[arg[x]]]
  /\ UNCHANGED <<inIrq, base, arg, reg, held, bit, istate>>

ReleaseSti(x) == StiIfSaved(x, "sti", "run")

LockStep(x) ==
  \/ \E l \in Locks : LockCall(x, l)
  \/ LockCli(x)
  \/ LockBts(x)
  \/ LockStore(x)
  \/ ReleaseLoad(x)
  \/ ReleaseClear(x)
  \/ ReleaseSti(x)

Next == (\E c \in CPUs : CpuStep(c)) \/ (\E x \in Contexts : LockStep(x))

Spec == Init /\ [][Next]_vars

(* A processor executes the instructions of the context it runs: a lock    *)
(* function that was entered goes on, a critical section ends (they are    *)
(* all loop-free or bounded) and a handler returns.  Nothing is assumed of *)
(* the order in which the bus grants competing bts instructions.           *)
Finish(x) ==
  LockCli(x) \/ LockBts(x) \/ LockStore(x) \/ ReleaseLoad(x) \/ ReleaseClear(x) \/ ReleaseSti(x)

FairSpec ==
  /\ Spec
  /\ \A x \in Contexts : WF_vars(Finish(x))
  /\ \A c \in CPUs : WF_vars(LeaveIrq(c))

(* A lock under which no other is taken (pagingLock, threadLock) is always *)
(* given up again: neither another processor nor an interrupt can keep its *)
(* holder from reaching spinlock_release.                                  *)
LeafLockReleased ==
  \A l \in Locks :
    (\A m \in Locks : Rank[m] <= Rank[l]) => (bit[l] ~> ~bit[l])

-----------------------------------------------------------------------------
(* The inductive invariant behind MutualExclusion, InterruptsRestored and  *)
(* CriticalSectionNotInterrupted.                                          *)

(* The flag is to be on only outside all locks, if it was on there before. *)
Outer(x)    == held[x] = <<>> /\ Wanted(x)
Restores(x) == Len(held[x]) = 1 /\ Wanted(x)

(* Who holds a lock has set its bit.                                       *)
HeldBits == \A x \in Contexts : \A i \in DOMAIN held[x] : bit[held[x][i]]

(* InterruptState of a held lock is what its release has to restore, from  *)
(* the store in spinlock_lock on: nobody else writes it meanwhile.         *)
SavedFlags ==
  \A x \in Contexts : \A i \in DOMAIN held[x] :
    ~(pc[x] = "store" /\ i = Len(held[x]))
      => (istate[held[x][i]] <=> i = 1 /\ Wanted(x))

(* What edx holds at each instruction of the two functions.                *)
RegisterOK(x) ==
  /\ pc[x] \in {"run", "cli", "bts", "store", "clear", "sti"}
  /\ pc[x] \in {"cli", "bts", "sti"} => (reg[x] <=> Outer(x))
  /\ pc[x] \in {"store", "clear"} =>
       held[x] # <<>> /\ arg[x] = Innermost(x) /\ (reg[x] <=> Restores(x))

(* The flag of a processor, as the context it runs has set it.             *)
FlagOK(x) == Running(x) => (intr[Cpu(x)] <=> pc[x] \in {"run", "cli"} /\ Outer(x))

Registers == \A x \in Contexts : RegisterOK(x)
Flags     == \A x \in Contexts : FlagOK(x)

(* A handler interrupts only a thread outside all locks.                   *)
Interrupted ==
  \A c \in CPUs :
    IF inIrq[c]
    THEN /\ base[c]
         /\ held[<<c, "thread">>] = <<>>
         /\ pc[<<c, "thread">>] \in {"run", "cli"}
    ELSE /\ held[<<c, "irq">>] = <<>>
         /\ pc[<<c, "irq">>] = "run"

IInv == TypeOK /\ MutualExclusion /\ HeldBits /\ SavedFlags /\ Registers /\ Flags /\ Interrupted
=============================================================================
