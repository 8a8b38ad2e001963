----------------------------- MODULE Interrupts -----------------------------
(***************************************************************************)
(* The processors as the spinlock sees them: each has an interrupt flag    *)
(* (EFLAGS.IF) and runs one thread that one interrupt handler may          *)
(* interrupt.  Every IRQ vector is an interrupt gate                       *)
(* (kernel/interrupts/idt.c), so the flag is clear while a handler runs    *)
(* and iret restores it.  SpinLock_i386 and SpinLock_x86_64 add the lock   *)
(* functions of the two builds, one step per instruction that touches the  *)
(* lock or the flag.                                                       *)
(***************************************************************************)
EXTENDS Integers, Sequences

CONSTANTS
  CPUs,     (* the processors                                              *)
  Locks,    (* the lock_t objects of the kernel                            *)
  Rank      (* nesting order: kheap_lock and paging_device_alloc_lock are  *)
            (* held while pagingLock is taken, never the other way round   *)

ASSUME RankAssumption == Rank \in [Locks -> Nat]

Levels == {"thread", "irq"}
Contexts == CPUs \X Levels

VARIABLES
  intr,     (* EFLAGS.IF, the interrupt flag of each processor             *)
  inIrq,    (* whether the processor is running its interrupt handler      *)
  base,     (* the flag the thread of a processor runs with outside locks  *)
  pc,       (* where each context is in the lock functions                 *)
  arg,      (* the lock_t a lock function was called on (eax, rax)         *)
  reg,      (* the saved flag as a lock function has it in edx or rdx      *)
  held,     (* the locks a context holds, the innermost last               *)
  bit,      (* lock_t.Lock                                                 *)
  istate    (* lock_t.InterruptState                                       *)

vars == <<intr, inIrq, base, pc, arg, reg, held, bit, istate>>

Cpu(x) == x[1]

(* A handler suspends the thread of its processor, nothing else does.      *)
Running(x) == inIrq[Cpu(x)] <=> x[2] = "irq"

Goto(x, from, to) == /\ Running(x)
                     /\ pc[x] = from
                     /\ pc' = [pc EXCEPT ![x] = to]

Innermost(x) == held[x][Len(held[x])]
Holds(x, l) == \E i \in DOMAIN held[x] : held[x][i] = l

(* The locks a context may take next: spinlocks are nested by rank.        *)
MayTake(x, l) == held[x] # <<>> => Rank[l] > Rank[Innermost(x)]

(* The flag a context has to run with while it is outside all locks.       *)
Wanted(x) == IF x[2] = "thread" THEN base[Cpu(x)] ELSE FALSE

-----------------------------------------------------------------------------
(* Interrupts start disabled: the boot code runs with IF clear until       *)
(* interrupts_init.                                                        *)
Init ==
  /\ intr     = [c \in CPUs |-> FALSE]
  /\ inIrq  = [c \in CPUs |-> FALSE]
  /\ base   = [c \in CPUs |-> FALSE]
  /\ pc     = [x \in Contexts |-> "run"]
  /\ arg   \in [Contexts -> Locks]
  /\ reg    = [x \in Contexts |-> FALSE]
  /\ held   = [x \in Contexts |-> <<>>]
  /\ bit    = [l \in Locks |-> FALSE]
  /\ istate = [l \in Locks |-> FALSE]

(* interrupts_enable and interrupts_disable, called outside locks.         *)
SetInterrupts(c, on) ==
  LET x == <<c, "thread">> IN
  /\ Running(x) /\ pc[x] = "run" /\ held[x] = <<>>
  /\ intr' = [intr EXCEPT ![c] = on]
  /\ base' = [base EXCEPT ![c] = on]
  /\ UNCHANGED <<inIrq, pc, arg, reg, held, bit, istate>>

(* The processor delivers an IRQ: the gate clears the flag.                *)
EnterIrq(c) ==
  /\ intr[c]
  /\ ~inIrq[c]
  /\ inIrq' = [inIrq EXCEPT ![c] = TRUE]
  /\ intr'  = [intr EXCEPT ![c] = FALSE]
  /\ UNCHANGED <<base, pc, arg, reg, held, bit, istate>>

(* _irq_exit: iret restores the flag of the interrupted thread.            *)
LeaveIrq(c) ==
  /\ inIrq[c]
  /\ pc[<<c, "irq">>] = "run" /\ held[<<c, "irq">>] = <<>>
  /\ inIrq' = [inIrq EXCEPT ![c] = FALSE]
  /\ intr'  = [intr EXCEPT ![c] = TRUE]
  /\ UNCHANGED <<base, pc, arg, reg, held, bit, istate>>

CpuStep(c) == EnterIrq(c) \/ LeaveIrq(c) \/ \E on \in BOOLEAN : SetInterrupts(c, on)

-----------------------------------------------------------------------------
(* The lock functions of both builds, instruction by instruction.          *)

(* pushf; pop: the flag before the call.                                   *)
SaveFlags(x, from, to) ==
  /\ Goto(x, from, to)
  /\ reg' = [reg EXCEPT ![x] = intr[Cpu(x)]]
  /\ UNCHANGED <<intr, inIrq, base, held, bit, istate>>

Cli(x, from, to) ==
  /\ Goto(x, from, to)
  /\ intr' = [intr EXCEPT ![Cpu(x)] = FALSE]
  /\ UNCHANGED <<inIrq, base, arg, reg, held, bit, istate>>

(* A bts that sets the bit whatever it was, and a jc that is not there.    *)
BitTestSetMutant(x, from, to) ==
  /\ Goto(x, from, to)
  /\ bit'  = [bit EXCEPT ![arg[x]] = TRUE]
  /\ held' = [held EXCEPT ![x] = Append(@, arg[x])]
  /\ UNCHANGED <<intr, inIrq, base, arg, reg, istate>>

(* lock bts; jc .loop: a failed attempt changes nothing and is retried.    *)
BitTestSet(x, from, to) ==
  /\ Goto(x, from, to)
  /\ ~bit[arg[x]]
  /\ bit'  = [bit EXCEPT ![arg[x]] = TRUE]
  /\ held' = [held EXCEPT ![x] = Append(@, arg[x])]
  /\ UNCHANGED <<intr, inIrq, base, arg, reg, istate>>

(* The register no longer holds the lock: the store goes somewhere else.   *)
StoreFlagsMutant(x, from, to) ==
  /\ Goto(x, from, to)
  /\ istate' = [l \in Locks \cup {x} |-> IF l = x THEN reg[x] ELSE istate[l]]
  /\ UNCHANGED <<intr, inIrq, base, arg, reg, held, bit>>

StoreFlags(x, from, to) ==
  /\ Goto(x, from, to)
  /\ istate' = [istate EXCEPT ![arg[x]] = reg[x]]
  /\ UNCHANGED <<intr, inIrq, base, arg, reg, held, bit>>

LoadFlags(x, l, from, to) ==
  /\ Goto(x, from, to)
  /\ reg' = [reg EXCEPT ![x] = istate[l]]
  /\ UNCHANGED <<intr, inIrq, base, held, bit, istate>>

ClearBit(x, l, from, to) ==
  /\ Goto(x, from, to)
  /\ bit'  = [bit EXCEPT ![l] = FALSE]
  /\ held' = [held EXCEPT ![x] = SubSeq(@, 1, Len(@) - 1)]
  /\ UNCHANGED <<intr, inIrq, base, reg, istate>>

(* cmp edx, 0; jz; sti.                                                    *)
StiIfSaved(x, from, to) ==
  /\ Goto(x, from, to)
  /\ intr' = [intr EXCEPT ![Cpu(x)] = @ \/ reg[x]]
  /\ UNCHANGED <<inIrq, base, arg, reg, held, bit, istate>>

-----------------------------------------------------------------------------
TypeOK ==
  /\ intr \in [CPUs -> BOOLEAN]
  /\ inIrq \in [CPUs -> BOOLEAN]
  /\ base \in [CPUs -> BOOLEAN]
  /\ pc \in [Contexts -> {"run", "flags", "cli", "bts", "store", "clear", "load", "sti"}]
  /\ arg \in [Contexts -> Locks]
  /\ reg \in [Contexts -> BOOLEAN]
  /\ held \in [Contexts -> Seq(Locks)]
  /\ bit \in [Locks -> BOOLEAN]
  /\ istate \in [Locks -> BOOLEAN]

(* A lock_t is held at most once, whichever processors, threads and        *)
(* handlers compete for it (spinlock_lock, spinlock_release).              *)
MutualExclusion ==
  \A x, y \in Contexts : \A i \in DOMAIN held[x], j \in DOMAIN held[y] :
    held[x][i] = held[y][j] => x = y /\ i = j

(* A thread that holds a lock is never interrupted, so no handler spins    *)
(* for ever on a lock of the very thread it interrupted.                   *)
CriticalSectionNotInterrupted ==
  \A c \in CPUs : inIrq[c] => held[<<c, "thread">>] = <<>>

(* Once a context is outside all locks again, its processor has the        *)
(* interrupt flag it had before the first of them, through any nesting and *)
(* whatever the other processors do: interrupts are not left off, and a    *)
(* handler is never left interruptible.                                    *)
InterruptsRestored ==
  \A x \in Contexts :
    Running(x) /\ pc[x] = "run" /\ held[x] = <<>> => intr[Cpu(x)] = Wanted(x)
=============================================================================
