--------------------------- MODULE SpinLock_proofs ----------------------------
(***************************************************************************)
(* The spinlocks, for every set of processors, every set of locks and      *)
(* every nesting order.  That of the i386 build excludes, is not           *)
(* interrupted and gives the interrupt flag back (IInv of SpinLock_i386).  *)
(* Of that of the x86_64 build the first is true.                          *)
(***************************************************************************)
EXTENDS SpinLock_i386, SequenceTheorems, TLAPS

(* The two contexts of a processor, and the one that runs.                 *)
LEMMA ContextFacts ==
  ASSUME NEW x \in Contexts
  PROVE  /\ Cpu(x) \in CPUs
         /\ x[2] \in Levels
         /\ x = <<Cpu(x), x[2]>>
         /\ \A y \in Contexts : Cpu(y) = Cpu(x) /\ y[2] = x[2] => y = x
BY DEF Contexts, Cpu

LEMMA ContextOfCpu ==
  ASSUME NEW c \in CPUs
  PROVE  /\ <<c, "thread">> \in Contexts /\ Cpu(<<c, "thread">>) = c
         /\ <<c, "irq">> \in Contexts /\ Cpu(<<c, "irq">>) = c
BY DEF Contexts, Cpu, Levels

(* Taking the innermost lock and giving it up again, as sequences.         *)
LEMMA PushFacts ==
  ASSUME NEW s \in Seq(Locks), NEW l \in Locks
  PROVE  /\ Append(s, l) \in Seq(Locks)
         /\ Len(Append(s, l)) = Len(s) + 1
         /\ DOMAIN Append(s, l) = 1..(Len(s) + 1)
         /\ \A i \in DOMAIN s : Append(s, l)[i] = s[i]
         /\ Append(s, l)[Len(s) + 1] = l
         /\ DOMAIN s = 1..Len(s) /\ Len(s) \in Nat
OBVIOUS

LEMMA PopFacts ==
  ASSUME NEW s \in Seq(Locks), s # <<>>
  PROVE  /\ SubSeq(s, 1, Len(s) - 1) \in Seq(Locks)
         /\ Len(SubSeq(s, 1, Len(s) - 1)) = Len(s) - 1
         /\ DOMAIN SubSeq(s, 1, Len(s) - 1) = 1..(Len(s) - 1)
         /\ \A i \in 1..(Len(s) - 1) : SubSeq(s, 1, Len(s) - 1)[i] = s[i]
         /\ DOMAIN s = 1..Len(s) /\ Len(s) \in Nat \ {0}
         /\ s[Len(s)] \in Locks
<1>1. /\ Len(s) \in Nat \ {0}
      /\ DOMAIN s = 1..Len(s)
      /\ \A i \in 1..Len(s) : s[i] \in Locks
  BY EmptySeq, LenProperties
<1>2. \A i \in 1..(Len(s) - 1) : s[i] \in Locks
  BY <1>1
<1>3. /\ SubSeq(s, 1, Len(s) - 1) \in Seq(Locks)
      /\ Len(SubSeq(s, 1, Len(s) - 1)) =
           IF 1 <= Len(s) - 1 THEN Len(s) - 1 - 1 + 1 ELSE 0
      /\ \A i \in 1..(Len(s) - 1 - 1 + 1) : SubSeq(s, 1, Len(s) - 1)[i] = s[1 + i - 1]
  BY <1>1, <1>2, SubSeqProperties
<1>4. DOMAIN SubSeq(s, 1, Len(s) - 1) = 1..Len(SubSeq(s, 1, Len(s) - 1))
  BY <1>3, LenProperties
<1>. QED
  BY <1>1, <1>3, <1>4

LEMMA EmptyFacts ==
  ASSUME NEW s \in Seq(Locks)
  PROVE  s = <<>> <=> Len(s) = 0
<1>1. s # <<>> => Len(s) \in Nat \ {0}
  BY EmptySeq
<1>2. Len(<<>>) = 0
  BY EmptySeq
<1>. QED
  BY <1>1, <1>2

LEMMA InitIInv == Init => IInv
<1>. SUFFICES ASSUME Init PROVE IInv
  OBVIOUS
<1>1. TypeOK
  BY DEF Init, TypeOK
<1>2. \A x \in Contexts : held[x] = <<>> /\ DOMAIN held[x] = {} /\ pc[x] = "run"
  BY DEF Init
<1>3. MutualExclusion /\ HeldBits /\ SavedFlags
  BY <1>2 DEF MutualExclusion, HeldBits, SavedFlags
<1>4. Registers
  BY <1>2 DEF Registers, RegisterOK
<1>5. Flags
  BY ContextFacts DEF Init, Flags, FlagOK, Outer, Wanted
<1>6. Interrupted
  BY <1>2, ContextOfCpu DEF Init, Interrupted
<1>. QED
  BY <1>1, <1>3, <1>4, <1>5, <1>6 DEF IInv

(* A step of a lock function is a step of the context its processor runs,  *)
(* and touches the registers, the locks and the flag of no other context.  *)
StepOf(x) ==
  /\ Running(x)
  /\ inIrq' = inIrq /\ base' = base
  /\ \A y \in Contexts \ {x} :
       pc'[y] = pc[y] /\ arg'[y] = arg[y] /\ reg'[y] = reg[y] /\ held'[y] = held[y]
  /\ \A d \in CPUs \ {Cpu(x)} : intr'[d] = intr[d]

LEMMA LockStepIsLocal ==
  ASSUME NEW x \in Contexts, TypeOK, StepOf(x), Registers, Flags, Interrupted,
         RegisterOK(x)', FlagOK(x)'
  PROVE  Registers' /\ Flags' /\ Interrupted'
<1>1. ASSUME NEW y \in Contexts, y # x
      PROVE  RegisterOK(y)'
  BY <1>1 DEF StepOf, Registers, RegisterOK, Outer, Restores, Wanted, Innermost
<1>2. ASSUME NEW y \in Contexts, y # x
      PROVE  FlagOK(y)'
  <2>1. CASE Cpu(y) = Cpu(x)
    <3>1. y[2] # x[2] /\ y[2] \in Levels /\ x[2] \in Levels
      BY <1>2, <2>1, ContextFacts
    <3>2. ~(Running(y)')
      BY <2>1, <3>1 DEF StepOf, Running, Levels
    <3>. QED
      BY <3>2 DEF FlagOK
  <2>2. CASE Cpu(y) # Cpu(x)
    <3>1. Cpu(y) \in CPUs \ {Cpu(x)} /\ Cpu(y)' = Cpu(y)
      BY <2>2, ContextFacts DEF Cpu
    <3>. QED
      BY <1>2, <3>1 DEF StepOf, Flags, FlagOK, Outer, Wanted, Running
  <2>. QED
    BY <2>1, <2>2
<1>3. Interrupted'
  <2>. SUFFICES ASSUME NEW c \in CPUs
       PROVE  IF inIrq[c]
              THEN /\ base[c]
                   /\ held'[<<c, "thread">>] = <<>>
                   /\ pc'[<<c, "thread">>] \in {"run", "cli"}
              ELSE /\ held'[<<c, "irq">>] = <<>>
                   /\ pc'[<<c, "irq">>] = "run"
    BY DEF StepOf, Interrupted
  <2>1. CASE inIrq[c]
    <3>1. <<c, "thread">> # x
      BY <2>1 DEF StepOf, Running, Cpu
    <3>. QED
      BY <2>1, <3>1, ContextOfCpu DEF StepOf, Interrupted
  <2>2. CASE ~inIrq[c]
    <3>1. <<c, "irq">> # x
      BY <2>2 DEF StepOf, Running, Cpu
    <3>. QED
      BY <2>2, <3>1, ContextOfCpu DEF StepOf, Interrupted
  <2>. QED
    BY <2>1, <2>2
<1>. QED
  BY <1>1, <1>2, <1>3 DEF Registers, Flags

LEMMA NextIInv == IInv /\ [Next]_vars => IInv'
<1>. SUFFICES ASSUME IInv, [Next]_vars PROVE IInv'
  OBVIOUS
<1>. USE DEF IInv
<1>1. ASSUME NEW c \in CPUs, EnterIrq(c)
      PROVE  IInv'
  <2>1. TypeOK' /\ MutualExclusion' /\ HeldBits'
    BY <1>1, ContextOfCpu DEF EnterIrq, TypeOK, MutualExclusion, HeldBits
  <2>2. SavedFlags' /\ Registers'
    BY <1>1 DEF EnterIrq, SavedFlags, Registers, RegisterOK, Outer, Restores, Innermost, Wanted
  <2>3. Flags'
    <3>. SUFFICES ASSUME NEW y \in Contexts, Running(y)'
         PROVE  intr'[Cpu(y)] <=> pc'[y] \in {"run", "cli"} /\ Outer(y)'
      BY DEF Flags, FlagOK, Cpu
    <3>1. CASE Cpu(y) = c
      <4>1. y = <<c, "irq">> /\ ~inIrq[c] /\ ~intr'[c]
        BY <1>1, <3>1, ContextFacts DEF EnterIrq, Running, TypeOK, Levels
      <4>. QED
        BY <3>1, <4>1 DEF Outer, Wanted
    <3>2. CASE Cpu(y) # c
      BY <1>1, <3>2, ContextFacts DEF EnterIrq, TypeOK, Flags, FlagOK, Running, Outer, Wanted, Cpu
    <3>. QED
      BY <3>1, <3>2
  <2>4. Interrupted'
    <3>. SUFFICES ASSUME NEW d \in CPUs
         PROVE  IF inIrq'[d]
                THEN /\ base'[d]
                     /\ held'[<<d, "thread">>] = <<>>
                     /\ pc'[<<d, "thread">>] \in {"run", "cli"}
                ELSE /\ held'[<<d, "irq">>] = <<>>
                     /\ pc'[<<d, "irq">>] = "run"
      BY DEF Interrupted
    <3>1. CASE d = c
      <4>1. inIrq'[c] /\ Running(<<c, "thread">>)
        BY <1>1, ContextOfCpu DEF EnterIrq, TypeOK, Running
      <4>2. pc[<<c, "thread">>] \in {"run", "cli"} /\ Outer(<<c, "thread">>)
        BY <1>1, <4>1, ContextOfCpu DEF EnterIrq, Flags, FlagOK
      <4>. QED
        BY <1>1, <3>1, <4>1, <4>2, ContextOfCpu DEF EnterIrq, Outer, Wanted
    <3>2. CASE d # c
      BY <1>1, <3>2 DEF EnterIrq, TypeOK, Interrupted
    <3>. QED
      BY <3>1, <3>2
  <2>. QED
    BY <2>1, <2>2, <2>3, <2>4
<1>2. ASSUME NEW c \in CPUs, LeaveIrq(c)
      PROVE  IInv'
  <2>1. TypeOK' /\ MutualExclusion' /\ HeldBits'
    BY <1>2, ContextOfCpu DEF LeaveIrq, TypeOK, MutualExclusion, HeldBits
  <2>2. SavedFlags' /\ Registers'
    BY <1>2 DEF LeaveIrq, SavedFlags, Registers, RegisterOK, Outer, Restores, Innermost, Wanted
  <2>3. Flags'
    <3>. SUFFICES ASSUME NEW y \in Contexts, Running(y)'
         PROVE  intr'[Cpu(y)] <=> pc'[y] \in {"run", "cli"} /\ Outer(y)'
      BY DEF Flags, FlagOK, Cpu
    <3>1. CASE Cpu(y) = c
      <4>1. y = <<c, "thread">> /\ inIrq[c] /\ intr'[c]
        BY <1>2, <3>1, ContextFacts DEF LeaveIrq, Running, TypeOK, Levels
      <4>2. base'[c] /\ held'[y] = <<>> /\ pc'[y] \in {"run", "cli"}
        BY <1>2, <4>1 DEF LeaveIrq, Interrupted
      <4>. QED
        BY <3>1, <4>1, <4>2 DEF Outer, Wanted, Cpu
    <3>2. CASE Cpu(y) # c
      BY <1>2, <3>2, ContextFacts DEF LeaveIrq, TypeOK, Flags, FlagOK, Running, Outer, Wanted, Cpu
    <3>. QED
      BY <3>1, <3>2
  <2>4. Interrupted'
    <3>. SUFFICES ASSUME NEW d \in CPUs
         PROVE  IF inIrq'[d]
                THEN /\ base'[d]
                     /\ held'[<<d, "thread">>] = <<>>
                     /\ pc'[<<d, "thread">>] \in {"run", "cli"}
                ELSE /\ held'[<<d, "irq">>] = <<>>
                     /\ pc'[<<d, "irq">>] = "run"
      BY DEF Interrupted
    <3>1. CASE d = c
      BY <1>2, <3>1 DEF LeaveIrq, TypeOK
    <3>2. CASE d # c
      BY <1>2, <3>2 DEF LeaveIrq, TypeOK, Interrupted
    <3>. QED
      BY <3>1, <3>2
  <2>. QED
    BY <2>1, <2>2, <2>3, <2>4
<1>3. ASSUME NEW c \in CPUs, NEW on \in BOOLEAN, SetInterrupts(c, on)
      PROVE  IInv'
  <2>1. TypeOK' /\ MutualExclusion' /\ HeldBits'
    BY <1>3, ContextOfCpu DEF SetInterrupts, TypeOK, MutualExclusion, HeldBits
  <2>2. SavedFlags' /\ Registers'
    <3>1. \A y \in Contexts : y # <<c, "thread">> => (Wanted(y)' <=> Wanted(y))
      BY <1>3, ContextFacts, ContextOfCpu DEF SetInterrupts, Wanted, TypeOK, Levels
    <3>2. held[<<c, "thread">>] = <<>> /\ DOMAIN held[<<c, "thread">>] = {}
      BY <1>3 DEF SetInterrupts
    <3>. QED
      BY <1>3, <3>1, <3>2 DEF SetInterrupts, SavedFlags, Registers, RegisterOK, Outer,
           Restores, Innermost
  <2>3. Flags'
    <3>. SUFFICES ASSUME NEW y \in Contexts, Running(y)'
         PROVE  intr'[Cpu(y)] <=> pc'[y] \in {"run", "cli"} /\ Outer(y)'
      BY DEF Flags, FlagOK, Cpu
    <3>1. CASE Cpu(y) = c
      <4>1. y = <<c, "thread">>
        BY <1>3, <3>1, ContextFacts, ContextOfCpu DEF SetInterrupts, Running, TypeOK, Levels
      <4>2. intr'[c] = on /\ base'[c] = on /\ held'[y] = <<>> /\ pc'[y] = "run"
        BY <1>3, <4>1 DEF SetInterrupts, TypeOK
      <4>. QED
        BY <3>1, <4>1, <4>2 DEF Outer, Wanted, Cpu
    <3>2. CASE Cpu(y) # c
      BY <1>3, <3>2, ContextFacts DEF SetInterrupts, TypeOK, Flags, FlagOK, Running, Outer, Wanted, Cpu
    <3>. QED
      BY <3>1, <3>2
  <2>4. Interrupted'
    <3>. SUFFICES ASSUME NEW d \in CPUs
         PROVE  IF inIrq'[d]
                THEN /\ base'[d]
                     /\ held'[<<d, "thread">>] = <<>>
                     /\ pc'[<<d, "thread">>] \in {"run", "cli"}
                ELSE /\ held'[<<d, "irq">>] = <<>>
                     /\ pc'[<<d, "irq">>] = "run"
      BY DEF Interrupted
    <3>1. CASE d = c
      BY <1>3, <3>1, ContextOfCpu DEF SetInterrupts, TypeOK, Running, Interrupted
    <3>2. CASE d # c
      BY <1>3, <3>2 DEF SetInterrupts, TypeOK, Interrupted
    <3>. QED
      BY <3>1, <3>2
  <2>. QED
    BY <2>1, <2>2, <2>3, <2>4
<1>4. ASSUME NEW x \in Contexts, NEW l \in Locks, LockCall(x, l)
      PROVE  IInv'
  <2>1. TypeOK' /\ StepOf(x)
    BY <1>4, ContextFacts, PushFacts, PopFacts
       DEF LockCall, SaveFlags, MayTake, Goto, StepOf, TypeOK, Innermost
  <2>2. MutualExclusion' /\ HeldBits'
    BY <1>4 DEF LockCall, SaveFlags, MayTake, TypeOK, MutualExclusion, HeldBits
  <2>3. SavedFlags'
    BY <1>4 DEF LockCall, SaveFlags, MayTake, Goto, TypeOK, SavedFlags, Wanted
  <2>4. RegisterOK(x)' /\ FlagOK(x)'
    BY <1>4, ContextFacts DEF LockCall, SaveFlags, MayTake, Goto, TypeOK, Registers, RegisterOK, Flags,
       FlagOK, Outer, Restores, Innermost, Wanted
  <2>. QED
    BY <2>1, <2>2, <2>3, <2>4, LockStepIsLocal
<1>5. ASSUME NEW x \in Contexts, LockCli(x)
      PROVE  IInv'
  <2>1. TypeOK' /\ StepOf(x)
    BY <1>5, ContextFacts, PushFacts, PopFacts
       DEF LockCli, Cli, Goto, StepOf, TypeOK, Innermost
  <2>2. MutualExclusion' /\ HeldBits'
    BY <1>5 DEF LockCli, Cli, TypeOK, MutualExclusion, HeldBits
  <2>3. SavedFlags'
    BY <1>5 DEF LockCli, Cli, Goto, TypeOK, SavedFlags, Wanted
  <2>4. RegisterOK(x)' /\ FlagOK(x)'
    BY <1>5, ContextFacts DEF LockCli, Cli, Goto, TypeOK, Registers, RegisterOK, Flags,
       FlagOK, Outer, Restores, Innermost, Wanted
  <2>. QED
    BY <2>1, <2>2, <2>3, <2>4, LockStepIsLocal
<1>6. ASSUME NEW x \in Contexts, LockBts(x)
      PROVE  IInv'
  <2>1. TypeOK' /\ StepOf(x)
    BY <1>6, ContextFacts, PushFacts, PopFacts
       DEF LockBts, BitTestSet, Goto, StepOf, TypeOK, Innermost
  <2>2. MutualExclusion' /\ HeldBits'
    BY <1>6 DEF LockBts, BitTestSet, TypeOK, MutualExclusion, HeldBits
  <2>3. SavedFlags'
    BY <1>6 DEF LockBts, BitTestSet, Goto, TypeOK, SavedFlags, Wanted
  <2>4. RegisterOK(x)' /\ FlagOK(x)'
    <3>1. held[x] \in Seq(Locks) /\ arg[x] \in Locks /\ Cpu(x) \in CPUs
      BY ContextFacts DEF TypeOK
    <3>2. /\ pc[x] = "bts" /\ (reg[x] <=> Outer(x)) /\ ~intr[Cpu(x)]
          /\ pc'[x] = "store" /\ reg' = reg /\ intr' = intr /\ arg' = arg /\ base' = base
          /\ held'[x] = Append(held[x], arg[x])
      BY <1>6 DEF LockBts, BitTestSet, Goto, TypeOK, Registers, RegisterOK, Flags, FlagOK
    <3>3. held'[x] # <<>> /\ Len(held'[x]) = Len(held[x]) + 1 /\ held'[x][Len(held'[x])] = arg[x]
      BY <3>1, <3>2, PushFacts
    <3>4. Len(held[x]) + 1 = 1 <=> held[x] = <<>>
      BY <3>1
    <3>. QED
      BY <3>2, <3>3, <3>4 DEF RegisterOK, FlagOK, Outer, Restores, Innermost, Wanted, Cpu
  <2>. QED
    BY <2>1, <2>2, <2>3, <2>4, LockStepIsLocal
<1>7. ASSUME NEW x \in Contexts, LockStore(x)
      PROVE  IInv'
  <2>1. TypeOK' /\ StepOf(x)
    BY <1>7, ContextFacts, PushFacts, PopFacts
       DEF LockStore, StoreFlags, Goto, StepOf, TypeOK, Innermost
  <2>2. MutualExclusion' /\ HeldBits'
    BY <1>7 DEF LockStore, StoreFlags, TypeOK, MutualExclusion, HeldBits
  <2>3. SavedFlags'
    <3>. SUFFICES ASSUME NEW y \in Contexts, NEW i \in DOMAIN held[y],
                         ~(pc'[y] = "store" /\ i = Len(held[y]))
         PROVE  istate'[held[y][i]] <=> i = 1 /\ Wanted(y)
      BY <1>7 DEF LockStore, StoreFlags, SavedFlags, Wanted, Cpu
    <3>1. /\ pc[x] = "store" /\ held[x] \in Seq(Locks) /\ held[x] # <<>>
          /\ arg[x] = held[x][Len(held[x])] /\ (reg[x] <=> Restores(x))
          /\ istate' = [istate EXCEPT ![arg[x]] = reg[x]] /\ istate \in [Locks -> BOOLEAN]
          /\ \A z \in Contexts \ {x} : pc'[z] = pc[z]
      BY <1>7 DEF LockStore, StoreFlags, Goto, TypeOK, Registers, RegisterOK, Innermost
    <3>2. /\ Len(held[x]) \in DOMAIN held[x] /\ arg[x] \in Locks
          /\ held[y][i] \in Locks
      BY <3>1 DEF TypeOK
    <3>3. CASE y = x /\ i = Len(held[x])
      BY <3>1, <3>2, <3>3 DEF Restores
    <3>4. CASE ~(y = x /\ i = Len(held[x]))
      <4>1. held[y][i] # arg[x]
        BY <3>1, <3>2, <3>4 DEF MutualExclusion
      <4>2. ~(pc[y] = "store" /\ i = Len(held[y]))
        BY <3>1, <3>4
      <4>. QED
        BY <3>1, <4>1, <4>2, <3>2 DEF SavedFlags
    <3>. QED
      BY <3>3, <3>4
  <2>4. RegisterOK(x)' /\ FlagOK(x)'
    BY <1>7, ContextFacts DEF LockStore, StoreFlags, Goto, TypeOK, Registers, RegisterOK, Flags,
       FlagOK, Outer, Restores, Innermost, Wanted
  <2>. QED
    BY <2>1, <2>2, <2>3, <2>4, LockStepIsLocal
<1>8. ASSUME NEW x \in Contexts, ReleaseLoad(x)
      PROVE  IInv'
  <2>1. TypeOK' /\ StepOf(x)
    BY <1>8, ContextFacts, PushFacts, PopFacts
       DEF ReleaseLoad, LoadFlags, Goto, StepOf, TypeOK, Innermost
  <2>2. MutualExclusion' /\ HeldBits'
    BY <1>8 DEF ReleaseLoad, LoadFlags, TypeOK, MutualExclusion, HeldBits
  <2>3. SavedFlags'
    BY <1>8 DEF ReleaseLoad, LoadFlags, Goto, TypeOK, SavedFlags, Wanted
  <2>4. RegisterOK(x)' /\ FlagOK(x)'
    <3>1. /\ pc[x] = "run" /\ Running(x) /\ held[x] # <<>> /\ held[x] \in Seq(Locks)
          /\ pc'[x] = "clear" /\ arg'[x] = Innermost(x)
          /\ reg'[x] = istate[Innermost(x)]
          /\ held' = held /\ intr' = intr /\ base' = base /\ inIrq' = inIrq
      BY <1>8 DEF ReleaseLoad, LoadFlags, Goto, TypeOK
    <3>2. Len(held[x]) \in DOMAIN held[x]
      BY <3>1
    <3>3. istate[Innermost(x)] <=> Restores(x)
      BY <3>1, <3>2 DEF SavedFlags, Innermost, Restores
    <3>4. ~intr[Cpu(x)]
      BY <3>1 DEF Flags, FlagOK, Outer
    <3>. QED
      BY <3>1, <3>3, <3>4 DEF RegisterOK, FlagOK, Restores, Innermost, Wanted, Cpu
  <2>. QED
    BY <2>1, <2>2, <2>3, <2>4, LockStepIsLocal
<1>9. ASSUME NEW x \in Contexts, ReleaseClear(x)
      PROVE  IInv'
  <2>1. TypeOK' /\ StepOf(x)
    BY <1>9, ContextFacts, PushFacts, PopFacts
       DEF ReleaseClear, ClearBit, Goto, StepOf, TypeOK, Innermost
  <2>2. /\ pc[x] = "clear" /\ held[x] \in Seq(Locks) /\ held[x] # <<>>
        /\ arg[x] = Innermost(x) /\ (reg[x] <=> Restores(x)) /\ ~intr[Cpu(x)]
        /\ pc'[x] = "sti" /\ reg' = reg /\ intr' = intr /\ base' = base
        /\ held' = [held EXCEPT ![x] = SubSeq(held[x], 1, Len(held[x]) - 1)]
        /\ bit' = [bit EXCEPT ![arg[x]] = FALSE]
    BY <1>9 DEF ReleaseClear, ClearBit, Goto, TypeOK, Registers, RegisterOK, Flags, FlagOK
  <2>3. /\ held'[x] = SubSeq(held[x], 1, Len(held[x]) - 1)
        /\ Len(held'[x]) = Len(held[x]) - 1 /\ held'[x] \in Seq(Locks)
        /\ DOMAIN held'[x] = 1..(Len(held[x]) - 1)
        /\ \A i \in DOMAIN held'[x] : held'[x][i] = held[x][i]
        /\ DOMAIN held[x] = 1..Len(held[x]) /\ Len(held[x]) \in Nat \ {0}
    BY <2>2, PopFacts DEF TypeOK
  <2>4. \A y \in Contexts : \A i \in DOMAIN held'[y] :
          /\ i \in DOMAIN held[y] /\ held'[y][i] = held[y][i]
          /\ held[y][i] # arg[x]
    <3>. SUFFICES ASSUME NEW y \in Contexts, NEW i \in DOMAIN held'[y]
         PROVE  /\ i \in DOMAIN held[y] /\ held'[y][i] = held[y][i]
                /\ held[y][i] # arg[x]
      OBVIOUS
    <3>1. i \in DOMAIN held[y] /\ held'[y][i] = held[y][i] /\ ~(y = x /\ i = Len(held[x]))
      BY <2>2, <2>3 DEF TypeOK
    <3>2. Len(held[x]) \in DOMAIN held[x] /\ arg[x] = held[x][Len(held[x])]
      BY <2>2, <2>3 DEF Innermost
    <3>. QED
      BY <3>1, <3>2 DEF MutualExclusion
  <2>5. MutualExclusion' /\ HeldBits'
    BY <2>2, <2>4 DEF MutualExclusion, HeldBits, TypeOK
  <2>6. SavedFlags'
    BY <1>9, <2>2, <2>3, <2>4 DEF ReleaseClear, ClearBit, Goto, TypeOK, SavedFlags, Wanted
  <2>7. RegisterOK(x)' /\ FlagOK(x)'
    <3>1. held'[x] = <<>> <=> Len(held[x]) = 1
      <4>1. held'[x] = <<>> <=> Len(held'[x]) = 0
        BY <2>3, EmptyFacts
      <4>2. Len(held'[x]) = Len(held[x]) - 1 /\ Len(held[x]) \in Nat
        BY <2>3
      <4>3. Len(held'[x]) = 0 <=> Len(held[x]) = 1
        BY <4>2
      <4>. QED
        BY <4>1, <4>3
    <3>. QED
      BY <2>2, <3>1 DEF RegisterOK, FlagOK, Outer, Restores, Wanted, Cpu
  <2>. QED
    BY <2>1, <2>5, <2>6, <2>7, LockStepIsLocal
<1>10. ASSUME NEW x \in Contexts, ReleaseSti(x)
      PROVE  IInv'
  <2>1. TypeOK' /\ StepOf(x)
    BY <1>10, ContextFacts, PushFacts, PopFacts
       DEF ReleaseSti, StiIfSaved, Goto, StepOf, TypeOK, Innermost
  <2>2. MutualExclusion' /\ HeldBits'
    BY <1>10 DEF ReleaseSti, StiIfSaved, TypeOK, MutualExclusion, HeldBits
  <2>3. SavedFlags'
    BY <1>10 DEF ReleaseSti, StiIfSaved, Goto, TypeOK, SavedFlags, Wanted
  <2>4. RegisterOK(x)' /\ FlagOK(x)'
    BY <1>10, ContextFacts DEF ReleaseSti, StiIfSaved, Goto, TypeOK, Registers, RegisterOK, Flags,
       FlagOK, Outer, Restores, Innermost, Wanted
  <2>. QED
    BY <2>1, <2>2, <2>3, <2>4, LockStepIsLocal
<1>11. CASE UNCHANGED vars
  BY <1>11 DEF vars, TypeOK, MutualExclusion, HeldBits, SavedFlags, Registers, RegisterOK,
              Flags, FlagOK, Interrupted, Running, Outer, Restores, Innermost, Wanted
<1>. QED
  BY <1>1, <1>2, <1>3, <1>4, <1>5, <1>6, <1>7, <1>8, <1>9, <1>10, <1>11
     DEF Next, CpuStep, LockStep

THEOREM TypeCorrect == Spec => []TypeOK
<1>1. IInv => TypeOK
  BY DEF IInv
<1>. QED
  BY <1>1, InitIInv, NextIInv, PTL DEF Spec

(* No lock_t is ever held twice, by any contexts of any processors.        *)
THEOREM Exclusion == Spec => []MutualExclusion
<1>1. IInv => MutualExclusion
  BY DEF IInv
<1>. QED
  BY <1>1, InitIInv, NextIInv, PTL DEF Spec

(* No interrupt arrives between a lock and its release.                    *)
THEOREM NotInterrupted == Spec => []CriticalSectionNotInterrupted
<1>1. IInv => CriticalSectionNotInterrupted
  BY DEF IInv, Interrupted, CriticalSectionNotInterrupted
<1>. QED
  BY <1>1, InitIInv, NextIInv, PTL DEF Spec

(* spinlock_release gives the interrupt flag back as spinlock_lock found   *)
(* it, however the locks are nested and whatever other processors do.      *)
THEOREM FlagRestored == Spec => []InterruptsRestored
<1>1. IInv => InterruptsRestored
  <2>. SUFFICES ASSUME IInv, NEW x \in Contexts, Running(x), pc[x] = "run", held[x] = <<>>
       PROVE  intr[Cpu(x)] = Wanted(x)
    BY DEF InterruptsRestored
  <2>1. intr[Cpu(x)] \in BOOLEAN /\ Wanted(x) \in BOOLEAN
    BY ContextFacts DEF IInv, TypeOK, Wanted
  <2>2. intr[Cpu(x)] <=> Wanted(x)
    BY DEF IInv, Flags, FlagOK, Outer
  <2>. QED
    BY <2>1, <2>2
<1>. QED
  BY <1>1, InitIInv, NextIInv, PTL DEF Spec

-----------------------------------------------------------------------------
(***************************************************************************)
(* The lock of the x86_64 build.  It does not give the flag back, but it   *)
(* still excludes: its invariant has neither the saved words nor the flag. *)
(***************************************************************************)
X64 == INSTANCE SpinLock_x86_64

Excludes == TypeOK /\ HeldBits /\ MutualExclusion

LEMMA TakeExcludes ==
  ASSUME Excludes, NEW x \in Contexts, BitTestSet(x, "bts", "flags")
  PROVE  Excludes'
<1>. USE DEF Excludes
<1>1. PICK l \in Locks : l = arg[x]
  BY DEF TypeOK
<1>2. PICK s \in Seq(Locks) : s = held[x]
  BY DEF TypeOK
<1>3. ~bit[l] /\ bit' = [bit EXCEPT ![l] = TRUE] /\ held' = [held EXCEPT ![x] = Append(s, l)]
  BY <1>1, <1>2 DEF BitTestSet
<1>4. /\ held'[x] = Append(s, l) /\ DOMAIN held'[x] = 1..(Len(s) + 1) /\ Len(s) \in Nat
      /\ held'[x][Len(s) + 1] = l
      /\ DOMAIN held[x] = 1..Len(s) /\ \A i \in DOMAIN held[x] : held'[x][i] = held[x][i]
      /\ \A y \in Contexts \ {x} : held'[y] = held[y]
  BY <1>2, <1>3, PushFacts DEF TypeOK
<1>5. TypeOK'
  BY <1>2, <1>3, PushFacts DEF TypeOK, BitTestSet, Goto
<1>6. \A y \in Contexts : \A i \in DOMAIN held[y] : held[y][i] # l
  BY <1>3 DEF HeldBits
<1>7. \A y \in Contexts : \A i \in DOMAIN held'[y] :
        \/ i \in DOMAIN held[y] /\ held'[y][i] = held[y][i]
        \/ y = x /\ i = Len(s) + 1 /\ held'[y][i] = l
  BY <1>4
<1>8. MutualExclusion'
  BY <1>6, <1>7 DEF MutualExclusion
<1>9. bit'[l] /\ \A k \in Locks : k # l => bit'[k] = bit[k]
  BY <1>3 DEF TypeOK
<1>10. \A y \in Contexts : \A i \in DOMAIN held[y] : held[y][i] \in Locks
  BY DEF TypeOK
<1>11. HeldBits'
  BY <1>1, <1>7, <1>9, <1>10 DEF HeldBits
<1>. QED
  BY <1>5, <1>8, <1>11

LEMMA GiveUpExcludes ==
  ASSUME Excludes, NEW x \in Contexts, held[x] # <<>>,
         ClearBit(x, Innermost(x), "run", "load"), arg' = [arg EXCEPT ![x] = Innermost(x)]
  PROVE  Excludes'
<1>. USE DEF Excludes
<1>1. PICK s \in Seq(Locks) : s = held[x] /\ s # <<>>
  BY DEF TypeOK
<1>2. PICK l \in Locks : l = Innermost(x) /\ l = s[Len(s)]
  BY <1>1, PopFacts DEF Innermost
<1>3. bit' = [bit EXCEPT ![l] = FALSE] /\ held' = [held EXCEPT ![x] = SubSeq(s, 1, Len(s) - 1)]
  BY <1>1, <1>2 DEF ClearBit
<1>4. /\ DOMAIN held[x] = 1..Len(s) /\ Len(s) \in Nat \ {0}
      /\ DOMAIN held'[x] = 1..(Len(s) - 1)
      /\ \A i \in DOMAIN held'[x] : held'[x][i] = held[x][i]
      /\ \A y \in Contexts \ {x} : held'[y] = held[y]
  BY <1>1, <1>3, PopFacts DEF TypeOK
<1>5. TypeOK'
  BY <1>1, <1>2, <1>3, PopFacts DEF TypeOK, ClearBit, Goto
<1>6. Len(s) \in DOMAIN held[x] /\ held[x][Len(s)] = l
  BY <1>1, <1>2, <1>4
<1>7. \A y \in Contexts : \A i \in DOMAIN held'[y] :
        i \in DOMAIN held[y] /\ held'[y][i] = held[y][i] /\ (y = x => i # Len(s))
  BY <1>4
<1>8. MutualExclusion'
  BY <1>7 DEF MutualExclusion
<1>9. \A y \in Contexts : \A i \in DOMAIN held'[y] : held'[y][i] # l
  BY <1>6, <1>7 DEF MutualExclusion
<1>10. \A k \in Locks : k # l => bit'[k] = bit[k]
  BY <1>3 DEF TypeOK
<1>11. \A y \in Contexts : \A i \in DOMAIN held[y] : held[y][i] \in Locks
  BY DEF TypeOK
<1>12. HeldBits'
  BY <1>7, <1>9, <1>10, <1>11 DEF HeldBits
<1>. QED
  BY <1>5, <1>8, <1>12

LEMMA X64NextExcludes == Excludes /\ [X64!Next]_X64!vars => Excludes'
<1>. SUFFICES ASSUME Excludes, [X64!Next]_X64!vars PROVE Excludes'
  OBVIOUS
<1>. USE DEF Excludes
<1>1. ASSUME NEW c \in CPUs, X64!CpuStep(c)
      PROVE  Excludes'
  <2>1. TypeOK'
    BY <1>1 DEF X64!CpuStep, X64!EnterIrq, X64!LeaveIrq, X64!SetInterrupts, TypeOK
  <2>2. UNCHANGED <<held, bit>>
    BY <1>1 DEF X64!CpuStep, X64!EnterIrq, X64!LeaveIrq, X64!SetInterrupts
  <2>. QED
    BY <2>1, <2>2 DEF HeldBits, MutualExclusion
<1>2. ASSUME NEW x \in Contexts, X64!LockBts(x)
      PROVE  Excludes'
  BY <1>2, TakeExcludes
     DEF X64!LockBts, X64!BitTestSet, X64!Goto, X64!Running, X64!Cpu, BitTestSet, Goto, Running, Cpu
<1>3. ASSUME NEW x \in Contexts, X64!ReleaseClear(x)
      PROVE  Excludes'
  BY <1>3, GiveUpExcludes
     DEF X64!ReleaseClear, X64!ClearBit, X64!Goto, X64!Running, X64!Cpu, X64!Innermost,
         ClearBit, Goto, Running, Cpu, Innermost
<1>4. ASSUME NEW x \in Contexts,
             \/ \E l \in Locks : X64!LockCall(x, l)
             \/ X64!LockFlags(x) \/ X64!LockStore(x) \/ X64!LockCli(x)
             \/ X64!ReleaseLoad(x) \/ X64!ReleaseSti(x)
      PROVE  Excludes'
  <2>1. UNCHANGED <<held, bit>>
    BY <1>4 DEF X64!LockCall, X64!LockFlags, X64!LockStore, X64!LockCli, X64!ReleaseLoad,
                X64!ReleaseSti, X64!SaveFlags, X64!StoreFlags, X64!Cli, X64!LoadFlags,
                X64!StiIfSaved
  <2>2. ASSUME NEW l \in Locks, X64!LockCall(x, l)
        PROVE  TypeOK'
    BY <2>2 DEF X64!LockCall, X64!Goto, TypeOK
  <2>3. ASSUME X64!LockFlags(x) PROVE TypeOK'
    BY <2>3, ContextFacts DEF X64!LockFlags, X64!SaveFlags, X64!Goto, X64!Cpu, Cpu, TypeOK
  <2>4. ASSUME X64!LockStore(x) PROVE TypeOK'
    BY <2>4 DEF X64!LockStore, X64!StoreFlags, X64!Goto, TypeOK
  <2>5. ASSUME X64!LockCli(x) PROVE TypeOK'
    BY <2>5 DEF X64!LockCli, X64!Cli, X64!Goto, TypeOK
  <2>6. ASSUME X64!ReleaseLoad(x) PROVE TypeOK'
    BY <2>6 DEF X64!ReleaseLoad, X64!LoadFlags, X64!Goto, TypeOK
  <2>7. ASSUME X64!ReleaseSti(x) PROVE TypeOK'
    BY <2>7, ContextFacts DEF X64!ReleaseSti, X64!StiIfSaved, X64!Goto, X64!Cpu, Cpu, TypeOK
  <2>8. TypeOK'
    BY <1>4, <2>2, <2>3, <2>4, <2>5, <2>6, <2>7
  <2>. QED
    BY <2>1, <2>8 DEF HeldBits, MutualExclusion
<1>5. CASE UNCHANGED X64!vars
  BY <1>5 DEF X64!vars, TypeOK, HeldBits, MutualExclusion
<1>. QED
  BY <1>1, <1>2, <1>3, <1>4, <1>5
     DEF X64!Next, X64!LockStep, X64!Contexts, X64!Levels, Contexts, Levels

(* The x86_64 lock, whose release reads the saved flag too late, is all    *)
(* the same never held twice, by any contexts of any processors.           *)
THEOREM ExclusionX64 == X64!Spec => []MutualExclusion
<1>1. X64!Init => Excludes
  <2>. SUFFICES ASSUME X64!Init PROVE Excludes
    OBVIOUS
  <2>1. TypeOK
    BY DEF X64!Init, X64!Contexts, X64!Levels, Contexts, Levels, TypeOK
  <2>2. \A x \in Contexts : held[x] = <<>> /\ DOMAIN held[x] = {}
    BY DEF X64!Init, X64!Contexts, X64!Levels, Contexts, Levels
  <2>. QED
    BY <2>1, <2>2 DEF Excludes, MutualExclusion, HeldBits
<1>2. Excludes => MutualExclusion
  BY DEF Excludes
<1>. QED
  BY <1>1, <1>2, X64NextExcludes, PTL DEF X64!Spec
=============================================================================
