--------------------------- MODULE SmpBoot_proofs ---------------------------
(***************************************************************************)
(* The processors come up in turn and the barrier holds, for every number  *)
(* of processors.                                                          *)
(***************************************************************************)
EXTENDS SmpBoot, TLAPS

LEMMA InitIInv == Init => IInv
<1>. SUFFICES ASSUME Init PROVE IInv
  OBVIOUS
<1>. USE ProcCountAssumption DEF Init, Procs, APs, BSP
<1>1. TypeOK
  <2>1. bsp \in BspPlaces /\ currentProc \in 0..procCount /\ ap \in [APs -> ApPlaces]
    BY DEF BspPlaces, ApPlaces
  <2>2. /\ Started \in [Procs -> BOOLEAN]
        /\ CurrentThread \in [Procs -> BOOLEAN]
        /\ TaskingEnabled \in [Procs -> BOOLEAN]
    BY Zenon
  <2>3. lowMapped \in BOOLEAN /\ kernelProcess \in BOOLEAN /\ taskingEnabled \in BOOLEAN
    BY Zenon
  <2>. QED
    BY <2>1, <2>2, <2>3 DEF TypeOK
<1>2. StartedInTurn
  BY DEF StartedInTurn, Starting, Past
<1>3. EnabledOnThread
  BY DEF EnabledOnThread, Counted
<1>. QED
  BY <1>1, <1>2, <1>3 DEF IInv

(* What the steps of the BSP and of an AP do to the types.                 *)
LEMMA StepTypes ==
  ASSUME IInv, [Next]_vars
  PROVE  TypeOK'
<1>. USE ProcCountAssumption DEF Procs, APs, BSP, boot, lists, tasking
<1>1. CASE SkipSelf
  BY <1>1 DEF IInv, TypeOK, BspPlaces, ApPlaces, SkipSelf, Bsp
<1>2. CASE SendInit
  BY <1>2 DEF IInv, TypeOK, BspPlaces, ApPlaces, SendInit, Bsp
<1>3. CASE SendStartup
  BY <1>3 DEF IInv, TypeOK, BspPlaces, ApPlaces, SendStartup, Bsp
<1>4. CASE WaitStarted
  BY <1>4 DEF IInv, TypeOK, StartedInTurn, BspPlaces, ApPlaces, WaitStarted, Bsp
<1>5. CASE DestroyApboot
  BY <1>5 DEF IInv, TypeOK, BspPlaces, ApPlaces, DestroyApboot, Bsp
<1>6. CASE CreateKernelProcess
  BY <1>6 DEF IInv, TypeOK, BspPlaces, ApPlaces, CreateKernelProcess, Bsp
<1>7. CASE RunMainThread
  BY <1>7 DEF IInv, TypeOK, BspPlaces, ApPlaces, RunMainThread, Bsp
<1>8. CASE EnableOwn
  BY <1>8 DEF IInv, TypeOK, BspPlaces, ApPlaces, EnableOwn, Bsp
<1>9. CASE WaitEnabled
  BY <1>9 DEF IInv, TypeOK, BspPlaces, ApPlaces, WaitEnabled, Bsp
<1>10. CASE Unfreeze
  BY <1>10 DEF IInv, TypeOK, BspPlaces, ApPlaces, Unfreeze, Bsp
<1>11. ASSUME NEW p \in APs, EnterHigherHalf(p) PROVE TypeOK'
  BY <1>11 DEF IInv, TypeOK, BspPlaces, ApPlaces, EnterHigherHalf, Ap
<1>12. ASSUME NEW p \in APs, TakeStack(p) PROVE TypeOK'
  BY <1>12 DEF IInv, TypeOK, BspPlaces, ApPlaces, TakeStack, Ap
<1>13. ASSUME NEW p \in APs, MarkStarted(p) PROVE TypeOK'
  BY <1>13 DEF IInv, TypeOK, BspPlaces, ApPlaces, MarkStarted, Ap
<1>14. ASSUME NEW p \in APs, SetUp(p) PROVE TypeOK'
  BY <1>14 DEF IInv, TypeOK, BspPlaces, ApPlaces, SetUp, Ap
<1>15. ASSUME NEW p \in APs, CreateIdleThread(p) PROVE TypeOK'
  BY <1>15 DEF IInv, TypeOK, BspPlaces, ApPlaces, CreateIdleThread, Ap
<1>16. ASSUME NEW p \in APs, UseNullProcess(p) PROVE TypeOK'
  BY <1>16 DEF IInv, TypeOK, BspPlaces, ApPlaces, UseNullProcess, Ap
<1>17. ASSUME NEW p \in APs, RunIdleThread(p) PROVE TypeOK'
  BY <1>17 DEF IInv, TypeOK, BspPlaces, ApPlaces, RunIdleThread, Ap
<1>18. CASE UNCHANGED vars
  BY <1>18 DEF IInv, TypeOK, BspPlaces, ApPlaces, vars
<1>. QED
  BY <1>1, <1>2, <1>3, <1>4, <1>5, <1>6, <1>7, <1>8, <1>9, <1>10, <1>11, <1>12, <1>13, <1>14, <1>15, <1>16, <1>17, <1>18 DEF Next, BspStep, ApStep

(* An AP is started when its turn comes, and low memory is unmapped when   *)
(* all have been.                                                          *)
LEMMA StepStarted ==
  ASSUME IInv, [Next]_vars
  PROVE  StartedInTurn'
<1>. USE ProcCountAssumption DEF Procs, APs, BSP, boot, lists, tasking
<1>1. CASE SkipSelf
  BY <1>1 DEF IInv, TypeOK, StartedInTurn, Starting, Past, BspPlaces, ApPlaces, SkipSelf, Bsp
<1>2. CASE SendInit
  <2>1. currentProc \in APs /\ ~Started[currentProc] /\ bsp = "next" /\ bsp' = "startup"
    BY <1>2 DEF IInv, TypeOK, StartedInTurn, Starting, Past, SendInit, Bsp
  <2>2. /\ ap' = [ap EXCEPT ![currentProc] = "reset"]
        /\ UNCHANGED <<currentProc, Started, lowMapped>>
    BY <1>2 DEF SendInit
  <2>3. ASSUME NEW p \in APs
        PROVE  /\ Started'[p] <=> ap'[p] \in Past
               /\ Started'[p] \/ (bsp' \in Starting /\ currentProc' <= p)
               /\ currentProc' < p => ap'[p] = "off"
               /\ currentProc' = p => ap'[p] = "reset"
    BY <2>1, <2>2 DEF IInv, TypeOK, StartedInTurn, Starting, Past
  <2>. QED
    BY <2>1, <2>2, <2>3 DEF IInv, StartedInTurn, Starting
<1>3. CASE SendStartup
  BY <1>3 DEF IInv, TypeOK, StartedInTurn, Starting, Past, BspPlaces, ApPlaces, SendStartup, Bsp
<1>4. CASE WaitStarted
  BY <1>4 DEF IInv, TypeOK, StartedInTurn, Starting, Past, BspPlaces, ApPlaces, WaitStarted, Bsp
<1>5. CASE DestroyApboot
  BY <1>5 DEF IInv, TypeOK, StartedInTurn, Starting, Past, BspPlaces, ApPlaces, DestroyApboot, Bsp
<1>6. CASE CreateKernelProcess
  BY <1>6 DEF IInv, TypeOK, StartedInTurn, Starting, Past, BspPlaces, ApPlaces, CreateKernelProcess, Bsp
<1>7. CASE RunMainThread
  BY <1>7 DEF IInv, TypeOK, StartedInTurn, Starting, Past, BspPlaces, ApPlaces, RunMainThread, Bsp
<1>8. CASE EnableOwn
  BY <1>8 DEF IInv, TypeOK, StartedInTurn, Starting, Past, BspPlaces, ApPlaces, EnableOwn, Bsp
<1>9. CASE WaitEnabled
  BY <1>9 DEF IInv, TypeOK, StartedInTurn, Starting, Past, BspPlaces, ApPlaces, WaitEnabled, Bsp
<1>10. CASE Unfreeze
  BY <1>10 DEF IInv, TypeOK, StartedInTurn, Starting, Past, BspPlaces, ApPlaces, Unfreeze, Bsp
<1>11. ASSUME NEW p \in APs, EnterHigherHalf(p) PROVE StartedInTurn'
  BY <1>11 DEF IInv, TypeOK, StartedInTurn, Starting, Past, BspPlaces, ApPlaces, EnterHigherHalf, Ap
<1>12. ASSUME NEW p \in APs, TakeStack(p) PROVE StartedInTurn'
  BY <1>12 DEF IInv, TypeOK, StartedInTurn, Starting, Past, BspPlaces, ApPlaces, TakeStack, Ap
<1>13. ASSUME NEW p \in APs, MarkStarted(p) PROVE StartedInTurn'
  BY <1>13 DEF IInv, TypeOK, StartedInTurn, Starting, Past, BspPlaces, ApPlaces, MarkStarted, Ap
<1>14. ASSUME NEW p \in APs, SetUp(p) PROVE StartedInTurn'
  BY <1>14 DEF IInv, TypeOK, StartedInTurn, Starting, Past, BspPlaces, ApPlaces, SetUp, Ap
<1>15. ASSUME NEW p \in APs, CreateIdleThread(p) PROVE StartedInTurn'
  BY <1>15 DEF IInv, TypeOK, StartedInTurn, Starting, Past, BspPlaces, ApPlaces, CreateIdleThread, Ap
<1>16. ASSUME NEW p \in APs, UseNullProcess(p) PROVE StartedInTurn'
  BY <1>16 DEF IInv, TypeOK, StartedInTurn, Starting, Past, BspPlaces, ApPlaces, UseNullProcess, Ap
<1>17. ASSUME NEW p \in APs, RunIdleThread(p) PROVE StartedInTurn'
  BY <1>17 DEF IInv, TypeOK, StartedInTurn, Starting, Past, BspPlaces, ApPlaces, RunIdleThread, Ap
<1>18. CASE UNCHANGED vars
  BY <1>18 DEF IInv, TypeOK, StartedInTurn, Starting, Past, BspPlaces, ApPlaces, vars
<1>. QED
  BY <1>1, <1>2, <1>3, <1>4, <1>5, <1>6, <1>7, <1>8, <1>9, <1>10, <1>11, <1>12, <1>13, <1>14, <1>15, <1>16, <1>17, <1>18 DEF Next, BspStep, ApStep

(* The flags of the processors follow their threads, and the main thread   *)
(* follows the flags.                                                      *)
LEMMA StepEnabled ==
  ASSUME IInv, [Next]_vars
  PROVE  EnabledOnThread'
<1>. USE ProcCountAssumption DEF Procs, APs, BSP, boot, lists, tasking
<1>1. CASE SkipSelf
  BY <1>1 DEF IInv, TypeOK, EnabledOnThread, Counted, BspPlaces, ApPlaces, SkipSelf, Bsp
<1>2. CASE SendInit
  BY <1>2 DEF IInv, TypeOK, StartedInTurn, EnabledOnThread, Counted, Starting, BspPlaces, ApPlaces, SendInit, Bsp
<1>3. CASE SendStartup
  BY <1>3 DEF IInv, TypeOK, StartedInTurn, EnabledOnThread, Counted, Starting, BspPlaces, ApPlaces, SendStartup, Bsp
<1>4. CASE WaitStarted
  BY <1>4 DEF IInv, TypeOK, EnabledOnThread, Counted, BspPlaces, ApPlaces, WaitStarted, Bsp
<1>5. CASE DestroyApboot
  BY <1>5 DEF IInv, TypeOK, EnabledOnThread, Counted, BspPlaces, ApPlaces, DestroyApboot, Bsp
<1>6. CASE CreateKernelProcess
  BY <1>6 DEF IInv, TypeOK, EnabledOnThread, Counted, BspPlaces, ApPlaces, CreateKernelProcess, Bsp
<1>7. CASE RunMainThread
  BY <1>7 DEF IInv, TypeOK, EnabledOnThread, Counted, BspPlaces, ApPlaces, RunMainThread, Bsp
<1>8. CASE EnableOwn
  BY <1>8 DEF IInv, TypeOK, EnabledOnThread, Counted, BspPlaces, ApPlaces, EnableOwn, Bsp
<1>9. CASE WaitEnabled
  BY <1>9 DEF IInv, TypeOK, EnabledOnThread, Counted, BspPlaces, ApPlaces, WaitEnabled, Bsp
<1>10. CASE Unfreeze
  BY <1>10 DEF IInv, TypeOK, EnabledOnThread, Counted, BspPlaces, ApPlaces, Unfreeze, Bsp
<1>11. ASSUME NEW p \in APs, EnterHigherHalf(p) PROVE EnabledOnThread'
  BY <1>11 DEF IInv, TypeOK, EnabledOnThread, Counted, BspPlaces, ApPlaces, EnterHigherHalf, Ap
<1>12. ASSUME NEW p \in APs, TakeStack(p) PROVE EnabledOnThread'
  BY <1>12 DEF IInv, TypeOK, EnabledOnThread, Counted, BspPlaces, ApPlaces, TakeStack, Ap
<1>13. ASSUME NEW p \in APs, MarkStarted(p) PROVE EnabledOnThread'
  BY <1>13 DEF IInv, TypeOK, EnabledOnThread, Counted, BspPlaces, ApPlaces, MarkStarted, Ap
<1>14. ASSUME NEW p \in APs, SetUp(p) PROVE EnabledOnThread'
  BY <1>14 DEF IInv, TypeOK, EnabledOnThread, Counted, BspPlaces, ApPlaces, SetUp, Ap
<1>15. ASSUME NEW p \in APs, CreateIdleThread(p) PROVE EnabledOnThread'
  BY <1>15 DEF IInv, TypeOK, EnabledOnThread, Counted, BspPlaces, ApPlaces, CreateIdleThread, Ap
<1>16. ASSUME NEW p \in APs, UseNullProcess(p) PROVE EnabledOnThread'
  BY <1>16 DEF IInv, TypeOK, EnabledOnThread, Counted, BspPlaces, ApPlaces, UseNullProcess, Ap
<1>17. ASSUME NEW p \in APs, RunIdleThread(p) PROVE EnabledOnThread'
  BY <1>17 DEF IInv, TypeOK, EnabledOnThread, Counted, BspPlaces, ApPlaces, RunIdleThread, Ap
<1>18. CASE UNCHANGED vars
  BY <1>18 DEF IInv, TypeOK, EnabledOnThread, Counted, BspPlaces, ApPlaces, vars
<1>. QED
  BY <1>1, <1>2, <1>3, <1>4, <1>5, <1>6, <1>7, <1>8, <1>9, <1>10, <1>11, <1>12, <1>13, <1>14, <1>15, <1>16, <1>17, <1>18 DEF Next, BspStep, ApStep

LEMMA Inductive == Spec => []IInv
<1>1. IInv /\ [Next]_vars => IInv'
  BY StepTypes, StepStarted, StepEnabled DEF IInv
<1>. QED
  BY InitIInv, <1>1, PTL DEF Spec

(* The variables of SmpBoot keep their types (smp_init, smp_ap_main,       *)
(* tasking_init, tasking_init_ap, kernel_main_thread).                     *)
THEOREM TypeCorrect == Spec => []TypeOK
BY Inductive, PTL DEF IInv

(* However many processors there are, one at a time uses the trampoline    *)
(* and the boot stack, and low memory is mapped while it does: Started is  *)
(* set after TakeStack.                                                    *)
THEOREM OneOnBootStack == Spec => []BootCodeUsedByOne
<1>1. IInv => BootCodeUsedByOne
  <2>. SUFFICES ASSUME IInv PROVE BootCodeUsedByOne
    OBVIOUS
  <2>1. ASSUME NEW p \in Booting
        PROVE  bsp = "started" /\ currentProc = p
    <3>1. p \in APs /\ ~Started[p] /\ ap[p] \notin {"off", "reset"}
      BY DEF Booting, IInv, StartedInTurn, Past
    <3>2. bsp \in Starting /\ currentProc <= p /\ bsp # "next" /\ ~(currentProc < p)
      BY <3>1 DEF IInv, StartedInTurn
    <3>3. currentProc = p
      BY <3>1, <3>2, ProcCountAssumption DEF IInv, TypeOK, APs, Procs, BSP
    <3>. QED
      BY <3>1, <3>2, <3>3 DEF IInv, StartedInTurn, Starting
  <2>2. Booting # {} => lowMapped
    BY <2>1 DEF IInv, StartedInTurn, Starting
  <2>. QED
    BY <2>1, <2>2 DEF BootCodeUsedByOne
<1>. QED
  BY Inductive, <1>1, PTL

(* Once kernel_main_thread has let the timers switch threads, every        *)
(* processor runs the thread its list says is current.                     *)
THEOREM BarrierHolds == Spec => []TicksFindTheirThread
<1>1. IInv => TicksFindTheirThread
  <2>. SUFFICES ASSUME IInv, taskingEnabled PROVE TicksFindTheirThread
    BY DEF TicksFindTheirThread
  <2>1. bsp = "late" /\ \A p \in Procs : TaskingEnabled[p]
    BY DEF IInv, EnabledOnThread, Counted
  <2>2. \A p \in APs : ap[p] = "idle" /\ CurrentThread[p]
    BY <2>1 DEF IInv, EnabledOnThread, APs
  <2>3. CurrentThread[BSP]
    BY <2>1 DEF IInv, EnabledOnThread
  <2>. QED
    BY <2>1, <2>2, <2>3 DEF TicksFindTheirThread, APs
<1>. QED
  BY Inductive, <1>1, PTL
=============================================================================
