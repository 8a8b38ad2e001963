------------------------------- MODULE SmpBoot -------------------------------
(***************************************************************************)
(* How the processors come up.  The boot processor (BSP) starts the others *)
(* (APs) one after the other (kernel/interrupts/smp.c): each runs through  *)
(* the one trampoline in low memory and the one boot stack                 *)
(* (arch/*/kernel/ap_boot.asm) and says in Started when the next may       *)
(* follow.  Then all set up tasking concurrently                           *)
(* (kernel/multitasking/tasking.c), and the main thread waits for every    *)
(* processor before it lets the timers switch threads.                     *)
(*                                                                         *)
(* Processors are named by their Index.  The firmware lists the BSP first: *)
(* tasking_init and irqs_install_handler take its Index to be 0.           *)
(***************************************************************************)
EXTENDS Integers

CONSTANT procCount

ASSUME ProcCountAssumption == procCount \in Nat /\ procCount >= 2

BSP == 0
Procs == 0..(procCount - 1)
APs == Procs \ {BSP}

VARIABLES
  bsp,            (* where the BSP is in smp_init, tasking_init and main   *)
  currentProc,    (* the processor it starts, or waits for at the barrier  *)
  ap,             (* where each AP is                                      *)
  Started,        (* smp_proc_t.Started                                    *)
  lowMapped,      (* low memory, with the trampoline, is identity mapped   *)
  kernelProcess,  (* whether kernelProcess and threadLists exist           *)
  CurrentThread,  (* whether threadLists[p].CurrentThread is set           *)
  TaskingEnabled, (* threadLists[p].TaskingEnabled                         *)
  taskingEnabled  (* the flag of all processors                            *)

boot    == <<bsp, currentProc>>
lists   == <<kernelProcess, CurrentThread>>
tasking == <<TaskingEnabled, taskingEnabled>>
vars == <<boot, ap, Started, lowMapped, lists, tasking>>

(* smp_init has listed the processors, and set up trampoline and stacks.   *)
Init ==
  /\ bsp = "next" /\ currentProc = 0
  /\ ap = [p \in APs |-> "off"]
  /\ Started = [p \in Procs |-> FALSE]
  /\ lowMapped = TRUE /\ kernelProcess = FALSE
  /\ CurrentThread = [p \in Procs |-> FALSE]
  /\ TaskingEnabled = [p \in Procs |-> FALSE] /\ taskingEnabled = FALSE

Bsp(from, to) == bsp = from /\ bsp' = to
Ap(p, from, to) == ap[p] = from /\ ap' = [ap EXCEPT ![p] = to]

-----------------------------------------------------------------------------
(* smp_init: the loop over the list.                                       *)

SkipSelf ==
  /\ bsp = "next" /\ currentProc = BSP
  /\ Started' = [Started EXCEPT ![BSP] = TRUE]
  /\ currentProc' = currentProc + 1
  /\ UNCHANGED <<bsp, ap, lowMapped, lists, tasking>>

(* INIT leaves the AP waiting for STARTUP.                                 *)
SendInit ==
  /\ currentProc \in APs
  /\ Bsp("next", "startup")
  /\ ap' = [ap EXCEPT ![currentProc] = "reset"]
  /\ UNCHANGED <<currentProc, Started, lowMapped, lists, tasking>>

SendStartup ==
  /\ Bsp("startup", "started")
  /\ ap' = [ap EXCEPT ![currentProc] = "trampoline"]
  /\ UNCHANGED <<currentProc, Started, lowMapped, lists, tasking>>

(* The next AP follows at once.                                            *)
WaitStartedMutant ==
  /\ Bsp("started", "next")
  /\ currentProc' = currentProc + 1
  /\ UNCHANGED <<ap, Started, lowMapped, lists, tasking>>

WaitStarted ==
  /\ Bsp("started", "next")
  /\ Started[currentProc]
  /\ currentProc' = currentProc + 1
  /\ UNCHANGED <<ap, Started, lowMapped, lists, tasking>>

(* smp_destroy_apboot, at the end of the list.                             *)
DestroyApboot ==
  /\ currentProc = procCount
  /\ Bsp("next", "tasking")
  /\ lowMapped' = FALSE
  /\ UNCHANGED <<currentProc, ap, Started, lists, tasking>>

-----------------------------------------------------------------------------
(* tasking_init: the lists are cleared before kernelProcess is set, and no *)
(* AP reads them without kernelProcess.                                    *)
CreateKernelProcess ==
  /\ Bsp("tasking", "current")
  /\ kernelProcess' = TRUE
  /\ UNCHANGED <<currentProc, ap, Started, lowMapped, CurrentThread, tasking>>

(* The main thread becomes current and runs.                               *)
RunMainThread ==
  /\ Bsp("current", "main")
  /\ CurrentThread' = [CurrentThread EXCEPT ![BSP] = TRUE]
  /\ UNCHANGED <<currentProc, ap, Started, lowMapped, kernelProcess, tasking>>

(* kernel_main_thread.                                                     *)
EnableOwn ==
  /\ Bsp("main", "barrier")
  /\ TaskingEnabled' = [TaskingEnabled EXCEPT ![BSP] = TRUE]
  /\ currentProc' = 0
  /\ UNCHANGED <<ap, Started, lowMapped, lists, taskingEnabled>>

(* It waits for the processors that have been started, not for tasking.    *)
WaitEnabledMutant ==
  /\ bsp = "barrier" /\ currentProc \in Procs
  /\ Started[currentProc]
  /\ currentProc' = currentProc + 1
  /\ UNCHANGED <<bsp, ap, Started, lowMapped, lists, tasking>>

WaitEnabled ==
  /\ bsp = "barrier" /\ currentProc \in Procs
  /\ TaskingEnabled[currentProc]
  /\ currentProc' = currentProc + 1
  /\ UNCHANGED <<bsp, ap, Started, lowMapped, lists, tasking>>

(* tasking_unfreeze; kernel_late.                                          *)
Unfreeze ==
  /\ currentProc = procCount
  /\ Bsp("barrier", "late")
  /\ taskingEnabled' = TRUE
  /\ UNCHANGED <<currentProc, ap, Started, lowMapped, lists, TaskingEnabled>>

BspStep ==
  \/ SkipSelf \/ SendInit \/ SendStartup \/ WaitStarted \/ DestroyApboot
  \/ CreateKernelProcess \/ RunMainThread
  \/ EnableOwn \/ WaitEnabled \/ Unfreeze

-----------------------------------------------------------------------------
(* _ap_bootstrap_init .. _ap_bootstrap_higherhalf: out of low memory, onto *)
(* the boot stack.                                                         *)
EnterHigherHalf(p) ==
  /\ Ap(p, "trampoline", "bootstack")
  /\ UNCHANGED <<boot, Started, lowMapped, lists, tasking>>

(* smp_ap_get_stack: onto the processor's own stack and into smp_ap_main.  *)
TakeStack(p) ==
  /\ Ap(p, "bootstack", "main")
  /\ UNCHANGED <<boot, Started, lowMapped, lists, tasking>>

MarkStarted(p) ==
  /\ Ap(p, "main", "setup")
  /\ Started' = [Started EXCEPT ![p] = TRUE]
  /\ UNCHANGED <<boot, lowMapped, lists, tasking>>

(* TSS, GDT, interrupts, timer: two seconds and more.  Its interrupts find *)
(* taskingEnabled false and go no further.                                 *)
SetUp(p) ==
  /\ Ap(p, "setup", "tasking")
  /\ UNCHANGED <<boot, Started, lowMapped, lists, tasking>>

(* tasking_init_ap: the idle thread becomes current.                       *)
CreateIdleThread(p) ==
  /\ kernelProcess
  /\ Ap(p, "tasking", "exec")
  /\ CurrentThread' = [CurrentThread EXCEPT ![p] = TRUE]
  /\ UNCHANGED <<boot, Started, lowMapped, kernelProcess, tasking>>

(* Nothing but those two seconds keeps an AP from being here before the    *)
(* BSP: then tasking_thread_create uses a process at NULL, and what the AP *)
(* does is undefined.  It is taken out of the system.                      *)
UseNullProcess(p) ==
  /\ ~kernelProcess
  /\ Ap(p, "tasking", "lost")
  /\ UNCHANGED <<boot, Started, lowMapped, lists, tasking>>

(* The thread is given an ApicId that is not the Index.                    *)
RunIdleThreadMutant(p) ==
  /\ Ap(p, "exec", "idle")
  /\ TaskingEnabled' = [q \in Procs \cup {p + 1} |-> q = p + 1 \/ TaskingEnabled[q]]
  /\ UNCHANGED <<boot, Started, lowMapped, lists, taskingEnabled>>

(* kernel_idle_thread, after tasking_exec.                                 *)
RunIdleThread(p) ==
  /\ Ap(p, "exec", "idle")
  /\ TaskingEnabled' = [TaskingEnabled EXCEPT ![p] = TRUE]
  /\ UNCHANGED <<boot, Started, lowMapped, lists, taskingEnabled>>

ApStep(p) ==
  \/ EnterHigherHalf(p) \/ TakeStack(p) \/ MarkStarted(p) \/ SetUp(p)
  \/ CreateIdleThread(p) \/ UseNullProcess(p) \/ RunIdleThread(p)

Next == BspStep \/ \E p \in APs : ApStep(p)

Spec == Init /\ [][Next]_vars

(* Every processor executes its code; a STARTUP reaches its AP.            *)
FairSpec == Spec /\ WF_vars(BspStep) /\ \A p \in APs : WF_vars(ApStep(p))

-----------------------------------------------------------------------------
BspPlaces == {"next", "startup", "started", "tasking", "current", "main", "barrier", "late"}
ApPlaces ==
  {"off", "reset", "trampoline", "bootstack", "main", "setup", "tasking", "exec", "idle", "lost"}

TypeOK ==
  /\ bsp \in BspPlaces /\ currentProc \in 0..procCount
  /\ ap \in [APs -> ApPlaces]
  /\ Started \in [Procs -> BOOLEAN]
  /\ lowMapped \in BOOLEAN /\ kernelProcess \in BOOLEAN
  /\ CurrentThread \in [Procs -> BOOLEAN]
  /\ TaskingEnabled \in [Procs -> BOOLEAN] /\ taskingEnabled \in BOOLEAN

(* Trampoline and boot stack are used by one processor at a time, and low  *)
(* memory stays mapped while one runs there: Started comes after both.     *)
Booting == {p \in APs : ap[p] \in {"trampoline", "bootstack"}}
BootCodeUsedByOne ==
  /\ \A p, q \in Booting : p = q
  /\ Booting # {} => lowMapped

(* A timer interrupt that may switch threads finds a current thread, and   *)
(* finds it running, on every processor: none is still on the stack it was *)
(* started on when the barrier of kernel_main_thread opens.                *)
TicksFindTheirThread ==
  taskingEnabled =>
    /\ \A p \in Procs : TaskingEnabled[p] /\ CurrentThread[p]
    /\ \A p \in APs : ap[p] = "idle"

(* Why those hold: an AP that is not Started is the one that the BSP is    *)
(* starting, or has not come to.                                           *)
Starting == {"next", "startup", "started"}
Past == {"setup", "tasking", "exec", "idle", "lost"}

StartedInTurn ==
  /\ bsp \in {"startup", "started"} => currentProc \in APs
  /\ lowMapped <=> bsp \in Starting
  /\ \A p \in APs :
       /\ Started[p] <=> ap[p] \in Past
       /\ Started[p] \/ (bsp \in Starting /\ currentProc <= p)
       /\ bsp \in Starting /\ currentProc <= p /\ (bsp = "next" \/ currentProc < p) => ap[p] = "off"
       /\ bsp = "startup" /\ currentProc = p => ap[p] = "reset"

(* A processor enables its own switching once it runs its own thread, and  *)
(* the main thread counts those that have.                                 *)
Counted == IF bsp = "barrier" THEN {p \in Procs : p < currentProc}
           ELSE IF bsp = "late" THEN Procs ELSE {}

EnabledOnThread ==
  /\ taskingEnabled <=> bsp = "late"
  /\ \A p \in Counted : TaskingEnabled[p]
  /\ TaskingEnabled[BSP] => bsp \in {"barrier", "late"}
  /\ bsp \in {"main", "barrier", "late"} => CurrentThread[BSP]
  /\ \A p \in APs :
       /\ TaskingEnabled[p] => ap[p] = "idle"
       /\ ap[p] \in {"exec", "idle"} => CurrentThread[p]

IInv == TypeOK /\ StartedInTurn /\ EnabledOnThread

(* The kernel gets to kernel_late, unless an AP was lost.                  *)
BootCompletes == <>(bsp = "late" \/ \E p \in APs : ap[p] = "lost")
=============================================================================
