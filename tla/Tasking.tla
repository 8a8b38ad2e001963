------------------------------- MODULE Tasking -------------------------------
(***************************************************************************)
(* The schedule of processor 0 (kernel/multitasking/tasking.c): a circular *)
(* doubly linked list of threads that the timer interrupt walks            *)
(* (tasking_tick), into which threads link new ones                        *)
(* (tasking_thread_schedule_proc) and from which a thread that returns     *)
(* unlinks itself (tasking_kill_thread).  Nothing but the flag             *)
(* TaskingEnabled protects the list, so each assignment to it is an action *)
(* of its own and the timer may interrupt between any two of them.         *)
(*                                                                         *)
(* Every thread of the kernel but the idle threads is scheduled on         *)
(* processor 0 (acpcia_os.c 148, networking.c 137, rtc.c 109), so no other *)
(* processor touches this list.  Here only threads schedule threads;       *)
(* TaskingHandlers adds the interrupt handlers that do.                    *)
(*                                                                         *)
(* A thread that returns frees its own object and runs on until the next   *)
(* tick, which reads that object.  Interrupts are on meanwhile, and the    *)
(* handler of a network card allocates memory on the same processor: it    *)
(* may be given the object and write over it (taken).  Where the tick then *)
(* goes is undefined and the model ends (wild).                            *)
(***************************************************************************)
EXTENDS Integers, FiniteSets, Sequences

CONSTANTS
  Threads,    (* memory for thread_t objects: bound on the threads alive   *)
  Main,       (* the kernel's main thread, which never returns             *)
  Null,       (* the NULL pointer                                          *)
  MaxDepth    (* bound: main schedules a worker, and an ACPI worker one    *)
              (* more (a GPE method's Notify), which schedules no other    *)

ASSUME ThreadsAssumption ==
  /\ Main \in Threads /\ Null \notin Threads /\ IsFiniteSet(Threads)
  /\ MaxDepth \in Nat

VARIABLES
  current,    (* threadLists[0].CurrentThread                              *)
  enabled,    (* threadLists[0].TaskingEnabled                             *)
  next,       (* SchedNext                                                 *)
  prev,       (* SchedPrev                                                 *)
  members,    (* the threads on the list of the kernel process             *)
  allocated,  (* the thread_t objects that are not freed                   *)
  pc,         (* where each thread is in the functions below               *)
  made,       (* the thread that a thread has made and is scheduling       *)
  depth,      (* how many schedulings a thread is away from main           *)
  taken,      (* memory of freed objects that handlers have been given     *)
  wild        (* a tick has followed a link that was written over          *)

vars == <<current, enabled, next, prev, members, allocated, pc, made, depth, taken, wild>>
links == <<next, prev>>

Editing == {"next", "fix", "prev", "link", "resume"}         \* in schedule_proc
Dying   == {"unlink", "relink", "leave", "free", "gone", "dead"}  \* in kill_thread

(* The processor runs the current thread, which goes on from "from".       *)
Step(t, from, to) ==
  /\ ~wild /\ current = t /\ pc[t] = from
  /\ pc' = [pc EXCEPT ![t] = to]
  /\ UNCHANGED <<taken, wild>>

-----------------------------------------------------------------------------
(* kernel_main_thread is in kernel_late: tasking is on, globally too, and  *)
(* the main thread is alone.                                               *)
Init ==
  /\ current = Main /\ enabled = TRUE
  /\ next = [t \in Threads |-> IF t = Main THEN Main ELSE Null]
  /\ prev = next
  /\ members = {Main} /\ allocated = {Main}
  /\ pc = [t \in Threads |-> "run"]
  /\ made = [t \in Threads |-> Null]
  /\ depth = [t \in Threads |-> 0]
  /\ taken = {} /\ wild = FALSE

(* tasking_tick on every fifth timer interrupt.  SchedNext in memory that  *)
(* a handler has been given may have been written over.                    *)
Tick ==
  /\ ~wild /\ enabled
  /\ \/ current' = next[current] /\ UNCHANGED wild
     \/ current \in taken /\ wild' = TRUE /\ UNCHANGED current
  /\ UNCHANGED <<enabled, links, members, allocated, pc, made, depth, taken>>

(* An interrupt handler that receives a packet is given memory by          *)
(* kheap_alloc for it, and writes on it.                                   *)
HandlerAllocates(u) ==
  /\ ~wild /\ u \notin allocated \cup taken
  /\ taken' = taken \cup {u}
  /\ UNCHANGED <<current, enabled, links, members, allocated, pc, made, depth, wild>>

(* A network device's thread frees a packet.                               *)
WorkerFrees(u) ==
  /\ ~wild /\ pc[current] = "run" /\ u \in taken
  /\ taken' = taken \ {u}
  /\ UNCHANGED <<current, enabled, links, members, allocated, pc, made, depth, wild>>

(* tasking_thread_create: the object is zeroed and becomes a member of the *)
(* kernel process, under threadLock.  Each caller schedules it at once.    *)
Create(t, u) ==
  /\ ~wild /\ current = t /\ pc[t] = "run"
  /\ depth[t] < MaxDepth
  /\ u \notin allocated \cup taken
  /\ allocated' = allocated \cup {u}
  /\ members'   = members \cup {u}
  /\ next'  = [next EXCEPT ![u] = Null]
  /\ prev'  = [prev EXCEPT ![u] = Null]
  /\ pc'    = [pc EXCEPT ![t] = "pause", ![u] = "run"]
  /\ made'  = [made EXCEPT ![t] = u]
  /\ depth' = [depth EXCEPT ![u] = depth[t] + 1]
  /\ UNCHANGED <<current, enabled, taken, wild>>

-----------------------------------------------------------------------------
(* tasking_thread_schedule_proc(made[t], 0), an assignment per action.     *)

SchedulePauseMutant(t) ==     \* TaskingEnabled is left alone
  /\ Step(t, "pause", "next")
  /\ UNCHANGED <<current, enabled, links, members, allocated, made, depth>>

SchedulePause(t) ==
  /\ Step(t, "pause", "next")
  /\ enabled' = FALSE
  /\ UNCHANGED <<current, links, members, allocated, made, depth>>

(* SchedNext of the new thread stays NULL.                                 *)
ScheduleNextMutant(t) ==
  /\ Step(t, "next", "fix")
  /\ UNCHANGED <<current, enabled, links, members, allocated, made, depth>>

ScheduleNext(t) ==
  /\ Step(t, "next", "fix")
  /\ next' = [next EXCEPT ![made[t]] = next[current]]
  /\ UNCHANGED <<current, enabled, prev, members, allocated, made, depth>>

ScheduleFix(t) ==
  /\ Step(t, "fix", "prev")
  /\ prev' = [prev EXCEPT ![next[made[t]]] = made[t]]
  /\ UNCHANGED <<current, enabled, next, members, allocated, made, depth>>

SchedulePrev(t) ==
  /\ Step(t, "prev", "link")
  /\ prev' = [prev EXCEPT ![made[t]] = current]
  /\ UNCHANGED <<current, enabled, next, members, allocated, made, depth>>

ScheduleLink(t) ==
  /\ Step(t, "link", "resume")
  /\ next' = [next EXCEPT ![current] = made[t]]
  /\ UNCHANGED <<current, enabled, prev, members, allocated, made, depth>>

ScheduleResume(t) ==
  /\ Step(t, "resume", "run")
  /\ enabled' = TRUE
  /\ made' = [made EXCEPT ![t] = Null]
  /\ UNCHANGED <<current, links, members, allocated, depth>>

Schedule(t) ==
  \/ SchedulePause(t) \/ ScheduleNext(t) \/ ScheduleFix(t)
  \/ SchedulePrev(t) \/ ScheduleLink(t) \/ ScheduleResume(t)

-----------------------------------------------------------------------------
(* tasking_kill_thread, which _tasking_thread_exec calls when the thread's *)
(* function returns.  The thread is not the main thread of its process.    *)

KillPauseMutant(t) ==     \* TaskingEnabled is left alone
  /\ t # Main
  /\ Step(t, "run", "unlink")
  /\ UNCHANGED <<current, enabled, links, members, allocated, made, depth>>

KillPause(t) ==
  /\ t # Main
  /\ Step(t, "run", "unlink")
  /\ enabled' = FALSE
  /\ UNCHANGED <<current, links, members, allocated, made, depth>>

KillUnlinkNext(t) ==
  /\ Step(t, "unlink", "relink")
  /\ next' = [next EXCEPT ![prev[current]] = next[current]]
  /\ UNCHANGED <<current, enabled, prev, members, allocated, made, depth>>

KillUnlinkPrev(t) ==
  /\ Step(t, "relink", "leave")
  /\ prev' = [prev EXCEPT ![next[current]] = prev[current]]
  /\ UNCHANGED <<current, enabled, next, members, allocated, made, depth>>

KillLeaveProcess(t) ==
  /\ Step(t, "leave", "free")
  /\ members' = members \ {current}
  /\ UNCHANGED <<current, enabled, links, allocated, made, depth>>

(* The object is freed while the processor still runs the thread.          *)
KillFree(t) ==
  /\ Step(t, "free", "gone")
  /\ allocated' = allocated \ {current}
  /\ UNCHANGED <<current, enabled, links, members, made, depth>>

(* TaskingEnabled stays false.                                             *)
KillResumeMutant(t) ==
  /\ Step(t, "gone", "dead")
  /\ UNCHANGED <<current, enabled, links, members, allocated, made, depth>>

(* The thread then loops until the next tick and is not resumed.           *)
KillResume(t) ==
  /\ Step(t, "gone", "dead")
  /\ enabled' = TRUE
  /\ UNCHANGED <<current, links, members, allocated, made, depth>>

Kill(t) ==
  \/ KillPause(t) \/ KillUnlinkNext(t) \/ KillUnlinkPrev(t)
  \/ KillLeaveProcess(t) \/ KillFree(t) \/ KillResume(t)

-----------------------------------------------------------------------------
Next ==
  \/ Tick
  \/ \E u \in Threads : HandlerAllocates(u) \/ WorkerFrees(u)
  \/ \E t \in Threads :
       (\E u \in Threads : Create(t, u)) \/ Schedule(t) \/ Kill(t)

Spec == Init /\ [][Next]_vars

(* The processor executes what its thread has begun, and the timer         *)
(* interrupts it for ever.  No thread is assumed to return or to schedule. *)
FairSpec ==
  /\ Spec
  /\ WF_vars(Tick)
  /\ \A t \in Threads : WF_vars(Schedule(t))
  /\ \A t \in Threads : WF_vars(pc[t] \in Dying /\ Kill(t))

-----------------------------------------------------------------------------
(* The threads from the current one on, in the order tasking_tick takes.   *)
walk[i \in 0..Cardinality(Threads)] ==
  IF i = 0 THEN current
  ELSE IF walk[i - 1] = Null THEN Null ELSE next[walk[i - 1]]

Ring == {walk[i] : i \in 0..Cardinality(Threads)}

(* Threads on their way into the schedule or out of it.                    *)
Joining == {made[t] : t \in {u \in members : pc[u] \in {"pause", "next", "fix", "prev", "link"}}}
Leaving == {t \in Threads : current = t /\ pc[t] \in Dying \ {"unlink"}}

TypeOK ==
  /\ current \in Threads /\ enabled \in BOOLEAN
  /\ next \in [Threads -> Threads \cup {Null}]
  /\ prev \in [Threads -> Threads \cup {Null}]
  /\ members \subseteq allocated /\ allocated \subseteq Threads
  /\ pc \in [Threads -> {"run", "pause"} \cup Editing \cup Dying]
  /\ made \in [Threads -> Threads \cup {Null}]
  /\ depth \in [Threads -> 0..MaxDepth]
  /\ taken \subseteq Threads \ allocated /\ wild \in BOOLEAN

(* Whenever the timer may walk the list, it is one circle in both          *)
(* directions, but for the current thread that has left it: no thread that *)
(* was linked or unlinked around a tick left a one-sided link behind.      *)
ListIntact ==
  enabled => \A t \in Ring \ Leaving :
    /\ next[t] \in Ring \ Leaving
    /\ prev[next[t]] = t

(* Every thread of the kernel that was scheduled is on the list until it   *)
(* returns, and nothing else is: no thread is lost to the scheduler, and   *)
(* none is there twice or after its death.                                 *)
NoThreadLost == Ring \ Leaving = members \ (Joining \cup Leaving)

(* tasking_kill_thread frees the object of the thread that is running, and *)
(* the memory may be a handler's before the scheduler has moved away from  *)
(* it.  The tick that does so is the one place where that matters: each    *)
(* other tick goes to a thread whose object is alive, and no edit of the   *)
(* list writes to an object that is free.                                  *)
SwitchesToLiveThreads ==
  [][/\ current' # current => current' \in allocated /\ pc[current'] \notin Dying
     /\ wild' # wild => pc[current] = "dead" /\ current \in taken
     /\ \A t \in Threads : next'[t] # next[t] \/ prev'[t] # prev[t] => t \in allocated']_vars

(* A thread that was scheduled gets the processor again and again until it *)
(* returns, however many others are scheduled before it meanwhile - unless *)
(* the tick after a death finds the dead thread's object written over.     *)
EveryThreadRuns ==
  \A t \in Threads : t \in members /\ t \notin Joining ~> current = t \/ wild

(* The order of turns is that of RoundRobin.                               *)
Turns ==
  LET n == CHOOSE k \in 1..Cardinality(Threads) :
             /\ walk[k] \in {walk[j] : j \in 0..(k - 1)}
             /\ \A i \in 1..(k - 1) : walk[i] \notin {walk[j] : j \in 0..(i - 1)}
  IN [i \in 1..(n - 1) |-> walk[i]]

Abstract == INSTANCE RoundRobin WITH
  waiting <- Turns, leaving <- Leaving # {}

ImplementsRoundRobin == Abstract!Spec
=============================================================================
