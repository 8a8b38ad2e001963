---------------------------- MODULE DeviceWindow ----------------------------
(***************************************************************************)
(* The run time work of the memory managers: a thread's stack is a frame   *)
(* popped off the page frame stacks (kernel/memory/pmm.c) and mapped into  *)
(* the window of device addresses (kernel/memory/paging.c), where drivers  *)
(* and ACPI also map the memory of devices and unmap it again.             *)
(*                                                                         *)
(* pagingLock protects the frame stacks, paging_device_alloc_lock the      *)
(* search for free addresses; paging_device_free takes neither, so it runs *)
(* beside a search, page by page.  After boot no frame is pushed back:     *)
(* pmm_push_frame is called by pmm_build_stacks and by paging_init's test  *)
(* only, and tasking_kill_thread keeps the stack of a dead thread.         *)
(*                                                                         *)
(* The page tables stand here as a function from window pages to frames;   *)
(* the tables of the window are only ever created under the alloc lock.    *)
(***************************************************************************)
EXTENDS Integers, Sequences

CONSTANTS
  Contexts,   (* threads or processors that call the memory managers       *)
  Long,       (* the frames pmm_build_stacks pushed on the 64-bit stack    *)
  Short,      (* and on the 32-bit stack, the last pushed last             *)
  Devices,    (* where in physical memory the devices start                *)
  Window,     (* the pages between PAGING_FIRST_DEVICE_ADDRESS and         *)
              (* PAGING_LAST_DEVICE_ADDRESS                                *)
  Counts      (* the numbers of pages that are mapped at once              *)

None == -1                      \* no holder, no frame

ASSUME WindowAssumption ==
  /\ None \notin Contexts
  /\ Window \in Nat \ {0} /\ Counts \subseteq 1..Window
  /\ Devices \subseteq Nat /\ Long \in Seq(Nat) /\ Short \in Seq(Nat)

Kinds == {"long", "short"}
stack == [long |-> Long, short |-> Short]

(* pmm_build_stacks pushes each frame once, and devices are not memory.    *)
ASSUME FramesAssumption ==
  \A k, l \in Kinds : \A i \in 1..Len(stack[k]) :
    /\ stack[k][i] \notin Devices
    /\ \A j \in 1..Len(stack[l]) : stack[k][i] = stack[l][j] => k = l /\ i = j

Pages == 0..(Window - 1)

VARIABLES
  top,        (* pageFrameStackLong and pageFrameStack, as indices         *)
  available,  (* pageFramesLongAvailable and pageFramesAvailable           *)
  frameLock,  (* who holds pagingLock                                      *)
  windowLock, (* who holds paging_device_alloc_lock                        *)
  mapped,     (* the frame each page of the window is mapped to            *)
  live,       (* the ranges handed out and not given back: [ptr, size,     *)
              (* phys]                                                     *)
  pc,         (* where each context is                                     *)
  phys, n,    (* the frame a range is to start at, its number of pages     *)
  page, count,(* the locals of paging_device_alloc and _free               *)
  kind        (* the stack a frame is popped off                           *)

vars == <<top, available, frameLock, windowLock, mapped, live, pc, phys, n, page, count, kind>>
frames == <<top, available, frameLock, kind>>
locals == <<phys, n, page, count>>

Goto(c, from, to) == pc[c] = from /\ pc' = [pc EXCEPT ![c] = to]

-----------------------------------------------------------------------------
Init ==
  /\ top = [k \in Kinds |-> Len(stack[k])] /\ available = top
  /\ frameLock = None /\ windowLock = None
  /\ mapped = [p \in Pages |-> None]
  /\ live = {}
  /\ pc    = [c \in Contexts |-> "idle"]
  /\ phys  = [c \in Contexts |-> None] /\ n = [c \in Contexts |-> 1]
  /\ page  = [c \in Contexts |-> 0] /\ count = [c \in Contexts |-> 0]
  /\ kind  = [c \in Contexts |-> "short"]

(* tasking_thread_create calls pmm_pop_frame.                              *)
CreateThread(c) ==
  /\ Goto(c, "idle", "pop")
  /\ n' = [n EXCEPT ![c] = 1]
  /\ UNCHANGED <<frames, windowLock, mapped, live, phys, page, count>>

(* AcpiOsMapMemory and the drivers: pages of a device that is not mapped.  *)
MapDevice(c, device, size) ==
  /\ Goto(c, "idle", "alloc")
  /\ \A r \in live : r.phys # device
  /\ \A d \in Contexts : phys[d] # device
  /\ phys' = [phys EXCEPT ![c] = device]
  /\ n'    = [n EXCEPT ![c] = size]
  /\ UNCHANGED <<frames, windowLock, mapped, live, page, count>>

-----------------------------------------------------------------------------
(* pmm_pop_frame, up to the frame that is read and then to its removal.    *)

PopLockMutant(c) ==          \* pagingLock is not waited for
  /\ Goto(c, "pop", "take")
  /\ frameLock' = c
  /\ UNCHANGED <<top, available, kind, windowLock, mapped, live, locals>>

PopLock(c) ==
  /\ frameLock = None
  /\ Goto(c, "pop", "take")
  /\ frameLock' = c
  /\ UNCHANGED <<top, available, kind, windowLock, mapped, live, locals>>

PopTake(c) ==
  LET k == IF available["long"] # 0 THEN "long" ELSE "short" IN
  /\ available[k] # 0
  /\ kind' = [kind EXCEPT ![c] = k]
  /\ Goto(c, "take", "drop")
  /\ phys' = [phys EXCEPT ![c] = stack[k][top[k]]]
  /\ UNCHANGED <<top, available, frameLock, windowLock, mapped, live, n, page, count>>

PopDrop(c) ==
  /\ Goto(c, "drop", "alloc")
  /\ top'       = [top EXCEPT ![kind[c]] = @ - 1]
  /\ available' = [available EXCEPT ![kind[c]] = @ - 1]
  /\ frameLock' = None
  /\ UNCHANGED <<kind, windowLock, mapped, live, locals>>

(* "No more page frames!": the processor halts and keeps the lock.         *)
PopPanic(c) ==
  /\ Goto(c, "take", "panic")
  /\ \A k \in Kinds : available[k] = 0
  /\ UNCHANGED <<frames, windowLock, mapped, live, locals>>

Pop(c) == PopLock(c) \/ PopTake(c) \/ PopDrop(c) \/ PopPanic(c)

-----------------------------------------------------------------------------
(* paging_device_alloc, a page table entry at a time.                      *)

AllocLockMutant(c) ==        \* without paging_device_alloc_lock
  /\ Goto(c, "alloc", "search")
  /\ windowLock' = c
  /\ page'  = [page EXCEPT ![c] = 0]
  /\ count' = [count EXCEPT ![c] = 0]
  /\ UNCHANGED <<frames, mapped, live, phys, n>>

AllocLock(c) ==
  /\ windowLock = None
  /\ Goto(c, "alloc", "search")
  /\ windowLock' = c
  /\ page'  = [page EXCEPT ![c] = 0]
  /\ count' = [count EXCEPT ![c] = 0]
  /\ UNCHANGED <<frames, mapped, live, phys, n>>

(* The loop: a free page is counted and looked at again, a page in use is  *)
(* moved past.                                                             *)
SearchFreeMutant(c) ==       \* one page more than asked for
  /\ pc[c] = "search" /\ count[c] <= n[c] /\ mapped[page[c]] = None
  /\ count' = [count EXCEPT ![c] = @ + 1]
  /\ UNCHANGED <<frames, windowLock, mapped, live, pc, phys, n, page>>

SearchFree(c) ==
  /\ pc[c] = "search" /\ count[c] < n[c] /\ mapped[page[c]] = None
  /\ count' = [count EXCEPT ![c] = @ + 1]
  /\ UNCHANGED <<frames, windowLock, mapped, live, pc, phys, n, page>>

SearchUsedMutant(c) ==       \* the page is not moved
  /\ pc[c] = "search" /\ count[c] < n[c] /\ mapped[page[c]] # None
  /\ count' = [count EXCEPT ![c] = 0]
  /\ UNCHANGED <<frames, windowLock, mapped, live, pc, phys, n, page>>

SearchUsed(c) ==
  /\ pc[c] = "search" /\ count[c] < n[c] /\ mapped[page[c]] # None
  /\ page[c] + 1 < Window
  /\ page'  = [page EXCEPT ![c] = @ + 1]
  /\ count' = [count EXCEPT ![c] = 0]
  /\ UNCHANGED <<frames, windowLock, mapped, live, pc, phys, n>>

SearchDone(c) ==
  /\ count[c] = n[c] /\ page[c] + n[c] - 1 < Window
  /\ Goto(c, "search", "map")
  /\ count' = [count EXCEPT ![c] = 0]
  /\ UNCHANGED <<frames, windowLock, mapped, live, phys, n, page>>

(* "Out of device virtual addresses!"                                      *)
SearchPanic(c) ==
  /\ \/ count[c] < n[c] /\ mapped[page[c]] # None /\ page[c] + 1 = Window
     \/ count[c] = n[c] /\ page[c] + n[c] - 1 >= Window
  /\ Goto(c, "search", "panic")
  /\ UNCHANGED <<frames, windowLock, mapped, live, locals>>

MapPage(c) ==
  /\ pc[c] = "map" /\ count[c] < n[c]
  /\ mapped' = [mapped EXCEPT ![page[c] + count[c]] = phys[c] + count[c]]
  /\ count'  = [count EXCEPT ![c] = @ + 1]
  /\ UNCHANGED <<frames, windowLock, live, pc, phys, n, page>>

AllocReturn(c) ==
  /\ count[c] = n[c]
  /\ Goto(c, "map", "idle")
  /\ windowLock' = None
  /\ live' = live \cup {[ptr |-> page[c], size |-> n[c], phys |-> phys[c]]}
  /\ phys' = [phys EXCEPT ![c] = None]
  /\ UNCHANGED <<frames, mapped, n, page, count>>

Alloc(c) ==
  AllocLock(c) \/ SearchFree(c) \/ SearchUsed(c) \/ SearchDone(c) \/ MapPage(c) \/ AllocReturn(c)

-----------------------------------------------------------------------------
(* paging_device_free of a device's range: no lock, a page at a time.      *)
FreeBegin(c, r) ==
  /\ r.phys \in Devices
  /\ Goto(c, "idle", "unmap")
  /\ live'  = live \ {r}
  /\ page'  = [page EXCEPT ![c] = r.ptr]
  /\ n'     = [n EXCEPT ![c] = r.size]
  /\ count' = [count EXCEPT ![c] = 0]
  /\ phys'  = [phys EXCEPT ![c] = r.phys]
  /\ UNCHANGED <<frames, windowLock, mapped>>

UnmapPage(c) ==
  /\ pc[c] = "unmap" /\ count[c] < n[c]
  /\ mapped' = [mapped EXCEPT ![page[c] + count[c]] = None]
  /\ count'  = [count EXCEPT ![c] = @ + 1]
  /\ UNCHANGED <<frames, windowLock, live, pc, phys, n, page>>

FreeReturn(c) ==
  /\ count[c] = n[c]
  /\ Goto(c, "unmap", "idle")
  /\ phys' = [phys EXCEPT ![c] = None]
  /\ UNCHANGED <<frames, windowLock, mapped, live, n, page, count>>

Unmap(c) == (\E r \in live : FreeBegin(c, r)) \/ UnmapPage(c) \/ FreeReturn(c)

Next ==
  \E c \in Contexts :
    \/ CreateThread(c) \/ Pop(c)
    \/ \E d \in Devices, k \in Counts : MapDevice(c, d, k)
    \/ Alloc(c) \/ SearchPanic(c)
    \/ Unmap(c)

Spec == Init /\ [][Next]_vars

(* A context that is inside a function goes on.                            *)
FairSpec ==
  Spec /\ \A c \in Contexts :
            /\ WF_vars(Pop(c)) /\ WF_vars(Alloc(c)) /\ WF_vars(SearchPanic(c))
            /\ WF_vars(UnmapPage(c) \/ FreeReturn(c))

-----------------------------------------------------------------------------
TypeOK ==
  /\ \A k \in Kinds : top[k] \in 0..Len(stack[k]) /\ available[k] = top[k]
  /\ {frameLock, windowLock} \subseteq Contexts \cup {None}
  /\ \A c \in Contexts : /\ n[c] \in Counts \cup {1} /\ page[c] \in Pages
                        /\ pc[c] \in {"search", "map", "unmap"} => count[c] \in 0..n[c]
  /\ \A r \in live : r.ptr + r.size <= Window

(* Every frame is in one place: on its stack, or popped by one context, or *)
(* under one thread's stack.                                               *)
NoFrameTwice ==
  LET onStack == UNION {{stack[k][i] : i \in 1..top[k]} : k \in Kinds}
      popped(c) == IF pc[c] \in {"alloc", "search", "map", "panic"} THEN {phys[c]} \ {None} ELSE {}
      under == {r.phys : r \in live}
  IN /\ \A c \in Contexts : popped(c) \cap (onStack \cup under) = {}
     /\ \A c, d \in Contexts : c # d => popped(c) \cap popped(d) = {}
     /\ under \cap onStack = {}
     /\ \A r, s \in live : r.phys = s.phys => r = s

(* Until it is freed, a range leads to the memory it was mapped for, page  *)
(* by page, whatever is mapped and unmapped beside it.                     *)
RangesStayMapped ==
  \A r \in live : \A i \in 0..(r.size - 1) : mapped[r.ptr + i] = r.phys + i

(* paging_device_alloc finds addresses or panics, although pages come and  *)
(* go under the search.                                                    *)
SearchEnds ==
  \A c \in Contexts : pc[c] = "search" ~> pc[c] # "search"

(* The window is an allocator of ranges of its pages.                      *)
Abstract == INSTANCE Allocator WITH
  Requests <- Counts, granted <- live, extent <- Window

ImplementsAllocator == Abstract!Spec
=============================================================================
