------------------------------ MODULE UsbUhci -------------------------------
(***************************************************************************)
(* The UHCI driver (usb_uhci.c): the pools of queue heads, transfer        *)
(* descriptors and 8-byte memory blocks, the schedule that the driver and  *)
(* the host controller share, control transfers and the start of           *)
(* interrupt transfers.                                                    *)
(*                                                                         *)
(* The driver builds a queue of descriptors, links it behind the main      *)
(* queue head and polls until the controller is through with it.  The      *)
(* controller meanwhile follows the frame list, executes the descriptor at *)
(* the head of a queue and, in a second step, moves the queue on to the    *)
(* next one.  There is one caller at a time, the boot thread.              *)
(*                                                                         *)
(* Abstractions: the descriptors of a queue are a sequence and its Element *)
(* is a position in it; a packet of data fills a block.                    *)
(***************************************************************************)
EXTENDS Integers, Sequences, FiniteSets

CONSTANTS
  TDCount,      (* USB_UHCI_TD_POOL_COUNT                                   *)
  QHCount,      (* USB_UHCI_QH_POOL_COUNT                                   *)
  BlockCount,   (* USB_UHCI_MEM_BLOCK_COUNT                                 *)
  FrameCount    (* USB_UHCI_FRAME_COUNT                                     *)

ASSUME UhciAssumption ==
  /\ {TDCount, QHCount} \subseteq Nat \ {0} /\ BlockCount \in Nat
  /\ FrameCount \in Nat \ {0}

TDs == 1..TDCount
QHs == 1..QHCount
Blocks == 0..(BlockCount - 1)
Frames == 0..(FrameCount - 1)
TERMINATE == 0
Main == 1               \* controller->QueueHead, the first one allocated

VARIABLES
  TransferDescMap, QueueHeadMap, MemMap,  (* what is marked in use          *)
  frameList,    (* the first queue of each frame                            *)
  head,         (* Head of a queue: the one after it                        *)
  tds, element, (* its descriptors and the position of Element in them      *)
  buffer,       (* the blocks that its packets and its request are in       *)
  td,           (* Active and Stalled of each descriptor                    *)
  retiring,     (* the queue that the controller is about to move on        *)
  pc,           (* where the driver is in a control transfer                *)
  current, seen,(* its queue, and the descriptor read from Element          *)
  status,       (* what usb_uhci_device_control returns                     *)
  stalled,      (* history: whether that transfer stalled                   *)
  interrupts    (* the queues of interrupt transfers                        *)

pools    == <<TransferDescMap, QueueHeadMap, MemMap>>
schedule == <<frameList, head, tds, element, buffer>>
transfer == <<pc, current, seen, status, stalled>>
uhciVars == <<pools, schedule, td, retiring, transfer, interrupts>>

(* usb_uhci_init has set up the frame list and started the controller.     *)
UhciInit ==
  /\ TransferDescMap = {} /\ QueueHeadMap = {Main} /\ MemMap = {}
  /\ frameList = [f \in Frames |-> Main]
  /\ head = [q \in QHs |-> TERMINATE]
  /\ tds = [q \in QHs |-> <<>>] /\ element = [q \in QHs |-> 1]
  /\ buffer = [q \in QHs |-> {}]
  /\ td = [t \in TDs |-> "inactive"]
  /\ retiring = TERMINATE
  /\ pc = "idle" /\ current = Main /\ seen = 1 /\ status = FALSE /\ stalled = FALSE
  /\ interrupts = {}

-----------------------------------------------------------------------------
(* The first free descriptors s, the first free queue head q, and the      *)
(* first run b of n free blocks.                                           *)
FreeTDs == TDs \ TransferDescMap
FreeQHs == QHs \ QueueHeadMap
Run(start, n) == start..(start + n - 1)
Runs(n) == {b \in Blocks : Run(b, n) \subseteq Blocks \ MemMap}

FirstTDs(s) ==
  /\ \A i, j \in DOMAIN s : i < j => s[i] < s[j]
  /\ \A t \in FreeTDs : (\E i \in DOMAIN s : s[i] = t) \/ \A i \in DOMAIN s : s[i] < t
FirstQH(q) == \A r \in FreeQHs : q <= r
FirstRun(b, n) == \A c \in Runs(n) : b <= c

(* The pools have what a queue of n descriptors with k blocks needs; the   *)
(* driver panics otherwise.                                                *)
Available(n, k) == Cardinality(FreeTDs) >= n /\ FreeQHs # {} /\ Runs(k) # {}

(* A new queue q of n descriptors with k blocks, not yet in the schedule.  *)
Build(q, n, k, next) ==
  /\ q \in FreeQHs /\ FirstQH(q)
  /\ \E s \in [1..n -> FreeTDs], b \in Runs(k) :
       /\ FirstTDs(s) /\ FirstRun(b, k)
       /\ TransferDescMap' = TransferDescMap \cup {s[i] : i \in 1..n}
       /\ MemMap' = MemMap \cup Run(b, k)
       /\ tds' = [tds EXCEPT ![q] = s]
       /\ buffer' = [buffer EXCEPT ![q] = Run(b, k)]
       /\ td' = [t \in TDs |-> IF \E i \in 1..n : s[i] = t THEN "active" ELSE td[t]]
  /\ QueueHeadMap' = QueueHeadMap \cup {q}
  /\ element' = [element EXCEPT ![q] = 1]
  /\ head' = [head EXCEPT ![q] = next]

(* usb_uhci_device_control with k packets of data: a SETUP packet, the     *)
(* data and a status packet.  The request and the data take k + 1 blocks.  *)
(* The last line is for the local variables of this call.                  *)
Control(k) ==
  /\ pc = "idle"
  /\ IF Available(k + 2, k + 1)
     THEN \E q \in QHs : /\ Build(q, k + 2, k + 1, TERMINATE)
                         /\ current' = q /\ pc' = "add"
     ELSE /\ pc' = "panic"
          /\ UNCHANGED <<pools, tds, element, buffer, head, td, current>>
  /\ seen' = 1 /\ status' = FALSE /\ stalled' = FALSE
  /\ UNCHANGED <<frameList, retiring, interrupts>>

(* usb_uhci_queue_head_add: the main queue head is the end of the list,    *)
(* since there is never another transfer in it.                            *)
Add ==
  /\ pc = "add"
  /\ head' = [head EXCEPT ![Main] = current]
  /\ pc' = "wait"
  /\ UNCHANGED <<pools, frameList, tds, element, buffer, td, retiring, current, seen,
                 status, stalled, interrupts>>

(* usb_uhci_queue_head_process, called again and again by                  *)
(* usb_uhci_queue_head_wait: it reads Element and then what the descriptor *)
(* there says.  A stall ends the transfer without a status: the variable   *)
(* of the caller stays as it was on the stack.                             *)
Peek ==
  /\ pc = "wait"
  /\ IF element[current] > Len(tds[current])
     THEN pc' = "free" /\ status' = TRUE /\ stalled' = FALSE /\ UNCHANGED seen
     ELSE pc' = "check" /\ seen' = tds[current][element[current]] /\ UNCHANGED <<status, stalled>>
  /\ UNCHANGED <<pools, schedule, td, retiring, current, interrupts>>

(* Any packet that is through ends the transfer.                           *)
CompletesMutant(t) == td[t] # "active"
StallMutant(t) == FALSE     \* a stall is not noticed

Completes(t) == td[t] = "stalled"

Check ==
  /\ pc = "check"
  /\ IF Completes(seen)
     THEN pc' = "free" /\ status' \in BOOLEAN /\ stalled' = TRUE
     ELSE pc' = "wait" /\ UNCHANGED <<status, stalled>>
  /\ UNCHANGED <<pools, schedule, td, retiring, current, seen, interrupts>>

(* It frees the descriptors and the queue head, and unlinks them then.     *)
Free ==
  /\ pc = "free"
  /\ TransferDescMap' = TransferDescMap \ {tds[current][i] : i \in DOMAIN tds[current]}
  /\ QueueHeadMap' = QueueHeadMap \ {current}
  /\ pc' = "unlink"
  /\ UNCHANGED <<MemMap, schedule, td, retiring, current, seen, status, stalled, interrupts>>

Unlink ==
  /\ pc = "unlink"
  /\ head' = [head EXCEPT ![Main] = TERMINATE]
  /\ pc' = "return"
  /\ UNCHANGED <<pools, frameList, tds, element, buffer, td, retiring, current, seen,
                 status, stalled, interrupts>>

(* The data is copied out and the blocks are freed.                        *)
Return ==
  /\ pc = "return"
  /\ MemMap' = MemMap \ buffer[current]
  /\ pc' = "idle"
  /\ UNCHANGED <<TransferDescMap, QueueHeadMap, schedule, td, retiring, current, seen,
                 status, stalled, interrupts>>

(* usb_uhci_device_interrupt_in_start: the new queue takes the place of    *)
(* the first queue in every interval-th frame.  Of those it replaces it    *)
(* has only one link, to the last that is not the main queue.              *)
Slots(interval) == {f \in Frames : f % interval = 0}

Link(slots) ==
  LET taken == {f \in slots : frameList[f] # Main}
      last == {f \in taken : \A g \in taken : g <= f}
  IN IF taken = {} THEN {TERMINATE} ELSE {frameList[f] : f \in last}

InterruptStart(interval) ==
  /\ pc = "idle"
  /\ IF Available(1, 1)
     THEN \E q \in QHs, next \in Link(Slots(interval)) :
            /\ Build(q, 1, 1, next)
            /\ frameList' = [f \in Frames |-> IF f \in Slots(interval) THEN q ELSE frameList[f]]
            /\ interrupts' = interrupts \cup {q}
            /\ UNCHANGED pc
     ELSE pc' = "panic" /\ UNCHANGED <<pools, schedule, td, interrupts>>
  /\ UNCHANGED <<retiring, current, seen, status, stalled>>

-----------------------------------------------------------------------------
(* The queues that the controller comes to: the smallest set with those of *)
(* the frame list that is closed under head.                               *)
Closed(S) ==
  /\ \A f \in Frames : frameList[f] \in S
  /\ \A q \in S : head[q] # TERMINATE => head[q] \in S

Reachable == {q \in QHs : \A S \in SUBSET QHs : Closed(S) => q \in S}

(* The descriptor at the head of a queue waits to be executed.             *)
Pending(q) == /\ element[q] <= Len(tds[q])
              /\ td[tds[q][element[q]]] = "active"

(* The controller executes it.  The device takes or delivers the packet,   *)
(* or the transfer stalls: the device says so or three errors happened.    *)
(* (A device that is not ready is asked again: no change.)                 *)
Execute(q, ok) ==
  /\ retiring = TERMINATE
  /\ q \in Reachable /\ Pending(q)
  /\ td' = [td EXCEPT ![tds[q][element[q]]] = IF ok THEN "inactive" ELSE "stalled"]
  /\ retiring' = IF ok THEN q ELSE TERMINATE
  /\ UNCHANGED <<pools, schedule, transfer, interrupts>>

Advance ==
  /\ retiring # TERMINATE
  /\ element' = [element EXCEPT ![retiring] = @ + 1]
  /\ retiring' = TERMINATE
  /\ UNCHANGED <<pools, frameList, head, tds, buffer, td, transfer, interrupts>>

(* The transfer's last packet.                                             *)
LastPacket(q) == q = current /\ q \notin interrupts /\ element[q] = Len(tds[q])

-----------------------------------------------------------------------------
Driver == Add \/ Peek \/ Check \/ Free \/ Unlink \/ Return

UhciNext ==
  \/ Driver \/ Advance
  \/ \E k \in Nat : Control(k)
  \/ \E i \in Nat \ {0} : InterruptStart(i)
  \/ \E q \in QHs, ok \in BOOLEAN : Execute(q, ok)

UhciSpec == UhciInit /\ [][UhciNext]_uhciVars
=============================================================================
