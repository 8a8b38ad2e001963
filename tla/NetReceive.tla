----------------------------- MODULE NetReceive -----------------------------
(***************************************************************************)
(* A packet's way through the kernel: the RTL8139 writes it into its       *)
(* receive ring, the interrupt handler (rtl8139_callback,                  *)
(* rtl8139_receive_bytes) copies it out and queues the copy                *)
(* (networking_handle_packet), and the device's worker thread takes it off *)
(* the queue and frees it (networking_packet_process_thread).              *)
(*                                                                         *)
(* The handler interrupts the worker, both run on processor 0, and the     *)
(* card writes at any time.  The two critical sections under               *)
(* CurrentRxPacketLock are one action each (SpinLock_i386).  Packets are   *)
(* numbered in the order in which the card accepts them.                   *)
(***************************************************************************)
EXTENDS Integers, Sequences, FiniteSets, Functions

CONSTANTS
  Ring,       (* RTL8139_RX_BUFFER_SIZE, in units of the 4 bytes to which  *)
              (* packets are aligned                                       *)
  Lengths,    (* the lengths of packets with their header, in units        *)
  MaxPackets  (* bound: packets that the card accepts                      *)

ASSUME RingAssumption ==
  /\ Ring \in Nat \ {0} /\ Lengths \subseteq 1..(Ring - 1)
  /\ MaxPackets \in Nat

NULL == 0
Packets == 1..MaxPackets
Memory == 0..(2 * Ring - 2)     \* a packet may reach beyond the ring (RCR_WRAP)

VARIABLES
  memory,     (* which packet each unit of RxBuffer holds a part of        *)
  length,     (* the Length that the header of a packet says, with the     *)
              (* header and rounded up                                     *)
  accepted,   (* how many packets the card has written                     *)
  cbr,        (* the card's registers: where it writes next,               *)
  capr,       (* how far the driver has read                               *)
  isr,        (* and whether ROK is set                                    *)
  test,       (* the test packet: not sent, sent (TOK is set), acknowledged *)
  pointer,    (* CurrentRxPointer                                          *)
  limit, seen,(* bufferLimit and cbr in rtl8139_receive_bytes              *)
  pc,         (* where the handler is                                      *)
  current, last,          (* CurrentRxPacket, LastRxPacket                 *)
  next,       (* net_packet_t.Next                                         *)
  alive,      (* the packets whose copy and net_packet_t are not freed     *)
  worker,     (* where the worker thread is                                *)
  taken       (* its currPacket                                            *)

card    == <<memory, length, accepted, cbr>>
irq     == <<isr, test>>
handler == <<pointer, limit, seen, pc>>
queue   == <<current, last, next, alive>>
thread  == <<worker, taken>>
vars == <<card, capr, irq, handler, queue, thread>>

(* rtl8139_init is done: reception is on, the net_device_t is zeroed and   *)
(* about to be registered.  No packet was discarded before that.           *)
Init ==
  /\ memory = [u \in Memory |-> NULL] /\ length = [p \in {NULL} \cup Packets |-> 1]
  /\ accepted = 0 /\ cbr = 0 /\ capr = 0 /\ isr = FALSE /\ test = "unsent"
  /\ pointer = 0 /\ limit = 0 /\ seen = 0 /\ pc = "idle"
  /\ current = NULL /\ last = NULL
  /\ next = [p \in {NULL} \cup Packets |-> NULL] /\ alive = {}
  /\ worker = "none" /\ taken = NULL

-----------------------------------------------------------------------------
(* The card accepts a packet if it fits between the write and the read     *)
(* pointer without filling the ring, and drops it otherwise.               *)
Arrive(len) ==
  LET p    == accepted + 1
      free == (Ring + capr - cbr) % Ring
  IN
  /\ accepted < MaxPackets
  /\ free = 0 \/ len < free
  /\ accepted' = p
  /\ length' = [length EXCEPT ![p] = len]
  /\ memory' = [u \in Memory |-> IF u \in cbr..(cbr + len - 1) THEN p ELSE memory[u]]
  /\ cbr' = (cbr + len) % Ring
  /\ isr' = TRUE
  /\ UNCHANGED <<capr, test, handler, queue, thread>>

-----------------------------------------------------------------------------
(* rtl8139_callback, which pci_irq_callback calls with interrupts off.     *)
HandlerEnter ==
  /\ pc = "idle" /\ (isr \/ test = "sent")
  /\ pc' = IF isr THEN "read" ELSE "ack"
  /\ UNCHANGED <<card, capr, irq, pointer, limit, seen, queue, thread>>

(* The whole ring is given back to the card before it is read.             *)
ReadLimitMutant ==
  /\ pc = "read" /\ pc' = "loop"
  /\ seen' = cbr /\ capr' = cbr
  /\ limit' = IF cbr < pointer THEN Ring ELSE cbr
  /\ UNCHANGED <<card, irq, pointer, queue, thread>>

ReadLimit ==
  /\ pc = "read" /\ pc' = "loop"
  /\ seen' = cbr
  /\ limit' = IF cbr < pointer THEN Ring ELSE cbr
  /\ UNCHANGED <<card, capr, irq, pointer, queue, thread>>

(* CurrentRxPacket is set whether there is one or not.                     *)
QueuePacketMutant(p) ==
  /\ next' = IF last # NULL THEN [next EXCEPT ![last] = p] ELSE next
  /\ last' = p
  /\ current' = p
  /\ alive' = alive \cup {p}

(* networking_handle_packet: to the end of the queue.                      *)
QueuePacket(p) ==
  /\ next' = IF last # NULL THEN [next EXCEPT ![last] = p] ELSE next
  /\ last' = p
  /\ current' = IF current = NULL THEN p ELSE current
  /\ alive' = alive \cup {p}

(* The packet at the pointer is copied and handed to the network stack.    *)
CopyPacket ==
  /\ pc = "loop" /\ pointer < limit
  /\ pc' = "advance"
  /\ QueuePacket(memory[pointer])
  /\ UNCHANGED <<card, capr, irq, pointer, limit, seen, thread>>

(* The pointer is not brought back around.                                 *)
AdvanceMutant ==
  /\ pc = "advance" /\ pc' = "loop"
  /\ pointer' = pointer + length[memory[pointer]]
  /\ capr' = pointer' % Ring
  /\ UNCHANGED <<card, irq, limit, seen, queue, thread>>

(* The pointer moves past the packet, and the card is told.                *)
Advance ==
  LET end == pointer + length[memory[pointer]] IN
  /\ pc = "advance" /\ pc' = "loop"
  /\ IF end >= Ring
     THEN pointer' = end - Ring /\ limit' = seen
     ELSE pointer' = end /\ limit' = limit
  /\ capr' = pointer'
  /\ UNCHANGED <<card, irq, seen, queue, thread>>

(* All bits of the interrupt status are acknowledged, those of packets     *)
(* that came in since the ring was looked at included.                     *)
HandlerExit ==
  /\ pc = "ack" \/ (pc = "loop" /\ pointer >= limit)
  /\ pc' = "idle"
  /\ isr' = FALSE
  /\ test' = IF test = "sent" THEN "acked" ELSE test
  /\ UNCHANGED <<card, capr, pointer, limit, seen, queue, thread>>

Handler == HandlerEnter \/ ReadLimit \/ CopyPacket \/ Advance \/ HandlerExit

-----------------------------------------------------------------------------
(* networking_register_device schedules the worker.                        *)
StartWorker ==
  /\ pc = "idle" /\ worker = "none"
  /\ worker' = "wait"
  /\ UNCHANGED <<card, capr, irq, handler, queue, taken>>

(* Then it sends a test packet, the only one that is ever sent.            *)
SendTestPacket ==
  /\ pc = "idle" /\ worker # "none" /\ test = "unsent"
  /\ test' = "sent"
  /\ UNCHANGED <<card, capr, isr, handler, queue, thread>>

Awake ==
  /\ pc = "idle" /\ worker = "wait" /\ current # NULL
  /\ worker' = "take"
  /\ UNCHANGED <<card, capr, irq, handler, queue, taken>>

(* LastRxPacket is left pointing to the packet that is freed.              *)
TakeMutant ==
  /\ pc = "idle" /\ worker = "take"
  /\ worker' = "free"
  /\ taken' = current
  /\ current' = next[current]
  /\ UNCHANGED <<card, capr, irq, handler, last, next, alive>>

Take ==
  /\ pc = "idle" /\ worker = "take"
  /\ worker' = "free"
  /\ taken' = current
  /\ current' = next[current]
  /\ last' = IF current' = NULL THEN NULL ELSE last
  /\ UNCHANGED <<card, capr, irq, handler, next, alive>>

(* The packet just taken is the one behind it by now.                      *)
FreeMutant ==
  /\ pc = "idle" /\ worker = "free"
  /\ worker' = "wait"
  /\ alive' = alive \ {current}
  /\ UNCHANGED <<card, capr, irq, handler, current, last, next, taken>>

Free ==
  /\ pc = "idle" /\ worker = "free"
  /\ worker' = "wait"
  /\ alive' = alive \ {taken}
  /\ UNCHANGED <<card, capr, irq, handler, current, last, next, taken>>

Worker == Awake \/ Take \/ Free

Next ==
  \/ \E len \in Lengths : Arrive(len)
  \/ Handler \/ StartWorker \/ SendTestPacket \/ Worker

Spec == Init /\ [][Next]_vars

(* An interrupt is delivered, a handler goes on, and so does the main      *)
(* thread to its worker.  The worker gets the processor again and again    *)
(* (EveryThreadRuns of Tasking): weak fairness, as the packets that        *)
(* interrupt it are MaxPackets at most.                                    *)
FairSpec == Spec /\ WF_vars(Handler) /\ WF_vars(StartWorker) /\ WF_vars(Worker)

-----------------------------------------------------------------------------
TypeOK ==
  /\ memory \in [Memory -> {NULL} \cup Packets]
  /\ {cbr, capr, pointer} \subseteq 0..(Ring - 1) /\ limit \in 0..Ring
  /\ {current, last, taken} \subseteq {NULL} \cup Packets
  /\ alive \subseteq Packets
  /\ next \in [{NULL} \cup Packets -> {NULL} \cup Packets]

(* The handler copies whole packets that the card has written and not yet  *)
(* overwritten, through the wrap of the ring and whatever arrives          *)
(* meanwhile: the pointer never gets into the middle of one or past the    *)
(* card's.                                                                 *)
CopiesWholePackets ==
  pc = "advance" =>
    LET p == memory[pointer] IN
    /\ p # NULL
    /\ \A u \in Memory : memory[u] = p <=> u \in pointer..(pointer + length[p] - 1)

(* The first k packets in the queue.                                       *)
firsts[k \in 0..MaxPackets] ==
  IF k = 0 THEN <<>>
  ELSE LET s == firsts[k - 1]
           p == IF s = <<>> THEN current ELSE next[s[Len(s)]]
       IN IF p = NULL THEN s ELSE Append(s, p)

Queued == firsts[MaxPackets]

(* The queue ends with LastRxPacket, and the packets on it and the one the *)
(* worker has taken are all that is allocated: none leaks, and none is     *)
(* reachable after it was freed.                                           *)
QueueOwnsPackets ==
  /\ last = IF Queued = <<>> THEN NULL ELSE Queued[Len(Queued)]
  /\ alive = Range(Queued) \cup (IF worker = "free" THEN {taken} ELSE {})
  /\ worker = "free" => taken \notin Range(Queued)

(* A packet that the handler has queued is freed by the worker.            *)
QueuedIsFreed == \A p \in Packets : p \in alive ~> p \notin alive

(* When an interrupt finds packets in the ring, all that came before it    *)
(* are handed on.                                                          *)
InterruptEmptiesRing ==
  \A p \in Packets :
    pc = "idle" /\ isr /\ accepted = p ~> p \in alive \/ (taken # NULL /\ taken >= p)

(* The packet behind the one at u.                                         *)
After(u) == (u + length[memory[u]]) % Ring

(* Where the packets begin that are still to be queued: the first after    *)
(* the one that the handler has just copied, each next one behind the last.*)
begins[k \in 0..MaxPackets] ==
  IF k = 0 THEN (IF pc = "advance" THEN After(pointer) ELSE pointer)
  ELSE After(begins[k - 1])

Unqueued ==
  LET inRing == {k \in 0..(MaxPackets - 1) : \A j \in 0..k : begins[j] # cbr}
  IN [k \in 1..Cardinality(inRing) |-> memory[begins[k - 1]]]

Abstract == INSTANCE Fifo WITH
  items <- Queued \o Unqueued, count <- accepted, got <- taken

ImplementsFifo == Abstract!Spec
=============================================================================
