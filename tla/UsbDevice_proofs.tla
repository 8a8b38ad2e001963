-------------------------- MODULE UsbDevice_proofs --------------------------
(***************************************************************************)
(* Proofs about the pools and the schedule of the UHCI driver and about    *)
(* the enumeration of devices, for pools of any size, any tree of devices  *)
(* and any failures on the bus.                                            *)
(*                                                                         *)
(* The pools (IInv).  The queues that the controller can come to are the   *)
(* main queue, those of interrupt transfers and the one in progress, since *)
(* this set is closed under the links (Links).  A queue that has been      *)
(* freed and is still linked has nothing left to execute (Progress), which *)
(* rests on two queues never having a descriptor in common (Pools).        *)
(*                                                                         *)
(* The enumeration (JInv).  The calls of usb_device_create are for devices *)
(* plugged into each other, each at the port its caller is at (Calls), so  *)
(* that no device is created twice (Children) and an address is given out  *)
(* once (Addressing).  As long as nothing goes wrong, address 0 belongs to *)
(* one device at a time (Hearing): it was reset, and until the driver      *)
(* knows that its new address has been taken it is the only one that a     *)
(* request can reach (AnsweringIs).  Whether it has taken it is seen from  *)
(* how far the controller is with the queue (Took, Transfers).             *)
(***************************************************************************)
EXTENDS UsbDevice, SequenceTheorems, WellFoundedInduction, TLAPS

Busy    == {"add", "wait", "check", "free", "unlink", "return"}
Linked  == {"wait", "check", "free", "unlink"}

(* The queues whose descriptors are marked, and those whose blocks are.    *)
Queued   == interrupts \cup (IF pc \in {"add", "wait", "check", "free"} THEN {current} ELSE {})
InMemory == interrupts \cup (IF pc \in Busy THEN {current} ELSE {})
descs    == [q \in QHs |-> {tds[q][i] : i \in DOMAIN tds[q]}]

PoolTypes ==
  /\ TransferDescMap \subseteq TDs /\ QueueHeadMap \subseteq QHs /\ MemMap \subseteq Blocks
  /\ frameList \in [Frames -> QHs] /\ head \in [QHs -> QHs \cup {TERMINATE}]
  /\ buffer \in [QHs -> SUBSET Blocks]

QueueTypes ==
  /\ tds \in [QHs -> Seq(TDs)] /\ element \in [QHs -> Nat \ {0}]
  /\ td \in [TDs -> {"active", "inactive", "stalled"}]
  /\ retiring \in QHs \cup {TERMINATE} /\ current \in QHs /\ interrupts \subseteq QHs

Types == PoolTypes /\ QueueTypes

Pools ==
  /\ QueueHeadMap = {Main} \cup Queued
  /\ TransferDescMap = UNION {descs[q] : q \in Queued}
  /\ MemMap = UNION {buffer[q] : q \in InMemory}
  /\ \A p, q \in InMemory :
       p # q => descs[p] \cap descs[q] = {} /\ buffer[p] \cap buffer[q] = {}
  /\ \A q \in InMemory : \A i, j \in DOMAIN tds[q] : tds[q][i] = tds[q][j] => i = j

Links ==
  /\ Main \notin interrupts /\ tds[Main] = <<>>
  /\ pc \in Busy => current \notin interrupts \cup {Main} /\ head[current] = TERMINATE
  /\ \A f \in Frames : frameList[f] \in {Main} \cup interrupts
  /\ head[Main] = IF pc \in Linked THEN current ELSE TERMINATE
  /\ \A q \in interrupts : head[q] \in {TERMINATE} \cup interrupts

(* The state of the descriptor at the head of queue q.                     *)
Front(q, states) == element[q] <= Len(tds[q]) /\ td[tds[q][element[q]]] \in states

Progress ==
  /\ retiring # TERMINATE => retiring \in Queued /\ Front(retiring, {"inactive"})
  /\ pc = "check" =>
       /\ seen \in descs[current]
       /\ td[seen] = "stalled" =>
            element[current] <= Len(tds[current]) /\ seen = tds[current][element[current]]
  /\ pc \in {"free", "unlink"} => ~Front(current, {"active", "inactive"})

(* The inductive invariant of the pools.                                   *)
IInv == Types /\ Pools /\ Links /\ Progress

-----------------------------------------------------------------------------
LEMMA Constants ==
  /\ TDs \subseteq Nat /\ QHs \subseteq Nat /\ Blocks \subseteq Nat
  /\ Main \in QHs /\ TERMINATE \notin QHs
  BY UhciAssumption DEF TDs, QHs, Blocks, Main, TERMINATE

LEMMA InitIInv == Init => IInv
<1>. SUFFICES ASSUME Init PROVE IInv
  OBVIOUS
<1>. USE Constants DEF Init, UhciInit
<1>1. Types
  BY DEF Types, PoolTypes, QueueTypes
<1>2. Pools
  BY DEF Pools, Queued, InMemory, Busy
<1>3. Links
  BY DEF Links, Busy, Linked
<1>4. Progress
  BY DEF Progress
<1>. QED
  BY <1>1, <1>2, <1>3, <1>4 DEF IInv

(* What the enumeration of devices does to the host controller's driver.   *)
GiveUp == pc = "idle" /\ pc' = "undefined" /\ UNCHANGED <<pools, schedule, td, retiring, current, interrupts>>

LEMMA Steps ==
  ASSUME [Next]_vars
  PROVE  \/ Driver \/ Advance \/ GiveUp \/ UNCHANGED uhciVars
         \/ \E k \in Nat : Control(k)
         \/ \E i \in Nat : InterruptStart(i)
         \/ \E q \in QHs, ok \in BOOLEAN : Execute(q, ok)
<1>1. CASE Request
  <2>1. ASSUME NEW k \in Packets(Top.stage) PROVE k \in Nat
    BY DeviceAssumption DEF Packets
  <2>. QED
    BY <1>1, <2>1 DEF Request
<1>2. CASE Transfer
  BY <1>2 DEF Transfer
<1>3. CASE Misled
  BY <1>3 DEF Misled, Result, GiveUp, uhciVars, transfer
<1>4. CASE Start
  BY <1>4, DeviceAssumption DEF Start
<1>5. CASE Success \/ Failure \/ PortEnabled \/ PortNotYet \/ PortEmpty \/ RootPort \/ Finish
  BY <1>5 DEF Success, Failure, PortEnabled, PortNotYet, PortEmpty, RootPort, Finish
<1>6. CASE Controller
  BY <1>6 DEF Controller
<1>7. ASSUME NEW q \in QHs, NEW ok \in BOOLEAN, Packet(q, ok)
      PROVE  \E r \in QHs, k \in BOOLEAN : Execute(r, k)
  BY <1>7 DEF Packet
<1>8. CASE UNCHANGED vars
  BY <1>8 DEF vars
<1>. QED
  BY <1>1, <1>2, <1>3, <1>4, <1>5, <1>6, <1>7, <1>8 DEF Next, Host

-----------------------------------------------------------------------------
(* A new queue takes nothing that is in use.                               *)
Fresh(q, s, b) ==
  /\ q \notin QueueHeadMap /\ s \in Seq(TDs) /\ Len(s) > 0 /\ b \subseteq Blocks
  /\ \A i, j \in DOMAIN s : s[i] = s[j] => i = j
  /\ \A i \in DOMAIN s : s[i] \notin TransferDescMap
  /\ b \cap MemMap = {}
  /\ QueueHeadMap' = QueueHeadMap \cup {q}
  /\ TransferDescMap' = TransferDescMap \cup {s[i] : i \in DOMAIN s}
  /\ MemMap' = MemMap \cup b
  /\ tds' = [tds EXCEPT ![q] = s] /\ buffer' = [buffer EXCEPT ![q] = b]
  /\ element' = [element EXCEPT ![q] = 1]
  /\ td' \in [TDs -> {"active", "inactive", "stalled"}]
  /\ \A t \in TransferDescMap : td'[t] = td[t]
  /\ \A i \in DOMAIN s : td'[s[i]] = "active"

LEMMA Built ==
  ASSUME Types, NEW q \in QHs, NEW n \in Nat \ {0}, NEW k \in Nat, NEW next, Build(q, n, k, next)
  PROVE  \E s \in Seq(TDs), b \in SUBSET Blocks : Fresh(q, s, b)
<1>1. PICK s \in [1..n -> FreeTDs], m \in Runs(k) :
         /\ FirstTDs(s)
         /\ TransferDescMap' = TransferDescMap \cup {s[i] : i \in 1..n}
         /\ MemMap' = MemMap \cup Run(m, k)
         /\ tds' = [tds EXCEPT ![q] = s]
         /\ buffer' = [buffer EXCEPT ![q] = Run(m, k)]
         /\ td' = [t \in TDs |-> IF \E i \in 1..n : s[i] = t THEN "active" ELSE td[t]]
  BY DEF Build
<1>2. s \in Seq(TDs) /\ DOMAIN s = 1..n /\ Len(s) > 0
  BY DEF FreeTDs
<1>3. \A i \in 1..n : s[i] \in TDs \ TransferDescMap
  BY DEF FreeTDs
<1>4. ASSUME NEW i \in 1..n, NEW j \in 1..n, s[i] = s[j] PROVE i = j
  <2>1. s[i] \in Nat /\ s[j] \in Nat
    BY <1>3, Constants
  <2>2. (i < j => s[i] < s[j]) /\ (j < i => s[j] < s[i])
    BY <1>1, <1>2 DEF FirstTDs
  <2>. QED
    BY <1>4, <2>1, <2>2
<1>5. Run(m, k) \subseteq Blocks /\ Run(m, k) \cap MemMap = {}
  BY DEF Runs
<1>6. /\ td' \in [TDs -> {"active", "inactive", "stalled"}]
      /\ \A t \in TransferDescMap : td'[t] = td[t]
      /\ \A i \in DOMAIN s : td'[s[i]] = "active"
  BY <1>1, <1>2, <1>3 DEF Types, PoolTypes, QueueTypes
<1>7. /\ q \notin QueueHeadMap /\ QueueHeadMap' = QueueHeadMap \cup {q}
      /\ element' = [element EXCEPT ![q] = 1]
  BY DEF Build, FreeQHs
<1>8. Fresh(q, s, Run(m, k))
  BY <1>1, <1>2, <1>3, <1>4, <1>5, <1>6, <1>7 DEF Fresh
<1>. QED
  BY <1>2, <1>5, <1>8

(* The pools after that.                                                   *)
LEMMA FreshPools ==
  ASSUME IInv, pc = "idle", NEW q \in QHs, NEW s, NEW b, Fresh(q, s, b),
         Queued' = interrupts \cup {q}, InMemory' = interrupts \cup {q}
  PROVE  /\ Pools'
         /\ tds' \in [QHs -> Seq(TDs)] /\ element' \in [QHs -> Nat \ {0}]
         /\ td' \in [TDs -> {"active", "inactive", "stalled"}]
         /\ TransferDescMap' \subseteq TDs /\ QueueHeadMap' \subseteq QHs /\ MemMap' \subseteq Blocks
         /\ buffer' \in [QHs -> SUBSET Blocks]
<1>1. /\ Queued = interrupts /\ InMemory = interrupts /\ q \notin interrupts /\ q # Main
      /\ interrupts \subseteq QHs
  BY DEF IInv, Types, QueueTypes, Pools, Queued, InMemory, Busy, Fresh
<1>2. /\ tds' = [tds EXCEPT ![q] = s] /\ buffer' = [buffer EXCEPT ![q] = b]
      /\ tds \in [QHs -> Seq(TDs)] /\ buffer \in [QHs -> SUBSET Blocks]
  BY DEF Fresh, IInv, Types, PoolTypes, QueueTypes
<1>. DEFINE d == {s[i] : i \in DOMAIN s}
<1>3. descs' = [descs EXCEPT ![q] = d]
  BY <1>2 DEF descs
<1>4. d \cap TransferDescMap = {} /\ b \cap MemMap = {} /\ d \subseteq TDs
  BY DEF Fresh
<1>5. \A p \in QHs \ {q} : descs'[p] = descs[p] /\ buffer'[p] = buffer[p] /\ tds'[p] = tds[p]
  BY <1>2, <1>3 DEF descs
<1>6. descs'[q] = d /\ buffer'[q] = b /\ tds'[q] = s
  BY <1>2, <1>3 DEF descs
<1>7. \A p \in interrupts : descs[p] \subseteq TransferDescMap /\ buffer[p] \subseteq MemMap
  BY <1>1 DEF IInv, Pools
<1>8. /\ QueueHeadMap' = QueueHeadMap \cup {q} /\ TransferDescMap' = TransferDescMap \cup d
      /\ MemMap' = MemMap \cup b
  BY DEF Fresh
<1>9. Pools'
  <2>1. QueueHeadMap' = {Main} \cup Queued'
    BY <1>1, <1>8 DEF IInv, Pools
  <2>2. TransferDescMap' = UNION {descs'[p] : p \in Queued'}
    <3>1. UNION {descs'[p] : p \in Queued'} = (UNION {descs[p] : p \in interrupts}) \cup d
      BY <1>1, <1>5, <1>6
    <3>. QED
      BY <1>1, <1>8, <3>1 DEF IInv, Pools
  <2>3. MemMap' = UNION {buffer'[p] : p \in InMemory'}
    <3>1. UNION {buffer'[p] : p \in InMemory'} = (UNION {buffer[p] : p \in interrupts}) \cup b
      BY <1>1, <1>5, <1>6
    <3>. QED
      BY <1>1, <1>8, <3>1 DEF IInv, Pools
  <2>4. ASSUME NEW p \in InMemory', NEW r \in InMemory', p # r
        PROVE  descs'[p] \cap descs'[r] = {} /\ buffer'[p] \cap buffer'[r] = {}
    <3>. HIDE DEF d
    <3>1. CASE p = q
      BY <1>1, <1>4, <1>5, <1>6, <1>7, <2>4, <3>1
    <3>2. CASE r = q
      BY <1>1, <1>4, <1>5, <1>6, <1>7, <2>4, <3>2
    <3>3. CASE p # q /\ r # q
      BY <1>1, <1>5, <2>4, <3>3 DEF IInv, Pools
    <3>. QED
      BY <3>1, <3>2, <3>3
  <2>5. ASSUME NEW p \in InMemory', NEW i \in DOMAIN tds'[p], NEW j \in DOMAIN tds'[p],
               tds'[p][i] = tds'[p][j]
        PROVE  i = j
    <3>1. CASE p = q
      BY <1>6, <2>5, <3>1 DEF Fresh
    <3>2. CASE p # q
      BY <1>1, <1>5, <2>5, <3>2 DEF IInv, Pools
    <3>. QED
      BY <3>1, <3>2
  <2>. QED
    BY <2>1, <2>2, <2>3, <2>4, <2>5 DEF Pools
<1>. QED
  BY <1>2, <1>4, <1>8, <1>9 DEF Fresh, IInv, Types, PoolTypes, QueueTypes

-----------------------------------------------------------------------------
LEMMA Stopped ==
  ASSUME IInv, pc = "idle", pc' \notin Busy,
         UNCHANGED <<pools, schedule, td, retiring, current, interrupts>>
  PROVE  IInv'
<1>. USE DEF pools, schedule
<1>1. Queued' = Queued /\ InMemory' = InMemory /\ descs' = descs
  BY DEF Queued, InMemory, Busy, descs
<1>2. Types'
  BY DEF IInv, Types, PoolTypes, QueueTypes
<1>3. Pools'
  BY <1>1 DEF IInv, Pools
<1>4. Links'
  BY DEF IInv, Links, Busy, Linked
<1>5. Progress'
  BY <1>1 DEF IInv, Progress, Front, Busy
<1>. QED
  BY <1>2, <1>3, <1>4, <1>5 DEF IInv

(* The queue that the controller is about to move on is not a fresh one.   *)
LEMMA FreshProgress ==
  ASSUME IInv, pc = "idle", NEW q \in QHs, NEW s, NEW b, Fresh(q, s, b),
         Queued' = interrupts \cup {q}, retiring' = retiring, pc' \in {"idle", "add"}
  PROVE  Progress'
<1>1. SUFFICES ASSUME retiring # TERMINATE
               PROVE  retiring \in Queued' /\ Front(retiring, {"inactive"})'
  BY DEF Progress
<1>2. retiring \in interrupts /\ retiring # q /\ retiring \in Queued /\ retiring \in QHs
  BY <1>1 DEF IInv, Types, QueueTypes, Pools, Progress, Queued, Fresh
<1>3. tds'[retiring] = tds[retiring] /\ element'[retiring] = element[retiring]
  BY <1>2 DEF IInv, Types, QueueTypes, Fresh
<1>. DEFINE e == element[retiring]
<1>4. e \in DOMAIN tds[retiring] /\ td[tds[retiring][e]] = "inactive" /\ e <= Len(tds[retiring])
  BY <1>1, <1>2 DEF IInv, Types, QueueTypes, Progress, Front
<1>5. tds[retiring][e] \in TransferDescMap
  <2>1. tds[retiring][e] \in descs[retiring]
    BY <1>2, <1>4 DEF descs
  <2>. QED
    BY <1>2, <2>1 DEF IInv, Pools
<1>6. td'[tds[retiring][e]] = "inactive"
  BY <1>4, <1>5 DEF Fresh
<1>. QED
  BY <1>1, <1>2, <1>3, <1>4, <1>6 DEF Front

LEMMA StepControl ==
  ASSUME IInv, NEW k \in Nat, Control(k)
  PROVE  IInv'
<1>1. pc = "idle"
  BY DEF Control
<1>2. CASE ~Available(k + 2, k + 1)
  BY <1>1, <1>2, Stopped DEF Control, Busy, pools, schedule
<1>3. CASE Available(k + 2, k + 1)
  <2>1. PICK q \in QHs : Build(q, k + 2, k + 1, TERMINATE) /\ current' = q /\ pc' = "add"
    BY <1>3 DEF Control
  <2>2. PICK s \in Seq(TDs), b \in SUBSET Blocks : Fresh(q, s, b)
    BY <2>1, Built DEF IInv
  <2>3. frameList' = frameList /\ retiring' = retiring /\ interrupts' = interrupts
    BY DEF Control
  <2>4. head' = [head EXCEPT ![q] = TERMINATE]
    BY <2>1 DEF Build
  <2>5. Queued' = interrupts \cup {q} /\ InMemory' = interrupts \cup {q}
    BY <2>1, <2>3 DEF Queued, InMemory, Busy
  <2>6. q \notin interrupts /\ q # Main
    BY <2>2 DEF Fresh, IInv, Pools, Queued
  <2>7. Types'
    BY <1>1, <2>1, <2>2, <2>3, <2>4, <2>5, FreshPools DEF IInv, Types, PoolTypes, QueueTypes
  <2>8. Pools'
    BY <1>1, <2>2, <2>5, FreshPools
  <2>9. Progress'
    BY <1>1, <2>1, <2>2, <2>3, <2>5, FreshProgress
  <2>10. Links'
    <3>1. tds'[Main] = <<>> /\ head'[Main] = TERMINATE
      BY <1>1, <2>2, <2>4, <2>6, Constants DEF Fresh, IInv, Types, PoolTypes, QueueTypes, Links, Linked
    <3>2. head'[q] = TERMINATE /\ \A r \in interrupts : head'[r] = head[r]
      BY <2>4, <2>6 DEF IInv, Types, PoolTypes, QueueTypes
    <3>. QED
      BY <2>1, <2>3, <2>6, <3>1, <3>2 DEF IInv, Links, Busy, Linked
  <2>. QED
    BY <2>7, <2>8, <2>9, <2>10 DEF IInv
<1>. QED
  BY <1>2, <1>3

LEMMA StepInterruptStart ==
  ASSUME IInv, NEW interval \in Nat, InterruptStart(interval)
  PROVE  IInv'
<1>1. pc = "idle" /\ retiring' = retiring /\ current' = current
  BY DEF InterruptStart
<1>2. CASE ~Available(1, 1)
  BY <1>1, <1>2, Stopped DEF InterruptStart, Busy, pools, schedule
<1>3. CASE Available(1, 1)
  <2>. DEFINE slots == Slots(interval)
  <2>1. PICK q \in QHs, next \in Link(slots) :
          /\ Build(q, 1, 1, next) /\ interrupts' = interrupts \cup {q} /\ pc' = pc
          /\ frameList' = [f \in Frames |-> IF f \in slots THEN q ELSE frameList[f]]
    BY <1>3 DEF InterruptStart
  <2>2. PICK s \in Seq(TDs), b \in SUBSET Blocks : Fresh(q, s, b)
    BY <2>1, Built DEF IInv
  <2>3. next \in {TERMINATE} \cup interrupts
    <3>1. \A f \in slots : f \in Frames
      BY DEF Slots
    <3>2. \A f \in slots : frameList[f] # Main => frameList[f] \in interrupts
      BY <3>1 DEF IInv, Links
    <3>. HIDE DEF slots
    <3>. QED
      BY <2>1, <3>2 DEF Link
  <2>4. head' = [head EXCEPT ![q] = next]
    BY <2>1 DEF Build
  <2>5. Queued' = interrupts \cup {q} /\ InMemory' = interrupts \cup {q}
    BY <1>1, <2>1 DEF Queued, InMemory, Busy
  <2>6. q \notin interrupts /\ q # Main
    BY <2>2 DEF Fresh, IInv, Pools, Queued
  <2>7. Types'
    <3>1. PoolTypes'
      <4>1. frameList' \in [Frames -> QHs] /\ head' \in [QHs -> QHs \cup {TERMINATE}]
        BY <2>1, <2>3, <2>4 DEF IInv, Types, PoolTypes, QueueTypes
      <4>. QED
        BY <1>1, <2>2, <2>5, <4>1, FreshPools DEF PoolTypes
    <3>2. QueueTypes'
      BY <1>1, <2>1, <2>2, <2>5, FreshPools DEF IInv, Types, QueueTypes
    <3>. QED
      BY <3>1, <3>2 DEF Types
  <2>8. Pools'
    BY <1>1, <2>2, <2>5, FreshPools
  <2>9. Progress'
    BY <1>1, <2>1, <2>2, <2>5, FreshProgress
  <2>10. Links'
    <3>1. tds'[Main] = <<>> /\ head'[Main] = TERMINATE
      BY <1>1, <2>2, <2>4, <2>6, Constants DEF Fresh, IInv, Types, PoolTypes, QueueTypes, Links, Linked
    <3>2. head'[q] = next /\ \A r \in interrupts : head'[r] = head[r]
      BY <2>4, <2>6 DEF IInv, Types, PoolTypes, QueueTypes
    <3>3. \A f \in Frames : frameList'[f] \in {Main} \cup interrupts'
      BY <2>1 DEF IInv, Links
    <3>. QED
      BY <1>1, <2>1, <2>3, <2>6, <3>1, <3>2, <3>3 DEF IInv, Links, Busy, Linked
  <2>. QED
    BY <2>7, <2>8, <2>9, <2>10 DEF IInv
<1>. QED
  BY <1>2, <1>3

-----------------------------------------------------------------------------
(* The steps of a transfer in progress, and the controller's.              *)
LEMMA StepAdd ==
  ASSUME IInv, Add
  PROVE  IInv'
<1>. USE DEF Add, pools
<1>1. Queued' = Queued /\ InMemory' = InMemory /\ descs' = descs
  BY DEF Queued, InMemory, Busy, descs
<1>2. Types'
  BY Constants DEF IInv, Types, PoolTypes, QueueTypes
<1>3. Pools'
  BY <1>1 DEF IInv, Pools
<1>4. Links'
  BY Constants DEF IInv, Types, PoolTypes, QueueTypes, Links, Busy, Linked
<1>5. Progress'
  BY <1>1 DEF IInv, Progress, Front
<1>. QED
  BY <1>2, <1>3, <1>4, <1>5 DEF IInv

LEMMA StepPeek ==
  ASSUME IInv, Peek
  PROVE  IInv'
<1>. USE DEF Peek, pools, schedule
<1>1. Queued' = Queued /\ InMemory' = InMemory /\ descs' = descs
  BY DEF Queued, InMemory, Busy, descs
<1>2. Types'
  BY DEF IInv, Types, PoolTypes, QueueTypes
<1>3. Pools'
  BY <1>1 DEF IInv, Pools
<1>4. Links'
  BY DEF IInv, Links, Busy, Linked
<1>5. Progress'
  <2>1. current \in QHs /\ element[current] \in Nat \ {0} /\ tds[current] \in Seq(TDs)
    BY DEF IInv, Types, QueueTypes
  <2>2. retiring' # TERMINATE => retiring' \in Queued' /\ Front(retiring, {"inactive"})'
    BY <1>1 DEF IInv, Progress, Front
  <2>3. CASE element[current] > Len(tds[current])
    BY <2>1, <2>2, <2>3 DEF Progress, Front
  <2>4. CASE ~(element[current] > Len(tds[current]))
    <3>1. element[current] \in DOMAIN tds[current] /\ element[current] <= Len(tds[current])
      BY <2>1, <2>4
    <3>2. seen' \in descs[current]
      BY <2>1, <2>4, <3>1 DEF descs
    <3>. QED
      BY <1>1, <2>2, <2>4, <3>1, <3>2 DEF Progress
  <2>. QED
    BY <2>3, <2>4
<1>. QED
  BY <1>2, <1>3, <1>4, <1>5 DEF IInv

LEMMA StepCheck ==
  ASSUME IInv, Check
  PROVE  IInv'
<1>. USE DEF Check, pools, schedule
<1>1. Queued' = Queued /\ InMemory' = InMemory /\ descs' = descs
  BY DEF Queued, InMemory, Busy, descs
<1>2. Types'
  BY DEF IInv, Types, PoolTypes, QueueTypes
<1>3. Pools'
  BY <1>1 DEF IInv, Pools
<1>4. Links'
  BY DEF IInv, Links, Busy, Linked
<1>5. Progress'
  BY <1>1 DEF IInv, Progress, Front, Completes
<1>. QED
  BY <1>2, <1>3, <1>4, <1>5 DEF IInv

LEMMA StepFree ==
  ASSUME IInv, Free
  PROVE  IInv'
<1>. USE DEF Free, schedule
<1>1. /\ Queued = interrupts \cup {current} /\ Queued' = interrupts
      /\ InMemory' = InMemory /\ InMemory = interrupts \cup {current} /\ descs' = descs
      /\ current \notin interrupts /\ current # Main /\ current \in QHs
  BY DEF Queued, InMemory, Busy, descs, IInv, Links, Types, QueueTypes
<1>2. Types'
  BY DEF IInv, Types, PoolTypes, QueueTypes
<1>3. Pools'
  <2>1. QueueHeadMap' = {Main} \cup Queued'
    BY <1>1 DEF IInv, Pools, Links
  <2>2. TransferDescMap' = TransferDescMap \ descs[current]
    BY <1>1 DEF descs
  <2>3. TransferDescMap = (UNION {descs[q] : q \in interrupts}) \cup descs[current]
    BY <1>1 DEF IInv, Pools
  <2>4. \A q \in interrupts : descs[q] \cap descs[current] = {}
    BY <1>1 DEF IInv, Pools
  <2>5. TransferDescMap' = UNION {descs'[q] : q \in Queued'}
    BY <1>1, <2>2, <2>3, <2>4
  <2>. QED
    BY <1>1, <2>1, <2>5 DEF IInv, Pools
<1>4. Links'
  BY DEF IInv, Links, Busy, Linked
<1>5. Progress'
  <2>1. ~Front(current, {"active", "inactive"})
    BY DEF IInv, Progress
  <2>2. retiring # TERMINATE => retiring # current
    BY <2>1 DEF IInv, Progress, Front
  <2>. QED
    BY <1>1, <2>1, <2>2 DEF IInv, Progress, Front
<1>. QED
  BY <1>2, <1>3, <1>4, <1>5 DEF IInv

LEMMA StepUnlink ==
  ASSUME IInv, Unlink
  PROVE  IInv'
<1>. USE DEF Unlink, pools
<1>1. Queued' = Queued /\ InMemory' = InMemory /\ descs' = descs
  BY DEF Queued, InMemory, Busy, descs
<1>2. Types'
  BY Constants DEF IInv, Types, PoolTypes, QueueTypes
<1>3. Pools'
  BY <1>1 DEF IInv, Pools
<1>4. Links'
  BY Constants DEF IInv, Types, PoolTypes, QueueTypes, Links, Busy, Linked
<1>5. Progress'
  BY <1>1 DEF IInv, Progress, Front
<1>. QED
  BY <1>2, <1>3, <1>4, <1>5 DEF IInv

LEMMA StepReturn ==
  ASSUME IInv, Return
  PROVE  IInv'
<1>. USE DEF Return, schedule
<1>1. /\ Queued' = Queued /\ Queued = interrupts /\ descs' = descs
      /\ InMemory' = interrupts /\ InMemory = interrupts \cup {current}
      /\ current \notin interrupts
  BY DEF Queued, InMemory, Busy, descs, IInv, Links
<1>2. Types'
  BY DEF IInv, Types, PoolTypes, QueueTypes
<1>3. Pools'
  <2>1. MemMap = (UNION {buffer[q] : q \in interrupts}) \cup buffer[current]
    BY <1>1 DEF IInv, Pools
  <2>2. \A q \in interrupts : buffer[q] \cap buffer[current] = {}
    BY <1>1 DEF IInv, Pools
  <2>3. MemMap' = UNION {buffer'[q] : q \in InMemory'}
    BY <1>1, <2>1, <2>2
  <2>. QED
    BY <1>1, <2>3 DEF IInv, Pools
<1>4. Links'
  BY DEF IInv, Links, Busy, Linked
<1>5. Progress'
  BY <1>1 DEF IInv, Progress, Front
<1>. QED
  BY <1>2, <1>3, <1>4, <1>5 DEF IInv

LEMMA StepAdvance ==
  ASSUME IInv, Advance
  PROVE  IInv'
<1>. USE DEF Advance, pools, transfer
<1>1. Queued' = Queued /\ InMemory' = InMemory /\ descs' = descs
  BY DEF Queued, InMemory, Busy, descs
<1>2. retiring \in QHs /\ retiring \in Queued /\ Front(retiring, {"inactive"})
  BY DEF IInv, Types, QueueTypes, Progress
<1>3. Types'
  BY <1>2 DEF IInv, Types, PoolTypes, QueueTypes
<1>4. Pools'
  BY <1>1 DEF IInv, Pools
<1>5. Links'
  BY DEF IInv, Links, Busy, Linked
<1>6. Progress'
  <2>1. \A q \in QHs \ {retiring} : element'[q] = element[q]
    BY DEF IInv, Types, QueueTypes
  <2>2. pc = "check" /\ td[seen] = "stalled" => retiring # current
    BY <1>2 DEF IInv, Progress, Front
  <2>3. pc \in {"free", "unlink"} => retiring # current
    BY <1>2 DEF IInv, Progress, Front
  <2>4. current \in QHs
    BY DEF IInv, Types, QueueTypes
  <2>. QED
    BY <1>1, <2>1, <2>2, <2>3, <2>4 DEF IInv, Progress, Front
<1>. QED
  BY <1>3, <1>4, <1>5, <1>6 DEF IInv

(* The queues that the controller can come to, and what it can execute.    *)
LEMMA Reached ==
  ASSUME IInv, NEW q \in Reachable, Pending(q)
  PROVE  q \in Queued
<1>. DEFINE S == {Main} \cup interrupts \cup (IF pc \in Linked THEN {current} ELSE {})
<1>1. S \subseteq QHs
  BY Constants DEF IInv, Types, QueueTypes
<1>2. Closed(S)
  BY DEF IInv, Links, Closed, Linked, Busy
<1>3. q \in S
  BY <1>1, <1>2 DEF Reachable
<1>4. q # Main
  <2>1. Len(tds[Main]) = 0 /\ element[Main] \in Nat \ {0}
    BY Constants DEF IInv, Types, QueueTypes, Links
  <2>. QED
    BY <2>1 DEF Pending
<1>5. pc = "unlink" => q # current
  BY DEF IInv, Progress, Front, Pending
<1>. QED
  BY <1>3, <1>4, <1>5 DEF Queued, Linked

LEMMA StepExecute ==
  ASSUME IInv, NEW q \in QHs, NEW ok \in BOOLEAN, Execute(q, ok)
  PROVE  IInv'
<1>. USE DEF Execute, pools, schedule, transfer
<1>1. Queued' = Queued /\ InMemory' = InMemory /\ descs' = descs
  BY DEF Queued, InMemory, Busy, descs
<1>2. q \in Queued /\ q \in InMemory /\ Pending(q)
  BY Reached DEF Queued, InMemory, Busy
<1>. DEFINE t == tds[q][element[q]]
<1>3. t \in descs[q] /\ t \in TDs /\ td[t] = "active" /\ element[q] <= Len(tds[q])
  <2>1. element[q] \in DOMAIN tds[q] /\ tds[q] \in Seq(TDs)
    BY <1>2 DEF IInv, Types, QueueTypes, Pending
  <2>. QED
    BY <1>2, <2>1 DEF descs, Pending
<1>4. /\ \A u \in TDs \ {t} : td'[u] = td[u]
      /\ td'[t] = IF ok THEN "inactive" ELSE "stalled"
  BY <1>3 DEF IInv, Types, QueueTypes
<1>5. Types'
  BY DEF IInv, Types, PoolTypes, QueueTypes
<1>6. Pools'
  BY <1>1 DEF IInv, Pools
<1>7. Links'
  BY DEF IInv, Links, Busy, Linked
<1>8. Progress'
  <2>1. retiring' # TERMINATE => retiring' \in Queued' /\ Front(retiring, {"inactive"})'
    BY <1>1, <1>2, <1>3, <1>4 DEF Front
  <2>2. ASSUME pc = "check"
        PROVE  /\ seen \in descs[current]
               /\ td'[seen] = "stalled" =>
                    element[current] <= Len(tds[current]) /\ seen = tds[current][element[current]]
    <3>1. seen \in descs[current] /\ current \in InMemory /\ current \in QHs
      BY <2>2 DEF IInv, Types, QueueTypes, Progress, InMemory, Busy
    <3>2. seen \in TDs
      BY <3>1 DEF descs, IInv, Types, QueueTypes
    <3>3. CASE seen = t
      <4>1. q = current
        BY <1>2, <1>3, <3>1, <3>3 DEF IInv, Pools
      <4>. QED
        BY <1>3, <3>1, <3>3, <4>1
    <3>4. CASE seen # t
      BY <1>4, <2>2, <3>1, <3>2, <3>4 DEF IInv, Progress
    <3>. QED
      BY <3>3, <3>4
  <2>3. ASSUME pc \in {"free", "unlink"} PROVE ~Front(current, {"active", "inactive"})'
    <3>1. ~Front(current, {"active", "inactive"}) /\ current \in InMemory /\ current \in QHs
      BY <2>3 DEF IInv, Types, QueueTypes, Progress, InMemory, Busy
    <3>2. CASE element[current] <= Len(tds[current])
      <4>. DEFINE u == tds[current][element[current]]
      <4>1. u \in descs[current] /\ u \in TDs
        <5>1. element[current] \in DOMAIN tds[current] /\ tds[current] \in Seq(TDs)
          BY <3>1, <3>2 DEF IInv, Types, QueueTypes
        <5>. QED
          BY <3>1, <5>1 DEF descs
      <4>2. q # current
        BY <1>3, <3>1 DEF Front
      <4>3. u # t
        BY <1>2, <1>3, <3>1, <4>1, <4>2 DEF IInv, Pools
      <4>. QED
        BY <1>4, <3>1, <4>1, <4>3 DEF Front
    <3>3. CASE ~(element[current] <= Len(tds[current]))
      BY <3>3 DEF Front
    <3>. QED
      BY <3>2, <3>3
  <2>. QED
    BY <1>1, <2>1, <2>2, <2>3 DEF Progress
<1>. QED
  BY <1>5, <1>6, <1>7, <1>8 DEF IInv

-----------------------------------------------------------------------------
(* The invariant of pools and schedule holds in every state.               *)
THEOREM Inductive == Spec => []IInv
<1>1. IInv /\ [Next]_vars => IInv'
  <2>. SUFFICES ASSUME IInv, [Next]_vars PROVE IInv'
    OBVIOUS
  <2>1. CASE Driver
    BY <2>1, StepAdd, StepPeek, StepCheck, StepFree, StepUnlink, StepReturn DEF Driver
  <2>2. CASE Advance
    BY <2>2, StepAdvance
  <2>3. CASE GiveUp
    BY <2>3, Stopped DEF GiveUp, Busy
  <2>4. CASE UNCHANGED uhciVars
    <3>1. Queued' = Queued /\ InMemory' = InMemory /\ descs' = descs
      BY <2>4 DEF uhciVars, transfer, schedule, Queued, InMemory, Busy, descs
    <3>. QED
      BY <2>4, <3>1 DEF uhciVars, pools, schedule, transfer, IInv, Types, PoolTypes, QueueTypes,
                        Pools, Links, Progress, Front, Busy, Linked
  <2>5. ASSUME NEW k \in Nat, Control(k) PROVE IInv'
    BY <2>5, StepControl
  <2>6. ASSUME NEW i \in Nat, InterruptStart(i) PROVE IInv'
    BY <2>6, StepInterruptStart
  <2>7. ASSUME NEW q \in QHs, NEW ok \in BOOLEAN, Execute(q, ok) PROVE IInv'
    BY <2>7, StepExecute
  <2>. QED
    BY Steps, <2>1, <2>2, <2>3, <2>4, <2>5, <2>6, <2>7
<1>. QED
  BY InitIInv, <1>1, PTL DEF Spec

(* The pools of usb_uhci.c agree with what is in use, and the controller   *)
(* executes nothing that is free, although usb_uhci_queue_head_process     *)
(* frees a queue before it unlinks it.                                     *)
THEOREM PoolsSafe == Spec => []PoolsAgree
<1>1. ASSUME IInv PROVE PoolsAgree
  <2>. DEFINE queued == interrupts \cup (IF pc \in {"add", "wait", "check", "free"} THEN {current} ELSE {})
              inMemory == queued \cup (IF pc \in {"unlink", "return"} THEN {current} ELSE {})
              Of(q) == {tds[q][i] : i \in DOMAIN tds[q]}
  <2>1. queued = Queued /\ inMemory = InMemory /\ queued \subseteq inMemory /\ inMemory \subseteq QHs
    BY <1>1 DEF Queued, InMemory, Busy, IInv, Types, QueueTypes
  <2>2. \A q \in queued : Of(q) = descs[q]
    BY <2>1 DEF descs
  <2>3. QueueHeadMap = {Main} \cup queued /\ MemMap = UNION {buffer[q] : q \in inMemory}
    BY <1>1, <2>1 DEF IInv, Pools
  <2>4. TransferDescMap = UNION {Of(q) : q \in queued}
    <3>1. UNION {Of(q) : q \in queued} = UNION {descs[q] : q \in queued}
      BY <2>2
    <3>. QED
      BY <1>1, <2>1, <3>1 DEF IInv, Pools
  <2>5. \A p, q \in queued : p # q => Of(p) \cap Of(q) = {} /\ buffer[p] \cap buffer[q] = {}
    <3>. HIDE DEF Of, queued, inMemory
    <3>. QED
      BY <1>1, <2>1, <2>2 DEF IInv, Pools
  <2>6. \A q \in Reachable : Pending(q) => q \in queued
    BY <1>1, <2>1, Reached
  <2>. QED
    BY <2>3, <2>4, <2>5, <2>6 DEF PoolsAgree
<1>. QED
  BY Inductive, <1>1, PTL
-----------------------------------------------------------------------------
(***************************************************************************)
(* The enumeration of devices.                                             *)
(***************************************************************************)
Stages == Requests \cup {"port", "child", "start", "created", "failed"}
Early  == {"desc8", "desc", "lang", "strings", "address"}   \* without an address
CallSet == [dev : Devices \cup {Root}, stage : Stages, port : 1..HubPorts \cup 1..2,
            attempt : 0..(PortTries - 1), polls : Nat]

IsCall(c) ==
  /\ c \in CallSet
  /\ IF c.dev = Root THEN c.stage \in {"port", "child", "created"} ELSE c.stage # "port"

(* The calls of usb_device_create, each for a device that is plugged into  *)
(* the one before.                                                         *)
Calls ==
  /\ stack \in Seq(CallSet)
  /\ \A i \in 1..Len(stack) :
       /\ IsCall(stack[i])
       /\ i < Len(stack) <=> stack[i].stage = "child"
       /\ IF i = 1 THEN stack[i].dev = Root
          ELSE /\ stack[i].dev \in Devices
               /\ Parent[stack[i].dev] = stack[i - 1].dev
               /\ PortOf[stack[i].dev] = stack[i - 1].port
  /\ \A i, j \in 1..Len(stack) : stack[i].dev = stack[j].dev => i = j

LEMMA TopOfStack ==
  ASSUME Calls, stack # <<>>
  PROVE  /\ Len(stack) \in Nat /\ Len(stack) \in 1..Len(stack)
         /\ Top = stack[Len(stack)] /\ IsCall(Top) /\ Top.stage # "child"
         /\ Len(stack) # 1 => Top.dev \in Devices
         /\ Len(stack) = 1 => Top.dev = Root
<1>1. PICK n \in Nat : n = Len(stack)
  BY DEF Calls
<1>2. n \in 1..Len(stack) /\ n > 0
  BY <1>1 DEF Calls
<1>3. /\ IsCall(stack[n]) /\ (n < Len(stack) <=> stack[n].stage = "child")
      /\ IF n = 1 THEN stack[n].dev = Root ELSE stack[n].dev \in Devices
  BY <1>2 DEF Calls
<1>. QED
  BY <1>1, <1>2, <1>3 DEF Top

LEMMA StageOfTop ==
  ASSUME Calls, stack # <<>>
  PROVE  /\ Top.stage \in Requests \cup {"start", "failed"} => Top.dev \in Devices
         /\ Top.stage = "port" => Top.dev = Root
<1>1. IsCall(Top) /\ Top.dev \in Devices \cup {Root}
  BY TopOfStack DEF IsCall, CallSet
<1>. QED
  BY <1>1 DEF IsCall, Requests, Setup, Configuration, HubStart

(* What becomes of the stack.                                              *)
Becomes(c) ==
  /\ stack' # <<>> /\ Top' = c /\ Len(stack') = Len(stack)
  /\ \A i \in 1..Len(stack) : stack'[i].dev = stack[i].dev
  /\ \A i \in 1..Len(stack) : i # Len(stack) => stack'[i] = stack[i]

LEMMA Became ==
  ASSUME Calls, stack # <<>>, NEW c, IsCall(c), c.dev = Top.dev, c.stage # "child", Become(c)
  PROVE  Calls' /\ Becomes(c)
<1>1. stack \in Seq(CallSet) /\ Len(stack) \in Nat /\ Len(stack) \in 1..Len(stack)
  BY TopOfStack DEF Calls
<1>2. stack' = [stack EXCEPT ![Len(stack)] = c] /\ c \in CallSet
  BY DEF Become, IsCall
<1>3. stack' \in Seq(CallSet) /\ Len(stack') = Len(stack) /\ stack' # <<>>
  BY <1>1, <1>2
<1>4. stack'[Len(stack)] = c /\ \A i \in 1..Len(stack) : i # Len(stack) => stack'[i] = stack[i]
  BY <1>1, <1>2
<1>5. \A i \in 1..Len(stack) : stack'[i].dev = stack[i].dev
  BY <1>4 DEF Top
<1>6. Becomes(c)
  BY <1>3, <1>4, <1>5 DEF Becomes, Top
<1>7. ASSUME NEW i \in 1..Len(stack)
      PROVE  /\ IsCall(stack'[i])
             /\ i < Len(stack) <=> stack'[i].stage = "child"
             /\ IF i = 1 THEN stack'[i].dev = Root
                ELSE /\ stack'[i].dev \in Devices
                     /\ Parent[stack'[i].dev] = stack'[i - 1].dev
                     /\ PortOf[stack'[i].dev] = stack'[i - 1].port
  <2>1. IF i = 1 THEN stack[i].dev = Root
        ELSE /\ stack[i].dev \in Devices
             /\ Parent[stack[i].dev] = stack[i - 1].dev
             /\ PortOf[stack[i].dev] = stack[i - 1].port
    BY DEF Calls
  <2>2. i # 1 => stack'[i - 1] = stack[i - 1]
    <3>. SUFFICES ASSUME i # 1 PROVE stack'[i - 1] = stack[i - 1]
      OBVIOUS
    <3>1. i - 1 \in 1..Len(stack) /\ i - 1 # Len(stack)
      BY <1>1
    <3>. QED
      BY <3>1, <1>4
  <2>3. CASE i = Len(stack)
    BY <1>1, <1>4, <1>5, <2>1, <2>2, <2>3
  <2>4. CASE i # Len(stack)
    BY <1>1, <1>4, <2>1, <2>2, <2>4 DEF Calls
  <2>. QED
    BY <2>3, <2>4
<1>8. \A i, j \in 1..Len(stack) : stack'[i].dev = stack'[j].dev => i = j
  BY <1>5 DEF Calls
<1>. QED
  BY <1>3, <1>6, <1>7, <1>8 DEF Calls

Pushes(d) ==
  /\ stack' # <<>> /\ Top' = Call(d, "desc8") /\ Len(stack') = Len(stack) + 1
  /\ \A i \in 1..Len(stack) : stack'[i].dev = stack[i].dev /\ stack'[i].port = stack[i].port
  /\ \A i \in 1..Len(stack) : stack'[i].stage = "child"
  /\ \A i \in 1..Len(stack) : i # Len(stack) => stack'[i] = stack[i]
  /\ \A i \in 1..Len(stack) : stack[i].dev # d

LEMMA Pushed ==
  ASSUME Calls, stack # <<>>, NEW d \in Devices, Parent[d] = Top.dev, PortOf[d] = Top.port, Push(d)
  PROVE  Calls' /\ Pushes(d)
<1>1. stack \in Seq(CallSet) /\ Len(stack) \in Nat /\ Len(stack) \in 1..Len(stack)
  BY TopOfStack DEF Calls
<1>2. PICK c : c = [Top EXCEPT !.stage = "child"]
  OBVIOUS
<1>3. c \in CallSet /\ c.dev = Top.dev /\ c.port = Top.port /\ c.stage = "child" /\ IsCall(c)
  <2>1. Top \in CallSet
    BY TopOfStack DEF IsCall
  <2>. QED
    BY <1>2, <2>1 DEF IsCall, CallSet, Stages
<1>4. PICK e : e = Call(d, "desc8")
  OBVIOUS
<1>5. e \in CallSet /\ e.dev = d /\ e.stage = "desc8" /\ d # Root /\ IsCall(e)
  BY <1>4, DeviceAssumption DEF Call, CallSet, Stages, Requests, Setup, IsCall
<1>6. stack' = Append([stack EXCEPT ![Len(stack)] = c], e)
  BY <1>1, <1>2, <1>4 DEF Push, Top
<1>7. /\ stack' \in Seq(CallSet) /\ Len(stack') = Len(stack) + 1 /\ stack' # <<>>
      /\ stack'[Len(stack) + 1] = e /\ stack'[Len(stack)] = c
      /\ \A i \in 1..Len(stack) : i # Len(stack) => stack'[i] = stack[i]
  BY <1>1, <1>3, <1>5, <1>6
<1>8. \A i \in 1..Len(stack) : stack'[i].dev = stack[i].dev /\ stack'[i].port = stack[i].port
  BY <1>3, <1>7 DEF Top
<1>9. \A i \in 1..Len(stack) : stack'[i].stage = "child" /\ IsCall(stack'[i])
  BY <1>1, <1>3, <1>7 DEF Calls
<1>10. ASSUME NEW i \in 1..Len(stack), stack[i].dev = d PROVE FALSE
  <2>1. i # 1 /\ Parent[stack[i].dev] = stack[i - 1].dev
    BY <1>5, <1>10 DEF Calls
  <2>2. i - 1 \in 1..Len(stack) /\ i - 1 # Len(stack)
    BY <1>1, <2>1
  <2>3. stack[i - 1].dev = stack[Len(stack)].dev
    BY <1>10, <2>1 DEF Top
  <2>. QED
    BY <1>1, <2>2, <2>3 DEF Calls
<1>11. Pushes(d)
  BY <1>4, <1>7, <1>8, <1>9, <1>10 DEF Pushes, Top
<1>12. ASSUME NEW i \in 1..(Len(stack) + 1)
       PROVE  /\ IsCall(stack'[i])
              /\ i < Len(stack) + 1 <=> stack'[i].stage = "child"
              /\ IF i = 1 THEN stack'[i].dev = Root
                 ELSE /\ stack'[i].dev \in Devices
                      /\ Parent[stack'[i].dev] = stack'[i - 1].dev
                      /\ PortOf[stack'[i].dev] = stack'[i - 1].port
  <2>1. CASE i = Len(stack) + 1
    BY <1>1, <1>3, <1>5, <1>7, <2>1
  <2>2. CASE i # Len(stack) + 1
    <3>1. i \in 1..Len(stack) /\ (i # 1 => i - 1 \in 1..Len(stack))
      BY <1>1, <2>2
    <3>2. IF i = 1 THEN stack[i].dev = Root
          ELSE /\ stack[i].dev \in Devices
               /\ Parent[stack[i].dev] = stack[i - 1].dev
               /\ PortOf[stack[i].dev] = stack[i - 1].port
      BY <3>1 DEF Calls
    <3>. QED
      BY <1>1, <1>8, <1>9, <3>1, <3>2
  <2>. QED
    BY <2>1, <2>2
<1>13. ASSUME NEW i \in 1..(Len(stack) + 1), NEW j \in 1..(Len(stack) + 1),
              stack'[i].dev = stack'[j].dev
       PROVE  i = j
  <2>1. ASSUME NEW k \in 1..(Len(stack) + 1), k # Len(stack) + 1
        PROVE  k \in 1..Len(stack) /\ stack'[k].dev = stack[k].dev /\ stack'[k].dev # d
    BY <1>1, <1>8, <1>10, <2>1
  <2>2. stack'[Len(stack) + 1].dev = d
    BY <1>5, <1>7
  <2>3. CASE i # Len(stack) + 1 /\ j # Len(stack) + 1
    BY <2>1, <2>3, <1>13 DEF Calls
  <2>. QED
    BY <2>1, <2>2, <2>3, <1>13
<1>. QED
  BY <1>7, <1>11, <1>12, <1>13 DEF Calls

(* The call of usb_device_create returns, and its caller goes on as c.     *)
Pops(c) ==
  /\ stack' # <<>> /\ Top' = c /\ Len(stack') = Len(stack) - 1
  /\ \A i \in 1..Len(stack) : i < Len(stack) - 1 => stack'[i] = stack[i]
  /\ \A i \in 1..Len(stack) : i < Len(stack) => stack'[i].dev = stack[i].dev

LEMMA Popped ==
  ASSUME Calls, stack # <<>>, Len(stack) # 1, NEW c, IsCall(c), c.dev = stack[Len(stack) - 1].dev,
         c.stage # "child", stack' = Append(SubSeq(stack, 1, Len(stack) - 2), c)
  PROVE  Calls' /\ Pops(c)
<1>1. stack \in Seq(CallSet) /\ Len(stack) \in Nat /\ Len(stack) > 1
  <2>1. stack \in Seq(CallSet)
    BY DEF Calls
  <2>2. Len(stack) \in Nat /\ Len(stack) > 1
    <3>1. PICK n \in Nat : n = Len(stack)
      BY <2>1
    <3>2. n \in 1..n /\ n # 1
      BY <3>1, TopOfStack
    <3>3. n > 1
      BY <3>2
    <3>. QED
      BY <3>1, <3>3
  <2>. QED
    BY <2>1, <2>2
<1>2. PICK m \in Nat : m = Len(stack) - 1
  <2>1. Len(stack) - 1 \in Nat
    BY <1>1
  <2>. QED
    BY <2>1
<1>3. m \in 1..Len(stack) /\ m - 1 \in 0..Len(stack) /\ Len(stack) - 2 = m - 1 /\ m > 0
  BY <1>1, <1>2
<1>4. PICK r : r = SubSeq(stack, 1, m - 1)
  OBVIOUS
<1>5. /\ r \in Seq(CallSet) /\ Len(r) = m - 1
      /\ \A i \in 1..(m - 1) : r[i] = stack[i]
  <2>1. r = [i \in 1..(m - 1) |-> stack[i]]
    BY <1>1, <1>3, <1>4
  <2>2. \A i \in 1..(m - 1) : stack[i] \in CallSet
    BY <1>1, <1>3
  <2>. QED
    BY <1>3, <2>1, <2>2
<1>6. c \in CallSet
  BY DEF IsCall
<1>7. stack' = Append(r, c)
  BY <1>3, <1>4
<1>8. /\ stack' \in Seq(CallSet) /\ Len(stack') = m /\ stack'[m] = c /\ stack' # <<>>
      /\ \A i \in 1..m : i # m => stack'[i] = stack[i]
  <2>1. (m - 1) + 1 = m /\ \A i \in 1..m : i # m => i \in 1..(m - 1)
    BY <1>3
  <2>2. stack' \in Seq(CallSet) /\ Len(stack') = Len(r) + 1 /\ stack' # <<>>
    BY <1>5, <1>6, <1>7
  <2>3. stack'[Len(r) + 1] = c /\ \A i \in 1..Len(r) : stack'[i] = r[i]
    BY <1>5, <1>6, <1>7
  <2>. QED
    BY <2>1, <2>2, <2>3, <1>5
<1>9. \A i \in 1..m : stack'[i].dev = stack[i].dev /\ i \in 1..Len(stack) /\ i < Len(stack)
  BY <1>1, <1>2, <1>8
<1>10. Pops(c)
  <2>1. \A i \in 1..Len(stack) : i < Len(stack) - 1 => stack'[i] = stack[i]
    BY <1>1, <1>2, <1>8
  <2>2. \A i \in 1..Len(stack) : i < Len(stack) => stack'[i].dev = stack[i].dev
    <3>1. \A i \in 1..Len(stack) : i < Len(stack) => i \in 1..m
      BY <1>1, <1>2
    <3>. QED
      BY <3>1, <1>9
  <2>. QED
    BY <1>2, <1>8, <2>1, <2>2 DEF Pops, Top
<1>11. ASSUME NEW i \in 1..m
       PROVE  /\ IsCall(stack'[i])
              /\ i < m <=> stack'[i].stage = "child"
              /\ IF i = 1 THEN stack'[i].dev = Root
                 ELSE /\ stack'[i].dev \in Devices
                      /\ Parent[stack'[i].dev] = stack'[i - 1].dev
                      /\ PortOf[stack'[i].dev] = stack'[i - 1].port
  <2>1. /\ IsCall(stack[i]) /\ (i < Len(stack) <=> stack[i].stage = "child")
        /\ IF i = 1 THEN stack[i].dev = Root
           ELSE /\ stack[i].dev \in Devices
                /\ Parent[stack[i].dev] = stack[i - 1].dev
                /\ PortOf[stack[i].dev] = stack[i - 1].port
    BY <1>9 DEF Calls
  <2>2. i # 1 => stack'[i - 1] = stack[i - 1]
    <3>. SUFFICES ASSUME i # 1 PROVE stack'[i - 1] = stack[i - 1]
      OBVIOUS
    <3>1. i - 1 \in 1..m /\ i - 1 # m
      BY <1>3
    <3>. QED
      BY <3>1, <1>8
  <2>3. CASE i = m
    BY <1>8, <1>9, <2>1, <2>2, <2>3
  <2>4. CASE i # m
    BY <1>8, <1>9, <2>1, <2>2, <2>4
  <2>. QED
    BY <2>3, <2>4
<1>12. \A i, j \in 1..m : stack'[i].dev = stack'[j].dev => i = j
  BY <1>9 DEF Calls
<1>. QED
  BY <1>8, <1>10, <1>11, <1>12 DEF Calls

(* The loops over the ports go on with a call.                             *)
LEMMA NextPortCall ==
  ASSUME NEW c, IsCall(c), c.stage \in {"reset", "status", "child", "port"}
  PROVE  /\ IsCall(NextPort(c)) /\ NextPort(c).dev = c.dev
         /\ NextPort(c).stage \in {"reset", "port", "created"}
         /\ NextPort(c).stage # "created" => NextPort(c).port = c.port + 1
<1>. USE DeviceAssumption DEF IsCall, CallSet, Stages, Requests, Setup, Configuration, HubStart
<1>1. CASE c.dev # Root /\ c.port < HubPorts
  <2>1. NextPort(c) = [c EXCEPT !.port = @ + 1, !.stage = "reset", !.attempt = 0]
    BY <1>1 DEF NextPort
  <2>2. c.port + 1 \in 1..HubPorts /\ 0 \in 0..(PortTries - 1)
    BY <1>1
  <2>. QED
    BY <1>1, <2>1, <2>2
<1>2. CASE c.dev = Root /\ c.port < 2
  <2>1. NextPort(c) = [c EXCEPT !.port = @ + 1, !.stage = "port"]
    BY <1>2 DEF NextPort
  <2>2. c.port + 1 \in 1..2
    BY <1>2
  <2>. QED
    BY <1>2, <2>1, <2>2
<1>3. CASE ~(c.dev # Root /\ c.port < HubPorts) /\ ~(c.dev = Root /\ c.port < 2)
  <2>1. NextPort(c) = [c EXCEPT !.stage = "created"]
    BY <1>3 DEF NextPort
  <2>. QED
    BY <2>1
<1>. QED
  BY <1>1, <1>2, <1>3

LEMMA RetryCall ==
  ASSUME NEW c, IsCall(c), c.stage = "child"
  PROVE  /\ IsCall(Retry(c)) /\ Retry(c).dev = c.dev
         /\ Retry(c).stage \in {"reset", "port", "created"}
         /\ Retry(c).stage # "created" => Retry(c).port \in {c.port, c.port + 1}
<1>1. CASE c.dev # Root /\ c.attempt + 1 < PortTries
  <2>1. Retry(c) = [c EXCEPT !.stage = "reset", !.attempt = @ + 1]
    BY <1>1 DEF Retry
  <2>2. c.attempt + 1 \in 0..(PortTries - 1)
    BY <1>1, DeviceAssumption DEF IsCall, CallSet
  <2>. QED
    BY <1>1, <2>1, <2>2 DEF IsCall, CallSet, Stages, Requests
<1>2. CASE ~(c.dev # Root /\ c.attempt + 1 < PortTries)
  BY <1>2, NextPortCall DEF Retry
<1>. QED
  BY <1>1, <1>2

-----------------------------------------------------------------------------
(* The call c is past its port p.                                          *)
Past(c, p) ==
  \/ c.stage = "created"
  \/ c.stage \in {"reset", "status", "child", "port"} /\ p < c.port

(* A device is created once, when the call for its hub is at its port.     *)
Children ==
  /\ created \subseteq Devices
  /\ \A i \in 1..Len(stack) : stack[i].dev \notin created
  /\ \A d \in created :
       \/ Parent[d] \in created
       \/ Parent[d] = Root /\ stack = <<>>
       \/ \E i \in 1..Len(stack) : stack[i].dev = Parent[d] /\ Past(stack[i], PortOf[d])

LEMMA Unplaced ==
  ASSUME Calls, Children, stack # <<>>, Top.stage \in {"reset", "status", "port"},
         NEW d \in At(Top.dev, Top.port)
  PROVE  /\ d \in Devices /\ Parent[d] = Top.dev /\ PortOf[d] = Top.port
         /\ d \notin created /\ \A i \in 1..Len(stack) : stack[i].dev # d
<1>1. d \in Devices /\ Parent[d] = Top.dev /\ PortOf[d] = Top.port /\ d # Root
  BY DeviceAssumption DEF At
<1>2. Len(stack) \in 1..Len(stack) /\ Top = stack[Len(stack)] /\ IsCall(Top)
  BY TopOfStack
<1>3. ASSUME d \in created PROVE FALSE
  <2>1. Top.dev \notin created
    BY <1>2 DEF Children
  <2>2. PICK i \in 1..Len(stack) : stack[i].dev = Parent[d] /\ Past(stack[i], PortOf[d])
    BY <1>1, <1>3, <2>1 DEF Children
  <2>3. i = Len(stack)
    BY <1>1, <1>2, <2>2 DEF Calls
  <2>4. Top.port \in Nat
    BY <1>2, DeviceAssumption DEF IsCall, CallSet
  <2>. QED
    BY <1>1, <1>2, <2>2, <2>3, <2>4 DEF Past
<1>4. ASSUME NEW i \in 1..Len(stack), stack[i].dev = d PROVE FALSE
  <2>1. i # 1 /\ Parent[stack[i].dev] = stack[i - 1].dev
    BY <1>1, <1>4 DEF Calls
  <2>2. i - 1 \in 1..Len(stack) /\ i - 1 # Len(stack)
    BY <1>2, <2>1
  <2>3. stack[i - 1].dev = stack[Len(stack)].dev
    BY <1>1, <1>2, <1>4, <2>1
  <2>. QED
    BY <1>2, <2>2, <2>3 DEF Calls
<1>. QED
  BY <1>1, <1>3, <1>4

LEMMA ChildrenBecame ==
  ASSUME Calls, Children, stack # <<>>, NEW c, Becomes(c), created' = created,
         \A p \in Nat : Past(Top, p) => Past(c, p)
  PROVE  Children'
<1>1. /\ Len(stack) \in 1..Len(stack) /\ Len(stack') = Len(stack) /\ stack'[Len(stack)] = c
      /\ Top = stack[Len(stack)] /\ stack' # <<>>
  BY TopOfStack DEF Becomes, Top
<1>2. \A i \in 1..Len(stack) : stack'[i].dev = stack[i].dev
  BY DEF Becomes
<1>3. \A i \in 1..Len(stack), p \in Nat : Past(stack[i], p) => Past(stack'[i], p)
  BY <1>1 DEF Becomes
<1>4. created' \subseteq Devices /\ \A i \in 1..Len(stack') : stack'[i].dev \notin created'
  BY <1>1, <1>2 DEF Children
<1>5. ASSUME NEW d \in created', Parent[d] \notin created'
      PROVE  \E i \in 1..Len(stack') : stack'[i].dev = Parent[d] /\ Past(stack'[i], PortOf[d])
  <2>1. PICK i \in 1..Len(stack) : stack[i].dev = Parent[d] /\ Past(stack[i], PortOf[d])
    BY <1>5 DEF Children
  <2>2. PortOf[d] \in Nat
    BY <1>5, DeviceAssumption DEF Children
  <2>. QED
    BY <1>1, <1>2, <1>3, <2>1, <2>2
<1>. QED
  BY <1>4, <1>5 DEF Children

LEMMA ChildrenPushed ==
  ASSUME Calls, Children, stack # <<>>, NEW d, Pushes(d), created' = created,
         d \notin created, Top.stage \in {"status", "port"}
  PROVE  Children'
<1>1. Len(stack) \in Nat /\ Len(stack) \in 1..Len(stack) /\ Top = stack[Len(stack)]
  BY TopOfStack
<1>2. /\ Len(stack') = Len(stack) + 1 /\ stack' # <<>> /\ stack'[Len(stack) + 1].dev = d
      /\ \A i \in 1..Len(stack) : stack'[i].dev = stack[i].dev /\ stack'[i].port = stack[i].port
  BY DEF Pushes, Top, Call
<1>3. ASSUME NEW i \in 1..Len(stack), NEW p \in Nat, Past(stack[i], p) PROVE Past(stack'[i], p)
  <2>1. CASE i = Len(stack)
    BY <1>1, <1>2, <1>3, <2>1 DEF Past, Pushes
  <2>2. CASE i # Len(stack)
    BY <1>3, <2>2 DEF Pushes
  <2>. QED
    BY <2>1, <2>2
<1>4. ASSUME NEW i \in 1..Len(stack') PROVE stack'[i].dev \notin created'
  <2>1. i = Len(stack) + 1 \/ i \in 1..Len(stack)
    BY <1>1, <1>2
  <2>. QED
    BY <1>2, <2>1 DEF Children
<1>5. ASSUME NEW e \in created', Parent[e] \notin created'
      PROVE  \E i \in 1..Len(stack') : stack'[i].dev = Parent[e] /\ Past(stack'[i], PortOf[e])
  <2>1. PICK i \in 1..Len(stack) : stack[i].dev = Parent[e] /\ Past(stack[i], PortOf[e])
    BY <1>5 DEF Children
  <2>2. i \in 1..Len(stack') /\ PortOf[e] \in Nat
    BY <1>1, <1>2, DeviceAssumption DEF Children
  <2>. QED
    BY <1>2, <1>3, <2>1, <2>2
<1>. QED
  BY <1>4, <1>5 DEF Children

LEMMA ChildrenPopped ==
  ASSUME Calls, Children, stack # <<>>, Len(stack) # 1, NEW c, Pops(c),
         \A p \in Nat : Past(stack[Len(stack) - 1], p) => Past(c, p),
         \/ Top.stage = "failed" /\ created' = created
         \/ created' = created \cup {Top.dev} /\ Past(c, PortOf[Top.dev])
  PROVE  Children'
<1>1. /\ Len(stack) \in Nat /\ Len(stack) \in 1..Len(stack) /\ Top = stack[Len(stack)]
      /\ Top.dev \in Devices
  BY TopOfStack
<1>2. PICK m \in Nat : m = Len(stack) - 1
  <2>1. Len(stack) - 1 \in Nat
    BY <1>1
  <2>. QED
    BY <2>1
<1>3. m \in 1..Len(stack) /\ m < Len(stack) /\ \A i \in 1..Len(stack) : i < Len(stack) <=> i \in 1..m
  BY <1>1, <1>2
<1>4. /\ Len(stack') = m /\ stack' # <<>> /\ stack'[m] = c
      /\ \A i \in 1..m : stack'[i].dev = stack[i].dev
  BY <1>2, <1>3 DEF Pops, Top
<1>5. ASSUME NEW i \in 1..m, NEW p \in Nat, Past(stack[i], p) PROVE Past(stack'[i], p)
  <2>1. CASE i = m
    BY <1>2, <1>4, <1>5, <2>1
  <2>2. CASE i # m
    <3>1. i \in 1..Len(stack) /\ i < Len(stack) - 1
      BY <1>2, <1>3, <2>2
    <3>. QED
      BY <1>5, <3>1 DEF Pops
  <2>. QED
    BY <2>1, <2>2
<1>6. \A i \in 1..m : i \in 1..Len(stack) /\ i # Len(stack) /\ stack[i].dev # Top.dev
  BY <1>1, <1>3 DEF Calls
<1>7. created' \subseteq Devices /\ \A i \in 1..Len(stack') : stack'[i].dev \notin created'
  BY <1>1, <1>4, <1>6 DEF Children
<1>8. ASSUME NEW d \in created', Parent[d] \notin created'
      PROVE  \E i \in 1..Len(stack') : stack'[i].dev = Parent[d] /\ Past(stack'[i], PortOf[d])
  <2>1. CASE d \in created
    <3>1. PICK i \in 1..Len(stack) : stack[i].dev = Parent[d] /\ Past(stack[i], PortOf[d])
      BY <1>8, <2>1 DEF Children
    <3>2. i # Len(stack)
      BY <1>1, <1>8, <3>1 DEF Past
    <3>3. i \in 1..m /\ PortOf[d] \in Nat
      BY <1>1, <1>2, <2>1, <3>2, DeviceAssumption DEF Children
    <3>. QED
      BY <1>4, <1>5, <3>1, <3>3
  <2>2. CASE d \notin created
    <3>1. d = Top.dev /\ Past(c, PortOf[d])
      BY <1>8, <2>2
    <3>2. Parent[Top.dev] = stack[m].dev
      BY <1>1, <1>2 DEF Calls
    <3>. QED
      BY <1>3, <1>4, <3>1, <3>2
  <2>. QED
    BY <2>1, <2>2
<1>. QED
  BY <1>7, <1>8 DEF Children

LEMMA ChildrenDone ==
  ASSUME Calls, Children, Len(stack) = 1, stack' = <<>>, created' = created
  PROVE  Children'
<1>1. \A i \in 1..Len(stack) : stack[i].dev = Root
  BY DEF Calls
<1>2. Len(stack') = 0
  OBVIOUS
<1>. QED
  BY <1>1, <1>2 DEF Children

-----------------------------------------------------------------------------
(* The addresses that the driver has given out.                            *)
Addressing ==
  /\ AddressPool \subseteq 1..MaxDevices
  /\ Address \in [Devices -> 0..MaxDevices]
  /\ \A d \in Devices : Address[d] # 0 =>
       /\ Address[d] \in AddressPool
       /\ d \in created \/ \E i \in 1..Len(stack) : stack[i].dev = d
       /\ \A e \in Devices : Address[e] = Address[d] => e = d
  /\ \A d \in created : Address[d] # 0
  /\ \A i \in 2..Len(stack) :
       /\ stack[i].stage \in Early => Address[stack[i].dev] = 0
       /\ stack[i].stage \notin Early \cup {"failed"} => Address[stack[i].dev] # 0

LEMMA NewAddressFree ==
  ASSUME FreeAddresses # {}
  PROVE  NewAddress \in FreeAddresses /\ NewAddress \in 1..MaxDevices /\ NewAddress \notin AddressPool
<1>. DEFINE less == {ss \in Nat \X Nat : ss[1] < ss[2]}
<1>1. FreeAddresses \subseteq Nat /\ FreeAddresses \subseteq 1..MaxDevices
      /\ FreeAddresses \cap AddressPool = {}
  BY DEF FreeAddresses
<1>2. \E a \in FreeAddresses : \A b \in FreeAddresses : <<b, a>> \notin less
  BY <1>1, NatLessThanWellFounded, WFMin, Zenon DEF OpToRel
<1>3. \A a, b \in Nat : b < a => <<b, a>> \in less
  OBVIOUS
<1>. HIDE DEF less
<1>4. \E a \in FreeAddresses : \A b \in FreeAddresses : a <= b
  <2>1. PICK a \in FreeAddresses : \A b \in FreeAddresses : <<b, a>> \notin less
    BY <1>2
  <2>2. \A b \in FreeAddresses : ~(b < a)
    BY <1>1, <1>3, <2>1
  <2>. QED
    BY <1>1, <2>2
<1>5. NewAddress \in FreeAddresses
  BY <1>4 DEF NewAddress
<1>. QED
  BY <1>1, <1>5

LEMMA AddressingBecame ==
  ASSUME Calls, Addressing, stack # <<>>, NEW c, Becomes(c),
         UNCHANGED <<Address, AddressPool, created>>,
         c.stage \in Early => Top.stage \in Early,
         c.stage \notin Early \cup {"failed"} => Top.stage \notin Early \cup {"failed"}
  PROVE  Addressing'
<1>1. /\ Len(stack) \in 1..Len(stack) /\ Len(stack') = Len(stack) /\ stack'[Len(stack)] = c
      /\ Top = stack[Len(stack)] /\ \A i \in 1..Len(stack) : stack'[i].dev = stack[i].dev
  BY TopOfStack DEF Becomes, Top
<1>2. ASSUME NEW i \in 2..Len(stack)
      PROVE  /\ stack'[i].stage \in Early => Address[stack'[i].dev] = 0
             /\ stack'[i].stage \notin Early \cup {"failed"} => Address[stack'[i].dev] # 0
  <2>1. i \in 1..Len(stack)
    BY <1>2
  <2>2. CASE i = Len(stack)
    BY <1>1, <2>1, <2>2, <1>2 DEF Addressing
  <2>3. CASE i # Len(stack)
    BY <2>1, <2>3, <1>2 DEF Addressing, Becomes
  <2>. QED
    BY <2>2, <2>3
<1>3. \A d \in Devices : Address[d] # 0 =>
        d \in created \/ \E i \in 1..Len(stack') : stack'[i].dev = d
  BY <1>1 DEF Addressing
<1>. QED
  BY <1>1, <1>2, <1>3 DEF Addressing

(* The new address of the device that is being created.                    *)
LEMMA AddressingSet ==
  ASSUME Calls, Children, Addressing, stack # <<>>, NEW c, Becomes(c), created' = created,
         Top.stage = "address", c.stage \notin Early, FreeAddresses # {},
         AddressPool' = AddressPool \cup {NewAddress},
         Address' = [Address EXCEPT ![Top.dev] = NewAddress]
  PROVE  Addressing'
<1>1. /\ Len(stack) \in Nat /\ Len(stack) \in 1..Len(stack) /\ Len(stack') = Len(stack)
      /\ stack'[Len(stack)] = c /\ Top = stack[Len(stack)]
      /\ \A i \in 1..Len(stack) : stack'[i].dev = stack[i].dev
  BY TopOfStack DEF Becomes, Top
<1>2. PICK t \in Devices : t = Top.dev
  BY StageOfTop DEF Requests, Setup
<1>3. PICK a \in 1..MaxDevices : a = NewAddress /\ a \notin AddressPool
  BY NewAddressFree
<1>4. /\ Address' \in [Devices -> 0..MaxDevices] /\ AddressPool' \subseteq 1..MaxDevices
      /\ Address'[t] = a /\ a # 0 /\ a \in AddressPool' /\ AddressPool \subseteq AddressPool'
      /\ \A d \in Devices : d # t => Address'[d] = Address[d]
  BY <1>2, <1>3 DEF Addressing
<1>5. ASSUME NEW d \in Devices, Address'[d] # 0
      PROVE  /\ Address'[d] \in AddressPool'
             /\ d \in created' \/ \E i \in 1..Len(stack') : stack'[i].dev = d
             /\ \A e \in Devices : Address'[e] = Address'[d] => e = d
  <2>1. CASE d = t
    <3>1. \A e \in Devices : Address'[e] = a => e = t
      BY <1>3, <1>4 DEF Addressing
    <3>2. stack'[Len(stack)].dev = t
      BY <1>1, <1>2
    <3>. QED
      BY <1>1, <1>4, <2>1, <3>1, <3>2
  <2>2. CASE d # t
    <3>1. /\ Address[d] \in AddressPool
          /\ d \in created \/ \E i \in 1..Len(stack) : stack[i].dev = d
          /\ \A e \in Devices : Address[e] = Address[d] => e = d
      BY <1>4, <1>5, <2>2 DEF Addressing
    <3>2. Address'[t] # Address'[d]
      BY <1>3, <1>4, <2>2, <3>1
    <3>. QED
      BY <1>1, <1>4, <2>2, <3>1, <3>2
  <2>. QED
    BY <2>1, <2>2
<1>6. \A d \in created' : Address'[d] # 0
  BY <1>4 DEF Addressing, Children
<1>7. ASSUME NEW i \in 2..Len(stack')
      PROVE  /\ stack'[i].stage \in Early => Address'[stack'[i].dev] = 0
             /\ stack'[i].stage \notin Early \cup {"failed"} => Address'[stack'[i].dev] # 0
  <2>1. i \in 1..Len(stack) /\ i \in 2..Len(stack) /\ i # 1
    BY <1>1, <1>7
  <2>2. CASE i = Len(stack)
    BY <1>1, <1>2, <1>4, <2>1, <2>2
  <2>3. CASE i # Len(stack)
    <3>1. stack'[i] = stack[i] /\ stack[i].dev \in Devices /\ stack[i].dev # t
      BY <1>1, <1>2, <2>1, <2>3 DEF Becomes, Calls
    <3>. QED
      BY <1>4, <2>1, <3>1 DEF Addressing
  <2>. QED
    BY <2>2, <2>3
<1>. QED
  BY <1>4, <1>5, <1>6, <1>7 DEF Addressing

LEMMA AddressingPushed ==
  ASSUME Calls, Addressing, stack # <<>>, NEW d \in Devices, Pushes(d), d \notin created,
         Top.stage \in {"status", "port"}, UNCHANGED <<Address, AddressPool, created>>
  PROVE  Addressing'
<1>1. Len(stack) \in Nat /\ Len(stack) \in 1..Len(stack) /\ Top = stack[Len(stack)]
  BY TopOfStack
<1>2. /\ Len(stack') = Len(stack) + 1 /\ stack'[Len(stack) + 1].dev = d
      /\ stack'[Len(stack) + 1].stage = "desc8"
      /\ \A i \in 1..Len(stack) :
           stack'[i].dev = stack[i].dev /\ stack'[i].stage = "child" /\ stack[i].dev # d
      /\ \A i \in 1..Len(stack) : i # Len(stack) => stack'[i] = stack[i]
  BY DEF Pushes, Top, Call
<1>3. Address[d] = 0
  BY <1>2 DEF Addressing
<1>4. ASSUME NEW i \in 2..Len(stack')
      PROVE  /\ stack'[i].stage \in Early => Address[stack'[i].dev] = 0
             /\ stack'[i].stage \notin Early \cup {"failed"} => Address[stack'[i].dev] # 0
  <2>1. CASE i = Len(stack) + 1
    BY <1>2, <1>3, <2>1 DEF Early
  <2>2. CASE i # Len(stack) + 1
    <3>1. i \in 1..Len(stack) /\ i \in 2..Len(stack)
      BY <1>1, <1>2, <1>4, <2>2
    <3>2. CASE i = Len(stack)
      <4>1. Address[stack[i].dev] # 0
        BY <1>1, <3>1, <3>2 DEF Addressing, Early
      <4>. QED
        BY <1>2, <3>1, <4>1 DEF Early
    <3>3. CASE i # Len(stack)
      BY <1>2, <3>1, <3>3 DEF Addressing
    <3>. QED
      BY <3>2, <3>3
  <2>. QED
    BY <2>1, <2>2
<1>5. ASSUME NEW e \in Devices, Address[e] # 0
      PROVE  e \in created \/ \E i \in 1..Len(stack') : stack'[i].dev = e
  <2>1. \A i \in 1..Len(stack) : i \in 1..Len(stack')
    BY <1>1, <1>2
  <2>. QED
    BY <1>2, <1>5, <2>1 DEF Addressing
<1>. QED
  BY <1>4, <1>5 DEF Addressing

LEMMA AddressingPopped ==
  ASSUME Calls, Children, Addressing, stack # <<>>, Len(stack) # 1, NEW c, Pops(c),
         c.stage \notin Early \cup {"failed"}, AddressPool' = AddressPool,
         \/ Address' = [Address EXCEPT ![Top.dev] = 0] /\ created' = created
         \/ /\ Top.stage = "created" /\ Address' = Address
            /\ created' = created \cup {Top.dev}
  PROVE  Addressing'
<1>1. /\ Len(stack) \in Nat /\ Len(stack) \in 1..Len(stack) /\ Top = stack[Len(stack)]
      /\ Top.dev \in Devices
  BY TopOfStack
<1>2. PICK m \in Nat : m = Len(stack) - 1
  <2>1. Len(stack) - 1 \in Nat
    BY <1>1
  <2>. QED
    BY <2>1
<1>3. m \in 1..Len(stack) /\ m < Len(stack) /\ \A i \in 1..Len(stack) : i < Len(stack) <=> i \in 1..m
  BY <1>1, <1>2
<1>4. /\ Len(stack') = m /\ stack'[m] = c /\ \A i \in 1..m : stack'[i].dev = stack[i].dev
      /\ \A i \in 1..m : i # m => stack'[i] = stack[i]
  <2>1. Len(stack') = m /\ stack'[m] = c /\ \A i \in 1..m : stack'[i].dev = stack[i].dev
    BY <1>2, <1>3 DEF Pops, Top
  <2>2. \A i \in 1..m : i # m => i \in 1..Len(stack) /\ i < Len(stack) - 1
    BY <1>1, <1>2
  <2>. QED
    BY <2>1, <2>2 DEF Pops
<1>5. \A i \in 1..m : i \in 1..Len(stack) /\ stack[i].dev # Top.dev
  BY <1>1, <1>3 DEF Calls
<1>6. /\ Address' \in [Devices -> 0..MaxDevices] /\ AddressPool' \subseteq 1..MaxDevices
      /\ \A d \in Devices : Address'[d] \in {0, Address[d]}
      /\ \A d \in Devices : d # Top.dev => Address'[d] = Address[d]
  <2>1. Address \in [Devices -> 0..MaxDevices] /\ AddressPool' \subseteq 1..MaxDevices
        /\ 0 \in 0..MaxDevices
    BY DeviceAssumption DEF Addressing
  <2>2. CASE Address' = [Address EXCEPT ![Top.dev] = 0]
    BY <1>1, <2>1, <2>2
  <2>3. CASE Address' = Address
    BY <2>1, <2>3
  <2>. QED
    BY <2>2, <2>3
<1>7. ASSUME NEW d \in Devices, Address'[d] # 0
      PROVE  /\ Address'[d] \in AddressPool'
             /\ d \in created' \/ \E i \in 1..Len(stack') : stack'[i].dev = d
             /\ \A e \in Devices : Address'[e] = Address'[d] => e = d
  <2>1. Address'[d] = Address[d] /\ Address[d] # 0
    BY <1>6, <1>7
  <2>2. Address[d] \in AddressPool /\ \A e \in Devices : Address'[e] = Address'[d] => e = d
    BY <1>6, <2>1 DEF Addressing
  <2>3. CASE d = Top.dev
    BY <1>1, <1>7, <2>1, <2>2, <2>3 DEF Addressing
  <2>4. CASE d # Top.dev
    <3>1. CASE d \in created
      BY <2>1, <2>2, <3>1
    <3>2. CASE d \notin created
      <4>1. PICK i \in 1..Len(stack) : stack[i].dev = d
        BY <2>1, <3>2 DEF Addressing
      <4>2. i \in 1..m
        BY <1>1, <1>2, <2>4, <4>1
      <4>. QED
        BY <1>4, <2>1, <2>2, <4>1, <4>2
    <3>. QED
      BY <3>1, <3>2
  <2>. QED
    BY <2>3, <2>4
<1>8. ASSUME NEW d \in created' PROVE Address'[d] # 0
  <2>1. CASE d \in created
    BY <1>1, <1>6, <2>1 DEF Children, Addressing
  <2>2. CASE d \notin created
    <3>1. Len(stack) \in 2..Len(stack)
      BY <1>1, <1>2, <1>3
    <3>2. Top.stage = "created" => Address[Top.dev] # 0
      BY <1>1, <3>1 DEF Addressing, Early
    <3>. QED
      BY <1>8, <2>2, <3>2
  <2>. QED
    BY <2>1, <2>2
<1>9. ASSUME NEW i \in 2..Len(stack')
      PROVE  /\ stack'[i].stage \in Early => Address'[stack'[i].dev] = 0
             /\ stack'[i].stage \notin Early \cup {"failed"} => Address'[stack'[i].dev] # 0
  <2>1. i \in 1..m /\ i \in 2..Len(stack) /\ i # 1
    BY <1>3, <1>4, <1>9
  <2>2. /\ stack[i].dev \in Devices /\ stack[i].dev # Top.dev /\ stack'[i].dev = stack[i].dev
        /\ Address'[stack[i].dev] = Address[stack[i].dev] /\ stack[i].stage = "child"
    BY <1>3, <1>4, <1>5, <1>6, <2>1 DEF Calls
  <2>3. Address[stack[i].dev] # 0
    BY <2>1, <2>2 DEF Addressing, Early
  <2>4. CASE i = m
    BY <1>4, <2>2, <2>3, <2>4
  <2>5. CASE i # m
    BY <1>4, <2>1, <2>2, <2>3, <2>5 DEF Early
  <2>. QED
    BY <2>4, <2>5
<1>. QED
  BY <1>6, <1>7, <1>8, <1>9 DEF Addressing

-----------------------------------------------------------------------------
(* The requests and what comes after them.                                 *)
LEMMA RequestNames ==
  Requests = {"desc8", "desc", "lang", "strings", "address", "config", "fullConfig",
              "setConfig", "getConfig", "hubDesc", "fullHubDesc", "power", "reset", "status"}
<1>1. {Setup[i] : i \in DOMAIN Setup}
        = {"desc8", "desc", "lang", "strings", "address", "config", "fullConfig"}
  <2>1. DOMAIN Setup = {1, 2, 3, 4, 5, 6, 7}
    BY DEF Setup
  <2>. QED
    BY <2>1 DEF Setup
<1>2. {Configuration[i] : i \in 1..2} = {"setConfig", "getConfig"}
  BY DEF Configuration
<1>3. {HubStart[i] : i \in 1..2} = {"hubDesc", "fullHubDesc"}
  BY DEF HubStart
<1>. QED
  BY <1>1, <1>2, <1>3 DEF Requests

(* The call c goes on as e after a request.                                *)
GoesOn(c, e) ==
  /\ IsCall(e) /\ e.dev = c.dev /\ e.stage \notin {"child", "failed"}
  /\ \A p \in Nat : Past(c, p) => Past(e, p)
  /\ e.stage \in Early => c.stage \in Early
  /\ e.stage \notin Early => c.stage \notin Early \ {"address"}
  /\ c.stage = "address" => e.stage = "config"
  /\ e.stage = "status" => c.stage = "reset"
  /\ c.stage = "reset" => e.stage = "status" /\ e.port = c.port

LEMMA ContinueCall ==
  ASSUME Calls, stack # <<>>, Top.stage \in Requests, Top.stage # "status", Continue
  PROVE  \E e : Become(e) /\ GoesOn(Top, e)
<1>1. PICK s \in After(Top.stage) :
         Become([Top EXCEPT !.stage = s,
                       !.port = IF Top.stage # "power" THEN @ ELSE IF s = "power" THEN @ + 1 ELSE 1,
                       !.polls = IF s = Top.stage THEN @ + 1 ELSE 0])
  BY DEF Continue
<1>2. PICK c : c = Top
  OBVIOUS
<1>3. PICK e : e = [Top EXCEPT !.stage = s,
                       !.port = IF Top.stage # "power" THEN @ ELSE IF s = "power" THEN @ + 1 ELSE 1,
                       !.polls = IF s = Top.stage THEN @ + 1 ELSE 0]
  OBVIOUS
<1>4. /\ IsCall(c) /\ c \in CallSet /\ c.dev # Root /\ c.stage \in Requests /\ c.stage # "status"
  BY <1>2, TopOfStack, StageOfTop, DeviceAssumption DEF IsCall
<1>5. s \in After(c.stage)
  BY <1>1, <1>2
<1>6. /\ s \in {"desc", "lang", "strings", "address", "config", "fullConfig", "setConfig", "getConfig",
                "hubDesc", "fullHubDesc", "power", "reset", "status", "start", "created"}
      /\ s \in Early => c.stage \in Early
      /\ s \notin Early => c.stage \notin Early \ {"address"}
      /\ c.stage = "address" => s = "config"
      /\ s = "status" => c.stage = "reset"
      /\ c.stage = "power" /\ s = "power" => c.port < HubPorts
      /\ c.stage = "reset" => s = "status"
  <2>. USE <1>5 DEF Early
  <2>1. CASE c.stage = "desc8"
    BY <2>1 DEF After
  <2>2. CASE c.stage = "desc"
    BY <2>2 DEF After
  <2>3. CASE c.stage = "lang"
    BY <2>3 DEF After
  <2>4. CASE c.stage = "strings"
    BY <2>4 DEF After
  <2>5. CASE c.stage = "address"
    BY <2>5 DEF After
  <2>6. CASE c.stage = "config"
    BY <2>6 DEF After
  <2>7. CASE c.stage = "fullConfig"
    BY <2>7 DEF After
  <2>8. CASE c.stage = "setConfig"
    BY <2>8 DEF After
  <2>9. CASE c.stage = "getConfig"
    BY <2>9 DEF After
  <2>10. CASE c.stage = "hubDesc"
    BY <2>10 DEF After
  <2>11. CASE c.stage = "fullHubDesc"
    BY <2>11 DEF After
  <2>12. CASE c.stage = "power"
    BY <2>12, <1>2 DEF After
  <2>13. CASE c.stage = "reset"
    BY <2>13 DEF After
  <2>. QED
    BY <1>4, RequestNames, <2>1, <2>2, <2>3, <2>4, <2>5, <2>6, <2>7, <2>8, <2>9, <2>10, <2>11,
       <2>12, <2>13
<1>7. /\ e.dev = c.dev /\ e.stage = s /\ e.attempt = c.attempt
      /\ e.port = IF c.stage # "power" THEN c.port ELSE IF s = "power" THEN c.port + 1 ELSE 1
      /\ e.polls = IF s = c.stage THEN c.polls + 1 ELSE 0
      /\ e = [dev |-> e.dev, stage |-> e.stage, port |-> e.port, attempt |-> e.attempt, polls |-> e.polls]
  BY <1>2, <1>3, <1>4 DEF CallSet
<1>8. e.port \in 1..HubPorts \cup 1..2 /\ e.polls \in Nat /\ e.attempt \in 0..(PortTries - 1)
      /\ e.dev \in Devices \cup {Root}
  <2>1. /\ c.dev \in Devices \cup {Root} /\ c.port \in 1..HubPorts \cup 1..2
        /\ c.attempt \in 0..(PortTries - 1) /\ c.polls \in Nat
    BY <1>4 DEF CallSet
  <2>2. e.polls \in Nat
    BY <1>7, <2>1
  <2>3. HubPorts \in Nat \ {0}
    BY DeviceAssumption
  <2>4. e.port \in 1..HubPorts \cup 1..2
    BY <1>6, <1>7, <2>1, <2>3
  <2>. QED
    BY <1>7, <2>1, <2>2, <2>4
<1>9. s \in Stages /\ s \notin {"child", "failed", "port"}
  BY <1>6, RequestNames DEF Stages
<1>10. IsCall(e)
  BY <1>4, <1>7, <1>8, <1>9 DEF IsCall, CallSet
<1>11. \A p \in Nat : Past(c, p) => Past(e, p)
  BY <1>4, <1>6, <1>7, RequestNames DEF Past
<1>12. GoesOn(c, e)
  BY <1>6, <1>7, <1>9, <1>10, <1>11 DEF GoesOn
<1>. QED
  BY <1>1, <1>2, <1>3, <1>12

-----------------------------------------------------------------------------
(* A request is sent only when there is something to send, and the         *)
(* transfer in progress is the one that was asked for.                     *)
Asking ==
  /\ pc \in {"idle", "panic", "undefined"} \cup Busy
  /\ asked \in BOOLEAN
  /\ pc \in Busy => asked
  /\ asked => /\ stack # <<>> /\ Top.stage \in Requests /\ pc # "undefined"
              /\ Top.stage = "address" => FreeAddresses # {}
              /\ pc # "panic" => current \notin interrupts

(* A transfer is in progress, or over and its result not yet looked at;    *)
(* the queue q is through with its last descriptor; the devices took the   *)
(* request.                                                                *)
Going == asked /\ pc # "panic"
Through(q) == element[q] > Len(tds[q])
AtEnd(q) ==
  Through(q) \/ (element[q] = Len(tds[q]) /\ td[tds[q][element[q]]] # "active")
Took == Going /\ AtEnd(current)

(* The descriptors behind the one that Element is at wait for their turn.  *)
Behind(q) == \A i \in 1..Len(tds[q]) : i > element[q] => td[tds[q][i]] = "active"
NoStall(q) == \A i \in 1..Len(tds[q]) : td[tds[q][i]] # "stalled"

(* Without trouble a transfer does not stall, and it comes to its end only *)
(* if the device has answered.                                             *)
Transfers ==
  /\ \A q \in QHs : element[q] <= Len(tds[q]) + 1
  /\ pc \in Busy => Behind(current)
  /\ ~troubled /\ Going =>
       /\ pc \in Busy => NoStall(current)
       /\ pc \in {"free", "unlink", "return", "idle"} =>
            status = TRUE /\ stalled = FALSE /\ Through(current)
       /\ Took /\ Top.stage \notin {"address", "reset"} => Answering # {}

(* The device d was reset and has no address yet.                          *)
Unaddressed(d) ==
  /\ stack # <<>>
  /\ \/ Top.dev = d /\ Top.stage \in Early
     \/ /\ d \in At(Top.dev, Top.port)
        /\ Top.stage = "status" \/ (Top.stage = "reset" /\ Took)

(* Without trouble only such a device answers at address 0, and every      *)
(* other one that listens does so at the address the driver has for it.    *)
Hearing ==
  /\ answers \in [Devices -> {OFF} \cup 0..MaxDevices]
  /\ ~troubled =>
     /\ stack # <<>> => Top.stage # "failed"
     /\ \A d \in Devices : answers[d] = 0 => Unaddressed(d)
     /\ \A d \in Devices : answers[d] # OFF =>
          answers[d] = IF Took /\ Top.stage = "address" /\ d = Top.dev THEN NewAddress ELSE Address[d]

Locals == seen \in TDs /\ status \in BOOLEAN /\ stalled \in BOOLEAN /\ troubled \in BOOLEAN

(* The inductive invariant of the enumeration, together with IInv.         *)
JInv == Calls /\ Children /\ Addressing /\ Asking /\ Transfers /\ Hearing /\ Locals

-----------------------------------------------------------------------------
LEMMA EnumerationSame ==
  ASSUME Calls, Children, Addressing, UNCHANGED enumeration
  PROVE  Calls' /\ Children' /\ Addressing'
<1>. USE DEF enumeration
<1>1. Calls'
  BY DEF Calls
<1>2. Children'
  BY DEF Children
<1>3. Addressing'
  BY DEF Addressing
<1>. QED
  BY <1>1, <1>2, <1>3

LEMMA HearingSame ==
  ASSUME Hearing, UNCHANGED <<enumeration, answers, troubled>>, ~troubled => (Took' <=> Took)
  PROVE  Hearing'
<1>. USE DEF enumeration
<1>1. Top' = Top /\ FreeAddresses' = FreeAddresses /\ NewAddress' = NewAddress
  BY DEF Top, FreeAddresses, NewAddress
<1>2. answers' \in [Devices -> {OFF} \cup 0..MaxDevices]
  BY DEF Hearing
<1>3. ASSUME ~troubled
      PROVE  /\ stack' # <<>> => Top'.stage # "failed"
             /\ \A d \in Devices : answers'[d] = 0 => Unaddressed(d)'
             /\ \A d \in Devices : answers'[d] # OFF =>
                  answers'[d] = IF Took' /\ Top'.stage = "address" /\ d = Top'.dev
                                THEN NewAddress' ELSE Address'[d]
  <2>1. \A d \in Devices : answers'[d] = 0 => Unaddressed(d)'
    BY <1>1, <1>3 DEF Hearing, Unaddressed
  <2>. QED
    BY <1>1, <1>3, <2>1 DEF Hearing
<1>. QED
  BY <1>2, <1>3 DEF Hearing

(* A stack that was not empty had this under its top.                      *)
LEMMA DeviceOfTop ==
  ASSUME Calls, stack # <<>>, Top.dev \in Devices
  PROVE  Len(stack) \in 2..Len(stack) /\ Top = stack[Len(stack)]
<1>1. PICK n \in Nat : n = Len(stack)
  BY DEF Calls
<1>2. n \in 1..n /\ n # 1
  BY <1>1, TopOfStack, DeviceAssumption
<1>3. n \in 2..n
  BY <1>2
<1>. QED
  BY <1>1, <1>3 DEF Top

(* Only the device that is asked answers.                                  *)
LEMMA AnsweringIs ==
  ASSUME Calls, Addressing, Asking, Hearing, ~troubled, asked, ~Took \/ Top.stage # "address"
  PROVE  Answering \subseteq {Top.dev}
<1>1. stack # <<>> /\ Top.stage \in Requests /\ Top.dev \in Devices
  BY StageOfTop DEF Asking
<1>2. Address[Top.dev] \in 0..MaxDevices /\ OFF \notin 0..MaxDevices
  BY <1>1 DEF Addressing, OFF
<1>3. Top.stage \in Early => Address[Top.dev] = 0
  BY <1>1, DeviceOfTop DEF Addressing
<1>4. Top.stage \notin Early => Address[Top.dev] # 0
  <2>1. Top.stage # "failed"
    BY <1>1, RequestNames
  <2>. QED
    BY <1>1, <2>1, DeviceOfTop DEF Addressing
<1>5. ASSUME NEW d \in Devices, answers[d] = Address[Top.dev] PROVE d = Top.dev
  <2>1. answers[d] # OFF
    BY <1>2, <1>5
  <2>2. answers[d] = Address[d]
    BY <2>1 DEF Hearing
  <2>3. CASE Address[Top.dev] = 0
    <3>1. Unaddressed(d) /\ Top.stage \in Early
      BY <1>4, <1>5, <2>3 DEF Hearing
    <3>. QED
      BY <3>1 DEF Unaddressed, Early
  <2>4. CASE Address[Top.dev] # 0
    BY <1>1, <1>5, <2>2, <2>4 DEF Addressing
  <2>. QED
    BY <2>3, <2>4
<1>. QED
  BY <1>5 DEF Answering

(* What is known of a result without trouble.                              *)
LEMMA ResultFacts ==
  ASSUME JInv, NEW ok \in BOOLEAN, Result(ok), ~troubled
  PROVE  /\ ok /\ ~stalled /\ Took
         /\ Top.stage \notin {"address", "reset"} => ~Garbled
<1>1. Going /\ pc = "idle" /\ asked /\ status = ok
  BY DEF Result, Going
<1>2. status = TRUE /\ stalled = FALSE /\ Through(current)
  BY <1>1 DEF JInv, Transfers
<1>3. Took
  BY <1>1, <1>2 DEF Took, AtEnd
<1>4. ASSUME Top.stage \notin {"address", "reset"} PROVE Answering = {Top.dev}
  <2>1. Answering # {}
    BY <1>1, <1>3, <1>4 DEF JInv, Transfers
  <2>2. Answering \subseteq {Top.dev}
    BY <1>1, <1>4, AnsweringIs DEF JInv
  <2>. QED
    BY <2>1, <2>2
<1>. QED
  BY <1>1, <1>2, <1>3, <1>4 DEF Garbled

(* After a transfer, and between two.                                      *)
LEMMA Settled ==
  ASSUME Transfers, asked' = FALSE, pc' \in {"idle", "panic", "undefined"}, UNCHANGED <<tds, element>>
  PROVE  Asking' /\ Transfers' /\ ~Took'
<1>1. pc' \notin Busy /\ Going' = FALSE
  BY DEF Busy, Going
<1>2. Asking'
  BY <1>1 DEF Asking
<1>3. Transfers'
  BY <1>1 DEF Transfers
<1>. QED
  BY <1>1, <1>2, <1>3 DEF Took

-----------------------------------------------------------------------------
LEMMA FirstTD == 1 \in TDs
<1>1. TDCount \in Nat \ {0}
  BY UhciAssumption
<1>. QED
  BY <1>1 DEF TDs

LEMMA JInit ==
  ASSUME Init
  PROVE  JInv
<1>. USE DEF Init, UhciInit
<1>1. PICK c : c = Call(Root, "port")
  OBVIOUS
<1>2. /\ c.dev = Root /\ c.stage = "port" /\ c \in CallSet /\ IsCall(c)
  BY <1>1, DeviceAssumption DEF Call, IsCall, CallSet, Stages
<1>3. /\ stack \in Seq(CallSet) /\ Len(stack) = 1 /\ stack[1] = c /\ stack # <<>> /\ Top = c
  BY <1>1, <1>2 DEF Top
<1>4. Calls
  BY <1>2, <1>3 DEF Calls
<1>5. Children
  BY DEF Children
<1>6. Addressing
  <2>1. 0 \in 0..MaxDevices /\ 2..1 = {}
    BY DeviceAssumption
  <2>. QED
    BY <1>3, <2>1 DEF Addressing
<1>7. Asking
  BY DEF Asking, Busy
<1>8. Transfers
  <2>1. pc \notin Busy /\ ~Going
    BY DEF Busy, Going
  <2>2. \A q \in QHs : element[q] <= Len(tds[q]) + 1
    OBVIOUS
  <2>. QED
    BY <2>1, <2>2 DEF Transfers
<1>9. Hearing
  <2>1. \A d \in Devices : answers[d] = OFF /\ OFF # 0
    BY DEF OFF
  <2>. QED
    BY <1>2, <1>3, <2>1 DEF Hearing
<1>10. Locals
  BY FirstTD DEF Locals
<1>. QED
  BY <1>4, <1>5, <1>6, <1>7, <1>8, <1>9, <1>10 DEF JInv

-----------------------------------------------------------------------------
(* A request is sent.                                                      *)
LEMMA JRequestSent ==
  ASSUME IInv, JInv, stack # <<>>, Top.stage \in Requests, ~asked,
         Top.stage = "address" => FreeAddresses # {},
         NEW k \in Nat, Control(k), asked' = TRUE,
         UNCHANGED <<stack, troubled, Address, AddressPool, created, answers>>
  PROVE  JInv'
<1>1. UNCHANGED <<stack, Address, AddressPool, created>> /\ pc = "idle" /\ ~Took
  BY DEF Control, Took, Going
<1>2. Top' = Top /\ FreeAddresses' = FreeAddresses
  BY DEF Top, FreeAddresses
<1>3. Locals'
  BY FirstTD DEF Control, JInv, Locals
<1>4. Calls' /\ Children' /\ Addressing'
  <2>1. Calls'
    BY DEF JInv, Calls
  <2>2. Children'
    BY DEF JInv, Children
  <2>3. Addressing'
    BY DEF JInv, Addressing
  <2>. QED
    BY <2>1, <2>2, <2>3
<1>5. ASSUME ~Took' PROVE Hearing'
  <2>1. answers' \in [Devices -> {OFF} \cup 0..MaxDevices]
    BY DEF JInv, Hearing
  <2>2. ASSUME ~troubled, NEW d \in Devices, answers[d] = 0 PROVE Unaddressed(d)'
    BY <1>1, <1>2, <2>2 DEF JInv, Hearing, Unaddressed
  <2>3. ASSUME ~troubled, NEW d \in Devices, answers[d] # OFF PROVE answers[d] = Address[d]
    BY <1>1, <2>3 DEF JInv, Hearing
  <2>4. ~troubled => Top.stage # "failed"
    BY DEF JInv, Hearing
  <2>. QED
    BY <1>2, <1>5, <2>1, <2>2, <2>3, <2>4 DEF Hearing
<1>6. CASE ~Available(k + 2, k + 1)
  <2>1. pc' = "panic" /\ UNCHANGED <<tds, element>>
    BY <1>6 DEF Control
  <2>2. ~Took' /\ ~Going' /\ pc' \notin Busy
    BY <2>1 DEF Took, Going, Busy
  <2>3. Transfers'
    BY <2>1, <2>2 DEF JInv, Transfers
  <2>4. Asking'
    BY <1>1, <1>2, <2>1, <2>2 DEF Asking
  <2>. QED
    BY <1>3, <1>4, <1>5, <2>2, <2>3, <2>4 DEF JInv
<1>7. CASE Available(k + 2, k + 1)
  <2>1. PICK q \in QHs : Build(q, k + 2, k + 1, TERMINATE) /\ current' = q /\ pc' = "add"
    BY <1>7 DEF Control
  <2>2. PICK s \in Seq(TDs), b \in SUBSET Blocks : Fresh(q, s, b)
    BY <2>1, Built DEF IInv
  <2>3. /\ tds'[q] = s /\ element'[q] = 1 /\ Len(s) \in Nat /\ Len(s) > 0
        /\ \A p \in QHs : p # q => tds'[p] = tds[p] /\ element'[p] = element[p]
        /\ \A i \in 1..Len(s) : td'[s[i]] = "active"
    BY <2>2 DEF Fresh, IInv, Types, QueueTypes
  <2>4. q \notin interrupts /\ interrupts' = interrupts
    BY <2>2 DEF Fresh, IInv, Pools, Queued, Control
  <2>5. ~AtEnd(current)' /\ ~Took'
    <3>1. ~(1 > Len(s)) /\ (1 = Len(s) => td'[s[1]] = "active")
      BY <2>3
    <3>. QED
      BY <2>1, <2>3, <3>1 DEF Took, AtEnd, Through
  <2>6. Behind(current)' /\ NoStall(current)'
    BY <2>1, <2>3 DEF Behind, NoStall
  <2>7. \A p \in QHs : element'[p] <= Len(tds'[p]) + 1
    <3>1. 1 <= Len(s) + 1
      BY <2>3
    <3>. QED
      BY <2>3, <3>1 DEF JInv, Transfers
  <2>8. Transfers'
    BY <2>1, <2>5, <2>6, <2>7 DEF Transfers
  <2>9. Asking'
    BY <1>1, <1>2, <2>1, <2>4 DEF Asking, Busy
  <2>. QED
    BY <1>3, <1>4, <1>5, <2>5, <2>8, <2>9 DEF JInv
<1>. QED
  BY <1>6, <1>7

(* What becomes of the invariant when the top of the stack is c in place   *)
(* of the call that it was, and no device was given an address.            *)
LEMMA BecomesCall ==
  ASSUME JInv, stack # <<>>, NEW c, IsCall(c), c.dev = Top.dev, c.stage # "child", Become(c),
         UNCHANGED <<Address, AddressPool, created>>,
         \A p \in Nat : Past(Top, p) => Past(c, p),
         c.stage \in Early => Top.stage \in Early,
         c.stage \notin Early \cup {"failed"} => Top.stage \notin Early \cup {"failed"}
  PROVE  Calls' /\ Children' /\ Addressing' /\ stack' # <<>> /\ Top' = c
<1>1. Calls' /\ Becomes(c)
  BY Became DEF JInv
<1>. QED
  BY <1>1, ChildrenBecame, AddressingBecame DEF JInv, Becomes

LEMMA JRequest ==
  ASSUME IInv, JInv, Request
  PROVE  JInv'
<1>1. stack # <<>> /\ Top.stage \in Requests /\ ~asked
  BY DEF Request
<1>2. CASE ~(Top.stage = "address" /\ FreeAddresses = {})
  <2>1. PICK k \in Packets(Top.stage) : Control(k)
    BY <1>2 DEF Request, NoAddressFound
  <2>2. k \in Nat
    BY DeviceAssumption DEF Packets
  <2>. QED
    BY <1>1, <1>2, <2>1, <2>2, JRequestSent DEF Request, NoAddressFound
<1>3. CASE Top.stage = "address" /\ FreeAddresses = {}
  <2>1. PICK c : c = [Top EXCEPT !.stage = "failed", !.polls = 0]
    OBVIOUS
  <2>2. /\ Become(c) /\ troubled' = TRUE /\ UNCHANGED uhciVars /\ UNCHANGED asked
        /\ UNCHANGED <<Address, AddressPool, created, answers>>
    BY <1>3, <2>1 DEF Request, NoAddressFound, Enter
  <2>3. IsCall(c) /\ c.dev = Top.dev /\ c.stage = "failed"
    BY <1>1, <2>1, TopOfStack, StageOfTop, DeviceAssumption DEF JInv, IsCall, CallSet, Stages
  <2>4. Calls' /\ Children' /\ Addressing' /\ Top' = c
    BY <1>1, <1>3, <2>2, <2>3, BecomesCall DEF Past, Early
  <2>5. pc \in {"idle", "panic", "undefined"} /\ asked' = FALSE
    BY <1>1, <2>2 DEF JInv, Asking
  <2>6. Asking' /\ Transfers' /\ ~Took'
    BY <2>2, <2>5, Settled DEF JInv, uhciVars, schedule, transfer
  <2>7. Hearing' /\ Locals'
    BY <2>2 DEF JInv, Hearing, Locals, uhciVars, transfer
  <2>. QED
    BY <2>4, <2>6, <2>7 DEF JInv
<1>. QED
  BY <1>2, <1>3

(* The driver gets on with a transfer.                                     *)
LEMMA JTransfer ==
  ASSUME IInv, JInv, IInv', Transfer
  PROVE  JInv'
<1>1. /\ pc \in Busy /\ pc' \in Busy \cup {"idle"} /\ asked /\ Going /\ Going' /\ asked' = asked
      /\ UNCHANGED <<td, element, tds, current, interrupts>>
  <2>1. pc \in Busy /\ pc' \in Busy \cup {"idle"}
    BY DEF Transfer, Driver, Add, Peek, Check, Free, Unlink, Return, Busy
  <2>2. UNCHANGED <<td, element, tds, current, interrupts>>
    BY DEF Transfer, Driver, Add, Peek, Check, Free, Unlink, Return, schedule
  <2>3. asked /\ asked' = asked
    BY <2>1 DEF JInv, Asking, Transfer, enumeration
  <2>. QED
    BY <2>1, <2>2, <2>3 DEF Going, Busy
<1>2. UNCHANGED enumeration /\ UNCHANGED <<answers, troubled>>
  BY DEF Transfer
<1>3. (AtEnd(current)' <=> AtEnd(current)) /\ (Through(current)' <=> Through(current))
  BY <1>1 DEF AtEnd, Through
<1>4. Took' <=> Took
  BY <1>1, <1>3 DEF Took
<1>5. /\ Top' = Top /\ FreeAddresses' = FreeAddresses /\ Answering' = Answering /\ stack' = stack
  BY <1>2 DEF enumeration, Top, FreeAddresses, Answering
<1>6. Calls' /\ Children' /\ Addressing'
  BY <1>2, EnumerationSame DEF JInv
<1>7. Hearing'
  BY <1>2, <1>4, HearingSame DEF JInv
<1>8. Asking'
  BY <1>1, <1>5 DEF JInv, Asking, Busy
<1>9. Locals'
  <2>1. Add \/ Free \/ Unlink \/ Return => UNCHANGED <<seen, status, stalled>>
    BY DEF Add, Free, Unlink, Return
  <2>2. Check => seen' = seen /\ status' \in BOOLEAN \cup {status} /\ stalled' \in {stalled, TRUE}
    BY DEF Check
  <2>3. ASSUME Peek
        PROVE  /\ seen' = seen \/ pc' = "check"
               /\ status' \in {status, TRUE} /\ stalled' \in {stalled, FALSE}
    BY <2>3 DEF Peek
  <2>4. pc' = "check" => seen' \in TDs
    <3>1. pc' = "check" => seen' \in descs'[current'] /\ current' \in QHs /\ tds'[current'] \in Seq(TDs)
      BY DEF IInv, Progress, Types, QueueTypes
    <3>. QED
      BY <3>1 DEF descs
  <2>5. troubled' = troubled
    BY <1>2
  <2>6. CASE Add \/ Free \/ Unlink \/ Return
    BY <2>1, <2>5, <2>6 DEF JInv, Locals
  <2>7. CASE Check
    BY <2>2, <2>5, <2>7 DEF JInv, Locals
  <2>8. CASE Peek
    BY <2>3, <2>4, <2>5, <2>8 DEF JInv, Locals
  <2>. QED
    BY <2>6, <2>7, <2>8 DEF Transfer, Driver
<1>10. Transfers'
  <2>1. \A q \in QHs : element'[q] <= Len(tds'[q]) + 1
    BY <1>1 DEF JInv, Transfers
  <2>2. Behind(current)'
    BY <1>1 DEF JInv, Transfers, Behind
  <2>3. ASSUME ~troubled
        PROVE  /\ NoStall(current)'
               /\ pc' \in {"free", "unlink", "return", "idle"} =>
                    status' = TRUE /\ stalled' = FALSE /\ Through(current)'
               /\ Took' /\ Top'.stage \notin {"address", "reset"} => Answering' # {}
    <3>1. NoStall(current)
      BY <1>1, <2>3 DEF JInv, Transfers
    <3>2. NoStall(current)'
      BY <1>1, <3>1 DEF NoStall
    <3>3. Took' /\ Top'.stage \notin {"address", "reset"} => Answering' # {}
      BY <1>1, <1>4, <1>5, <2>3 DEF JInv, Transfers
    <3>4. ASSUME pc' \in {"free", "unlink", "return", "idle"}
          PROVE  status' = TRUE /\ stalled' = FALSE /\ Through(current)'
      <4>1. CASE Add
        BY <4>1, <3>4 DEF Add
      <4>2. CASE Peek
        BY <1>3, <4>2, <3>4 DEF Peek, Through
      <4>3. CASE Check
        <5>1. td[seen] # "stalled"
          <6>1. seen \in descs[current] /\ current \in QHs
            BY <4>3 DEF Check, IInv, Progress, Types, QueueTypes
          <6>2. PICK i \in DOMAIN tds[current] : seen = tds[current][i]
            BY <6>1 DEF descs
          <6>3. tds[current] \in Seq(TDs)
            BY <6>1 DEF IInv, Types, QueueTypes
          <6>4. i \in 1..Len(tds[current])
            BY <6>2, <6>3
          <6>. QED
            BY <3>1, <6>2, <6>4 DEF NoStall
        <5>. QED
          BY <4>3, <3>4, <5>1 DEF Check, Completes
      <4>4. CASE Free \/ Unlink \/ Return
        <5>1. pc \in {"free", "unlink", "return"} /\ status' = status /\ stalled' = stalled
          BY <4>4 DEF Free, Unlink, Return
        <5>. QED
          BY <1>1, <1>3, <2>3, <5>1 DEF JInv, Transfers
      <4>. QED
        BY <4>1, <4>2, <4>3, <4>4 DEF Transfer, Driver
    <3>. QED
      BY <3>2, <3>3, <3>4
  <2>4. troubled' = troubled
    BY <1>2
  <2>. QED
    BY <2>1, <2>2, <2>3, <2>4 DEF Transfers
<1>. QED
  BY <1>6, <1>7, <1>8, <1>9, <1>10 DEF JInv

(* The controller moves a queue on.                                        *)
LEMMA JController ==
  ASSUME IInv, JInv, Controller
  PROVE  JInv'
<1>1. UNCHANGED <<enumeration, answers, troubled, pc, td, tds, current, interrupts, seen, status, stalled>>
  BY DEF Controller, Advance, transfer
<1>2. /\ retiring \in QHs /\ retiring \in Queued /\ Front(retiring, {"inactive"})
      /\ element' = [element EXCEPT ![retiring] = @ + 1]
  BY DEF Controller, Advance, IInv, Types, QueueTypes, Progress
<1>3. PICK e \in Nat : e = element[retiring] /\ e # 0 /\ element'[retiring] = e + 1
  BY <1>2 DEF IInv, Types, QueueTypes
<1>4. PICK n \in Nat : n = Len(tds[retiring]) /\ tds[retiring] \in Seq(TDs)
  BY <1>2 DEF IInv, Types, QueueTypes
<1>5. e <= n /\ td[tds[retiring][e]] = "inactive"
  BY <1>2, <1>3, <1>4 DEF Front
<1>6. \A q \in QHs : q # retiring => element'[q] = element[q]
  BY <1>2 DEF IInv, Types, QueueTypes
<1>7. current \in QHs
  BY DEF IInv, Types, QueueTypes
<1>8. \A q \in QHs : element'[q] <= Len(tds'[q]) + 1
  <2>1. e + 1 <= n + 1
    BY <1>5
  <2>. QED
    BY <1>1, <1>3, <1>4, <1>6, <2>1 DEF JInv, Transfers
<1>9. Going /\ retiring = current => pc \in {"add", "wait", "check"}
  <2>1. retiring = current => pc \in {"add", "wait", "check", "free"} \/ current \in interrupts
    BY <1>2 DEF Queued
  <2>2. retiring = current => pc # "free"
    BY <1>2 DEF IInv, Progress, Front
  <2>3. Going => current \notin interrupts
    BY DEF JInv, Asking, Going
  <2>. QED
    BY <2>1, <2>2, <2>3
<1>10. pc \in Busy => Behind(current)'
  <2>. SUFFICES ASSUME pc \in Busy PROVE Behind(current)'
    OBVIOUS
  <2>1. Behind(current)
    BY DEF JInv, Transfers
  <2>2. CASE retiring = current
    <3>1. \A i \in 1..Len(tds[current]) : i > e => td[tds[current][i]] = "active"
      BY <1>3, <2>1, <2>2 DEF Behind
    <3>2. \A i \in 1..Len(tds[current]) : i > e + 1 => i > e
      BY <1>4, <2>2
    <3>. QED
      BY <1>1, <1>3, <2>2, <3>1, <3>2 DEF Behind
  <2>3. CASE retiring # current
    BY <1>1, <1>6, <1>7, <2>1, <2>3 DEF Behind
  <2>. QED
    BY <2>2, <2>3
<1>11. Going' = Going
  BY <1>1 DEF Going, enumeration
<1>12. ASSUME Going PROVE AtEnd(current)' <=> AtEnd(current)
  <2>1. CASE retiring # current
    BY <1>1, <1>6, <1>7, <2>1 DEF AtEnd, Through
  <2>2. CASE retiring = current
    <3>1. Behind(current)
      BY <1>9, <1>12, <2>2 DEF JInv, Transfers, Busy
    <3>2. e + 1 \in 1..n => td[tds[current][e + 1]] = "active"
      <4>1. e + 1 > e
        OBVIOUS
      <4>. QED
        BY <1>3, <1>4, <2>2, <3>1, <4>1 DEF Behind
    <3>3. AtEnd(current) <=> e = n
      BY <1>3, <1>4, <1>5, <2>2 DEF AtEnd, Through
    <3>4. AtEnd(current)' <=> (e + 1 > n \/ (e + 1 = n /\ td[tds[current][e + 1]] # "active"))
      BY <1>1, <1>3, <1>4, <2>2 DEF AtEnd, Through
    <3>5. (e + 1 > n <=> e = n) /\ (e + 1 = n => e + 1 \in 1..n)
      BY <1>5
    <3>. QED
      BY <3>2, <3>3, <3>4, <3>5
  <2>. QED
    BY <2>1, <2>2
<1>13. Took' <=> Took
  BY <1>11, <1>12 DEF Took
<1>14. Top' = Top /\ FreeAddresses' = FreeAddresses /\ Answering' = Answering
  BY <1>1 DEF enumeration, Top, FreeAddresses, Answering
<1>15. Transfers'
  <2>1. ASSUME ~troubled, Going
        PROVE  /\ pc \in Busy => NoStall(current)'
               /\ pc \in {"free", "unlink", "return", "idle"} =>
                    status = TRUE /\ stalled = FALSE /\ Through(current)'
               /\ Took' /\ Top'.stage \notin {"address", "reset"} => Answering' # {}
    <3>1. pc \in Busy => NoStall(current)'
      BY <1>1, <2>1 DEF JInv, Transfers, NoStall
    <3>2. pc \in {"free", "unlink", "return", "idle"} => retiring # current
      BY <1>9, <2>1
    <3>3. pc \in {"free", "unlink", "return", "idle"} => Through(current)'
      BY <1>1, <1>6, <1>7, <2>1, <3>2 DEF JInv, Transfers, Through
    <3>. QED
      BY <1>13, <1>14, <2>1, <3>1, <3>3 DEF JInv, Transfers
  <2>2. troubled' = troubled /\ pc' = pc /\ status' = status /\ stalled' = stalled
    BY <1>1
  <2>. QED
    BY <1>8, <1>10, <1>11, <2>1, <2>2 DEF Transfers
<1>16. Calls' /\ Children' /\ Addressing'
  BY <1>1, EnumerationSame DEF JInv
<1>17. Hearing'
  BY <1>1, <1>13, HearingSame DEF JInv
<1>18. Asking'
  BY <1>1, <1>14 DEF JInv, Asking, enumeration
<1>19. Locals'
  BY <1>1 DEF JInv, Locals
<1>. QED
  BY <1>15, <1>16, <1>17, <1>18, <1>19 DEF JInv

(* A packet of an interrupt transfer.                                      *)
LEMMA JInterruptPacket ==
  ASSUME IInv, JInv, NEW q \in QHs, NEW ok \in BOOLEAN, Packet(q, ok), q \in interrupts
  PROVE  JInv'
<1>1. /\ UNCHANGED <<enumeration, answers, troubled, pc, element, tds, current, interrupts, seen, status, stalled>>
      /\ td' = [td EXCEPT ![tds[q][element[q]]] = IF ok THEN "inactive" ELSE "stalled"]
  BY DEF Packet, Execute, LastPacket, schedule, transfer, JInv, Locals
<1>2. PICK t \in TDs : t = tds[q][element[q]] /\ t \in descs[q]
  <2>1. element[q] \in DOMAIN tds[q] /\ tds[q] \in Seq(TDs)
    BY DEF Packet, Execute, Pending, IInv, Types, QueueTypes
  <2>. QED
    BY <2>1 DEF descs
<1>3. \A u \in TDs : u # t => td'[u] = td[u]
  BY <1>1, <1>2 DEF IInv, Types, QueueTypes
<1>4. current \in QHs /\ tds[current] \in Seq(TDs) /\ element[current] \in Nat \ {0}
  BY DEF IInv, Types, QueueTypes
<1>5. ASSUME pc \in Busy, NEW i \in DOMAIN tds[current] PROVE td'[tds[current][i]] = td[tds[current][i]]
  <2>1. q # current /\ q \in InMemory /\ current \in InMemory
    BY <1>5 DEF IInv, Links, InMemory
  <2>2. tds[current][i] \in descs[current] /\ tds[current][i] \in TDs
    BY <1>4, <1>5 DEF descs
  <2>3. descs[q] \cap descs[current] = {}
    BY <2>1 DEF IInv, Pools
  <2>. QED
    BY <1>2, <1>3, <2>2, <2>3
<1>6. Going' = Going /\ (Going => pc \in Busy \cup {"idle"})
  BY <1>1 DEF Going, enumeration, JInv, Asking
<1>7. Through(current)' <=> Through(current)
  BY <1>1 DEF Through
<1>8. ASSUME ~troubled PROVE Took' <=> Took
  <2>1. CASE ~Going
    BY <1>6, <2>1 DEF Took
  <2>2. CASE Going /\ pc \in Busy
    <3>1. ~Through(current) => element[current] \in DOMAIN tds[current]
      BY <1>4 DEF Through
    <3>2. ~Through(current) => td'[tds[current][element[current]]] = td[tds[current][element[current]]]
      BY <1>5, <2>2, <3>1
    <3>. QED
      BY <1>1, <1>6, <1>7, <2>2, <3>2 DEF Took, AtEnd
  <2>3. CASE Going /\ pc = "idle"
    BY <1>6, <1>7, <1>8, <2>3 DEF Took, AtEnd, JInv, Transfers
  <2>. QED
    BY <1>6, <2>1, <2>2, <2>3
<1>9. DOMAIN tds[current] = 1..Len(tds[current])
  BY <1>4
<1>10. pc \in Busy => Behind(current)'
  BY <1>1, <1>5, <1>9 DEF JInv, Transfers, Behind
<1>11. Top' = Top /\ FreeAddresses' = FreeAddresses /\ Answering' = Answering
  BY <1>1 DEF enumeration, Top, FreeAddresses, Answering
<1>12. Transfers'
  <2>1. \A r \in QHs : element'[r] <= Len(tds'[r]) + 1
    BY <1>1 DEF JInv, Transfers
  <2>2. ASSUME ~troubled, Going
        PROVE  /\ pc \in Busy => NoStall(current)'
               /\ pc \in {"free", "unlink", "return", "idle"} =>
                    status = TRUE /\ stalled = FALSE /\ Through(current)'
               /\ Took' /\ Top'.stage \notin {"address", "reset"} => Answering' # {}
    <3>1. pc \in Busy => NoStall(current)'
      BY <1>1, <1>5, <1>9, <2>2 DEF JInv, Transfers, NoStall
    <3>. QED
      BY <1>7, <1>8, <1>11, <2>2, <3>1 DEF JInv, Transfers
  <2>3. troubled' = troubled /\ pc' = pc /\ status' = status /\ stalled' = stalled
    BY <1>1
  <2>. QED
    BY <1>6, <1>10, <2>1, <2>2, <2>3 DEF Transfers
<1>13. Calls' /\ Children' /\ Addressing'
  BY <1>1, EnumerationSame DEF JInv
<1>14. Hearing'
  BY <1>1, <1>8, HearingSame DEF JInv
<1>15. Asking'
  BY <1>1, <1>11 DEF JInv, Asking, enumeration
<1>16. Locals'
  BY <1>1 DEF JInv, Locals
<1>. QED
  BY <1>12, <1>13, <1>14, <1>15, <1>16 DEF JInv

(* Who listens where after the devices took a request that only the one    *)
(* asked has answered.                                                     *)
LEMMA TakenHeard ==
  ASSUME JInv, ~troubled, Going, ~Took, Took', UNCHANGED <<enumeration, troubled>>,
         answers' = Taken({Top.dev})
  PROVE  Hearing'
<1>1. asked /\ stack # <<>> /\ Top.stage \in Requests /\ Top.dev \in Devices
  BY StageOfTop DEF JInv, Asking, Going
<1>2. /\ Top' = Top /\ NewAddress' = NewAddress /\ stack' = stack /\ Address' = Address
  BY DEF enumeration, Top, FreeAddresses, NewAddress
<1>3. Top.stage # "failed" /\ troubled' = troubled
  BY <1>1 DEF JInv, Hearing
<1>4. /\ \A d \in Devices : answers[d] = 0 => Unaddressed(d)
      /\ \A d \in Devices : answers[d] # OFF => answers[d] = Address[d]
      /\ answers \in [Devices -> {OFF} \cup 0..MaxDevices]
  <2>1. /\ \A d \in Devices : answers[d] = 0 => Unaddressed(d)
        /\ answers \in [Devices -> {OFF} \cup 0..MaxDevices]
    BY DEF JInv, Hearing
  <2>2. ASSUME NEW d \in Devices, answers[d] # OFF PROVE answers[d] = Address[d]
    BY <2>2 DEF JInv, Hearing
  <2>. QED
    BY <2>1, <2>2
<1>5. 0 \in 0..MaxDevices /\ OFF # 0
  BY DeviceAssumption DEF OFF
<1>6. SUFFICES
        /\ answers' \in [Devices -> {OFF} \cup 0..MaxDevices]
        /\ \A d \in Devices : answers'[d] = 0 => Unaddressed(d)'
        /\ \A d \in Devices : answers'[d] # OFF =>
             answers'[d] = IF Top.stage = "address" /\ d = Top.dev THEN NewAddress ELSE Address[d]
  BY <1>2, <1>3 DEF Hearing
<1>7. CASE Top.stage = "address"
  <2>1. NewAddress \in 1..MaxDevices
    BY <1>1, <1>7, NewAddressFree DEF JInv, Asking
  <2>2. NewAddress \in 0..MaxDevices /\ NewAddress # 0
    BY <2>1, DeviceAssumption
  <2>3. answers' = [d \in Devices |-> IF d \in {Top.dev} THEN NewAddress ELSE answers[d]]
    BY <1>7 DEF Taken
  <2>4. answers' \in [Devices -> {OFF} \cup 0..MaxDevices]
    BY <1>4, <2>2, <2>3
  <2>5. ASSUME NEW d \in Devices, answers'[d] = 0 PROVE FALSE
    <3>1. d # Top.dev /\ answers[d] = 0
      BY <2>2, <2>3, <2>5
    <3>. QED
      BY <1>4, <1>7, <3>1 DEF Unaddressed
  <2>6. ASSUME NEW d \in Devices, answers'[d] # OFF
        PROVE  answers'[d] = IF d = Top.dev THEN NewAddress ELSE Address[d]
    BY <1>4, <2>3, <2>6
  <2>. QED
    BY <1>7, <2>4, <2>5, <2>6
<1>8. CASE Top.stage = "reset"
  <2>. DEFINE S == At(Top.dev, Top.port)
  <2>1. answers' = Reset(S)
    <3>1. answers' = Reset(UNION {At(d, Top.port) : d \in {Top.dev}})
      BY <1>8 DEF Taken
    <3>2. UNION {At(d, Top.port) : d \in {Top.dev}} = S
      OBVIOUS
    <3>. QED
      BY <3>1, <3>2
  <2>2. \A d \in S : Address[d] = 0
    <3>1. ASSUME NEW d \in S PROVE Address[d] = 0
      <4>1. d \in Devices /\ d \notin created /\ \A i \in 1..Len(stack) : stack[i].dev # d
        BY <1>1, <1>8, Unplaced DEF JInv
      <4>. QED
        BY <4>1 DEF JInv, Addressing
    <3>. QED
      BY <3>1
  <2>3. \A d \in S : Unaddressed(d)'
    BY <1>1, <1>2, <1>8 DEF Unaddressed
  <2>4. \A d \in Devices : ~Unaddressed(d)
    BY <1>8 DEF Unaddressed, Early
  <2>. HIDE DEF S
  <2>5. \A d \in Devices : answers'[d] = IF d \in S THEN 0 ELSE IF Above[d] \cap S # {} THEN OFF ELSE answers[d]
    BY <2>1 DEF Reset
  <2>6. answers' \in [Devices -> {OFF} \cup 0..MaxDevices]
    <3>1. \A d \in Devices : answers'[d] \in {OFF} \cup 0..MaxDevices
      BY <1>4, <1>5, <2>5
    <3>. QED
      BY <2>1, <3>1 DEF Reset
  <2>7. ASSUME NEW d \in Devices, answers'[d] = 0 PROVE Unaddressed(d)'
    BY <1>4, <1>5, <2>3, <2>4, <2>5, <2>7
  <2>8. ASSUME NEW d \in Devices, answers'[d] # OFF PROVE answers'[d] = Address[d]
    BY <1>4, <2>2, <2>5, <2>8
  <2>. QED
    BY <1>8, <2>6, <2>7, <2>8
<1>9. CASE Top.stage \notin {"address", "reset"}
  <2>1. answers' = answers
    BY <1>9 DEF Taken
  <2>2. ASSUME NEW d \in Devices, Unaddressed(d) PROVE Unaddressed(d)'
    BY <1>2, <1>9, <2>2 DEF Unaddressed
  <2>. QED
    BY <1>4, <1>9, <2>1, <2>2
<1>. QED
  BY <1>7, <1>8, <1>9

(* In trouble nothing is said of who listens.                              *)
LEMMA HearingTroubled ==
  ASSUME troubled', answers' \in [Devices -> {OFF} \cup 0..MaxDevices]
  PROVE  Hearing'
BY DEF Hearing

LEMMA TakenType ==
  ASSUME JInv, asked, NEW S
  PROVE  Taken(S) \in [Devices -> {OFF} \cup 0..MaxDevices]
<1>1. answers \in [Devices -> {OFF} \cup 0..MaxDevices] /\ 0 \in 0..MaxDevices
  BY DeviceAssumption DEF JInv, Hearing
<1>2. CASE Top.stage = "address"
  <2>1. NewAddress \in 1..MaxDevices
    BY <1>2, NewAddressFree DEF JInv, Asking
  <2>2. NewAddress \in 0..MaxDevices
    BY <2>1, DeviceAssumption
  <2>3. Taken(S) = [d \in Devices |-> IF d \in S THEN NewAddress ELSE answers[d]]
    BY <1>2 DEF Taken
  <2>. QED
    BY <1>1, <2>2, <2>3
<1>3. CASE Top.stage = "reset"
  <2>1. PICK R : Taken(S) = Reset(R)
    BY <1>3 DEF Taken
  <2>. QED
    BY <1>1, <2>1 DEF Reset
<1>4. CASE Top.stage \notin {"address", "reset"}
  BY <1>1, <1>4 DEF Taken
<1>. QED
  BY <1>2, <1>3, <1>4

(* A packet of the transfer in progress.                                   *)
LEMMA JPacket ==
  ASSUME IInv, JInv, NEW q \in QHs, NEW ok \in BOOLEAN, Packet(q, ok), q \notin interrupts
  PROVE  JInv'
<1>1. /\ UNCHANGED <<enumeration, pc, element, tds, current, interrupts, seen, status, stalled>>
      /\ td' = [td EXCEPT ![tds[q][element[q]]] = IF ok THEN "inactive" ELSE "stalled"]
      /\ q \in Reachable /\ Pending(q)
  BY DEF Packet, Execute, schedule, transfer
<1>2. q = current /\ pc \in {"add", "wait", "check"} /\ pc \in Busy /\ asked /\ Going
  <2>1. q = current /\ pc \in {"add", "wait", "check", "free"}
    BY <1>1, Reached DEF Queued
  <2>2. pc # "free"
    BY <1>1, <2>1 DEF IInv, Progress, Front, Pending
  <2>. QED
    BY <2>1, <2>2 DEF Busy, JInv, Asking, Going
<1>3. PICK s \in Seq(TDs) : s = tds[current]
  BY <1>2 DEF IInv, Types, QueueTypes
<1>4. PICK n \in Nat : n = Len(s)
  BY <1>3
<1>5. PICK e \in 1..n : e = element[current] /\ td[s[e]] = "active" /\ e <= n /\ e \in Nat
  <2>1. element[current] \in Nat \ {0} /\ element[current] <= Len(tds[current])
        /\ td[tds[current][element[current]]] = "active"
    BY <1>1, <1>2 DEF IInv, Types, QueueTypes, Pending
  <2>. QED
    BY <1>3, <1>4, <2>1
<1>6. \A i \in 1..n : s[i] \in TDs /\ (s[i] = s[e] => i = e)
  <2>1. current \in InMemory
    BY <1>2 DEF InMemory
  <2>. QED
    BY <1>3, <1>4, <1>5, <2>1 DEF IInv, Pools
<1>7. /\ \A i \in 1..n : i # e => td'[s[i]] = td[s[i]]
      /\ td'[s[e]] = IF ok THEN "inactive" ELSE "stalled"
  BY <1>1, <1>2, <1>3, <1>5, <1>6 DEF IInv, Types, QueueTypes
<1>8. ~AtEnd(current) /\ ~Through(current) /\ ~Took
  <2>1. ~(e > n)
    BY <1>5
  <2>. QED
    BY <1>3, <1>4, <1>5, <2>1 DEF AtEnd, Through, Took
<1>9. AtEnd(current)' <=> e = n
  <2>1. ~(e > n)
    BY <1>5
  <2>. QED
    BY <1>1, <1>3, <1>4, <1>5, <1>7, <2>1 DEF AtEnd, Through
<1>10. Going' /\ (Took' <=> LastPacket(q))
  BY <1>1, <1>2, <1>3, <1>4, <1>5, <1>9 DEF Took, Going, LastPacket, enumeration
<1>11. Top' = Top /\ FreeAddresses' = FreeAddresses /\ troubled' \in BOOLEAN
  BY <1>1 DEF enumeration, Top, FreeAddresses, Packet, JInv, Locals
<1>12. Calls' /\ Children' /\ Addressing'
  BY <1>1, EnumerationSame DEF JInv
<1>13. Asking' /\ Locals'
  <2>1. Locals'
    BY <1>1, <1>11 DEF JInv, Locals
  <2>2. Asking'
    BY <1>1, <1>11 DEF JInv, Asking, enumeration
  <2>. QED
    BY <2>1, <2>2
<1>14. Behind(current)'
  <2>1. \A i \in 1..n : i > e => i # e
    BY <1>5
  <2>2. Behind(current)
    BY <1>2 DEF JInv, Transfers
  <2>. QED
    BY <1>1, <1>3, <1>4, <1>5, <1>7, <2>1, <2>2 DEF Behind
<1>15. \A r \in QHs : element'[r] <= Len(tds'[r]) + 1
  BY <1>1 DEF JInv, Transfers
<1>16. CASE ~ok
  <2>1. troubled' = TRUE
    BY <1>2, <1>16 DEF Packet
  <2>2. Transfers'
    BY <1>14, <1>15, <2>1 DEF Transfers
  <2>3. answers' \in [Devices -> {OFF} \cup 0..MaxDevices]
    <3>1. answers' = answers \/ \E S : answers' = Taken(S)
      BY DEF Packet
    <3>. QED
      BY <1>2, <3>1, TakenType DEF JInv, Hearing
  <2>4. Hearing'
    BY <2>1, <2>3, HearingTroubled
  <2>. QED
    BY <1>12, <1>13, <2>2, <2>4 DEF JInv
<1>17. CASE ok /\ troubled
  <2>1. troubled' = TRUE
    BY <1>17 DEF Packet
  <2>2. Transfers'
    BY <1>14, <1>15, <2>1 DEF Transfers
  <2>3. answers' \in [Devices -> {OFF} \cup 0..MaxDevices]
    <3>1. answers' = answers \/ \E S : answers' = Taken(S)
      BY DEF Packet
    <3>. QED
      BY <1>2, <3>1, TakenType DEF JInv, Hearing
  <2>4. Hearing'
    BY <2>1, <2>3, HearingTroubled
  <2>. QED
    BY <1>12, <1>13, <2>2, <2>4 DEF JInv
<1>18. CASE ok /\ ~troubled
  <2>1. troubled' = troubled
    BY <1>18 DEF Packet, JInv, Locals
  <2>2. Answering = {Top.dev}
    <3>1. Answering # {}
      BY <1>2, <1>18 DEF Packet
    <3>2. Answering \subseteq {Top.dev}
      BY <1>2, <1>8, <1>18, AnsweringIs DEF JInv
    <3>. QED
      BY <3>1, <3>2
  <2>3. NoStall(current)'
    <3>1. NoStall(current)
      BY <1>2, <1>18 DEF JInv, Transfers
    <3>2. \A i \in 1..n : td[s[i]] # "stalled"
      BY <1>3, <1>4, <3>1 DEF NoStall
    <3>3. \A i \in 1..n : td'[s[i]] # "stalled"
      BY <1>7, <1>18, <3>2
    <3>. QED
      BY <1>1, <1>3, <1>4, <3>3 DEF NoStall
  <2>4. CASE LastPacket(q)
    <3>1. PICK S \in SUBSET Answering : S # {} /\ answers' = Taken(S)
      BY <1>18, <2>4 DEF Packet
    <3>2. answers' = Taken({Top.dev})
      <4>1. S = {Top.dev}
        BY <2>2, <3>1
      <4>. QED
        BY <3>1, <4>1
    <3>3. Hearing'
      BY <1>1, <1>2, <1>8, <1>10, <1>18, <2>1, <2>4, <3>2, TakenHeard
    <3>4. Top.stage \notin {"address", "reset"} => Answering' # {}
      <4>1. Top.stage \notin {"address", "reset"} => answers' = answers
        BY <3>2 DEF Taken
      <4>2. Top.stage \notin {"address", "reset"} => Answering' = Answering
        BY <1>1, <1>11, <4>1 DEF Answering, enumeration
      <4>. QED
        BY <2>2, <4>2
    <3>5. Transfers'
      BY <1>1, <1>2, <1>11, <1>14, <1>15, <2>3, <3>4 DEF Transfers
    <3>. QED
      BY <1>12, <1>13, <3>3, <3>5 DEF JInv
  <2>5. CASE ~LastPacket(q)
    <3>1. answers' = answers
      BY <2>5 DEF Packet
    <3>2. Hearing'
      BY <1>1, <1>8, <1>10, <2>1, <2>5, <3>1, HearingSame DEF JInv
    <3>3. Transfers'
      BY <1>1, <1>2, <1>10, <1>14, <1>15, <2>3, <2>5 DEF Transfers
    <3>. QED
      BY <1>12, <1>13, <3>2, <3>3 DEF JInv
  <2>. QED
    BY <2>4, <2>5
<1>. QED
  BY <1>16, <1>17, <1>18

-----------------------------------------------------------------------------
(* The host acts on a result.                                              *)
LEMMA ResultState ==
  ASSUME JInv, NEW ok \in BOOLEAN, Result(ok)
  PROVE  /\ pc = "idle" /\ stack # <<>> /\ Top.stage \in Requests /\ Top.dev \in Devices
         /\ asked' = FALSE /\ IsCall(Top)
         /\ Top.stage = "address" => FreeAddresses # {}
<1>1. pc = "idle" /\ asked /\ asked' = FALSE
  BY DEF Result
<1>2. stack # <<>> /\ Top.stage \in Requests /\ (Top.stage = "address" => FreeAddresses # {})
  BY <1>1 DEF JInv, Asking
<1>. QED
  BY <1>1, <1>2, StageOfTop, TopOfStack DEF JInv

(* Who listens where, when the driver goes on as c.                        *)
LEMMA HearingBecame ==
  ASSUME JInv, ~Took', stack' # <<>>, NEW c, Top' = c, UNCHANGED answers,
         ~troubled' =>
            /\ ~troubled /\ c.stage # "failed"
            /\ \A d \in Devices : answers[d] = 0 => Unaddressed(d)'
            /\ \A d \in Devices : answers[d] # OFF => answers[d] = Address'[d]
  PROVE  Hearing'
BY DEF JInv, Hearing

LEMMA AddressHeard ==
  ASSUME Hearing, ~troubled, ~(Took /\ Top.stage = "address"), NEW d \in Devices, answers[d] # OFF
  PROVE  answers[d] = Address[d]
BY DEF Hearing

LEMMA JSuccess ==
  ASSUME JInv, Success
  PROVE  JInv'
<1>1. Result(TRUE) /\ Top.stage # "status" /\ Continue /\ UNCHANGED <<created, answers, troubled>>
      /\ UNCHANGED <<pc, tds, element, seen, status, stalled>>
  BY DEF Success, uhciVars, schedule, transfer
<1>2. /\ pc = "idle" /\ stack # <<>> /\ Top.stage \in Requests /\ asked' = FALSE /\ Top.dev \in Devices
      /\ Top.stage = "address" => FreeAddresses # {}
  BY <1>1, ResultState
<1>3. PICK e : Become(e) /\ GoesOn(Top, e)
  BY <1>1, <1>2, ContinueCall DEF JInv
<1>4. /\ IsCall(e) /\ e.dev = Top.dev /\ e.stage \notin {"child", "failed"}
      /\ \A p \in Nat : Past(Top, p) => Past(e, p)
      /\ e.stage \in Early => Top.stage \in Early
      /\ e.stage \notin Early => Top.stage \notin Early \ {"address"}
  BY <1>3 DEF GoesOn
<1>5. Calls' /\ Becomes(e)
  BY <1>2, <1>3, <1>4, Became DEF JInv
<1>6. stack' # <<>> /\ Top' = e
  BY <1>5 DEF Becomes
<1>7. Children'
  BY <1>1, <1>2, <1>4, <1>5, ChildrenBecame DEF JInv
<1>8. Asking' /\ Transfers' /\ ~Took'
  BY <1>1, <1>2, Settled DEF JInv
<1>9. Locals'
  BY <1>1 DEF JInv, Locals
<1>10. ~troubled => Took
  BY <1>1, ResultFacts
<1>11. CASE Top.stage = "address"
  <2>1. AddressPool' = AddressPool \cup {NewAddress} /\ Address' = [Address EXCEPT ![Top.dev] = NewAddress]
    BY <1>11 DEF Success
  <2>2. e.stage \notin Early /\ FreeAddresses # {}
    BY <1>2, <1>3, <1>11 DEF GoesOn, Early
  <2>3. Addressing'
    BY <1>1, <1>2, <1>5, <1>11, <2>1, <2>2, AddressingSet DEF JInv
  <2>4. NewAddress # 0
    <3>1. NewAddress \in 1..MaxDevices
      BY <2>2, NewAddressFree
    <3>. QED
      BY <3>1, DeviceAssumption
  <2>5. ASSUME ~troubled, NEW d \in Devices, answers[d] # OFF
        PROVE  answers[d] = IF d = Top.dev THEN NewAddress ELSE Address[d]
    BY <1>10, <1>11, <2>5 DEF JInv, Hearing
  <2>6. ASSUME ~troubled, NEW d \in Devices, answers[d] # OFF PROVE answers[d] = Address'[d]
    BY <2>1, <2>5, <2>6 DEF JInv, Addressing
  <2>7. ASSUME ~troubled, NEW d \in Devices, answers[d] = 0 PROVE FALSE
    <3>1. Unaddressed(d)
      BY <2>7 DEF JInv, Hearing
    <3>2. d = Top.dev
      BY <1>11, <3>1 DEF Unaddressed
    <3>3. 0 # OFF
      BY DEF OFF
    <3>. QED
      BY <2>4, <2>5, <2>7, <3>2, <3>3
  <2>8. Hearing'
    BY <1>1, <1>4, <1>6, <1>8, <2>6, <2>7, HearingBecame
  <2>. QED
    BY <1>5, <1>7, <1>8, <1>9, <2>3, <2>8 DEF JInv
<1>12. CASE Top.stage # "address"
  <2>1. UNCHANGED <<AddressPool, Address>>
    BY <1>12 DEF Success
  <2>2. Addressing'
    <3>1. Top.stage # "failed"
      BY <1>2, RequestNames
    <3>. QED
      BY <1>1, <1>2, <1>4, <1>5, <1>12, <2>1, <3>1, AddressingBecame DEF JInv
  <2>3. ASSUME ~troubled, NEW d \in Devices, answers[d] # OFF PROVE answers[d] = Address'[d]
    BY <1>12, <2>1, <2>3, AddressHeard DEF JInv
  <2>4. ASSUME ~troubled, NEW d \in Devices, answers[d] = 0 PROVE Unaddressed(d)'
    <3>1. Unaddressed(d)
      BY <2>4 DEF JInv, Hearing
    <3>2. CASE Top.dev = d /\ Top.stage \in Early
      <4>1. e.stage \in Early
        BY <1>4, <1>12, <3>2
      <4>. QED
        BY <1>4, <1>6, <3>2, <4>1 DEF Unaddressed
    <3>3. CASE d \in At(Top.dev, Top.port) /\ Top.stage = "reset"
      <4>1. e.stage = "status" /\ e.port = Top.port /\ e.dev = Top.dev
        BY <1>3, <3>3 DEF GoesOn
      <4>. QED
        BY <1>6, <3>3, <4>1 DEF Unaddressed
    <3>. QED
      BY <1>1, <3>1, <3>2, <3>3 DEF Unaddressed
  <2>5. Hearing'
    BY <1>1, <1>4, <1>6, <1>8, <2>3, <2>4, HearingBecame
  <2>. QED
    BY <1>5, <1>7, <1>8, <1>9, <2>2, <2>5 DEF JInv
<1>. QED
  BY <1>11, <1>12

(* A new call in place of the top one, after a result.                     *)
LEMMA JAfterResult ==
  ASSUME JInv, NEW ok \in BOOLEAN, Result(ok), pc' \in {"idle", "undefined"},
         NEW c, IsCall(c), c.dev = Top.dev, c.stage # "child", Become(c),
         UNCHANGED <<Address, AddressPool, created, answers, tds, element, seen, status, stalled>>,
         troubled' \in BOOLEAN,
         \A p \in Nat : Past(Top, p) => Past(c, p),
         c.stage \in Early => Top.stage \in Early,
         c.stage \notin Early \cup {"failed"} => Top.stage \notin Early \cup {"failed"},
         ~troubled' => /\ ~troubled /\ c.stage # "failed"
                       /\ \A d \in Devices : answers[d] = 0 => Unaddressed(d)'
                       /\ Top.stage # "address"
  PROVE  JInv'
<1>1. stack # <<>> /\ asked' = FALSE
  BY ResultState
<1>2. Calls' /\ Children' /\ Addressing' /\ stack' # <<>> /\ Top' = c
  BY <1>1, BecomesCall
<1>3. Asking' /\ Transfers' /\ ~Took'
  BY <1>1, Settled DEF JInv
<1>4. ASSUME ~troubled', NEW d \in Devices, answers[d] # OFF PROVE answers[d] = Address'[d]
  BY <1>4, AddressHeard DEF JInv
<1>5. Hearing'
  BY <1>2, <1>3, <1>4, HearingBecame
<1>6. Locals'
  BY DEF JInv, Locals
<1>. QED
  BY <1>2, <1>3, <1>5, <1>6 DEF JInv

(* At the next port, a call is still past the ports that it was past.      *)
LEMMA NextPast ==
  ASSUME NEW c, IsCall(c), c.stage \in {"reset", "status", "child", "port"}, NEW p \in Nat, Past(c, p)
  PROVE  Past(NextPort(c), p)
<1>1. PICK e : e = NextPort(c)
  OBVIOUS
<1>2. c.port \in Int /\ (p < c.port => p < c.port + 1)
  BY DeviceAssumption DEF IsCall, CallSet
<1>3. /\ e.stage \in {"reset", "port", "created"}
      /\ e.stage # "created" => e.port = c.port + 1
  BY <1>1, NextPortCall
<1>4. Past(e, p)
  BY <1>2, <1>3 DEF Past
<1>. QED
  BY <1>1, <1>4

LEMMA RetryPast ==
  ASSUME NEW c, IsCall(c), c.stage = "child", NEW p \in Nat, Past(c, p)
  PROVE  Past(Retry(c), p)
<1>1. PICK e : e = Retry(c)
  OBVIOUS
<1>2. c.port \in Int /\ (p < c.port => p < c.port + 1)
  BY DeviceAssumption DEF IsCall, CallSet
<1>3. /\ e.stage \in {"reset", "port", "created"}
      /\ e.stage # "created" => e.port \in {c.port, c.port + 1}
  BY <1>1, RetryCall
<1>4. Past(e, p)
  BY <1>2, <1>3 DEF Past
<1>. QED
  BY <1>1, <1>4

LEMMA JFailure ==
  ASSUME JInv, Failure
  PROVE  JInv'
<1>1. /\ Result(FALSE) /\ UNCHANGED <<Address, AddressPool, created, answers, troubled>>
      /\ UNCHANGED <<pc, tds, element, seen, status, stalled>>
  BY DEF Failure, uhciVars, schedule, transfer
<1>2. pc = "idle" /\ stack # <<>> /\ Top.stage \in Requests /\ IsCall(Top) /\ Top.dev \in Devices
  BY <1>1, ResultState
<1>3. troubled /\ troubled' /\ troubled' \in BOOLEAN
  BY <1>1, ResultFacts DEF JInv, Locals
<1>4. ASSUME NEW s \in Stages, s \notin {"child", "port"}, Enter(s),
             \A p \in Nat : Past(Top, p) => s = "created",
             s \in Early => Top.stage \in Early,
             s \notin Early \cup {"failed"} => Top.stage \notin Early \cup {"failed"}
      PROVE  JInv'
  <2>1. PICK c : c = [Top EXCEPT !.stage = s, !.polls = 0]
    OBVIOUS
  <2>2. IsCall(c) /\ c.dev = Top.dev /\ c.stage = s /\ Become(c)
    BY <1>2, <1>4, <2>1, DeviceAssumption DEF IsCall, CallSet, Enter
  <2>3. \A p \in Nat : Past(Top, p) => Past(c, p)
    BY <1>4, <2>2 DEF Past
  <2>. QED
    BY <1>1, <1>2, <1>3, <1>4, <2>2, <2>3, JAfterResult
<1>5. CASE Top.stage \in {"desc8", "desc", "strings", "address", "config", "fullConfig"}
  <2>1. Enter("failed")
    BY <1>5 DEF Failure
  <2>2. "failed" \in Stages /\ \A p \in Nat : ~Past(Top, p)
    BY <1>5 DEF Stages, Past
  <2>. QED
    BY <1>4, <2>1, <2>2 DEF Early
<1>6. CASE Top.stage = "lang"
  <2>1. PICK s \in After("lang") : Enter(s)
    BY <1>6 DEF Failure
  <2>2. s \in {"strings", "address"}
    BY <2>1 DEF After
  <2>3. s \in Stages /\ s \in Early /\ Top.stage \in Early /\ \A p \in Nat : ~Past(Top, p)
    BY <1>6, <2>2, RequestNames DEF Stages, Early, Past
  <2>. QED
    BY <1>4, <2>1, <2>2, <2>3
<1>7. CASE Top.stage \in {"reset", "status"}
  <2>1. PICK c : c = NextPort(Top)
    OBVIOUS
  <2>2. Become(c)
    BY <1>7, <2>1 DEF Failure
  <2>3. /\ IsCall(c) /\ c.dev = Top.dev /\ c.stage \in {"reset", "port", "created"}
        /\ c.stage # "created" => c.port = Top.port + 1
    BY <1>2, <1>7, <2>1, NextPortCall
  <2>4. \A p \in Nat : Past(Top, p) => Past(c, p)
    BY <1>2, <1>7, <2>1, NextPast
  <2>5. c.stage \notin Early \cup {"failed", "child"} /\ Top.stage \notin Early \cup {"failed"}
    BY <1>7, <2>3 DEF Early
  <2>. QED
    BY <1>1, <1>2, <1>3, <2>2, <2>3, <2>4, <2>5, JAfterResult
<1>8. CASE Top.stage \notin {"desc8", "desc", "strings", "address", "config", "fullConfig", "lang", "reset", "status"}
  <2>1. Enter("created")
    BY <1>8 DEF Failure
  <2>2. Top.stage \notin Early \cup {"failed"}
    BY <1>2, <1>8, RequestNames DEF Early
  <2>3. "created" \in Stages /\ "created" \notin Early
    BY DEF Stages, Early
  <2>. QED
    BY <1>4, <2>1, <2>2, <2>3
<1>. QED
  BY <1>5, <1>6, <1>7, <1>8

LEMMA JMisled ==
  ASSUME JInv, Misled
  PROVE  JInv'
<1>1. /\ Result(TRUE) /\ Garbled /\ UNCHANGED <<Address, AddressPool, created, answers, troubled>>
      /\ UNCHANGED <<tds, element, seen, status, stalled>>
  BY DEF Misled, schedule
<1>2. /\ pc = "idle" /\ stack # <<>> /\ Top.stage \in Requests /\ IsCall(Top) /\ Top.dev \in Devices
      /\ asked' = FALSE
  BY <1>1, ResultState
<1>3. troubled /\ troubled' /\ troubled' \in BOOLEAN
  <2>1. Top.stage \notin {"address", "reset"}
    BY DEF Misled, Decides
  <2>. QED
    BY <1>1, <2>1, ResultFacts DEF JInv, Locals
<1>4. CASE Top.stage = "getConfig" /\ Enter("created") /\ UNCHANGED pc
  <2>1. PICK c : c = [Top EXCEPT !.stage = "created", !.polls = 0]
    OBVIOUS
  <2>2. IsCall(c) /\ c.dev = Top.dev /\ c.stage = "created" /\ Become(c)
    BY <1>2, <1>4, <2>1, DeviceAssumption DEF IsCall, CallSet, Enter, Stages
  <2>3. \A p \in Nat : Past(Top, p) => Past(c, p)
    BY <2>2 DEF Past
  <2>4. c.stage \notin Early \cup {"failed", "child"} /\ Top.stage \notin Early \cup {"failed"}
    BY <1>4, <2>2 DEF Early
  <2>. QED
    BY <1>1, <1>2, <1>3, <1>4, <2>2, <2>3, <2>4, JAfterResult
<1>5. CASE pc' = "undefined" /\ UNCHANGED stack
  <2>1. Calls' /\ Children' /\ Addressing'
    <3>1. Calls'
      BY <1>5 DEF JInv, Calls
    <3>2. Children'
      BY <1>1, <1>5 DEF JInv, Children
    <3>3. Addressing'
      BY <1>1, <1>5 DEF JInv, Addressing
    <3>. QED
      BY <3>1, <3>2, <3>3
  <2>2. Asking' /\ Transfers'
    BY <1>1, <1>2, <1>5, Settled DEF JInv
  <2>3. Hearing' /\ Locals'
    BY <1>1, <1>3 DEF JInv, Hearing, Locals
  <2>. QED
    BY <2>1, <2>2, <2>3 DEF JInv
<1>. QED
  BY <1>4, <1>5 DEF Misled

(* A device is found at a port of a hub: it is the one that was reset.     *)
LEMMA JPortEnabled ==
  ASSUME JInv, PortEnabled
  PROVE  JInv'
<1>1. /\ Result(TRUE) /\ Top.stage = "status"
      /\ UNCHANGED <<Address, AddressPool, created, answers, troubled>>
      /\ UNCHANGED <<pc, tds, element, seen, status, stalled>>
  BY DEF PortEnabled, uhciVars, schedule, transfer
<1>2. pc = "idle" /\ stack # <<>> /\ asked' = FALSE
  BY <1>1, ResultState
<1>3. PICK d \in At(Top.dev, Top.port) : Push(d)
  BY DEF PortEnabled
<1>4. d \in Devices /\ Parent[d] = Top.dev /\ PortOf[d] = Top.port /\ d \notin created
  BY <1>1, <1>2, Unplaced DEF JInv
<1>5. Calls' /\ Pushes(d)
  BY <1>2, <1>3, <1>4, Pushed DEF JInv
<1>6. Children' /\ Addressing'
  BY <1>1, <1>2, <1>4, <1>5, ChildrenPushed, AddressingPushed DEF JInv
<1>7. Asking' /\ Transfers' /\ ~Took'
  BY <1>1, <1>2, Settled DEF JInv
<1>8. PICK c : stack' # <<>> /\ Top' = c /\ c.dev = d /\ c.stage = "desc8"
  BY <1>5 DEF Pushes, Call
<1>9. ASSUME ~troubled, NEW e \in Devices, answers[e] = 0 PROVE Unaddressed(e)'
  <2>1. Unaddressed(e)
    BY <1>9 DEF JInv, Hearing
  <2>2. e \in At(Top.dev, Top.port)
    BY <1>1, <2>1 DEF Unaddressed, Early
  <2>3. e = d
    BY <1>4, <2>2, DeviceAssumption DEF At
  <2>. QED
    BY <1>8, <2>3 DEF Unaddressed, Early
<1>10. ASSUME ~troubled, NEW e \in Devices, answers[e] # OFF PROVE answers[e] = Address'[e]
  BY <1>1, <1>10, AddressHeard DEF JInv
<1>11. Hearing'
  BY <1>1, <1>7, <1>8, <1>9, <1>10, HearingBecame
<1>12. Locals'
  BY <1>1 DEF JInv, Locals
<1>. QED
  BY <1>5, <1>6, <1>7, <1>11, <1>12 DEF JInv

LEMMA JNextPort ==
  ASSUME JInv, NEW ok \in BOOLEAN, Result(ok), Top.stage = "status", Become(NextPort(Top)),
         UNCHANGED <<Address, AddressPool, created, answers, pc, tds, element, seen, status, stalled>>,
         troubled' \in BOOLEAN,
         ~troubled' => ~troubled /\ At(Top.dev, Top.port) = {}
  PROVE  JInv'
<1>1. PICK c : c = NextPort(Top)
  OBVIOUS
<1>2. pc = "idle" /\ IsCall(Top)
  BY ResultState
<1>3. /\ IsCall(c) /\ c.dev = Top.dev /\ c.stage \in {"reset", "port", "created"} /\ Become(c)
      /\ \A p \in Nat : Past(Top, p) => Past(c, p)
  BY <1>1, <1>2, NextPortCall, NextPast
<1>4. c.stage \notin Early \cup {"failed", "child"} /\ Top.stage \notin Early \cup {"failed"}
  BY <1>3 DEF Early
<1>5. ASSUME ~troubled', NEW d \in Devices, answers[d] = 0 PROVE FALSE
  <2>1. Unaddressed(d)
    BY <1>5 DEF JInv, Hearing
  <2>. QED
    BY <1>5, <2>1 DEF Unaddressed, Early
<1>. QED
  BY <1>2, <1>3, <1>4, <1>5, JAfterResult

LEMMA JPortEmpty ==
  ASSUME JInv, PortEmpty
  PROVE  JInv'
<1>1. /\ Result(TRUE) /\ Top.stage = "status" /\ Become(NextPort(Top))
      /\ UNCHANGED <<Address, AddressPool, created, answers, troubled>>
      /\ UNCHANGED <<pc, tds, element, seen, status, stalled>>
      /\ troubled' \in BOOLEAN
  BY DEF PortEmpty, uhciVars, schedule, transfer, JInv, Locals
<1>2. ~troubled => At(Top.dev, Top.port) = {}
  BY <1>1, ResultFacts DEF PortEmpty
<1>. QED
  BY <1>1, <1>2, JNextPort

LEMMA JPortNotYet ==
  ASSUME JInv, PortNotYet
  PROVE  JInv'
<1>1. /\ Result(TRUE) /\ Top.stage = "status"
      /\ UNCHANGED <<Address, AddressPool, created, answers>>
      /\ UNCHANGED <<pc, tds, element, seen, status, stalled>>
  BY DEF PortNotYet, uhciVars, schedule, transfer
<1>2. CASE Become(NextPort(Top)) /\ troubled' = TRUE
  BY <1>1, <1>2, JNextPort
<1>3. CASE Become([Top EXCEPT !.polls = @ + 1]) /\ UNCHANGED troubled
  <2>1. PICK c : c = [Top EXCEPT !.polls = @ + 1]
    OBVIOUS
  <2>2. pc = "idle" /\ stack # <<>> /\ IsCall(Top)
    BY <1>1, ResultState
  <2>3. /\ IsCall(c) /\ c.dev = Top.dev /\ c.stage = "status" /\ c.port = Top.port /\ Become(c)
    BY <1>1, <1>3, <2>1, <2>2 DEF IsCall, CallSet
  <2>4. \A p \in Nat : Past(Top, p) => Past(c, p)
    BY <1>1, <2>3 DEF Past
  <2>5. Top.stage \notin Early \cup {"failed"}
    BY <1>1 DEF Early
  <2>6. stack' # <<>> /\ Top' = c
    BY <1>1, <2>2, <2>3, <2>4, <2>5, BecomesCall
  <2>7. ASSUME ~troubled', NEW d \in Devices, answers[d] = 0 PROVE Unaddressed(d)'
    <3>1. Unaddressed(d)
      BY <1>3, <2>7 DEF JInv, Hearing
    <3>. QED
      BY <1>1, <2>3, <2>5, <2>6, <3>1 DEF Unaddressed
  <2>8. troubled' = troubled /\ troubled' \in BOOLEAN
    BY <1>3 DEF JInv, Locals
  <2>. QED
    BY <1>1, <2>2, <2>3, <2>4, <2>5, <2>7, <2>8, JAfterResult
<1>. QED
  BY <1>2, <1>3 DEF PortNotYet

(* The keyboard's endpoint is polled from now on.                          *)
LEMMA JStart ==
  ASSUME IInv, JInv, Start
  PROVE  JInv'
<1>1. /\ stack # <<>> /\ Top.stage = "start" /\ InterruptStart(Interval) /\ Enter("created")
      /\ UNCHANGED <<asked, Address, AddressPool, created, answers, troubled>>
      /\ UNCHANGED <<current, seen, status, stalled>> /\ pc = "idle" /\ pc' \in {"idle", "panic"}
  BY DEF Start, InterruptStart
<1>2. asked' = FALSE /\ ~Took
  <2>1. "start" \notin Requests
    BY RequestNames
  <2>. QED
    BY <1>1, <2>1 DEF JInv, Asking, Took, Going
<1>3. PICK c : c = [Top EXCEPT !.stage = "created", !.polls = 0]
  OBVIOUS
<1>4. IsCall(c) /\ c.dev = Top.dev /\ c.stage = "created" /\ Become(c)
  BY <1>1, <1>3, TopOfStack, DeviceAssumption DEF JInv, IsCall, CallSet, Stages, Enter
<1>5. \A p \in Nat : Past(Top, p) => Past(c, p)
  BY <1>4 DEF Past
<1>6. c.stage \notin Early \cup {"failed", "child"} /\ Top.stage \notin Early \cup {"failed"}
  BY <1>1, <1>4 DEF Early
<1>7. Calls' /\ Children' /\ Addressing' /\ stack' # <<>> /\ Top' = c
  BY <1>1, <1>4, <1>5, <1>6, BecomesCall
<1>8. ~Took' /\ Asking' /\ pc' \notin Busy /\ ~Going'
  BY <1>1, <1>2 DEF Took, Going, Asking, Busy
<1>9. \A q \in QHs : element'[q] <= Len(tds'[q]) + 1
  <2>1. CASE UNCHANGED <<tds, element>>
    BY <2>1 DEF JInv, Transfers
  <2>2. CASE Available(1, 1)
    <3>1. PICK q \in QHs, next \in Link(Slots(Interval)) : Build(q, 1, 1, next)
      BY <1>1, <2>2 DEF InterruptStart
    <3>2. PICK s \in Seq(TDs), b \in SUBSET Blocks : Fresh(q, s, b)
      BY <3>1, Built DEF IInv
    <3>3. /\ tds'[q] = s /\ element'[q] = 1 /\ Len(s) \in Nat
          /\ \A p \in QHs : p # q => tds'[p] = tds[p] /\ element'[p] = element[p]
      BY <3>2 DEF Fresh, IInv, Types, QueueTypes
    <3>4. 1 <= Len(s) + 1
      BY <3>3
    <3>. QED
      BY <3>3, <3>4 DEF JInv, Transfers
  <2>. QED
    BY <1>1, <2>1, <2>2 DEF InterruptStart, schedule
<1>10. Transfers'
  BY <1>8, <1>9 DEF Transfers
<1>11. ASSUME ~troubled, NEW d \in Devices, answers[d] = 0 PROVE FALSE
  BY <1>1, <1>6, <1>11 DEF JInv, Hearing, Unaddressed
<1>12. ASSUME ~troubled, NEW d \in Devices, answers[d] # OFF PROVE answers[d] = Address'[d]
  BY <1>1, <1>2, <1>12, AddressHeard DEF JInv
<1>13. Hearing'
  BY <1>1, <1>4, <1>7, <1>8, <1>11, <1>12, HearingBecame
<1>14. Locals'
  BY <1>1 DEF JInv, Locals
<1>. QED
  BY <1>7, <1>8, <1>10, <1>13, <1>14 DEF JInv

(* A root port: a reset, and a device or none.                             *)
LEMMA JRootPort ==
  ASSUME JInv, RootPort
  PROVE  JInv'
<1>1. /\ stack # <<>> /\ Top.stage = "port"
      /\ UNCHANGED <<pc, tds, element, seen, status, stalled, asked, Address, AddressPool, created>>
  BY DEF RootPort, uhciVars, schedule, transfer
<1>2. asked = FALSE /\ asked' = FALSE /\ pc' \in {"idle", "panic", "undefined"} /\ ~Took
  <2>1. "port" \notin Requests
    BY RequestNames
  <2>. QED
    BY <1>1, <2>1 DEF JInv, Asking, Took, Going
<1>3. Asking' /\ Transfers' /\ ~Took'
  BY <1>1, <1>2, Settled DEF JInv
<1>4. IsCall(Top) /\ Top.dev = Root
  BY <1>1, TopOfStack, StageOfTop DEF JInv
<1>5. Top.stage \notin Early \cup {"failed"} /\ Top.stage \notin {"reset", "status"}
  BY <1>1 DEF Early
<1>6. ASSUME ~troubled, NEW d \in Devices PROVE answers[d] # 0
  BY <1>5, <1>6 DEF JInv, Hearing, Unaddressed
<1>7. ASSUME ~troubled, NEW d \in Devices, answers[d] # OFF PROVE answers[d] = Address[d]
  BY <1>2, <1>7, AddressHeard DEF JInv
<1>8. ASSUME NEW d \in At(Root, Top.port), Push(d), answers' = Reset({d}), UNCHANGED troubled
      PROVE  JInv'
  <2>1. /\ d \in Devices /\ Parent[d] = Top.dev /\ PortOf[d] = Top.port /\ d \notin created
        /\ \A i \in 1..Len(stack) : stack[i].dev # d
    BY <1>1, <1>4, <1>8, Unplaced DEF JInv
  <2>2. Calls' /\ Pushes(d)
    BY <1>1, <1>8, <2>1, Pushed DEF JInv
  <2>3. Children' /\ Addressing'
    BY <1>1, <2>1, <2>2, ChildrenPushed, AddressingPushed DEF JInv
  <2>4. PICK c : stack' # <<>> /\ Top' = c /\ c.dev = d /\ c.stage = "desc8"
    BY <2>2 DEF Pushes, Call
  <2>5. Address[d] = 0
    BY <2>1 DEF JInv, Addressing
  <2>6. \A e \in Devices : answers'[e] = IF e = d THEN 0 ELSE IF Above[e] \cap {d} # {} THEN OFF ELSE answers[e]
    BY <1>8 DEF Reset
  <2>7. 0 \in 0..MaxDevices /\ OFF # 0
    BY DeviceAssumption DEF OFF
  <2>8. answers' \in [Devices -> {OFF} \cup 0..MaxDevices]
    <3>1. \A e \in Devices : answers'[e] \in {OFF} \cup 0..MaxDevices
      BY <2>6, <2>7 DEF JInv, Hearing
    <3>. QED
      BY <1>8, <3>1 DEF Reset
  <2>9. ASSUME ~troubled, NEW e \in Devices, answers'[e] = 0 PROVE Unaddressed(e)'
    <3>1. e = d
      BY <1>6, <2>6, <2>7, <2>9
    <3>. QED
      BY <2>4, <3>1 DEF Unaddressed, Early
  <2>10. ASSUME ~troubled, NEW e \in Devices, answers'[e] # OFF PROVE answers'[e] = Address'[e]
    BY <1>1, <1>7, <2>5, <2>6, <2>10
  <2>11. Hearing'
    BY <1>3, <1>8, <2>4, <2>8, <2>9, <2>10 DEF Hearing
  <2>12. Locals'
    BY <1>1, <1>8 DEF JInv, Locals
  <2>. QED
    BY <1>3, <2>2, <2>3, <2>11, <2>12 DEF JInv
<1>9. ASSUME Become(NextPort(Top)), troubled' = (troubled \/ At(Root, Top.port) # {}), UNCHANGED answers
      PROVE  JInv'
  <2>1. PICK c : c = NextPort(Top)
    OBVIOUS
  <2>2. /\ IsCall(c) /\ c.dev = Top.dev /\ c.stage \in {"reset", "port", "created"} /\ Become(c)
        /\ \A p \in Nat : Past(Top, p) => Past(c, p)
    BY <1>1, <1>4, <1>9, <2>1, NextPortCall, NextPast
  <2>3. c.stage \notin Early \cup {"failed", "child"}
    BY <2>2 DEF Early
  <2>4. Calls' /\ Children' /\ Addressing' /\ stack' # <<>> /\ Top' = c
    BY <1>1, <1>5, <2>2, <2>3, BecomesCall
  <2>5. troubled' \in BOOLEAN /\ (~troubled' => ~troubled)
    BY <1>9 DEF JInv, Locals
  <2>6. Hearing'
    BY <1>1, <1>3, <1>6, <1>7, <1>9, <2>3, <2>4, <2>5, HearingBecame
  <2>7. Locals'
    BY <1>1, <2>5 DEF JInv, Locals
  <2>. QED
    BY <1>3, <2>4, <2>6, <2>7 DEF JInv
<1>. QED
  BY <1>8, <1>9 DEF RootPort

(* usb_device_create returns to its caller.                                *)
LEMMA JFinish ==
  ASSUME JInv, Finish
  PROVE  JInv'
<1>1. /\ stack # <<>> /\ Top.stage \in {"created", "failed"} /\ pc = "idle"
      /\ UNCHANGED <<pc, tds, element, seen, status, stalled, asked, AddressPool, answers, troubled>>
  BY DEF Finish, uhciVars, schedule, transfer
<1>2. asked = FALSE /\ asked' = FALSE /\ ~Took
  <2>1. Top.stage \notin Requests
    BY <1>1, RequestNames
  <2>. QED
    BY <1>1, <2>1 DEF JInv, Asking, Took, Going
<1>3. Asking' /\ Transfers' /\ ~Took'
  BY <1>1, <1>2, Settled DEF JInv
<1>4. Locals'
  BY <1>1 DEF JInv, Locals
<1>5. ASSUME ~troubled
      PROVE  /\ Top.stage = "created"
             /\ \A d \in Devices : answers[d] # 0
             /\ \A d \in Devices : answers[d] # OFF => answers[d] = Address[d]
  <2>1. Top.stage = "created"
    BY <1>1, <1>5 DEF JInv, Hearing
  <2>2. ASSUME NEW d \in Devices, answers[d] = 0 PROVE FALSE
    BY <1>5, <2>1, <2>2 DEF JInv, Hearing, Unaddressed, Early
  <2>3. ASSUME NEW d \in Devices, answers[d] # OFF PROVE answers[d] = Address[d]
    BY <1>2, <1>5, <2>3, AddressHeard DEF JInv
  <2>. QED
    BY <2>1, <2>2, <2>3
<1>6. CASE Len(stack) = 1
  <2>1. stack' = <<>> /\ UNCHANGED <<Address, created>> /\ Len(stack') = 0
    BY <1>6 DEF Finish
  <2>2. Calls'
    BY <2>1 DEF Calls
  <2>3. Children'
    BY <1>6, <2>1, ChildrenDone DEF JInv
  <2>4. Addressing'
    <3>1. \A d \in Devices, i \in 1..Len(stack) : stack[i].dev # d
      BY <1>6, DeviceAssumption DEF JInv, Calls
    <3>2. 2..0 = {}
      OBVIOUS
    <3>. QED
      BY <1>1, <2>1, <3>1, <3>2 DEF JInv, Addressing
  <2>5. Hearing'
    BY <1>1, <1>3, <1>5, <2>1 DEF JInv, Hearing
  <2>. QED
    BY <1>3, <1>4, <2>2, <2>3, <2>4, <2>5 DEF JInv
<1>7. CASE Len(stack) # 1
  <2>1. /\ Len(stack) \in Nat /\ Len(stack) \in 1..Len(stack) /\ Top = stack[Len(stack)]
        /\ Top.dev \in Devices
    BY <1>1, <1>7, TopOfStack DEF JInv
  <2>2. PICK m \in Nat : m = Len(stack) - 1 /\ m \in 1..Len(stack) /\ m < Len(stack)
    <3>1. PICK n \in Nat : n = Len(stack) /\ n \in 1..n /\ n # 1
      BY <1>7, <2>1
    <3>2. n - 1 \in Nat /\ n - 1 \in 1..n /\ n - 1 < n
      BY <3>1
    <3>. QED
      BY <3>1, <3>2
  <2>3. PICK caller : caller = stack[m]
    OBVIOUS
  <2>4. IsCall(caller) /\ caller.stage = "child" /\ PortOf[Top.dev] = caller.port
    BY <1>7, <2>1, <2>2, <2>3 DEF JInv, Calls
  <2>5. ASSUME NEW c, c = NextPort(caller) \/ c = Retry(caller),
               stack' = Append(SubSeq(stack, 1, Len(stack) - 2), c)
        PROVE  /\ Calls' /\ Pops(c) /\ c.stage \notin Early \cup {"failed", "child"}
               /\ \A p \in Nat : Past(caller, p) => Past(c, p)
    <3>1. IsCall(c) /\ c.dev = caller.dev /\ c.stage \in {"reset", "port", "created"}
      BY <2>4, <2>5, NextPortCall, RetryCall
    <3>2. c.stage \notin Early \cup {"failed", "child"}
      BY <3>1 DEF Early
    <3>3. c.dev = stack[Len(stack) - 1].dev
      BY <2>2, <2>3, <3>1
    <3>4. Calls' /\ Pops(c)
      BY <1>1, <1>7, <2>5, <3>1, <3>2, <3>3, Popped DEF JInv
    <3>. QED
      BY <2>4, <2>5, <3>2, <3>4, NextPast, RetryPast
  <2>6. ASSUME NEW c, Pops(c), c.stage \notin Early \cup {"failed", "child"} PROVE stack' # <<>> /\ Top' = c
    BY <2>6 DEF Pops
  <2>7. CASE Top.stage = "created"
    <3>1. PICK c : c = NextPort(caller)
      OBVIOUS
    <3>2. /\ stack' = Append(SubSeq(stack, 1, Len(stack) - 2), c)
          /\ created' = created \cup {Top.dev} /\ UNCHANGED Address
      BY <1>7, <2>2, <2>3, <2>7, <3>1 DEF Finish
    <3>3. /\ Calls' /\ Pops(c) /\ c.stage \notin Early \cup {"failed", "child"}
          /\ \A p \in Nat : Past(caller, p) => Past(c, p)
      BY <2>5, <3>1, <3>2
    <3>4. Past(c, PortOf[Top.dev])
      <4>1. /\ c.stage \in {"reset", "port", "created"}
            /\ c.stage # "created" => c.port = caller.port + 1
        BY <2>4, <3>1, NextPortCall
      <4>2. caller.port < caller.port + 1
        BY <2>4, DeviceAssumption DEF IsCall, CallSet
      <4>. QED
        BY <2>4, <4>1, <4>2 DEF Past
    <3>5. \A p \in Nat : Past(stack[Len(stack) - 1], p) => Past(c, p)
      BY <2>2, <2>3, <3>3
    <3>6. Children'
      BY <1>1, <1>7, <3>2, <3>3, <3>4, <3>5, ChildrenPopped DEF JInv
    <3>7. Addressing'
      BY <1>1, <1>7, <2>7, <3>2, <3>3, AddressingPopped DEF JInv
    <3>8. Hearing'
      BY <1>1, <1>3, <1>5, <2>6, <3>2, <3>3, HearingBecame
    <3>. QED
      BY <1>3, <1>4, <3>3, <3>6, <3>7, <3>8 DEF JInv
  <2>8. CASE Top.stage = "failed"
    <3>1. PICK c : c = Retry(caller)
      OBVIOUS
    <3>2. /\ stack' = Append(SubSeq(stack, 1, Len(stack) - 2), c)
          /\ created' = created /\ Address' = [Address EXCEPT ![Top.dev] = 0]
      BY <1>7, <2>2, <2>3, <2>8, <3>1 DEF Finish
    <3>3. /\ Calls' /\ Pops(c) /\ c.stage \notin Early \cup {"failed", "child"}
          /\ \A p \in Nat : Past(caller, p) => Past(c, p)
      BY <2>5, <3>1, <3>2
    <3>4. \A p \in Nat : Past(stack[Len(stack) - 1], p) => Past(c, p)
      BY <2>2, <2>3, <3>3
    <3>5. Children'
      BY <1>1, <1>7, <2>8, <3>2, <3>3, <3>4, ChildrenPopped DEF JInv
    <3>6. Addressing'
      BY <1>1, <1>7, <3>2, <3>3, AddressingPopped DEF JInv
    <3>7. troubled
      BY <1>5, <2>8
    <3>8. Hearing'
      BY <1>1, <3>7 DEF JInv, Hearing
    <3>. QED
      BY <1>3, <1>4, <3>3, <3>5, <3>6, <3>8 DEF JInv
  <2>. QED
    BY <1>1, <2>7, <2>8
<1>. QED
  BY <1>6, <1>7

-----------------------------------------------------------------------------
(* The invariant of the enumeration holds in every state.                  *)
THEOREM Enumerates == Spec => []JInv
<1>1. Init => JInv
  BY JInit
<1>2. IInv /\ IInv' /\ JInv /\ [Next]_vars => JInv'
  <2>. SUFFICES ASSUME IInv, IInv', JInv, [Next]_vars PROVE JInv'
    OBVIOUS
  <2>1. CASE Request
    BY <2>1, JRequest
  <2>2. CASE Transfer
    BY <2>2, JTransfer
  <2>3. CASE Success
    BY <2>3, JSuccess
  <2>4. CASE Misled
    BY <2>4, JMisled
  <2>5. CASE Failure
    BY <2>5, JFailure
  <2>6. CASE PortEnabled
    BY <2>6, JPortEnabled
  <2>7. CASE PortNotYet
    BY <2>7, JPortNotYet
  <2>8. CASE PortEmpty
    BY <2>8, JPortEmpty
  <2>9. CASE Start
    BY <2>9, JStart
  <2>10. CASE RootPort
    BY <2>10, JRootPort
  <2>11. CASE Finish
    BY <2>11, JFinish
  <2>12. CASE Controller
    BY <2>12, JController
  <2>13. ASSUME NEW q \in QHs, NEW ok \in BOOLEAN, Packet(q, ok) PROVE JInv'
    BY <2>13, JInterruptPacket, JPacket
  <2>14. CASE UNCHANGED vars
    <3>1. /\ Top' = Top /\ FreeAddresses' = FreeAddresses /\ Answering' = Answering
          /\ (Took' <=> Took) /\ (Going' <=> Going)
      BY <2>14 DEF vars, uhciVars, schedule, transfer, enumeration, Top, FreeAddresses, Answering,
                   Took, Going, AtEnd, Through
    <3>2. Calls' /\ Children' /\ Addressing'
      BY <2>14, EnumerationSame DEF JInv, vars
    <3>3. Hearing'
      BY <2>14, <3>1, HearingSame DEF JInv, vars
    <3>4. Asking' /\ Locals'
      BY <2>14, <3>1 DEF JInv, Asking, Locals, vars, uhciVars, transfer, enumeration
    <3>5. Transfers'
      BY <2>14, <3>1 DEF JInv, Transfers, Behind, NoStall, Through, vars, uhciVars, schedule, transfer
    <3>. QED
      BY <3>2, <3>3, <3>4, <3>5 DEF JInv
  <2>. QED
    BY <2>1, <2>2, <2>3, <2>4, <2>5, <2>6, <2>7, <2>8, <2>9, <2>10, <2>11, <2>12, <2>13, <2>14
    DEF Next, Host
<1>. QED
  BY Inductive, <1>1, <1>2, PTL DEF Spec

(* Every variable of the driver and of the enumeration stays in its range: *)
(* the loops over the ports and the attempts never leave theirs, Element   *)
(* is never moved beyond the end of a queue, and the call of               *)
(* usb_device_create that is not the last waits for a child.               *)
THEOREM TypeCorrect == Spec => []TypeOK
<1>1. ASSUME IInv, JInv PROVE TypeOK
  <2>1. ASSUME NEW q \in QHs
        PROVE  /\ tds[q] \in Seq(TDs) /\ element[q] \in 1..(Len(tds[q]) + 1)
               /\ buffer[q] \subseteq Blocks
    <3>1. /\ tds[q] \in Seq(TDs) /\ element[q] \in Nat \ {0} /\ element[q] <= Len(tds[q]) + 1
          /\ buffer[q] \subseteq Blocks
      BY <1>1 DEF IInv, Types, PoolTypes, QueueTypes, JInv, Transfers
    <3>. QED
      BY <3>1
  <2>2. /\ TransferDescMap \subseteq TDs /\ QueueHeadMap \subseteq QHs /\ MemMap \subseteq Blocks
        /\ frameList \in [Frames -> QHs] /\ head \in [QHs -> QHs \cup {TERMINATE}]
        /\ td \in [TDs -> {"active", "inactive", "stalled"}]
        /\ retiring \in QHs \cup {TERMINATE} /\ current \in QHs /\ interrupts \subseteq QHs
    BY <1>1 DEF IInv, Types, PoolTypes, QueueTypes
  <2>3. /\ pc \in {"idle", "add", "wait", "check", "free", "unlink", "return", "panic", "undefined"}
        /\ seen \in TDs /\ status \in BOOLEAN /\ stalled \in BOOLEAN /\ asked \in BOOLEAN
        /\ troubled \in BOOLEAN
    BY <1>1 DEF JInv, Asking, Locals, Busy
  <2>4. ASSUME NEW i \in DOMAIN stack
        PROVE  /\ stack[i].dev \in Devices \cup {Root}
               /\ stack[i].stage \in Requests \cup {"port", "child", "start", "created", "failed"}
               /\ stack[i].port \in 1..HubPorts \cup 1..2
               /\ stack[i].attempt \in 0..(PortTries - 1)
               /\ i < Len(stack) <=> stack[i].stage = "child"
    <3>1. i \in 1..Len(stack)
      BY <1>1, <2>4 DEF JInv, Calls
    <3>. QED
      BY <1>1, <3>1 DEF JInv, Calls, IsCall, CallSet, Stages
  <2>5. /\ Address \in [Devices -> 0..MaxDevices] /\ AddressPool \subseteq 1..MaxDevices
        /\ created \subseteq Devices /\ answers \in [Devices -> {OFF} \cup 0..MaxDevices]
    BY <1>1 DEF JInv, Addressing, Children, Hearing
  <2>. QED
    BY <2>1, <2>2, <2>3, <2>4, <2>5 DEF TypeOK
<1>. QED
  BY Inductive, Enumerates, <1>1, PTL

(* The addresses that usb_uhci_address_alloc hands out: devices in use     *)
(* have different ones, all marked, and as long as nothing goes wrong      *)
(* each device that listens does so at the address the driver has for it,  *)
(* alone, so that no request between two resets reaches two devices.       *)
THEOREM AddressesSafe == Spec => []AddressesAgree
<1>1. ASSUME JInv PROVE AddressesAgree
  <2>1. \A d \in created : d \in Devices /\ Address[d] # 0
    BY <1>1 DEF JInv, Children, Addressing
  <2>2. \A d \in created : Address[d] \in AddressPool
    BY <1>1, <2>1 DEF JInv, Addressing
  <2>3. \A d, e \in created : d # e => Address[d] # Address[e]
    BY <1>1, <2>1 DEF JInv, Addressing
  <2>4. ASSUME ~troubled, ~asked, NEW d \in Devices, answers[d] # OFF
        PROVE  answers[d] = Address[d] /\ \A e \in Devices \ {d} : answers[e] # answers[d]
    <3>1. ~Took
      BY <2>4 DEF Took, Going
    <3>2. ASSUME NEW e \in Devices, answers[e] # OFF PROVE answers[e] = Address[e]
      BY <1>1, <2>4, <3>1, <3>2, AddressHeard DEF JInv
    <3>3. ASSUME NEW e \in Devices, answers[e] = answers[d] PROVE e = d
      <4>1. Address[e] = Address[d] /\ answers[d] = Address[d]
        BY <2>4, <3>2, <3>3
      <4>2. CASE Address[d] # 0
        BY <1>1, <4>1, <4>2 DEF JInv, Addressing
      <4>3. CASE Address[d] = 0
        <5>1. Unaddressed(d) /\ Unaddressed(e)
          BY <1>1, <2>4, <3>3, <4>1, <4>3 DEF JInv, Hearing
        <5>. QED
          BY <3>1, <5>1, DeviceAssumption DEF Unaddressed, Early, At
      <4>. QED
        BY <4>2, <4>3
    <3>. QED
      BY <2>4, <3>2, <3>3
  <2>. QED
    BY <2>2, <2>3, <2>4 DEF AddressesAgree
<1>. QED
  BY Enumerates, <1>1, PTL
=============================================================================
