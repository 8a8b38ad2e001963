-------------------------- MODULE NetReceive_proofs --------------------------
(***************************************************************************)
(* Proofs about the receive path of the RTL8139, for a ring of any size,   *)
(* packets of any lengths and any number of them.                          *)
(*                                                                         *)
(* The card numbers packets in the order in which it accepts them, so the  *)
(* queue holds the numbers from taken + 1 to copied (Queue), and the ring  *)
(* those behind, one after the other from CurrentRxPointer to CBR.  Where  *)
(* each begins is a function that need not be computed: that one exists is *)
(* the invariant (Layout).  Positions are counted on beyond the end of the *)
(* ring; Wrap brings them back.  The recursive queue, and the recursive    *)
(* walk through the ring, are what the numbers say by induction.           *)
(***************************************************************************)
EXTENDS NetReceive, FiniteSetTheorems, SequenceTheorems, TLAPS

(* Packets up to this one were queued, and those from first on are in the  *)
(* ring.                                                                   *)
copied == IF last # NULL THEN last ELSE taken
first  == IF pc = "advance" THEN copied ELSE copied + 1

Wrap(u) == IF u >= Ring THEN u - Ring ELSE u

CardTypes ==
  /\ memory \in [Memory -> Nat] /\ \A u \in Memory : memory[u] <= accepted
  /\ length \in [{NULL} \cup Packets -> Nat]
  /\ accepted \in 0..MaxPackets

DriverTypes ==
  /\ cbr \in 0..(Ring - 1) /\ pointer \in 0..(Ring - 1) /\ capr = pointer
  /\ limit \in 0..Ring /\ seen \in 0..(Ring - 1)
  /\ pc \in {"idle", "read", "loop", "advance", "ack"}

QueueTypes ==
  /\ current \in Nat /\ last \in Nat /\ taken \in Nat
  /\ next \in [{NULL} \cup Packets -> {NULL} \cup Packets]
  /\ worker \in {"none", "wait", "take", "free"}

Types == CardTypes /\ DriverTypes /\ QueueTypes

(* The queue.                                                              *)
Queue ==
  /\ taken <= copied /\ copied <= accepted
  /\ current = IF taken < copied THEN taken + 1 ELSE NULL
  /\ last # NULL => taken < last
  /\ \A p \in Packets : p > taken => next[p] = IF p < copied THEN p + 1 ELSE NULL
  /\ alive = ((taken + 1)..copied) \cup (IF worker = "free" THEN {taken} ELSE {})
  /\ worker = "take" => current # NULL
  /\ worker = "free" => taken # NULL
  /\ pc = "advance" => last # NULL

(* Packet p lies in the ring from position u on.                           *)
Occupies(p, u) == \A v \in Memory : memory[v] = p <=> v \in u..(u + length[p] - 1)

(* The packets of the ring begin where s says.                             *)
LayoutBy(s) ==
  /\ s[first] = pointer /\ cbr = Wrap(s[accepted + 1])
  /\ s[accepted + 1] < pointer + Ring
  /\ \A p \in first..accepted :
       /\ length[p] \in 1..(Ring - 1) /\ s[p + 1] = s[p] + length[p]
       /\ Occupies(p, Wrap(s[p]))
  /\ \A p, q \in first..(accepted + 1) : p < q => s[p] < s[q] /\ s[p] + length[p] <= s[q]
  /\ pc \in {"loop", "advance"} =>
       \E q \in first..(accepted + 1) :
         /\ seen = Wrap(s[q]) /\ limit = IF s[q] >= Ring THEN Ring ELSE s[q]
         /\ pc = "advance" => q > first

Layout == \E s \in [Nat -> Nat] : LayoutBy(s)

(* The inductive invariant.                                                *)
IInv == Types /\ Queue /\ Layout

-----------------------------------------------------------------------------
LEMMA InitIInv == Init => IInv
<1>. SUFFICES ASSUME Init PROVE IInv
  OBVIOUS
<1>. USE RingAssumption DEF Init, NULL, Memory
<1>1. Types
  BY DEF Types, CardTypes, DriverTypes, QueueTypes, Packets
<1>2. copied = 0 /\ first = 1
  BY DEF copied, first
<1>3. Queue
  BY <1>2 DEF Queue, Packets
<1>4. LayoutBy([n \in Nat |-> 0])
  BY <1>2 DEF LayoutBy, Wrap
<1>5. Layout
  BY <1>4 DEF Layout
<1>. QED
  BY <1>1, <1>3, <1>5 DEF IInv

LEMMA Copied ==
  ASSUME Types, Queue
  PROVE  /\ copied \in 0..accepted /\ first \in 1..(accepted + 1)
         /\ taken <= copied
BY DEF Types, Queue, CardTypes, QueueTypes, DriverTypes, copied, first, NULL

(* Remainders of what is less than two rings away.                         *)
LEMMA Remainders ==
  ASSUME NEW a \in Nat, a < 2 * Ring
  PROVE  a % Ring = Wrap(a)
<1>1. CASE a < Ring
  BY <1>1, RingAssumption DEF Wrap
<1>2. CASE a >= Ring
  <2>1. a % Ring = a - Ring
    BY <1>2, RingAssumption
  <2>. QED
    BY <1>2, <2>1 DEF Wrap
<1>. QED
  BY <1>1, <1>2, RingAssumption

(* What the card takes in fits between its pointer and the driver's.       *)
LEMMA Fits ==
  ASSUME NEW read \in 0..(Ring - 1), NEW to \in Nat, read <= to, to < read + Ring,
         NEW len \in 1..(Ring - 1),
         LET free == (Ring + read - Wrap(to)) % Ring IN free = 0 \/ len < free
  PROVE  /\ to + len < read + Ring
         /\ (Wrap(to) + len) % Ring = Wrap(to + len)
<1>. USE RingAssumption
<1>1. to + len < read + Ring
  <2>1. CASE to = read
    BY <2>1
  <2>2. CASE to # read /\ to < Ring
    <3>1. Ring + read - Wrap(to) \in 1..(Ring - 1)
      BY <2>2 DEF Wrap
    <3>2. (Ring + read - Wrap(to)) % Ring = Ring + read - Wrap(to)
      BY <3>1, Remainders DEF Wrap
    <3>. QED
      BY <3>1, <3>2, <2>2 DEF Wrap
  <2>3. CASE to # read /\ to >= Ring
    <3>1. Ring + read - Wrap(to) \in (Ring + 1)..(2 * Ring - 1)
      BY <2>3 DEF Wrap
    <3>2. (Ring + read - Wrap(to)) % Ring = read - Wrap(to)
      BY <3>1, Remainders DEF Wrap
    <3>. QED
      BY <3>1, <3>2, <2>3 DEF Wrap
  <2>. QED
    BY <2>1, <2>2, <2>3
<1>2. Wrap(to) + len \in Nat /\ Wrap(to) + len < 2 * Ring
  BY <1>1 DEF Wrap
<1>3. (Wrap(to) + len) % Ring = Wrap(Wrap(to) + len)
  BY <1>2, Remainders
<1>4. Wrap(Wrap(to) + len) = Wrap(to + len)
  BY <1>1 DEF Wrap
<1>. QED
  BY <1>1, <1>3, <1>4

-----------------------------------------------------------------------------
(* A packet arrives.                                                       *)
LEMMA ArriveStep ==
  ASSUME IInv, NEW len \in Lengths, Arrive(len)
  PROVE  IInv'
<1>. DEFINE N == accepted + 1
<1>. USE RingAssumption
<1>1. /\ accepted < MaxPackets /\ accepted' = N
      /\ LET free == (Ring + capr - cbr) % Ring IN free = 0 \/ len < free
      /\ length' = [length EXCEPT ![N] = len]
      /\ memory' = [u \in Memory |-> IF u \in cbr..(cbr + len - 1) THEN N ELSE memory[u]]
      /\ cbr' = (cbr + len) % Ring
  BY DEF Arrive
<1>2. /\ UNCHANGED <<pointer, limit, seen, pc, capr>>
      /\ UNCHANGED <<current, last, next, alive, worker, taken>>
  BY DEF Arrive, handler, queue, thread
<1>3. /\ accepted \in Nat /\ N \in Packets /\ len \in 1..(Ring - 1) /\ Ring \in Nat
      /\ copied \in 0..accepted /\ first \in 1..N
      /\ pointer \in 0..(Ring - 1) /\ capr = pointer /\ cbr \in 0..(Ring - 1)
      /\ \A u \in Memory : memory[u] \in Nat /\ memory[u] <= accepted
      /\ length \in [{NULL} \cup Packets -> Nat]
  BY <1>1, Copied DEF IInv, Types, CardTypes, DriverTypes, Packets
<1>4. copied' = copied /\ first' = first
  BY <1>2 DEF copied, first
<1>5. PICK s \in [Nat -> Nat] : LayoutBy(s)
  BY DEF IInv, Layout
<1>6. s[N] \in Nat /\ pointer <= s[N] /\ s[N] < pointer + Ring /\ cbr = Wrap(s[N])
  BY <1>3, <1>5 DEF LayoutBy
<1>7. s[N] + len < pointer + Ring /\ cbr' = Wrap(s[N] + len)
  BY <1>1, <1>3, <1>6, Fits
<1>8. PICK t \in [Nat -> Nat] : (\A n \in 0..N : t[n] = s[n]) /\ t[N + 1] = s[N] + len
  <2>. DEFINE f == [n \in Nat |-> IF n = N + 1 THEN s[N] + len ELSE s[n]]
  <2>1. f \in [Nat -> Nat] /\ (\A n \in 0..N : f[n] = s[n]) /\ f[N + 1] = s[N] + len
    BY <1>3, <1>6
  <2>. QED
    BY <2>1
<1>9. length'[N] = len /\ \A p \in first..accepted : length'[p] = length[p]
  BY <1>1, <1>3 DEF Packets
<1>10. \A v \in Memory : memory'[v] = N <=> v \in cbr..(cbr + len - 1)
  BY <1>1, <1>3
<1>11. ASSUME NEW p \in first..accepted
       PROVE  /\ p \in Nat /\ length[p] \in 1..(Ring - 1) /\ s[p + 1] = s[p] + length[p]
              /\ pointer <= s[p] /\ s[p] + length[p] <= s[N]
              /\ \A v \in Memory :
                   memory[v] = p <=> v \in Wrap(s[p])..(Wrap(s[p]) + length[p] - 1)
  <2>1. p \in first..N /\ p < N /\ p \in Nat /\ first \in first..N /\ N \in first..N
    BY <1>3
  <2>2. length[p] \in 1..(Ring - 1) /\ s[p + 1] = s[p] + length[p] /\ Occupies(p, Wrap(s[p]))
    BY <1>5 DEF LayoutBy
  <2>3. s[p] + length[p] <= s[N]
    BY <2>1, <1>5 DEF LayoutBy
  <2>4. pointer <= s[p]
    <3>1. CASE p = first
      BY <3>1, <1>3, <1>5 DEF LayoutBy
    <3>2. CASE p # first
      <4>1. first < p /\ s[first] < s[p] /\ s[first] = pointer
        BY <2>1, <3>2, <1>3, <1>5 DEF LayoutBy
      <4>. QED
        BY <4>1, <1>3, <2>1
    <3>. QED
      BY <3>1, <3>2
  <2>. QED
    BY <2>1, <2>2, <2>3, <2>4 DEF Occupies
<1>12. ASSUME NEW p \in first..accepted, NEW v \in Memory
       PROVE  memory'[v] = p <=> v \in Wrap(s[p])..(Wrap(s[p]) + length[p] - 1)
  <2>1. v \in Wrap(s[p])..(Wrap(s[p]) + length[p] - 1) => v \notin cbr..(cbr + len - 1)
    <3>. v \in Int
      BY DEF Memory
    <3>1. /\ s[p] \in Nat /\ length[p] \in 1..(Ring - 1) /\ pointer <= s[p]
          /\ s[p] + length[p] <= s[N] /\ s[N] + len < pointer + Ring /\ pointer \in 0..(Ring - 1)
          /\ cbr = Wrap(s[N]) /\ len \in 1..(Ring - 1) /\ s[N] \in Nat
      BY <1>11, <1>5, <1>7, <1>3, <1>6
    <3>. QED
      BY <3>1 DEF Wrap
  <2>2. p # N /\ memory'[v] = IF v \in cbr..(cbr + len - 1) THEN N ELSE memory[v]
    BY <1>1, <1>3
  <2>. QED
    BY <2>1, <2>2, <1>11
<1>13. LayoutBy(t)'
  <2>1. t[first] = pointer /\ cbr' = Wrap(t[N + 1]) /\ t[N + 1] < pointer + Ring
    BY <1>3, <1>5, <1>7, <1>8 DEF LayoutBy
  <2>2. ASSUME NEW p \in first..N
        PROVE  /\ length'[p] \in 1..(Ring - 1) /\ t[p + 1] = t[p] + length'[p]
               /\ Occupies(p, Wrap(t[p]))'
    <3>1. CASE p = N
      BY <3>1, <1>3, <1>6, <1>8, <1>9, <1>10 DEF Occupies
    <3>2. CASE p \in first..accepted
      <4>1. p \in 0..N /\ p + 1 \in 0..N
        BY <3>2, <1>3
      <4>. QED
        BY <4>1, <3>2, <1>8, <1>9, <1>11, <1>12 DEF Occupies
    <3>. QED
      BY <3>1, <3>2, <1>3
  <2>3. ASSUME NEW p \in first..(N + 1), NEW q \in first..(N + 1), p < q
        PROVE  t[p] < t[q] /\ t[p] + length'[p] <= t[q]
    <3>0. p \in 0..N /\ p \in first..N
      BY <2>3, <1>3
    <3>1. CASE q = N + 1
      <4>1. CASE p = N
        BY <4>1, <3>0, <3>1, <1>3, <1>6, <1>8, <1>9
      <4>2. CASE p \in first..accepted
        BY <4>2, <3>0, <3>1, <1>3, <1>6, <1>8, <1>9, <1>11, <1>5, SMTT(30)
      <4>. QED
        BY <4>1, <4>2, <3>0, <1>3
    <3>2. CASE q \in first..N
      <4>1. q \in 0..N /\ p \in first..accepted
        BY <2>3, <3>2, <1>3
      <4>. QED
        BY <4>1, <3>0, <3>2, <2>3, <1>5, <1>8, <1>9 DEF LayoutBy
    <3>. QED
      BY <3>1, <3>2, <1>3
  <2>4. pc \in {"loop", "advance"} =>
          \E q \in first..(N + 1) :
            /\ seen = Wrap(t[q]) /\ limit = IF t[q] >= Ring THEN Ring ELSE t[q]
            /\ pc = "advance" => q > first
    <3>. SUFFICES ASSUME pc \in {"loop", "advance"}
                  PROVE  \E q \in first..(N + 1) :
                           /\ seen = Wrap(t[q])
                           /\ limit = IF t[q] >= Ring THEN Ring ELSE t[q]
                           /\ pc = "advance" => q > first
      OBVIOUS
    <3>1. PICK q \in first..N : /\ seen = Wrap(s[q])
                                /\ limit = IF s[q] >= Ring THEN Ring ELSE s[q]
                                /\ pc = "advance" => q > first
      BY <1>5 DEF LayoutBy
    <3>2. q \in first..(N + 1) /\ t[q] = s[q]
      BY <1>3, <1>8
    <3>. QED
      BY <3>1, <3>2
  <2>. QED
    BY <1>1, <1>2, <1>4, <2>1, <2>2, <2>3, <2>4 DEF LayoutBy
<1>14. Layout'
  BY <1>8, <1>13 DEF Layout
<1>15. Types'
  <2>1. CardTypes'
    <3>1. memory' \in [Memory -> Nat] /\ \A u \in Memory : memory'[u] <= N
      BY <1>1, <1>3
    <3>2. length' \in [{NULL} \cup Packets -> Nat]
      BY <1>1, <1>3
    <3>. QED
      BY <1>1, <1>3, <3>1, <3>2 DEF CardTypes, Packets
  <2>2. cbr' \in 0..(Ring - 1)
    BY <1>3, <1>6, <1>7 DEF Wrap
  <2>. QED
    BY <1>2, <2>1, <2>2 DEF IInv, Types, DriverTypes, QueueTypes
<1>16. Queue'
  BY <1>1, <1>2, <1>3, <1>4 DEF IInv, Queue
<1>. QED
  BY <1>14, <1>15, <1>16 DEF IInv

-----------------------------------------------------------------------------
(* Steps that leave the ring as it is.                                     *)
LEMMA LayoutSame ==
  ASSUME Layout, UNCHANGED <<memory, length, accepted, cbr, pointer>>,
         copied' = copied, first' = first, pc' \notin {"loop", "advance"}
  PROVE  Layout'
<1>1. PICK s \in [Nat -> Nat] : LayoutBy(s)
  BY DEF Layout
<1>2. LayoutBy(s)'
  BY <1>1 DEF LayoutBy, Occupies
<1>. QED
  BY <1>2 DEF Layout

LEMMA QuietStep ==
  ASSUME IInv,
         HandlerEnter \/ HandlerExit \/ StartWorker \/ SendTestPacket \/ Awake \/ Free
  PROVE  IInv'
<1>. USE DEF HandlerEnter, HandlerExit, StartWorker, SendTestPacket, Awake, Free,
             card, irq, handler, queue, thread
<1>1. UNCHANGED <<memory, length, accepted, cbr, capr, pointer, limit, seen>>
  OBVIOUS
<1>2. UNCHANGED <<current, last, next, taken>>
  OBVIOUS
<1>3. pc \in {"idle", "loop", "ack"} /\ pc' \in {"idle", "read", "ack"}
  OBVIOUS
<1>4. copied' = copied /\ first' = first
  BY <1>2, <1>3 DEF copied, first
<1>5. Layout'
  BY <1>1, <1>3, <1>4, LayoutSame DEF IInv
<1>6. Types'
  BY <1>1, <1>2, <1>3 DEF IInv, Types, CardTypes, DriverTypes, QueueTypes
<1>7. \/ worker' = worker /\ alive' = alive
      \/ worker = "none" /\ worker' = "wait" /\ alive' = alive
      \/ worker = "wait" /\ worker' = "take" /\ alive' = alive /\ current # NULL
      \/ worker = "free" /\ worker' = "wait" /\ alive' = alive \ {taken}
  OBVIOUS
<1>8. alive' = ((taken + 1)..copied) \cup (IF worker' = "free" THEN {taken} ELSE {})
  BY <1>7 DEF IInv, Queue, Types, QueueTypes
<1>9. Queue'
  <2>. USE DEF IInv, Queue
  <2>1. worker' = "take" => current # NULL
    BY <1>7
  <2>2. worker' = "free" => taken # NULL
    BY <1>7
  <2>. QED
    BY <1>1, <1>2, <1>3, <1>4, <1>8, <2>1, <2>2
<1>. QED
  BY <1>5, <1>6, <1>9 DEF IInv

LEMMA StutterStep ==
  ASSUME IInv, UNCHANGED vars
  PROVE  IInv'
<1>. USE DEF vars, card, irq, handler, queue, thread
<1>1. copied' = copied /\ first' = first
  BY DEF copied, first
<1>2. PICK s \in [Nat -> Nat] : LayoutBy(s)
  BY DEF IInv, Layout
<1>3. LayoutBy(s)'
  BY <1>1, <1>2 DEF LayoutBy, Occupies
<1>4. Layout'
  BY <1>3 DEF Layout
<1>5. Types' /\ Queue'
  BY <1>1 DEF IInv, Types, CardTypes, DriverTypes, QueueTypes, Queue
<1>. QED
  BY <1>4, <1>5 DEF IInv

(* The worker takes a packet.                                              *)
LEMMA TakeStep ==
  ASSUME IInv, Take
  PROVE  IInv'
<1>1. /\ pc = "idle" /\ worker = "take" /\ worker' = "free" /\ taken' = current
      /\ current' = next[current] /\ last' = IF current' = NULL THEN NULL ELSE last
      /\ UNCHANGED <<memory, length, accepted, cbr, capr, pointer, limit, seen, pc, next, alive>>
  BY DEF Take, card, irq, handler
<1>2. /\ taken \in Nat /\ copied \in Nat /\ taken < copied /\ current = taken + 1
      /\ copied <= accepted /\ accepted <= MaxPackets /\ last = copied /\ accepted \in Nat
  BY <1>1 DEF IInv, Queue, Types, QueueTypes, CardTypes, copied, NULL
<1>3. current \in Packets /\ current' = IF current < copied THEN current + 1 ELSE NULL
  BY <1>1, <1>2, RingAssumption DEF IInv, Queue, Packets
<1>4. copied' = copied /\ first' = first
  BY <1>1, <1>2, <1>3 DEF copied, first, NULL
<1>5. Layout'
  BY <1>1, <1>4, LayoutSame DEF IInv
<1>6. Types'
  BY <1>1, <1>2, <1>3 DEF IInv, Types, CardTypes, DriverTypes, QueueTypes, NULL
<1>7. alive' = ((taken' + 1)..copied) \cup {taken'}
  BY <1>1, <1>2 DEF IInv, Queue
<1>8. \A p \in Packets : p > taken' => next[p] = IF p < copied THEN p + 1 ELSE NULL
  BY <1>1, <1>2 DEF IInv, Queue, Packets
<1>9. Queue'
  BY <1>1, <1>2, <1>3, <1>4, <1>7, <1>8 DEF Queue, NULL
<1>. QED
  BY <1>5, <1>6, <1>9 DEF IInv

-----------------------------------------------------------------------------
(* The handler finds out how far the card has written.                     *)
LEMMA ReadLimitStep ==
  ASSUME IInv, ReadLimit
  PROVE  IInv'
<1>1. /\ pc = "read" /\ pc' = "loop" /\ seen' = cbr
      /\ limit' = IF cbr < pointer THEN Ring ELSE cbr
      /\ UNCHANGED <<memory, length, accepted, cbr, capr, pointer>>
      /\ UNCHANGED <<current, last, next, alive, worker, taken>>
  BY DEF ReadLimit, card, queue, thread
<1>2. copied' = copied /\ first' = first /\ first \in 1..(accepted + 1) /\ accepted \in Nat
  BY <1>1, Copied DEF copied, first, IInv, Types, CardTypes
<1>3. PICK s \in [Nat -> Nat] : LayoutBy(s)
  BY DEF IInv, Layout
<1>4. pointer \in 0..(Ring - 1) /\ cbr \in 0..(Ring - 1) /\ Ring \in Nat
  BY RingAssumption DEF IInv, Types, DriverTypes
<1>. DEFINE N == accepted + 1
<1>5. s[N] \in Nat /\ pointer <= s[N] /\ s[N] < pointer + Ring /\ cbr = Wrap(s[N])
  <2>1. CASE first = N
    BY <2>1, <1>2, <1>3, <1>4 DEF LayoutBy
  <2>2. CASE first # N
    <3>1. first \in first..N /\ N \in first..N /\ first < N
      BY <2>2, <1>2
    <3>2. s[first] < s[N]
      BY <3>1, <1>3 DEF LayoutBy
    <3>. QED
      BY <3>2, <1>2, <1>3, <1>4 DEF LayoutBy
  <2>. QED
    BY <2>1, <2>2
<1>6. N \in first..N /\ seen' = Wrap(s[N]) /\ limit' = IF s[N] >= Ring THEN Ring ELSE s[N]
  BY <1>1, <1>2, <1>4, <1>5 DEF Wrap
<1>7. LayoutBy(s)'
  BY <1>1, <1>2, <1>3, <1>6 DEF LayoutBy, Occupies
<1>8. Layout'
  BY <1>7 DEF Layout
<1>9. Types' /\ Queue'
  BY <1>1, <1>2, <1>4 DEF IInv, Types, CardTypes, DriverTypes, QueueTypes, Queue
<1>. QED
  BY <1>8, <1>9 DEF IInv

(* What lies at the pointer when the handler looks at it.                  *)
LEMMA AtPointer ==
  ASSUME Types, Queue, NEW s \in [Nat -> Nat], LayoutBy(s),
         \/ pc = "loop" /\ pointer < limit
         \/ pc = "advance"
  PROVE  /\ first \in 1..accepted /\ memory[pointer] = first /\ first \in Packets
         /\ length[first] \in 1..(Ring - 1) /\ s[first + 1] = pointer + length[first]
         /\ Occupies(first, pointer)
         /\ \E q \in (first + 1)..(accepted + 1) :
              seen = Wrap(s[q]) /\ limit = IF s[q] >= Ring THEN Ring ELSE s[q]
<1>1. /\ accepted \in Nat /\ accepted <= MaxPackets /\ first \in 1..(accepted + 1)
      /\ pointer \in 0..(Ring - 1) /\ Ring \in Nat /\ MaxPackets \in Nat
  BY Copied, RingAssumption DEF Types, CardTypes, DriverTypes
<1>2. PICK q \in first..(accepted + 1) :
        /\ seen = Wrap(s[q]) /\ limit = IF s[q] >= Ring THEN Ring ELSE s[q]
        /\ pc = "advance" => q > first
  BY DEF LayoutBy
<1>3. s[first] = pointer
  BY DEF LayoutBy
<1>4. q > first
  BY <1>1, <1>2, <1>3
<1>5. first \in first..accepted /\ first \in 1..accepted
  BY <1>1, <1>2, <1>4
<1>6. /\ length[first] \in 1..(Ring - 1) /\ s[first + 1] = s[first] + length[first]
      /\ Occupies(first, Wrap(s[first]))
  BY <1>5 DEF LayoutBy
<1>7. Wrap(s[first]) = pointer /\ pointer \in Memory
  BY <1>1, <1>3 DEF Wrap, Memory
<1>8. memory[pointer] = first
  BY <1>1, <1>6, <1>7 DEF Occupies
<1>. QED
  BY <1>1, <1>2, <1>3, <1>4, <1>5, <1>6, <1>7, <1>8 DEF Packets

(* The handler copies the packet at the pointer and queues it.             *)
LEMMA CopyStep ==
  ASSUME IInv, CopyPacket
  PROVE  IInv'
<1>1. /\ pc = "loop" /\ pointer < limit /\ pc' = "advance" /\ QueuePacket(memory[pointer])
      /\ UNCHANGED <<memory, length, accepted, cbr, capr, pointer, limit, seen, worker, taken>>
  BY DEF CopyPacket, card, thread
<1>2. PICK s \in [Nat -> Nat] : LayoutBy(s)
  BY DEF IInv, Layout
<1>3. /\ first \in 1..accepted /\ memory[pointer] = first /\ first \in Packets
      /\ \E q \in (first + 1)..(accepted + 1) :
           seen = Wrap(s[q]) /\ limit = IF s[q] >= Ring THEN Ring ELSE s[q]
  BY <1>1, <1>2, AtPointer DEF IInv
<1>4. /\ first = copied + 1 /\ copied \in Nat /\ taken \in Nat /\ taken <= copied
      /\ accepted \in Nat
  BY <1>1, Copied DEF first, IInv, Types, QueueTypes, CardTypes
<1>5. /\ next' = IF last # NULL THEN [next EXCEPT ![last] = first] ELSE next
      /\ last' = first /\ current' = (IF current = NULL THEN first ELSE current)
      /\ alive' = alive \cup {first}
  BY <1>1, <1>3 DEF QueuePacket
<1>6. copied' = first /\ first' = first
  BY <1>1, <1>3, <1>5 DEF copied, first, NULL
<1>7. LayoutBy(s)'
  <2>1. \E q \in first..(accepted + 1) :
          /\ seen = Wrap(s[q]) /\ limit = IF s[q] >= Ring THEN Ring ELSE s[q]
          /\ q > first
    BY <1>3
  <2>. QED
    BY <1>1, <1>2, <1>6, <2>1 DEF LayoutBy, Occupies
<1>8. Layout'
  BY <1>7 DEF Layout
<1>9. next' \in [{NULL} \cup Packets -> {NULL} \cup Packets]
  BY <1>3, <1>5 DEF IInv, Types, QueueTypes
<1>10. Types'
  BY <1>1, <1>3, <1>4, <1>5, <1>9 DEF IInv, Types, CardTypes, DriverTypes, QueueTypes
<1>11. current' = IF taken < first THEN taken + 1 ELSE NULL
  BY <1>4, <1>5 DEF IInv, Queue, NULL
<1>12. ASSUME NEW p \in Packets, p > taken
       PROVE  next'[p] = IF p < first THEN p + 1 ELSE NULL
  <2>1. next[p] = IF p < copied THEN p + 1 ELSE NULL
    BY <1>12 DEF IInv, Queue
  <2>2. CASE last = NULL
    <3>1. copied = taken /\ next' = next
      BY <2>2, <1>5 DEF copied
    <3>. QED
      BY <3>1, <2>1, <1>4, <1>12 DEF Packets
  <2>3. CASE last # NULL
    <3>1. last = copied /\ next' = [next EXCEPT ![copied] = first]
      BY <2>3, <1>5 DEF copied
    <3>2. CASE p = copied
      <4>1. next'[p] = first
        BY <3>1, <3>2 DEF IInv, Types, QueueTypes
      <4>2. p < first /\ p + 1 = first
        BY <3>2, <1>4
      <4>. QED
        BY <4>1, <4>2
    <3>3. CASE p # copied
      BY <3>1, <3>3, <2>1, <1>4 DEF IInv, Types, QueueTypes, Packets
    <3>. QED
      BY <3>2, <3>3
  <2>. QED
    BY <2>2, <2>3
<1>13. alive' = ((taken + 1)..first) \cup (IF worker = "free" THEN {taken} ELSE {})
  <2>1. alive = ((taken + 1)..copied) \cup (IF worker = "free" THEN {taken} ELSE {})
    BY DEF IInv, Queue
  <2>2. (taken + 1)..first = ((taken + 1)..copied) \cup {first}
    BY <1>4
  <2>. QED
    BY <1>5, <2>1, <2>2
<1>14. Queue'
  <2>1. worker' = "take" => current' # NULL
    BY <1>1, <1>4, <1>11 DEF NULL
  <2>2. worker' = "free" => taken' # NULL
    BY <1>1 DEF IInv, Queue
  <2>3. taken' <= copied' /\ copied' <= accepted' /\ last' # NULL /\ taken' < last'
    BY <1>1, <1>3, <1>4, <1>5, <1>6 DEF NULL
  <2>. QED
    BY <1>1, <1>6, <1>11, <1>12, <1>13, <2>1, <2>2, <2>3 DEF Queue
<1>. QED
  BY <1>8, <1>10, <1>14 DEF IInv

(* It moves the pointer past the packet.                                   *)
LEMMA AdvanceStep ==
  ASSUME IInv, Advance
  PROVE  IInv'
<1>. DEFINE end == pointer + length[memory[pointer]]
<1>1. /\ pc = "advance" /\ pc' = "loop" /\ capr' = pointer'
      /\ IF end >= Ring THEN pointer' = end - Ring /\ limit' = seen
                        ELSE pointer' = end /\ limit' = limit
      /\ UNCHANGED <<memory, length, accepted, cbr, seen>>
      /\ UNCHANGED <<current, last, next, alive, worker, taken>>
  BY DEF Advance, card, queue, thread
<1>2. PICK s \in [Nat -> Nat] : LayoutBy(s)
  BY DEF IInv, Layout
<1>. DEFINE N == accepted + 1
<1>3. /\ first \in 1..accepted /\ memory[pointer] = first /\ first \in Packets
      /\ length[first] \in 1..(Ring - 1) /\ s[first + 1] = end
  BY <1>1, <1>2, AtPointer DEF IInv
<1>4. PICK q \in (first + 1)..N :
        seen = Wrap(s[q]) /\ limit = IF s[q] >= Ring THEN Ring ELSE s[q]
  BY <1>1, <1>2, AtPointer DEF IInv
<1>5. /\ copied' = copied /\ first' = first + 1 /\ accepted \in Nat
      /\ pointer \in 0..(Ring - 1) /\ Ring \in Nat /\ end \in Nat
  BY <1>1, <1>3, Copied, RingAssumption DEF copied, first, IInv, Types, CardTypes, DriverTypes
<1>. HIDE DEF end
<1>6. ASSUME NEW p \in (first + 1)..N
      PROVE  s[p] \in Nat /\ end <= s[p] /\ s[p] <= s[N] /\ s[N] < pointer + Ring
  <2>1. /\ p \in first..N /\ first \in first..N /\ N \in first..N
        /\ p \in Nat /\ first + 1 \in first..N
    BY <1>3, <1>5
  <2>2. p = first + 1 \/ s[first + 1] < s[p]
    BY <2>1, <1>2 DEF LayoutBy
  <2>3. p = N \/ s[p] < s[N]
    BY <2>1, <1>2 DEF LayoutBy
  <2>4. s[N] < pointer + Ring
    BY <1>2 DEF LayoutBy
  <2>. QED
    BY <2>1, <2>2, <2>3, <2>4, <1>3, <1>5
<1>. DEFINE over == end >= Ring
<1>7. PICK t \in [Nat -> Nat] :
        \A p \in (first + 1)..N : t[p] = IF over THEN s[p] - Ring ELSE s[p]
  <2>. DEFINE f == [n \in Nat |-> IF n \in (first + 1)..N /\ over THEN s[n] - Ring ELSE s[n]]
  <2>1. ASSUME NEW n \in Nat PROVE f[n] \in Nat
    BY <1>5, <1>6
  <2>2. f \in [Nat -> Nat]
    BY <2>1
  <2>3. \A p \in (first + 1)..N : f[p] = IF over THEN s[p] - Ring ELSE s[p]
    BY <1>3, <1>5
  <2>. HIDE DEF f
  <2>. QED
    BY <2>2, <2>3
<1>8. ASSUME NEW p \in (first + 1)..N
      PROVE  /\ t[p] \in Nat /\ Wrap(t[p]) = Wrap(s[p])
             /\ p \in first..N /\ p \in Nat
             /\ (over => s[p] >= Ring /\ t[p] < Ring /\ t[p] = s[p] - Ring)
             /\ (~over => t[p] = s[p])
  <2>1. s[p] < 2 * Ring /\ s[p] - Ring < Ring
    BY <1>5, <1>6
  <2>. QED
    BY <2>1, <1>3, <1>5, <1>6, <1>7 DEF Wrap
<1>9. /\ t[first + 1] = pointer' /\ cbr = Wrap(t[N]) /\ t[N] < pointer' + Ring
      /\ pointer' \in 0..(Ring - 1) /\ limit' = IF t[q] >= Ring THEN Ring ELSE t[q]
  <2>1. first + 1 \in (first + 1)..N /\ N \in (first + 1)..N
    BY <1>3, <1>5
  <2>2. cbr = Wrap(s[N])
    BY <1>2 DEF LayoutBy
  <2>3. pointer < end /\ pointer' = IF over THEN end - Ring ELSE end
    BY <1>1, <1>3, <1>5 DEF end
  <2>4. t[first + 1] = pointer'
    BY <2>1, <2>3, <1>3, <1>8
  <2>5. t[N] < pointer' + Ring
    BY <2>1, <2>3, <1>5, <1>6, <1>8
  <2>6. pointer' \in 0..(Ring - 1)
    BY <2>1, <2>3, <1>3, <1>5, <1>6, <1>8
  <2>7. limit' = IF t[q] >= Ring THEN Ring ELSE t[q]
    <3>1. CASE over
      BY <3>1, <1>1, <1>4, <1>5, <1>8 DEF end, Wrap
    <3>2. CASE ~over
      BY <3>2, <1>1, <1>4, <1>8 DEF end
    <3>. QED
      BY <3>1, <3>2
  <2>. QED
    BY <2>1, <2>2, <2>4, <2>5, <2>6, <2>7, <1>8
<1>10. LayoutBy(t)'
  <2>1. ASSUME NEW p \in (first + 1)..accepted
        PROVE  /\ length[p] \in 1..(Ring - 1) /\ t[p + 1] = t[p] + length[p]
               /\ Occupies(p, Wrap(t[p]))
    <3>1. p \in (first + 1)..N /\ p + 1 \in (first + 1)..N /\ p \in first..accepted
      BY <1>3, <1>5
    <3>2. /\ length[p] \in 1..(Ring - 1) /\ s[p + 1] = s[p] + length[p]
          /\ Occupies(p, Wrap(s[p]))
      BY <3>1, <1>2 DEF LayoutBy
    <3>. QED
      BY <3>1, <3>2, <1>5, <1>6, <1>8
  <2>2. ASSUME NEW p \in (first + 1)..N, NEW r \in (first + 1)..N, p < r
        PROVE  t[p] < t[r] /\ t[p] + length[p] <= t[r]
    <3>1. s[p] < s[r] /\ s[p] + length[p] <= s[r] /\ p \in first..accepted
      BY <2>2, <1>2, <1>3, <1>5, <1>8 DEF LayoutBy
    <3>2. length[p] \in Nat
      BY <3>1, <1>2, <1>5 DEF LayoutBy
    <3>. QED
      BY <3>1, <3>2, <1>5, <1>6, <1>8
  <2>3. \E r \in (first + 1)..N :
          seen = Wrap(t[r]) /\ limit' = IF t[r] >= Ring THEN Ring ELSE t[r]
    BY <1>4, <1>8, <1>9
  <2>4. \A p \in (first + 1)..accepted : Occupies(p, Wrap(t[p]))'
    BY <2>1, <1>1 DEF Occupies
  <2>. QED
    BY <1>1, <1>5, <1>9, <2>1, <2>2, <2>3, <2>4 DEF LayoutBy
<1>11. Layout'
  BY <1>10 DEF Layout
<1>12. limit' \in 0..Ring
  BY <1>1, <1>5 DEF IInv, Types, DriverTypes
<1>13. Types'
  BY <1>1, <1>9, <1>12 DEF IInv, Types, CardTypes, DriverTypes, QueueTypes
<1>14. Queue'
  BY <1>1, <1>5 DEF IInv, Queue
<1>. QED
  BY <1>11, <1>13, <1>14 DEF IInv

-----------------------------------------------------------------------------
LEMMA NextIInv == IInv /\ [Next]_vars => IInv'
BY ArriveStep, QuietStep, StutterStep, TakeStep, ReadLimitStep, CopyStep, AdvanceStep
   DEF Next, Handler, Worker

THEOREM Inductive == Spec => []IInv
<1>. QED
  BY InitIInv, NextIInv, PTL DEF Spec

(* The variables of card, handler, queue and worker keep their types.      *)
THEOREM TypeCorrect == Spec => []TypeOK
<1>1. ASSUME IInv PROVE TypeOK
  <2>1. /\ copied \in 0..accepted /\ accepted \in 0..MaxPackets /\ taken \in Nat
        /\ taken <= copied /\ last \in Nat /\ MaxPackets \in Nat
    BY <1>1, Copied, RingAssumption DEF IInv, Types, CardTypes, QueueTypes
  <2>2. memory \in [Memory -> {NULL} \cup Packets]
    BY <1>1, <2>1 DEF IInv, Types, CardTypes, Packets, NULL
  <2>3. current \in {NULL} \cup Packets /\ taken \in {NULL} \cup Packets
    BY <1>1, <2>1 DEF IInv, Queue, Packets, NULL
  <2>4. last \in {NULL} \cup Packets
    BY <1>1, <2>1 DEF copied, Packets, NULL
  <2>5. alive \subseteq Packets
    BY <1>1, <2>1 DEF IInv, Queue, Packets, NULL
  <2>. QED
    BY <1>1, <2>2, <2>3, <2>4, <2>5 DEF TypeOK, IInv, Types, DriverTypes, QueueTypes
<1>. QED
  BY <1>1, Inductive, PTL

(* rtl8139_receive_bytes only copies whole packets that the card has       *)
(* written and not yet overwritten, however the ring wraps and whatever    *)
(* arrives meanwhile.                                                      *)
THEOREM WholePackets == Spec => []CopiesWholePackets
<1>1. ASSUME IInv PROVE CopiesWholePackets
  <2>. SUFFICES ASSUME pc = "advance"
                PROVE  /\ memory[pointer] # NULL
                       /\ \A u \in Memory : memory[u] = memory[pointer]
                            <=> u \in pointer..(pointer + length[memory[pointer]] - 1)
    BY DEF CopiesWholePackets
  <2>1. PICK s \in [Nat -> Nat] : LayoutBy(s)
    BY <1>1 DEF IInv, Layout
  <2>2. memory[pointer] = first /\ first \in Packets /\ Occupies(first, pointer)
    BY <1>1, <2>1, AtPointer DEF IInv
  <2>. QED
    BY <2>2 DEF Occupies, Packets, NULL
<1>. QED
  BY <1>1, Inductive, PTL

-----------------------------------------------------------------------------
(* The queue along the Next pointers is what its recursive definition says.*)
Longer(s) ==
  LET p == IF s = <<>> THEN current ELSE next[s[Len(s)]]
  IN IF p = NULL THEN s ELSE Append(s, p)

(* Induction on the natural numbers for a set instead of a predicate: the  *)
(* least number outside of it, if there were one, could not be.            *)
LEMMA Induction ==
  ASSUME NEW T, 0 \in T, \A k \in Nat : k \in T => k + 1 \in T
  PROVE  Nat \subseteq T
<1>. SUFFICES ASSUME Nat \ T # {} PROVE FALSE
  OBVIOUS
<1>. DEFINE less == {ss \in Nat \X Nat : ss[1] < ss[2]}
<1>1. \E k \in Nat \ T : \A j \in Nat \ T : <<j, k>> \notin less
  BY NatLessThanWellFounded, WFMin, Zenon DEF OpToRel
<1>2. \A j, k \in Nat : j < k => <<j, k>> \in less
  OBVIOUS
<1>. HIDE DEF less
<1>3. PICK k \in Nat \ T : \A j \in Nat \ T : ~(j < k)
  BY <1>1, <1>2
<1>4. k # 0 /\ k - 1 \in Nat /\ k - 1 \in T
  BY <1>3
<1>. QED
  BY <1>3, <1>4

LEMMA Firsts ==
  firsts = [k \in 0..MaxPackets |-> IF k = 0 THEN <<>> ELSE Longer(firsts[k - 1])]
<1>. DEFINE Lists(n, f) == f = [k \in 0..n |-> IF k = 0 THEN <<>> ELSE Longer(f[k - 1])]
<1>. DEFINE T == {n \in Nat : \E f : Lists(n, f)}
<1>1. 0 \in T
  <2>1. Lists(0, [k \in 0..0 |-> <<>>])
    OBVIOUS
  <2>. QED
    BY <2>1
<1>2. ASSUME NEW n \in Nat, n \in T PROVE n + 1 \in T
  <2>1. PICK f : Lists(n, f)
    BY <1>2
  <2>. DEFINE g == [k \in 0..(n + 1) |-> IF k <= n THEN f[k] ELSE Longer(f[n])]
  <2>2. \A k \in 0..n : g[k] = f[k] /\ f[k] = IF k = 0 THEN <<>> ELSE Longer(f[k - 1])
    BY <2>1
  <2>. HIDE DEF g
  <2>3. ASSUME NEW k \in 0..(n + 1)
        PROVE  g[k] = IF k = 0 THEN <<>> ELSE Longer(g[k - 1])
    <3>1. CASE k = 0
      BY <3>1, <2>2
    <3>2. CASE k \in 1..n
      <4>1. k \in 0..n /\ k - 1 \in 0..n
        BY <3>2
      <4>2. g[k] = Longer(f[k - 1]) /\ g[k - 1] = f[k - 1]
        BY <4>1, <3>2, <2>2
      <4>. QED
        BY <4>2, <3>2
    <3>3. CASE k = n + 1
      <4>1. g[k] = Longer(f[n]) /\ k - 1 = n /\ k # 0
        BY <3>3 DEF g
      <4>2. g[n] = f[n]
        BY <2>2
      <4>. QED
        BY <4>1, <4>2
    <3>. QED
      BY <3>1, <3>2, <3>3
  <2>4. Lists(n + 1, g)
    <3>1. g = [k \in 0..(n + 1) |-> g[k]]
      BY DEF g
    <3>. QED
      BY <2>3, <3>1
  <2>5. \E h : Lists(n + 1, h)
    <3>. HIDE DEF Lists
    <3>. QED
      BY <2>4
  <2>. QED
    BY <2>5
<1>3. MaxPackets \in T
  <2>. HIDE DEF T
  <2>. QED
    BY <1>1, <1>2, Induction, RingAssumption
<1>4. \E f : Lists(MaxPackets, f)
  BY <1>3
<1>. QED
  BY <1>4 DEF firsts, Longer

(* The numbers after taken, as a sequence.                                 *)
LEMMA Numbers ==
  ASSUME NEW a \in Nat, NEW n \in Nat, NEW s, s = [i \in 1..n |-> a + i]
  PROVE  /\ s \in Seq(Nat) /\ Len(s) = n /\ (s = <<>> <=> n = 0)
         /\ n > 0 => s[n] = a + n
         /\ Append(s, a + n + 1) = [i \in 1..(n + 1) |-> a + i]
<1>1. s \in Seq(Nat)
  OBVIOUS
<1>2. Len(s) = n
  OBVIOUS
<1>3. Append(s, a + n + 1) = [i \in 1..(n + 1) |-> a + i]
  BY <1>1, <1>2
<1>. QED
  BY <1>1, <1>2, <1>3

LEMMA QueueIs ==
  ASSUME IInv
  PROVE  Queued = [i \in 1..(copied - taken) |-> taken + i]
<1>. DEFINE n == copied - taken
<1>. DEFINE Prefix(k) == IF k <= n THEN k ELSE n
<1>1. /\ n \in Nat /\ n <= MaxPackets /\ MaxPackets \in Nat /\ taken \in Nat
      /\ current = IF n > 0 THEN taken + 1 ELSE NULL
      /\ \A p \in Packets : p > taken => next[p] = IF p < copied THEN p + 1 ELSE NULL
      /\ copied \in Nat /\ copied <= MaxPackets
  BY Copied, RingAssumption DEF IInv, Types, CardTypes, QueueTypes, Queue
<1>. DEFINE T == {k \in Nat : k <= MaxPackets =>
                    firsts[k] = [i \in 1..Prefix(k) |-> taken + i]}
<1>2. 0 \in T
  <2>1. firsts[0] = <<>> /\ Prefix(0) = 0
    BY Firsts, <1>1
  <2>2. [i \in 1..0 |-> taken + i] = <<>>
    BY Numbers, <1>1
  <2>. QED
    BY <2>1, <2>2
<1>3. ASSUME NEW k \in Nat, k \in T PROVE k + 1 \in T
  <2>. SUFFICES ASSUME k + 1 <= MaxPackets
                PROVE  firsts[k + 1] = [i \in 1..Prefix(k + 1) |-> taken + i]
    OBVIOUS
  <2>. DEFINE s == [i \in 1..Prefix(k) |-> taken + i]
  <2>1. firsts[k] = s /\ Prefix(k) \in Nat
    BY <1>1, <1>3
  <2>2. firsts[k + 1] = Longer(s)
    <3>1. k + 1 \in 0..MaxPackets /\ k + 1 # 0 /\ (k + 1) - 1 = k
      BY <1>1
    <3>. HIDE DEF s
    <3>. QED
      BY <2>1, <3>1, Firsts
  <2>3. /\ Len(s) = Prefix(k) /\ (s = <<>> <=> Prefix(k) = 0)
        /\ Prefix(k) > 0 => s[Prefix(k)] = taken + Prefix(k)
        /\ Append(s, taken + Prefix(k) + 1) = [i \in 1..(Prefix(k) + 1) |-> taken + i]
    <3>. HIDE DEF s, Prefix
    <3>1. s = [i \in 1..Prefix(k) |-> taken + i]
      BY DEF s
    <3>. QED
      BY <3>1, <2>1, <1>1, Numbers
  <2>. DEFINE p == IF s = <<>> THEN current ELSE next[s[Len(s)]]
  <2>4. p = IF Prefix(k) < n THEN taken + Prefix(k) + 1 ELSE NULL
    <3>1. CASE Prefix(k) = 0
      <4>1. p = current
        BY <2>3, <3>1
      <4>. HIDE DEF p
      <4>. QED
        BY <4>1, <3>1, <1>1
    <3>2. CASE Prefix(k) > 0
      <4>1. p = next[taken + Prefix(k)]
        <5>. HIDE DEF s, Prefix
        <5>. QED
          BY <2>1, <2>3, <3>2
      <4>. HIDE DEF p
      <4>2. taken + Prefix(k) \in Packets /\ taken + Prefix(k) > taken
        BY <3>2, <1>1 DEF Packets
      <4>. QED
        BY <4>1, <4>2, <1>1
    <3>. QED
      BY <2>1, <3>1, <3>2
  <2>5. Longer(s) = IF p = NULL THEN s ELSE Append(s, p)
    BY DEF Longer
  <2>6. CASE Prefix(k) < n
    <3>0. p = taken + Prefix(k) + 1 /\ Prefix(k + 1) = Prefix(k) + 1
      <4>. HIDE DEF p
      <4>. QED
        BY <2>1, <2>4, <2>6, <1>1
    <3>1. p = taken + Prefix(k) + 1 /\ p # NULL /\ Prefix(k + 1) = Prefix(k) + 1
      <4>. HIDE DEF p, Prefix
      <4>. QED
        BY <3>0, <2>1, <1>1 DEF NULL
    <3>. HIDE DEF p, s, Prefix
    <3>. QED
      BY <2>2, <2>3, <2>5, <3>1
  <2>7. CASE ~(Prefix(k) < n)
    <3>1. p = NULL /\ Prefix(k + 1) = Prefix(k)
      BY <2>1, <2>4, <2>7, <1>1
    <3>. HIDE DEF p, Prefix
    <3>. QED
      BY <2>2, <2>5, <3>1
  <2>. QED
    BY <2>6, <2>7
<1>4. MaxPackets \in T
  <2>. HIDE DEF T
  <2>. QED
    BY <1>1, <1>2, <1>3, Induction
<1>5. Prefix(MaxPackets) = n
  BY <1>1
<1>. HIDE DEF Prefix, n
<1>6. firsts[MaxPackets] = [i \in 1..n |-> taken + i]
  BY <1>1, <1>4, <1>5
<1>. QED
  BY <1>6 DEF Queued, n

(* The list that the handler appends to and the worker takes from holds    *)
(* all that is allocated but the packet the worker has taken: nothing      *)
(* leaks and nothing that was freed can be reached.                        *)
THEOREM QueueOwns == Spec => []QueueOwnsPackets
<1>1. ASSUME IInv PROVE QueueOwnsPackets
  <2>. DEFINE n == copied - taken
  <2>1. /\ n \in Nat /\ taken \in Nat /\ copied \in Nat /\ last \in Nat
        /\ last = IF n > 0 THEN copied ELSE NULL
        /\ alive = ((taken + 1)..copied) \cup (IF worker = "free" THEN {taken} ELSE {})
    BY <1>1, Copied DEF IInv, Types, CardTypes, QueueTypes, Queue, copied, NULL
  <2>2. Queued = [i \in 1..n |-> taken + i]
    BY <1>1, QueueIs
  <2>3. /\ Len(Queued) = n /\ (Queued = <<>> <=> n = 0)
        /\ n > 0 => Queued[n] = taken + n
    <3>. HIDE DEF n
    <3>. QED
      BY <2>1, <2>2, Numbers
  <2>4. Range(Queued) = (taken + 1)..copied
    <3>1. DOMAIN Queued = 1..n /\ \A i \in 1..n : Queued[i] = taken + i
      BY <2>2
    <3>2. \A x \in (taken + 1)..copied : x - taken \in 1..n /\ x = taken + (x - taken)
      BY <2>1
    <3>3. \A i \in 1..n : taken + i \in (taken + 1)..copied
      BY <2>1
    <3>. HIDE DEF n
    <3>. QED
      BY <3>1, <3>2, <3>3 DEF Range
  <2>5. last = IF Queued = <<>> THEN NULL ELSE Queued[Len(Queued)]
    BY <2>1, <2>3
  <2>. QED
    BY <2>1, <2>4, <2>5 DEF QueueOwnsPackets
<1>. QED
  BY <1>1, Inductive, PTL
-----------------------------------------------------------------------------
(* The recursive definition of where the packets in the ring begin.        *)
Start == IF pc = "advance" THEN After(pointer) ELSE pointer

LEMMA Begins ==
  begins = [k \in 0..MaxPackets |-> IF k = 0 THEN Start ELSE After(begins[k - 1])]
<1>. DEFINE Lists(n, f) == f = [k \in 0..n |-> IF k = 0 THEN Start ELSE After(f[k - 1])]
<1>. DEFINE T == {n \in Nat : \E f : Lists(n, f)}
<1>1. 0 \in T
  <2>1. Lists(0, [k \in 0..0 |-> Start])
    OBVIOUS
  <2>. QED
    BY <2>1
<1>2. ASSUME NEW n \in Nat, n \in T PROVE n + 1 \in T
  <2>1. PICK f : Lists(n, f)
    BY <1>2
  <2>. DEFINE g == [k \in 0..(n + 1) |-> IF k <= n THEN f[k] ELSE After(f[n])]
  <2>2. \A k \in 0..n : g[k] = f[k] /\ f[k] = IF k = 0 THEN Start ELSE After(f[k - 1])
    BY <2>1
  <2>. HIDE DEF g
  <2>3. ASSUME NEW k \in 0..(n + 1)
        PROVE  g[k] = IF k = 0 THEN Start ELSE After(g[k - 1])
    <3>1. CASE k = 0
      BY <3>1, <2>2
    <3>2. CASE k \in 1..n
      <4>1. k \in 0..n /\ k - 1 \in 0..n
        BY <3>2
      <4>2. g[k] = After(f[k - 1]) /\ g[k - 1] = f[k - 1]
        BY <4>1, <3>2, <2>2
      <4>. QED
        BY <4>2, <3>2
    <3>3. CASE k = n + 1
      <4>1. g[k] = After(f[n]) /\ k - 1 = n /\ k # 0
        BY <3>3 DEF g
      <4>2. g[n] = f[n]
        BY <2>2
      <4>. QED
        BY <4>1, <4>2
    <3>. QED
      BY <3>1, <3>2, <3>3
  <2>4. Lists(n + 1, g)
    <3>1. g = [k \in 0..(n + 1) |-> g[k]]
      BY DEF g
    <3>. QED
      BY <2>3, <3>1
  <2>5. \E h : Lists(n + 1, h)
    <3>. HIDE DEF Lists
    <3>. QED
      BY <2>4
  <2>. QED
    BY <2>5
<1>3. MaxPackets \in T
  <2>. HIDE DEF T
  <2>. QED
    BY <1>1, <1>2, Induction, RingAssumption
<1>4. \E f : Lists(MaxPackets, f)
  BY <1>3
<1>. QED
  BY <1>4 DEF begins, After, Start

LEMMA UnqueuedIs ==
  ASSUME IInv
  PROVE  Unqueued = [i \in 1..(accepted - copied) |-> copied + i]
<1>. DEFINE m == accepted - copied
<1>. DEFINE N == accepted + 1
<1>1. PICK s \in [Nat -> Nat] : LayoutBy(s)
  BY DEF IInv, Layout
<1>2. /\ copied \in 0..accepted /\ first \in 1..N /\ accepted \in Nat /\ copied \in Nat
      /\ m \in 0..MaxPackets /\ MaxPackets \in Nat /\ Ring \in Nat \ {0}
      /\ pointer \in 0..(Ring - 1)
  BY Copied, RingAssumption DEF IInv, Types, CardTypes, DriverTypes
<1>3. /\ pc = "advance" => first = copied
      /\ pc # "advance" => first = copied + 1
  BY DEF first
<1>4. ASSUME NEW p \in first..N
      PROVE  /\ p \in Nat /\ s[p] \in Nat /\ pointer <= s[p]
             /\ s[p] < pointer + Ring /\ s[p] < 2 * Ring
  <2>1. s[first] = pointer /\ s[N] < pointer + Ring
    BY <1>1 DEF LayoutBy
  <2>2. first \in first..N /\ N \in first..N /\ p \in Nat
    BY <1>2
  <2>3. p = first \/ s[first] < s[p]
    BY <2>2, <1>1 DEF LayoutBy
  <2>4. p = N \/ s[p] < s[N]
    BY <2>2, <1>1 DEF LayoutBy
  <2>. QED
    BY <2>1, <2>2, <2>3, <2>4, <1>2
<1>5. ASSUME NEW p \in first..accepted
      PROVE  memory[Wrap(s[p])] = p /\ After(Wrap(s[p])) = Wrap(s[p + 1])
  <2>1. /\ length[p] \in 1..(Ring - 1) /\ s[p + 1] = s[p] + length[p]
        /\ Occupies(p, Wrap(s[p]))
    BY <1>1 DEF LayoutBy
  <2>2. p \in first..N /\ p + 1 \in first..N
    BY <1>2
  <2>3. s[p] \in Nat /\ s[p] < 2 * Ring /\ s[p + 1] \in Nat /\ s[p + 1] < 2 * Ring
    BY <2>2, <1>4
  <2>4. Wrap(s[p]) \in Memory
    BY <2>3, <1>2 DEF Wrap, Memory
  <2>5. Wrap(s[p]) \in Wrap(s[p])..(Wrap(s[p]) + length[p] - 1)
    BY <2>1, <2>3, <1>2 DEF Wrap
  <2>6. memory[Wrap(s[p])] = p
    BY <2>1, <2>4, <2>5 DEF Occupies
  <2>7. Wrap(s[p]) + length[p] \in Nat /\ Wrap(s[p]) + length[p] < 2 * Ring
    BY <2>1, <2>3, <1>2 DEF Wrap
  <2>8. Wrap(Wrap(s[p]) + length[p]) = Wrap(s[p + 1])
    BY <2>1, <2>3, <1>2 DEF Wrap
  <2>. QED
    BY <2>6, <2>7, <2>8, Remainders DEF After
<1>6. Start = Wrap(s[copied + 1])
  <2>1. s[first] = pointer /\ Wrap(pointer) = pointer
    BY <1>1, <1>2 DEF LayoutBy, Wrap
  <2>2. CASE pc = "advance"
    <3>1. first = copied /\ first \in first..accepted
      BY <2>2, <1>2, <1>3
    <3>. QED
      BY <2>1, <2>2, <3>1, <1>5 DEF Start
  <2>3. CASE pc # "advance"
    BY <2>1, <2>3, <1>3 DEF Start
  <2>. QED
    BY <2>2, <2>3
<1>. DEFINE T == {k \in Nat : k <= m => begins[k] = Wrap(s[copied + 1 + k])}
<1>7. 0 \in T
  BY <1>2, <1>6, Begins
<1>8. ASSUME NEW k \in Nat, k \in T PROVE k + 1 \in T
  <2>. SUFFICES ASSUME k + 1 <= m
                PROVE  begins[k + 1] = Wrap(s[copied + 1 + (k + 1)])
    OBVIOUS
  <2>1. begins[k] = Wrap(s[copied + 1 + k])
    BY <1>2, <1>8
  <2>2. k + 1 \in 0..MaxPackets /\ k + 1 # 0 /\ (k + 1) - 1 = k
    BY <1>2
  <2>3. begins[k + 1] = After(begins[k])
    BY <2>2, Begins
  <2>. DEFINE p == copied + 1 + k
  <2>4. p \in first..accepted /\ p + 1 = copied + 1 + (k + 1)
    BY <1>2, <1>3
  <2>. HIDE DEF p
  <2>5. After(Wrap(s[p])) = Wrap(s[p + 1])
    BY <2>4, <1>5
  <2>. QED
    BY <2>1, <2>3, <2>4, <2>5 DEF p
<1>9. Nat \subseteq T
  <2>. HIDE DEF T
  <2>. QED
    BY <1>7, <1>8, Induction
<1>10. ASSUME NEW k \in 0..m PROVE begins[k] = Wrap(s[copied + 1 + k])
  BY <1>2, <1>9
<1>11. cbr = Wrap(s[N])
  BY <1>1 DEF LayoutBy
<1>12. begins[m] = cbr
  BY <1>2, <1>10, <1>11
<1>13. ASSUME NEW k \in 0..(m - 1)
       PROVE  begins[k] # cbr /\ memory[begins[k]] = copied + 1 + k
  <2>. DEFINE p == copied + 1 + k
  <2>1. p \in first..accepted /\ p \in first..N /\ N \in first..N /\ p < N /\ k \in 0..m
    BY <1>2, <1>3
  <2>2. begins[k] = Wrap(s[p])
    BY <2>1, <1>10
  <2>. HIDE DEF p
  <2>3. memory[Wrap(s[p])] = p
    BY <2>1, <1>5
  <2>4. s[p] < s[N]
    BY <2>1, <1>1 DEF LayoutBy
  <2>5. Wrap(s[p]) # Wrap(s[N])
    BY <2>1, <2>4, <1>2, <1>4 DEF Wrap
  <2>. QED
    BY <2>2, <2>3, <2>5, <1>11 DEF p
<1>. DEFINE inRing == {k \in 0..(MaxPackets - 1) : \A j \in 0..k : begins[j] # cbr}
<1>14. inRing = 0..(m - 1)
  <2>1. ASSUME NEW k \in inRing PROVE k \in 0..(m - 1)
    <3>1. k \in Nat /\ \A j \in 0..k : begins[j] # cbr
      BY <1>2, <2>1
    <3>2. m \notin 0..k
      BY <3>1, <1>12
    <3>. QED
      BY <3>1, <3>2, <1>2
  <2>2. ASSUME NEW k \in 0..(m - 1) PROVE k \in inRing
    <3>1. k \in 0..(MaxPackets - 1) /\ \A j \in 0..k : j \in 0..(m - 1)
      BY <1>2
    <3>. QED
      BY <3>1, <1>13
  <2>. HIDE DEF inRing
  <2>. QED
    BY <2>1, <2>2
<1>15. Cardinality(inRing) = m
  <2>. HIDE DEF inRing
  <2>1. Cardinality(0..(m - 1)) = IF 0 > m - 1 THEN 0 ELSE (m - 1) - 0 + 1
    BY <1>2, FS_Interval
  <2>. QED
    BY <2>1, <1>14, <1>2
<1>16. Unqueued = [i \in 1..Cardinality(inRing) |-> memory[begins[i - 1]]]
  BY DEF Unqueued
<1>17. ASSUME NEW i \in 1..m PROVE memory[begins[i - 1]] = copied + i
  <2>1. i - 1 \in 0..(m - 1) /\ copied + 1 + (i - 1) = copied + i
    BY <1>2
  <2>. QED
    BY <2>1, <1>13
<1>. HIDE DEF inRing, m
<1>18. Unqueued = [i \in 1..m |-> copied + i]
  BY <1>15, <1>16, <1>17
<1>. QED
  BY <1>18 DEF m

(* What the card took in and the worker has not taken.                     *)
LEMMA ItemsAre ==
  IInv => /\ Queued \o Unqueued = [i \in 1..(accepted - taken) |-> taken + i]
          /\ taken \in Nat /\ accepted \in Nat /\ taken <= accepted
          /\ worker = "take" => taken < accepted /\ current = taken + 1
<1>. SUFFICES ASSUME IInv
              PROVE  /\ Queued \o Unqueued = [i \in 1..(accepted - taken) |-> taken + i]
                     /\ taken \in Nat /\ accepted \in Nat /\ taken <= accepted
                     /\ worker = "take" => taken < accepted /\ current = taken + 1
  OBVIOUS
<1>1. /\ taken \in Nat /\ copied \in Nat /\ accepted \in Nat
      /\ taken <= copied /\ copied <= accepted
      /\ worker = "take" => taken < copied /\ current = taken + 1
  <2>1. copied \in 0..accepted
    BY Copied DEF IInv
  <2>2. taken \in Nat /\ accepted \in Nat /\ taken <= copied
    BY RingAssumption DEF IInv, Types, CardTypes, QueueTypes, Queue
  <2>3. worker = "take" => taken < copied /\ current = taken + 1
    BY DEF IInv, Queue
  <2>. QED
    BY <2>1, <2>2, <2>3
<1>. DEFINE n == copied - taken
<1>. DEFINE m == accepted - copied
<1>2. n \in Nat /\ m \in Nat /\ accepted - taken = n + m
  BY <1>1
<1>3. Queued = [i \in 1..n |-> taken + i] /\ Unqueued = [i \in 1..m |-> copied + i]
  BY QueueIs, UnqueuedIs
<1>. DEFINE q == [i \in 1..n |-> taken + i]
<1>. DEFINE u == [i \in 1..m |-> copied + i]
<1>4. q \in Seq(Nat) /\ Len(q) = n /\ u \in Seq(Nat) /\ Len(u) = m
  <2>. HIDE DEF n, m
  <2>1. q \in Seq(Nat) /\ Len(q) = n
    BY <1>1, <1>2, Numbers
  <2>2. u \in Seq(Nat) /\ Len(u) = m
    BY <1>1, <1>2, Numbers
  <2>. QED
    BY <2>1, <2>2
<1>5. q \o u = [i \in 1..(n + m) |-> IF i <= n THEN q[i] ELSE u[i - n]]
  <2>. HIDE DEF q, u, n, m
  <2>1. /\ q \o u \in Seq(Nat) /\ Len(q \o u) = n + m
        /\ \A i \in 1..(n + m) : (q \o u)[i] = IF i <= n THEN q[i] ELSE u[i - n]
    BY <1>4, ConcatProperties
  <2>2. ASSUME NEW w \in Seq(Nat) PROVE w = [i \in 1..Len(w) |-> w[i]]
    OBVIOUS
  <2>3. q \o u = [i \in 1..(n + m) |-> (q \o u)[i]]
    BY <2>1, <2>2, Zenon
  <2>. QED
    BY <2>1, <2>3
<1>6. ASSUME NEW i \in 1..(n + m)
      PROVE  (IF i <= n THEN q[i] ELSE u[i - n]) = taken + i
  <2>1. CASE i <= n
    BY <2>1, <1>2
  <2>2. CASE i > n
    BY <2>2, <1>1, <1>2
  <2>. QED
    BY <2>1, <2>2, <1>2
<1>7. q \o u = [i \in 1..(n + m) |-> taken + i]
  <2>. HIDE DEF q, u, n, m
  <2>. QED
    BY <1>5, <1>6
<1>. QED
  BY <1>1, <1>2, <1>3, <1>7

(* Behind the first of the numbers come the others.                        *)
LEMMA FirstNumber ==
  ASSUME NEW a \in Nat, NEW n \in Nat \ {0}, NEW s, s = [i \in 1..n |-> a + i]
  PROVE  s # <<>> /\ Head(s) = a + 1 /\ Tail(s) = [i \in 1..(n - 1) |-> (a + 1) + i]
<1>1. s \in Seq(Nat) /\ Len(s) = n /\ s # <<>>
  BY Numbers
<1>2. Head(s) = s[1] /\ s[1] = a + 1
  BY <1>1
<1>3. Tail(s) = [i \in 1..(n - 1) |-> s[i + 1]]
  BY <1>1
<1>4. ASSUME NEW i \in 1..(n - 1) PROVE s[i + 1] = (a + 1) + i
  <2>1. i + 1 \in 1..n /\ a + (i + 1) = (a + 1) + i
    OBVIOUS
  <2>. QED
    BY <2>1
<1>. QED
  BY <1>1, <1>2, <1>3, <1>4

LEMMA FifoStep ==
  IInv /\ IInv' /\ [Next]_vars
    => [Abstract!Put \/ Abstract!Get]_<<Queued \o Unqueued, accepted, taken>>
<1>. DEFINE items == Queued \o Unqueued
<1>. SUFFICES ASSUME IInv, IInv', [Next]_vars
              PROVE  \/ Abstract!Put \/ Abstract!Get
                     \/ items' = items /\ accepted' = accepted /\ taken' = taken
  OBVIOUS
<1>1. /\ items = [i \in 1..(accepted - taken) |-> taken + i]
      /\ taken \in Nat /\ accepted \in Nat /\ taken <= accepted
      /\ worker = "take" => taken < accepted /\ current = taken + 1
  BY ItemsAre
<1>2. items' = [i \in 1..(accepted' - taken') |-> taken' + i]
  <2>1. (Queued \o Unqueued = [i \in 1..(accepted - taken) |-> taken + i])'
    BY ItemsAre, PTL
  <2>. QED
    BY <2>1
<1>. HIDE DEF items
<1>3. ASSUME NEW len \in Lengths, Arrive(len) PROVE Abstract!Put
  <2>1. accepted' = accepted + 1 /\ taken' = taken
    BY <1>3 DEF Arrive, thread
  <2>2. accepted' - taken' = (accepted - taken) + 1 /\ accepted - taken \in Nat
    BY <2>1, <1>1
  <2>3. Append(items, taken + (accepted - taken) + 1)
          = [i \in 1..((accepted - taken) + 1) |-> taken + i]
    BY <2>2, <1>1, Numbers
  <2>4. taken + (accepted - taken) + 1 = accepted'
    BY <2>1, <1>1
  <2>5. items' = Append(items, accepted')
    BY <2>1, <2>2, <2>3, <2>4, <1>2
  <2>. QED
    BY <2>1, <2>5 DEF Abstract!Put, items
<1>4. CASE Take
  <2>1. /\ accepted' = accepted /\ taken' = taken + 1
        /\ accepted - taken \in Nat \ {0}
        /\ accepted' - taken' = (accepted - taken) - 1
    BY <1>1, <1>4 DEF Take, card
  <2>2. /\ items # <<>> /\ Head(items) = taken + 1
        /\ Tail(items) = [i \in 1..((accepted - taken) - 1) |-> (taken + 1) + i]
    BY <2>1, <1>1, FirstNumber
  <2>3. items' = Tail(items)
    BY <2>1, <2>2, <1>2
  <2>. QED
    BY <2>1, <2>2, <2>3 DEF Abstract!Get, items
<1>5. ASSUME accepted' = accepted, taken' = taken PROVE items' = items
  BY <1>1, <1>2, <1>5
<1>6. ASSUME Handler \/ StartWorker \/ SendTestPacket \/ Awake \/ Free \/ UNCHANGED vars
      PROVE  accepted' = accepted /\ taken' = taken
  BY <1>6 DEF Handler, HandlerEnter, ReadLimit, CopyPacket, Advance, HandlerExit,
              StartWorker, SendTestPacket, Awake, Free, vars, card, thread
<1>. QED
  BY <1>3, <1>4, <1>5, <1>6 DEF Next, Worker

(* The packets that the card accepted reach the worker once each and in    *)
(* the order of their arrival.                                             *)
THEOREM DeliversInOrder == Spec => ImplementsFifo
<1>1. Init => Queued \o Unqueued = <<>> /\ accepted = 0 /\ taken = 0
  <2>. SUFFICES ASSUME Init PROVE Queued \o Unqueued = <<>> /\ accepted = 0 /\ taken = 0
    OBVIOUS
  <2>1. accepted = 0 /\ taken = 0 /\ accepted - taken = 0
    BY DEF Init, NULL
  <2>2. Queued \o Unqueued = [i \in 1..0 |-> taken + i]
    BY <2>1, InitIInv, ItemsAre
  <2>. QED
    BY <2>1, <2>2
<1>. QED
  BY <1>1, FifoStep, Inductive, PTL DEF Spec, ImplementsFifo, Abstract!Spec
=============================================================================
