---------------------------- MODULE KHeap_proofs ----------------------------
(***************************************************************************)
(* Proofs about the kernel heap, for any sizes that callers ask for as     *)
(* long as a request and its overhead fit a page (SmallRequests), and for  *)
(* any number of calls and of allocations in use.                          *)
(*                                                                         *)
(* A heap is good if its chunks tile it (Tiles), which is said without     *)
(* walking it, and its lists hold exactly its holes, each once (Lists).    *)
(* kheap_free is in between: the chunk it merges into is the one hole on   *)
(* no list.  The reserve of the last chunk (Reserve) is what makes each    *)
(* call find a chunk and a neighbour, and the chunks in use are those the  *)
(* callers hold (Held).                                                    *)
(***************************************************************************)
EXTENDS KHeap, FiniteSetTheorems, SequenceTheorems, TLAPS

Chunk == [hole : BOOLEAN, size : Nat]

IsHeap(h) ==
  /\ h = [size |-> h.size, node |-> h.node, foot |-> h.foot, bin |-> h.bin]
  /\ h.size \in Nat
  /\ h.node \in [DOMAIN h.node -> Chunk] /\ DOMAIN h.node \subseteq Nat
  /\ h.foot \in [DOMAIN h.foot -> Nat] /\ DOMAIN h.foot \subseteq Nat
  /\ h.bin \in [Bins -> Seq(Nat)]

In(s, x) == \E i \in 1..Len(s) : s[i] = x
NoneTwice(s) == \A i, j \in 1..Len(s) : s[i] = s[j] => i = j

(* Chunk x is on list b; no list has a chunk twice.                        *)
On(h, b, x) == In(h.bin[b], x)
Once(h) == \A b \in Bins : NoneTwice(h.bin[b])

-----------------------------------------------------------------------------
(* Numbers and sequences.                                                  *)
LEMMA Least ==
  ASSUME NEW T, T \subseteq Nat, T # {}
  PROVE  Min(T) \in T /\ \A k \in T : Min(T) <= k
<1>. DEFINE less == {ss \in Nat \X Nat : ss[1] < ss[2]}
<1>1. \E k \in T : \A j \in T : <<j, k>> \notin less
  BY NatLessThanWellFounded, WFMin, Zenon DEF OpToRel
<1>2. \A j, k \in Nat : j < k => <<j, k>> \in less
  OBVIOUS
<1>. HIDE DEF less
<1>3. PICK k \in T : \A j \in T : ~(j < k)
  BY <1>1, <1>2
<1>4. \A j \in T : k <= j
  BY <1>3
<1>. QED
  BY <1>4 DEF Min

(* Every size has a list, and the sizes from 1024 on share the last one.   *)
LEMMA BinIndexIs ==
  ASSUME NEW n \in Nat
  PROVE  BinIndex(n) \in Bins /\ (n >= 1024 => BinIndex(n) = 8)
<1>. DEFINE P(b) == (b = 0 \/ BinFloor[b] <= n) /\ (b = 8 \/ n < BinFloor[b + 1])
<1>0. /\ BinFloor[1] = 8 /\ BinFloor[2] = 16 /\ BinFloor[3] = 32 /\ BinFloor[4] = 64
      /\ BinFloor[5] = 128 /\ BinFloor[6] = 256 /\ BinFloor[7] = 512 /\ BinFloor[8] = 1024
  BY DEF BinFloor
<1>1. \E b \in Bins : P(b)
  <2>1. P(0) \/ P(1) \/ P(2) \/ P(3) \/ P(4) \/ P(5) \/ P(6) \/ P(7) \/ P(8)
    BY <1>0
  <2>. QED
    BY <2>1 DEF Bins
<1>2. BinIndex(n) \in Bins /\ P(BinIndex(n))
  BY <1>1 DEF BinIndex
<1>3. ASSUME NEW b \in Bins, P(b), n >= 1024 PROVE b = 8
  BY <1>0, <1>3 DEF Bins
<1>. QED
  BY <1>2, <1>3

LEMMA InsertAtIs ==
  ASSUME NEW s \in Seq(Nat), NEW e \in Nat, NEW i \in 1..(Len(s) + 1)
  PROVE  /\ InsertAt(s, i, e) \in Seq(Nat) /\ Len(InsertAt(s, i, e)) = Len(s) + 1
         /\ \A j \in 1..(Len(s) + 1) : InsertAt(s, i, e)[j] =
              IF j < i THEN s[j] ELSE IF j = i THEN e ELSE s[j - 1]
<1>0. Len(s) \in Nat
  OBVIOUS
<1>1. PICK u : u = SubSeq(s, 1, i - 1)
  OBVIOUS
<1>2. PICK v : v = SubSeq(s, i, Len(s))
  OBVIOUS
<1>3. PICK x : x = <<e>>
  OBVIOUS
<1>4. u \in Seq(Nat) /\ Len(u) = i - 1 /\ \A j \in 1..(i - 1) : u[j] = s[j]
  BY <1>1
<1>5. /\ v \in Seq(Nat) /\ Len(v) = Len(s) - i + 1
      /\ \A j \in 1..(Len(s) - i + 1) : v[j] = s[i + j - 1]
  BY <1>2
<1>6. x \in Seq(Nat) /\ Len(x) = 1 /\ x[1] = e
  BY <1>3
<1>7. PICK w : w = u \o x
  OBVIOUS
<1>8. w \in Seq(Nat) /\ Len(w) = i /\ \A j \in 1..i : w[j] = IF j < i THEN s[j] ELSE e
  <2>1. i - 1 \in Nat /\ 1 \in Nat /\ (i - 1) + 1 = i
    BY <1>0
  <2>2. /\ w \in Seq(Nat) /\ Len(w) = i
        /\ \A j \in 1..i : w[j] = IF j <= i - 1 THEN u[j] ELSE x[j - (i - 1)]
    <3>1. /\ u \o x \in Seq(Nat) /\ Len(u \o x) = (i - 1) + 1
          /\ \A j \in 1..((i - 1) + 1) :
               (u \o x)[j] = IF j <= i - 1 THEN u[j] ELSE x[j - (i - 1)]
      <4>1. u \in Seq(Nat) /\ x \in Seq(Nat)
        BY <1>4, <1>6
      <4>2. /\ u \o x \in Seq(Nat) /\ Len(u \o x) = Len(u) + Len(x)
            /\ \A j \in 1..(Len(u) + Len(x)) :
                 (u \o x)[j] = IF j <= Len(u) THEN u[j] ELSE x[j - Len(u)]
        BY <4>1, ConcatProperties
      <4>. QED
        BY <4>2, <1>4, <1>6, Zenon
    <3>. QED
      BY <2>1, <3>1, <1>7, Zenon
  <2>3. ASSUME NEW j \in 1..i, j < i PROVE w[j] = s[j]
    <3>1. j \in 1..(i - 1) /\ j <= i - 1
      BY <2>3
    <3>. QED
      BY <3>1, <2>2, <1>4
  <2>4. w[i] = e
    BY <2>1, <2>2, <1>6
  <2>. QED
    BY <2>1, <2>2, <2>3, <2>4
<1>9. PICK t : t = w \o v
  OBVIOUS
<1>10. t = InsertAt(s, i, e)
  BY <1>1, <1>2, <1>3, <1>7, <1>9 DEF InsertAt
<1>11. /\ t \in Seq(Nat) /\ Len(t) = Len(s) + 1
       /\ \A j \in 1..(Len(s) + 1) : t[j] = IF j <= i THEN w[j] ELSE v[j - i]
  <2>1. i \in Nat /\ Len(s) - i + 1 \in Nat /\ i + (Len(s) - i + 1) = Len(s) + 1
    BY <1>0
  <2>2. /\ w \o v \in Seq(Nat) /\ Len(w \o v) = i + (Len(s) - i + 1)
        /\ \A j \in 1..(i + (Len(s) - i + 1)) :
             (w \o v)[j] = IF j <= i THEN w[j] ELSE v[j - i]
    <3>1. w \in Seq(Nat) /\ v \in Seq(Nat)
      BY <1>5, <1>8
    <3>2. /\ w \o v \in Seq(Nat) /\ Len(w \o v) = Len(w) + Len(v)
          /\ \A j \in 1..(Len(w) + Len(v)) :
               (w \o v)[j] = IF j <= Len(w) THEN w[j] ELSE v[j - Len(w)]
      BY <3>1, ConcatProperties
    <3>. QED
      BY <3>2, <1>5, <1>8, Zenon
  <2>. QED
    BY <2>1, <2>2, <1>9, Zenon
<1>12. ASSUME NEW j \in 1..(Len(s) + 1)
       PROVE  t[j] = IF j < i THEN s[j] ELSE IF j = i THEN e ELSE s[j - 1]
  <2>1. CASE j <= i
    BY <2>1, <1>8, <1>11
  <2>2. CASE j > i
    <3>1. j - i \in 1..(Len(s) - i + 1) /\ i + (j - i) - 1 = j - 1
      BY <2>2, <1>0
    <3>2. v[j - i] = s[j - 1]
      BY <3>1, <1>5
    <3>3. t[j] = v[j - i]
      <4>1. ~(j <= i)
        BY <2>2, <1>0
      <4>. QED
        BY <4>1, <1>11
    <3>. QED
      BY <3>2, <3>3, <2>2
  <2>. QED
    BY <2>1, <2>2, <1>0
<1>. QED
  BY <1>10, <1>11, <1>12

LEMMA RemoveFirstIs ==
  ASSUME NEW s \in Seq(Nat), NEW e \in Nat
  PROVE  \/ RemoveFirst(s, e) = s /\ \A i \in 1..Len(s) : s[i] # e
         \/ \E i \in 1..Len(s) :
              /\ s[i] = e
              /\ RemoveFirst(s, e) \in Seq(Nat) /\ Len(RemoveFirst(s, e)) = Len(s) - 1
              /\ \A j \in 1..(Len(s) - 1) :
                   RemoveFirst(s, e)[j] = IF j < i THEN s[j] ELSE s[j + 1]
<1>0. Len(s) \in Nat
  OBVIOUS
<1>1. CASE \A i \in 1..Len(s) : s[i] # e
  BY <1>1 DEF RemoveFirst
<1>2. CASE \E i \in 1..Len(s) : s[i] = e
  <2>. DEFINE I == {i \in 1..Len(s) : s[i] = e}
  <2>1. Min(I) \in I
    <3>1. I \subseteq Nat /\ I # {}
      BY <1>2
    <3>. QED
      BY <3>1, Least
  <2>2. SelectInSeq(s, LAMBDA v : v = e) = Min(I)
    BY <1>2 DEF SelectInSeq
  <2>3. PICK i \in 1..Len(s) : i = Min(I) /\ s[i] = e
    BY <2>1
  <2>4. PICK u : u = SubSeq(s, 1, i - 1)
    OBVIOUS
  <2>5. PICK v : v = SubSeq(s, i + 1, Len(s))
    OBVIOUS
  <2>6. PICK t : t = u \o v
    OBVIOUS
  <2>7. t = RemoveFirst(s, e)
    BY <1>2, <2>2, <2>3, <2>4, <2>5, <2>6 DEF RemoveFirst, RemoveAt
  <2>. HIDE DEF I
  <2>8. u \in Seq(Nat) /\ Len(u) = i - 1 /\ \A j \in 1..(i - 1) : u[j] = s[j]
    BY <2>4
  <2>9. v \in Seq(Nat) /\ Len(v) = Len(s) - i /\ \A j \in 1..(Len(s) - i) : v[j] = s[i + j]
    BY <2>5
  <2>10. /\ t \in Seq(Nat) /\ Len(t) = Len(s) - 1
         /\ \A j \in 1..(Len(s) - 1) : t[j] = IF j <= i - 1 THEN u[j] ELSE v[j - (i - 1)]
    <3>1. i - 1 \in Nat /\ Len(s) - i \in Nat /\ (i - 1) + (Len(s) - i) = Len(s) - 1
      BY <1>0
    <3>2. /\ u \o v \in Seq(Nat) /\ Len(u \o v) = (i - 1) + (Len(s) - i)
          /\ \A j \in 1..((i - 1) + (Len(s) - i)) :
               (u \o v)[j] = IF j <= i - 1 THEN u[j] ELSE v[j - (i - 1)]
      <4>1. u \in Seq(Nat) /\ v \in Seq(Nat)
        BY <2>8, <2>9
      <4>2. /\ u \o v \in Seq(Nat) /\ Len(u \o v) = Len(u) + Len(v)
            /\ \A j \in 1..(Len(u) + Len(v)) :
                 (u \o v)[j] = IF j <= Len(u) THEN u[j] ELSE v[j - Len(u)]
        BY <4>1, ConcatProperties
      <4>. QED
        BY <4>2, <2>8, <2>9, Zenon
    <3>. QED
      BY <3>1, <3>2, <2>6, Zenon
  <2>11. ASSUME NEW j \in 1..(Len(s) - 1) PROVE t[j] = IF j < i THEN s[j] ELSE s[j + 1]
    <3>1. CASE j < i
      BY <3>1, <2>8, <2>10
    <3>2. CASE ~(j < i)
      <4>1. j - (i - 1) \in 1..(Len(s) - i) /\ i + (j - (i - 1)) = j + 1
        BY <3>2, <1>0
      <4>2. v[j - (i - 1)] = s[j + 1]
        BY <4>1, <2>9
      <4>. QED
        BY <3>2, <4>2, <2>10
    <3>. QED
      BY <3>1, <3>2
  <2>. QED
    BY <2>3, <2>7, <2>10, <2>11
<1>. QED
  BY <1>1, <1>2

LEMMA Inserted ==
  ASSUME NEW s \in Seq(Nat), NEW e \in Nat, NEW m \in 1..(Len(s) + 1),
         NEW t, t = InsertAt(s, m, e), NoneTwice(s), ~In(s, e)
  PROVE  /\ t \in Seq(Nat) /\ NoneTwice(t)
         /\ \A x \in Nat : In(t, x) <=> In(s, x) \/ x = e
<1>. DEFINE n == Len(s)
<1>0. /\ InsertAt(s, m, e) \in Seq(Nat) /\ Len(InsertAt(s, m, e)) = Len(s) + 1
      /\ \A j \in 1..(Len(s) + 1) : InsertAt(s, m, e)[j] =
           IF j < m THEN s[j] ELSE IF j = m THEN e ELSE s[j - 1]
  BY InsertAtIs, ZenonT(30)
<1>1. t \in Seq(Nat) /\ Len(t) = n + 1
  BY <1>0
<1>2. \A j \in 1..(n + 1) : t[j] = IF j < m THEN s[j] ELSE IF j = m THEN e ELSE s[j - 1]
  BY <1>0, Zenon
<1>3. /\ n \in Nat /\ m \in 1..(n + 1)
      /\ \A i, j \in 1..n : s[i] = s[j] => i = j
      /\ \A i \in 1..n : s[i] # e
  BY DEF NoneTwice, In
<1>4. /\ \A x : In(s, x) <=> \E i \in 1..n : s[i] = x
      /\ \A x : In(t, x) <=> \E i \in 1..(n + 1) : t[i] = x
  BY <1>1 DEF In
<1>. HIDE DEF n
<1>5. ASSUME NEW j \in 1..(n + 1)
      PROVE  \/ j = m /\ t[j] = e
             \/ \E i \in 1..n : t[j] = s[i] /\ j = IF i < m THEN i ELSE i + 1
  <2>1. CASE j < m
    <3>1. j \in 1..n /\ t[j] = s[j]
      BY <2>1, <1>2, <1>3
    <3>. QED
      BY <3>1, <2>1
  <2>2. CASE j = m
    BY <2>2, <1>2, <1>3
  <2>3. CASE j > m
    <3>1. j - 1 \in 1..n /\ t[j] = s[j - 1] /\ ~(j - 1 < m) /\ (j - 1) + 1 = j
      BY <2>3, <1>2, <1>3
    <3>. QED
      BY <3>1
  <2>. QED
    BY <2>1, <2>2, <2>3, <1>3
<1>6. ASSUME NEW i \in 1..n PROVE \E j \in 1..(n + 1) : t[j] = s[i]
  <2>1. CASE i < m
    <3>1. i \in 1..(n + 1) /\ t[i] = s[i]
      BY <2>1, <1>2, <1>3
    <3>. QED
      BY <3>1
  <2>2. CASE ~(i < m)
    <3>1. i + 1 \in 1..(n + 1) /\ (i + 1) - 1 = i /\ ~(i + 1 < m) /\ i + 1 # m
      BY <2>2, <1>3
    <3>2. t[i + 1] = s[(i + 1) - 1]
      BY <3>1, <1>2, Zenon
    <3>. QED
      BY <3>1, <3>2
  <2>. QED
    BY <2>1, <2>2
<1>7. t[m] = e /\ m \in 1..(n + 1)
  BY <1>2, <1>3
<1>8. \A x \in Nat : In(t, x) <=> In(s, x) \/ x = e
  BY <1>4, <1>5, <1>6, <1>7, SMTT(30)
<1>9. ASSUME NEW i \in 1..(n + 1), NEW j \in 1..(n + 1), t[i] = t[j] PROVE i = j
  <2>1. CASE i = m
    BY <2>1, <1>3, <1>5, <1>7, <1>9
  <2>2. CASE j = m
    BY <2>2, <1>3, <1>5, <1>7, <1>9
  <2>3. CASE i # m /\ j # m
    <3>1. PICK k \in 1..n : t[i] = s[k] /\ i = IF k < m THEN k ELSE k + 1
      BY <2>3, <1>5
    <3>2. PICK l \in 1..n : t[j] = s[l] /\ j = IF l < m THEN l ELSE l + 1
      BY <2>3, <1>5
    <3>3. k = l
      BY <3>1, <3>2, <1>3, <1>9
    <3>. QED
      BY <3>1, <3>2, <3>3
  <2>. QED
    BY <2>1, <2>2, <2>3
<1>. QED
  BY <1>1, <1>8, <1>9 DEF NoneTwice

LEMMA Removed ==
  ASSUME NEW s \in Seq(Nat), NEW e \in Nat, NEW t, t = RemoveFirst(s, e), NoneTwice(s)
  PROVE  /\ t \in Seq(Nat) /\ NoneTwice(t)
         /\ \A x \in Nat : In(t, x) <=> In(s, x) /\ x # e
<1>1. CASE t = s /\ \A i \in 1..Len(s) : s[i] # e
  BY <1>1 DEF In
<1>2. ASSUME NEW m \in 1..Len(s), s[m] = e, t \in Seq(Nat), Len(t) = Len(s) - 1,
             \A j \in 1..(Len(s) - 1) : t[j] = IF j < m THEN s[j] ELSE s[j + 1]
      PROVE  NoneTwice(t) /\ \A x \in Nat : In(t, x) <=> In(s, x) /\ x # e
  <2>. DEFINE n == Len(s)
  <2>1. /\ n \in Nat /\ m \in 1..n /\ s[m] = e
        /\ \A j \in 1..(n - 1) : t[j] = IF j < m THEN s[j] ELSE s[j + 1]
        /\ \A i, j \in 1..n : s[i] = s[j] => i = j
    BY <1>2 DEF NoneTwice
  <2>2. /\ \A x : In(s, x) <=> \E i \in 1..n : s[i] = x
        /\ \A x : In(t, x) <=> \E i \in 1..(n - 1) : t[i] = x
    BY <1>2 DEF In
  <2>. HIDE DEF n
  <2>3. ASSUME NEW j \in 1..(n - 1)
        PROVE  \E i \in 1..n : i # m /\ t[j] = s[i] /\ i = IF j < m THEN j ELSE j + 1
    BY <2>1
  <2>4. ASSUME NEW i \in 1..n, i # m PROVE \E j \in 1..(n - 1) : t[j] = s[i]
    <3>1. CASE i < m
      BY <3>1, <2>1
    <3>2. CASE i > m
      <4>1. i - 1 \in 1..(n - 1) /\ (i - 1) + 1 = i /\ ~(i - 1 < m)
        BY <3>2, <2>1
      <4>2. t[i - 1] = s[(i - 1) + 1]
        BY <4>1, <2>1, Zenon
      <4>. QED
        BY <4>1, <4>2
    <3>. QED
      BY <3>1, <3>2, <2>4, <2>1
  <2>5. \A x \in Nat : In(t, x) <=> In(s, x) /\ x # e
    <3>1. ASSUME NEW x \in Nat, In(t, x) PROVE In(s, x) /\ x # e
      <4>1. PICK j \in 1..(n - 1) : t[j] = x
        BY <3>1, <2>2, Zenon
      <4>2. PICK i \in 1..n : i # m /\ t[j] = s[i]
        BY <2>3
      <4>3. s[i] # e
        BY <4>2, <2>1
      <4>. QED
        BY <4>1, <4>2, <4>3, <2>2
    <3>2. ASSUME NEW x \in Nat, In(s, x), x # e PROVE In(t, x)
      <4>1. PICK i \in 1..n : s[i] = x
        BY <3>2, <2>2, Zenon
      <4>. QED
        BY <4>1, <3>2, <2>1, <2>2, <2>4
    <3>. QED
      BY <3>1, <3>2
  <2>6. ASSUME NEW i \in 1..(n - 1), NEW j \in 1..(n - 1), t[i] = t[j] PROVE i = j
    <3>1. PICK k \in 1..n : t[i] = s[k] /\ k = IF i < m THEN i ELSE i + 1
      BY <2>3
    <3>2. PICK l \in 1..n : t[j] = s[l] /\ l = IF j < m THEN j ELSE j + 1
      BY <2>3
    <3>3. k = l
      BY <3>1, <3>2, <2>1, <2>6
    <3>. QED
      BY <3>1, <3>2, <3>3, <2>1
  <2>. QED
    BY <1>2, <2>5, <2>6 DEF NoneTwice, n
<1>. QED
  BY <1>1, <1>2, RemoveFirstIs

-----------------------------------------------------------------------------
(* What the functions that change the heap do to its parts.                *)
(* In r, there is a chunk of size n at a, and nothing else has changed.    *)
IsPut(h, a, isHole, n, r) ==
  /\ IsHeap(r) /\ r.size = h.size /\ r.bin = h.bin
  /\ DOMAIN r.node = DOMAIN h.node \cup {a}
  /\ r.node[a] = [hole |-> isHole, size |-> n]
  /\ \A x \in DOMAIN h.node : x # a => r.node[x] = h.node[x]
  /\ DOMAIN r.foot = DOMAIN h.foot \cup {FooterOf(a, n)}
  /\ r.foot[FooterOf(a, n)] = a
  /\ \A f \in DOMAIN h.foot : f # FooterOf(a, n) => r.foot[f] = h.foot[f]

LEMMA PutChunkIs ==
  ASSUME NEW h, IsHeap(h), NEW a \in Nat, NEW n \in Nat, NEW isHole, isHole \in BOOLEAN,
         NEW r, r = PutChunk(h, a, isHole, n)
  PROVE  IsPut(h, a, isHole, n, r)
<1>. USE DEF IsPut
<1>1. /\ r.size = h.size /\ r.bin = h.bin
      /\ r.node = Write(h.node, a, [hole |-> isHole, size |-> n])
      /\ r.foot = Write(h.foot, FooterOf(a, n), a)
      /\ r = [size |-> r.size, node |-> r.node, foot |-> r.foot, bin |-> r.bin]
  BY DEF PutChunk, IsHeap
<1>2. [hole |-> isHole, size |-> n] \in Chunk /\ FooterOf(a, n) \in Nat
  BY DEF Chunk, FooterOf, NodeSize
<1>3. /\ DOMAIN r.node = DOMAIN h.node \cup {a}
      /\ r.node[a] = [hole |-> isHole, size |-> n]
      /\ \A x \in DOMAIN h.node : x # a => r.node[x] = h.node[x]
      /\ r.node \in [DOMAIN r.node -> Chunk]
  BY <1>1, <1>2 DEF IsHeap, Write
<1>4. /\ DOMAIN r.foot = DOMAIN h.foot \cup {FooterOf(a, n)}
      /\ r.foot[FooterOf(a, n)] = a
      /\ \A f \in DOMAIN h.foot : f # FooterOf(a, n) => r.foot[f] = h.foot[f]
      /\ r.foot \in [DOMAIN r.foot -> Nat]
  BY <1>1, <1>2 DEF IsHeap, Write
<1>5. IsHeap(r)
  BY <1>1, <1>2, <1>3, <1>4 DEF IsHeap
<1>. QED
  BY <1>1, <1>3, <1>4, <1>5

LEMMA HoleIs == Hole \in BOOLEAN /\ InUse \in BOOLEAN
BY DEF Hole, InUse

LEMMA DropNodeIs ==
  ASSUME NEW h, IsHeap(h), NEW a, NEW r, r = DropNode(h, a)
  PROVE  /\ IsHeap(r) /\ r.size = h.size /\ r.bin = h.bin /\ r.foot = h.foot
         /\ DOMAIN r.node = DOMAIN h.node \ {a}
         /\ \A x \in DOMAIN r.node : r.node[x] = h.node[x]
<1>1. /\ r.size = h.size /\ r.bin = h.bin /\ r.foot = h.foot
      /\ r.node = Restrict(h.node, DOMAIN h.node \ {a})
      /\ r = [size |-> r.size, node |-> r.node, foot |-> r.foot, bin |-> r.bin]
  BY DEF DropNode, IsHeap
<1>2. /\ DOMAIN r.node = DOMAIN h.node \ {a}
      /\ \A x \in DOMAIN r.node : r.node[x] = h.node[x]
      /\ r.node \in [DOMAIN r.node -> Chunk]
  BY <1>1 DEF IsHeap, Restrict
<1>. QED
  BY <1>1, <1>2 DEF IsHeap

LEMMA DropFooterIs ==
  ASSUME NEW h, IsHeap(h), NEW f, NEW r, r = DropFooter(h, f)
  PROVE  /\ IsHeap(r) /\ r.size = h.size /\ r.bin = h.bin /\ r.node = h.node
         /\ DOMAIN r.foot = DOMAIN h.foot \ {f}
         /\ \A x \in DOMAIN r.foot : r.foot[x] = h.foot[x]
<1>1. /\ r.size = h.size /\ r.bin = h.bin /\ r.node = h.node
      /\ r.foot = Restrict(h.foot, DOMAIN h.foot \ {f})
      /\ r = [size |-> r.size, node |-> r.node, foot |-> r.foot, bin |-> r.bin]
  BY DEF DropFooter, IsHeap
<1>2. /\ DOMAIN r.foot = DOMAIN h.foot \ {f}
      /\ \A x \in DOMAIN r.foot : r.foot[x] = h.foot[x]
      /\ r.foot \in [DOMAIN r.foot -> Nat]
  BY <1>1 DEF IsHeap, Restrict
<1>. QED
  BY <1>1, <1>2 DEF IsHeap

LEMMA ClearIs ==
  ASSUME NEW h, IsHeap(h), NEW a \in DOMAIN h.node, NEW r, r = Clear(h, a)
  PROVE  /\ IsHeap(r) /\ r.size = h.size /\ r.bin = h.bin /\ r.foot = h.foot
         /\ DOMAIN r.node = DOMAIN h.node
         /\ \A x \in DOMAIN h.node : x # a => r.node[x] = h.node[x]
<1>1. /\ r.size = h.size /\ r.bin = h.bin /\ r.foot = h.foot
      /\ r.node = [h.node EXCEPT ![a] = [hole |-> InUse, size |-> 0]]
      /\ r = [size |-> r.size, node |-> r.node, foot |-> r.foot, bin |-> r.bin]
  BY DEF IsHeap, Clear
<1>2. [hole |-> InUse, size |-> 0] \in Chunk
  BY HoleIs DEF Chunk
<1>3. /\ DOMAIN r.node = DOMAIN h.node
      /\ \A x \in DOMAIN h.node : x # a => r.node[x] = h.node[x]
      /\ r.node \in [DOMAIN r.node -> Chunk]
  BY <1>1, <1>2 DEF IsHeap
<1>. QED
  BY <1>1, <1>3 DEF IsHeap

LEMMA MarkIs ==
  ASSUME NEW h, IsHeap(h), NEW a \in DOMAIN h.node, NEW v, v \in BOOLEAN,
         NEW r, r = Mark(h, a, v)
  PROVE  /\ IsHeap(r) /\ r.size = h.size /\ r.bin = h.bin /\ r.foot = h.foot
         /\ DOMAIN r.node = DOMAIN h.node
         /\ r.node[a] = [hole |-> v, size |-> h.node[a].size]
         /\ \A x \in DOMAIN h.node : x # a => r.node[x] = h.node[x]
<1>1. /\ r.size = h.size /\ r.bin = h.bin /\ r.foot = h.foot
      /\ r.node = [h.node EXCEPT ![a].hole = v]
      /\ r = [size |-> r.size, node |-> r.node, foot |-> r.foot, bin |-> r.bin]
  BY DEF IsHeap, Mark
<1>2. h.node[a] \in Chunk
  BY DEF IsHeap
<1>3. [h.node[a] EXCEPT !.hole = v] = [hole |-> v, size |-> h.node[a].size]
  BY <1>2 DEF Chunk
<1>4. [hole |-> v, size |-> h.node[a].size] \in Chunk
  BY <1>2 DEF Chunk
<1>5. /\ DOMAIN r.node = DOMAIN h.node
      /\ r.node[a] = [hole |-> v, size |-> h.node[a].size]
      /\ \A x \in DOMAIN h.node : x # a => r.node[x] = h.node[x]
      /\ r.node \in [DOMAIN r.node -> Chunk]
  BY <1>1, <1>3, <1>4 DEF IsHeap
<1>. QED
  BY <1>1, <1>5 DEF IsHeap

LEMMA MarkUsedIs ==
  ASSUME NEW h, IsHeap(h), NEW a \in DOMAIN h.node, NEW r, r = Mark(h, a, InUse)
  PROVE  /\ IsHeap(r) /\ r.size = h.size /\ r.bin = h.bin /\ r.foot = h.foot
         /\ DOMAIN r.node = DOMAIN h.node
         /\ ~r.node[a].hole /\ r.node[a].size = h.node[a].size
         /\ \A x \in DOMAIN h.node : x # a => r.node[x] = h.node[x]
<1>0. InUse \in BOOLEAN
  BY DEF InUse
<1>1. /\ IsHeap(r) /\ r.size = h.size /\ r.bin = h.bin /\ r.foot = h.foot
      /\ DOMAIN r.node = DOMAIN h.node
      /\ r.node[a] = [hole |-> InUse, size |-> h.node[a].size]
      /\ \A x \in DOMAIN h.node : x # a => r.node[x] = h.node[x]
  BY <1>0, MarkIs
<1>2. r.node[a].hole = InUse /\ r.node[a].size = h.node[a].size
  BY <1>1
<1>3. ~r.node[a].hole
  BY <1>2, Zenon DEF InUse
<1>. QED
  BY <1>1, <1>2, <1>3

LEMMA MarkHoleIs ==
  ASSUME NEW h, IsHeap(h), NEW a \in DOMAIN h.node, NEW r, r = Mark(h, a, Hole)
  PROVE  /\ IsHeap(r) /\ r.size = h.size /\ r.bin = h.bin /\ r.foot = h.foot
         /\ DOMAIN r.node = DOMAIN h.node
         /\ r.node[a].hole /\ r.node[a].size = h.node[a].size
         /\ \A x \in DOMAIN h.node : x # a => r.node[x] = h.node[x]
<1>0. Hole \in BOOLEAN
  BY DEF Hole
<1>1. /\ IsHeap(r) /\ r.size = h.size /\ r.bin = h.bin /\ r.foot = h.foot
      /\ DOMAIN r.node = DOMAIN h.node
      /\ r.node[a] = [hole |-> Hole, size |-> h.node[a].size]
      /\ \A x \in DOMAIN h.node : x # a => r.node[x] = h.node[x]
  BY <1>0, MarkIs
<1>2. r.node[a].hole = Hole /\ r.node[a].size = h.node[a].size
  BY <1>1
<1>3. r.node[a].hole
  BY <1>2, Zenon DEF Hole
<1>. QED
  BY <1>1, <1>2, <1>3

LEMMA AddNodeIs ==
  ASSUME NEW h, IsHeap(h), NEW b \in Bins, NEW a \in Nat, NEW r, r = AddNode(h, b, a),
         Once(h), ~On(h, b, a)
  PROVE  /\ IsHeap(r) /\ r.size = h.size /\ r.node = h.node /\ r.foot = h.foot
         /\ \A c \in Bins, x \in Nat : On(r, c, x) <=> On(h, c, x) \/ (c = b /\ x = a)
         /\ Once(r)
<1>. DEFINE bigger == {i \in DOMAIN h.bin[b] : h.node[h.bin[b][i]].size > h.node[a].size}
<1>. DEFINE at == IF bigger = {} THEN Len(h.bin[b]) + 1 ELSE Min(bigger)
<1>1. h.bin[b] \in Seq(Nat) /\ DOMAIN h.bin[b] = 1..Len(h.bin[b]) /\ Len(h.bin[b]) \in Nat
  BY DEF IsHeap
<1>2. at \in 1..(Len(h.bin[b]) + 1)
  <2>1. bigger \subseteq Nat /\ bigger \subseteq 1..Len(h.bin[b])
    BY <1>1
  <2>2. bigger # {} => Min(bigger) \in bigger
    <3>. HIDE DEF bigger
    <3>. QED
      BY <2>1, Least
  <2>3. bigger # {} => Min(bigger) \in 1..Len(h.bin[b])
    BY <2>1, <2>2
  <2>. HIDE DEF bigger
  <2>. QED
    BY <2>3, <1>1
<1>3. /\ r.size = h.size /\ r.node = h.node /\ r.foot = h.foot
      /\ r.bin = [h.bin EXCEPT ![b] = InsertAt(h.bin[b], at, a)]
      /\ r = [size |-> r.size, node |-> r.node, foot |-> r.foot, bin |-> r.bin]
  BY DEF AddNode, IsHeap
<1>4. r.bin[b] = InsertAt(h.bin[b], at, a) /\ \A c \in Bins : c # b => r.bin[c] = h.bin[c]
  BY <1>3 DEF IsHeap
<1>. HIDE DEF at
<1>5. NoneTwice(h.bin[b]) /\ ~In(h.bin[b], a)
  BY DEF Once, On
<1>6. /\ r.bin[b] \in Seq(Nat) /\ NoneTwice(r.bin[b])
      /\ \A x \in Nat : In(r.bin[b], x) <=> In(h.bin[b], x) \/ x = a
  BY <1>1, <1>2, <1>4, <1>5, Inserted
<1>7. r.bin \in [Bins -> Seq(Nat)]
  BY <1>3, <1>4, <1>6 DEF IsHeap
<1>. QED
  BY <1>3, <1>4, <1>6, <1>7 DEF IsHeap, On, Once

LEMMA RemoveNodeIs ==
  ASSUME NEW h, IsHeap(h), NEW b \in Bins, NEW a \in Nat, NEW r, r = RemoveNode(h, b, a),
         Once(h)
  PROVE  /\ IsHeap(r) /\ r.size = h.size /\ r.node = h.node /\ r.foot = h.foot
         /\ \A c \in Bins, x \in Nat : On(r, c, x) <=> On(h, c, x) /\ ~(c = b /\ x = a)
         /\ Once(r)
<1>1. h.bin[b] \in Seq(Nat) /\ NoneTwice(h.bin[b])
  BY DEF IsHeap, Once
<1>2. /\ r.size = h.size /\ r.node = h.node /\ r.foot = h.foot
      /\ r.bin = [h.bin EXCEPT ![b] = RemoveFirst(h.bin[b], a)]
      /\ r = [size |-> r.size, node |-> r.node, foot |-> r.foot, bin |-> r.bin]
  BY DEF RemoveNode, IsHeap
<1>3. r.bin[b] = RemoveFirst(h.bin[b], a) /\ \A c \in Bins : c # b => r.bin[c] = h.bin[c]
  BY <1>2 DEF IsHeap
<1>4. /\ r.bin[b] \in Seq(Nat) /\ NoneTwice(r.bin[b])
      /\ \A x \in Nat : In(r.bin[b], x) <=> In(h.bin[b], x) /\ x # a
  BY <1>1, <1>3, Removed
<1>5. r.bin \in [Bins -> Seq(Nat)]
  BY <1>2, <1>3, <1>4 DEF IsHeap
<1>. QED
  BY <1>2, <1>3, <1>4, <1>5 DEF IsHeap, On, Once

-----------------------------------------------------------------------------
(* The chunks tile the heap, and the footers point back to them.           *)
Tiles(h) ==
  /\ 0 \in DOMAIN h.node
  /\ \A a \in DOMAIN h.node :
       /\ EndOf(h, a) \in DOMAIN h.node \cup {h.size}
       /\ EndOf(h, a) <= h.size
       /\ EndOf(h, a) - 4 \in DOMAIN h.foot
       /\ h.foot[EndOf(h, a) - 4] = a
       /\ a = 0 \/ a - 4 \in DOMAIN h.foot
  /\ \A a, b \in DOMAIN h.node : a < b => EndOf(h, a) <= b
  /\ \A f \in DOMAIN h.foot : h.foot[f] \in DOMAIN h.node /\ EndOf(h, h.foot[f]) = f + 4
  /\ h.size - 4 \in DOMAIN h.foot

LEMMA Ends ==
  ASSUME NEW h, IsHeap(h), NEW a \in DOMAIN h.node
  PROVE  /\ EndOf(h, a) = a + 20 + h.node[a].size /\ EndOf(h, a) \in Nat
         /\ EndOf(h, a) >= a + 20 /\ a \in Nat
         /\ h.node[a] \in Chunk /\ h.node[a].size \in Nat
         /\ FooterOf(a, h.node[a].size) = EndOf(h, a) - 4
<1>1. a \in Nat /\ h.node[a] \in Chunk
  BY DEF IsHeap
<1>2. h.node[a].size \in Nat
  BY <1>1 DEF Chunk
<1>. QED
  BY <1>1, <1>2 DEF EndOf, FooterOf, NodeSize, FooterSize

LEMMA WildernessIs ==
  ASSUME NEW h, IsHeap(h), Tiles(h)
  PROVE  /\ Wilderness(h) \in DOMAIN h.node /\ EndOf(h, Wilderness(h)) = h.size
         /\ \A a \in DOMAIN h.node : EndOf(h, a) = h.size => a = Wilderness(h)
<1>1. h.size \in Nat /\ (h.size - 4) + 4 = h.size
  BY DEF IsHeap
<1>. QED
  BY <1>1 DEF Tiles, Wilderness, FooterSize

(* In r, chunk a of h ends where a new one begins, which takes the rest.   *)
IsSplit(h, a, rest, r) ==
  /\ a < rest /\ rest < EndOf(h, a)
  /\ r.size = h.size /\ DOMAIN r.node = DOMAIN h.node \cup {rest}
  /\ EndOf(r, a) = rest /\ EndOf(r, rest) = EndOf(h, a)
  /\ \A x \in DOMAIN h.node : x # a => EndOf(r, x) = EndOf(h, x)
  /\ DOMAIN r.foot = DOMAIN h.foot \cup {rest - 4}
  /\ r.foot[rest - 4] = a /\ r.foot[EndOf(h, a) - 4] = rest
  /\ \A f \in DOMAIN h.foot : f # EndOf(h, a) - 4 => r.foot[f] = h.foot[f]

LEMMA SplitTiles ==
  ASSUME NEW h, IsHeap(h), Tiles(h), NEW r, IsHeap(r), NEW a \in DOMAIN h.node,
         NEW rest \in Nat, IsSplit(h, a, rest, r)
  PROVE  Tiles(r)
<1>. USE DEF IsSplit
<1>. DEFINE N == DOMAIN h.node
<1>0. /\ \A x \in N : x \in Nat /\ EndOf(h, x) \in Nat /\ EndOf(h, x) >= x + 20
      /\ \A f \in DOMAIN h.foot : f \in Nat
      /\ h.size \in Nat
  BY Ends DEF IsHeap
<1>1. rest \notin N
  BY <1>0 DEF Tiles
<1>2. rest - 4 \notin DOMAIN h.foot
  <2>. SUFFICES ASSUME rest - 4 \in DOMAIN h.foot PROVE FALSE
    OBVIOUS
  <2>1. PICK c \in N : EndOf(h, c) = rest
    BY DEF Tiles
  <2>. QED
    BY <2>1, <1>0 DEF Tiles
<1>3. \A x \in N : x # a => EndOf(h, x) # EndOf(h, a)
  BY <1>0 DEF Tiles
<1>4. ASSUME NEW x \in DOMAIN r.node
      PROVE  /\ EndOf(r, x) \in DOMAIN r.node \cup {r.size}
             /\ EndOf(r, x) <= r.size
             /\ EndOf(r, x) - 4 \in DOMAIN r.foot
             /\ r.foot[EndOf(r, x) - 4] = x
             /\ x = 0 \/ x - 4 \in DOMAIN r.foot
  <2>1. CASE x = a
    BY <2>1, <1>0 DEF Tiles
  <2>2. CASE x = rest
    BY <2>2, <1>0 DEF Tiles
  <2>3. CASE x \in N /\ x # a
    <3>1. /\ EndOf(r, x) = EndOf(h, x) /\ EndOf(h, x) - 4 # EndOf(h, a) - 4
          /\ EndOf(h, x) - 4 \in DOMAIN h.foot
      BY <2>3, <1>0, <1>3 DEF Tiles
    <3>. QED
      BY <3>1, <2>3 DEF Tiles
  <2>. QED
    BY <2>1, <2>2, <2>3
<1>5. ASSUME NEW x \in DOMAIN r.node, NEW y \in DOMAIN r.node, x < y PROVE EndOf(r, x) <= y
  <2>0. \A u, v \in N : u < v => EndOf(h, u) <= v
    BY DEF Tiles
  <2>1. CASE x \in N /\ y \in N
    BY <2>0, <2>1, <1>0, <1>5
  <2>2. CASE x = rest
    BY <2>0, <2>2, <1>0, <1>5
  <2>3. CASE y = rest
    BY <2>0, <2>3, <1>0, <1>5
  <2>. QED
    BY <2>1, <2>2, <2>3
<1>6. ASSUME NEW f \in DOMAIN r.foot
      PROVE  r.foot[f] \in DOMAIN r.node /\ EndOf(r, r.foot[f]) = f + 4
  <2>1. CASE f = rest - 4
    BY <2>1
  <2>2. CASE f = EndOf(h, a) - 4
    BY <2>2, <1>0
  <2>3. CASE f \in DOMAIN h.foot /\ f # EndOf(h, a) - 4
    <3>1. /\ h.foot[f] \in N /\ EndOf(h, h.foot[f]) = f + 4
          /\ r.foot[f] = h.foot[f] /\ f \in Nat
      BY <2>3, <1>0 DEF Tiles
    <3>2. h.foot[f] # a
      BY <2>3, <3>1, <1>0
    <3>. QED
      BY <3>1, <3>2
  <2>. QED
    BY <2>1, <2>2, <2>3
<1>7. 0 \in DOMAIN r.node /\ r.size - 4 \in DOMAIN r.foot
  BY DEF Tiles
<1>. QED
  BY <1>4, <1>5, <1>6, <1>7 DEF Tiles

LEMMA MergeTiles ==
  ASSUME NEW h, IsHeap(h), Tiles(h), NEW r, IsHeap(r),
         NEW a \in DOMAIN h.node, NEW b \in DOMAIN h.node, EndOf(h, a) = b,
         r.size = h.size, DOMAIN r.node = DOMAIN h.node \ {b},
         EndOf(r, a) = EndOf(h, b),
         \A x \in DOMAIN r.node : x # a => EndOf(r, x) = EndOf(h, x),
         DOMAIN r.foot = (DOMAIN h.foot \ {b - 4}) \cup {EndOf(h, b) - 4},
         r.foot[EndOf(h, b) - 4] = a,
         \A f \in DOMAIN r.foot : f # EndOf(h, b) - 4 => r.foot[f] = h.foot[f]
  PROVE  Tiles(r)
<1>. DEFINE N == DOMAIN h.node
<1>0. /\ \A x \in N : x \in Nat /\ EndOf(h, x) \in Nat /\ EndOf(h, x) >= x + 20
      /\ \A f \in DOMAIN h.foot : f \in Nat
      /\ h.size \in Nat
  BY Ends DEF IsHeap
<1>1. /\ \A x \in N : x # a => EndOf(h, x) # b
      /\ \A x \in N : x # b => EndOf(h, x) # EndOf(h, b)
      /\ b # 0 /\ a < b
  BY <1>0 DEF Tiles
<1>2. EndOf(h, b) - 4 \in DOMAIN h.foot /\ EndOf(h, b) - 4 # b - 4
  BY <1>0 DEF Tiles
<1>3. DOMAIN r.foot = DOMAIN h.foot \ {b - 4} /\ DOMAIN r.node \subseteq N
  BY <1>2
<1>4. ASSUME NEW x \in DOMAIN r.node
      PROVE  /\ EndOf(r, x) \in DOMAIN r.node \cup {r.size}
             /\ EndOf(r, x) <= r.size
             /\ EndOf(r, x) - 4 \in DOMAIN r.foot
             /\ r.foot[EndOf(r, x) - 4] = x
             /\ x = 0 \/ x - 4 \in DOMAIN r.foot
  <2>0. x = 0 \/ x - 4 \in DOMAIN r.foot
    BY <1>0, <1>3 DEF Tiles
  <2>1. CASE x = a
    <3>1. EndOf(h, b) \in N \cup {h.size} /\ EndOf(h, b) # b
      BY <1>0 DEF Tiles
    <3>. QED
      BY <2>0, <2>1, <3>1, <1>2 DEF Tiles
  <2>2. CASE x # a
    <3>1. /\ EndOf(r, x) = EndOf(h, x) /\ EndOf(h, x) - 4 # EndOf(h, b) - 4
          /\ EndOf(h, x) - 4 \in DOMAIN h.foot /\ EndOf(h, x) # b
          /\ EndOf(h, x) - 4 # b - 4
      BY <2>2, <1>0, <1>1, <1>3 DEF Tiles
    <3>. QED
      BY <2>0, <3>1, <1>3 DEF Tiles
  <2>. QED
    BY <2>1, <2>2
<1>5. ASSUME NEW x \in DOMAIN r.node, NEW y \in DOMAIN r.node, x < y PROVE EndOf(r, x) <= y
  <2>0. \A u, v \in N : u < v => EndOf(h, u) <= v
    BY DEF Tiles
  <2>1. CASE x = a
    BY <2>0, <2>1, <1>0, <1>1, <1>5
  <2>2. CASE x # a
    BY <2>0, <2>2, <1>5
  <2>. QED
    BY <2>1, <2>2
<1>6. ASSUME NEW f \in DOMAIN r.foot
      PROVE  r.foot[f] \in DOMAIN r.node /\ EndOf(r, r.foot[f]) = f + 4
  <2>1. CASE f = EndOf(h, b) - 4
    BY <2>1, <1>0, <1>1
  <2>2. CASE f # EndOf(h, b) - 4
    <3>1. /\ h.foot[f] \in N /\ EndOf(h, h.foot[f]) = f + 4
          /\ r.foot[f] = h.foot[f] /\ f \in Nat
      BY <2>2, <1>0, <1>3 DEF Tiles
    <3>2. h.foot[f] # b /\ h.foot[f] # a
      BY <2>2, <3>1, <1>0, <1>3
    <3>. QED
      BY <3>1, <3>2
  <2>. QED
    BY <2>1, <2>2
<1>7. 0 \in DOMAIN r.node /\ r.size - 4 \in DOMAIN r.foot
  <2>1. h.size - 4 # b - 4
    BY <1>0 DEF Tiles
  <2>. QED
    BY <2>1, <1>1, <1>3 DEF Tiles
<1>. QED
  BY <1>4, <1>5, <1>6, <1>7 DEF Tiles

LEMMA GrowTiles ==
  ASSUME NEW h, IsHeap(h), Tiles(h), NEW r, IsHeap(r), r.size > h.size,
         DOMAIN r.node = DOMAIN h.node, EndOf(r, Wilderness(h)) = r.size,
         \A x \in DOMAIN h.node : x # Wilderness(h) => EndOf(r, x) = EndOf(h, x),
         DOMAIN r.foot = (DOMAIN h.foot \ {h.size - 4}) \cup {r.size - 4},
         r.foot[r.size - 4] = Wilderness(h),
         \A f \in DOMAIN h.foot : f # h.size - 4 => r.foot[f] = h.foot[f]
  PROVE  Tiles(r) /\ Wilderness(r) = Wilderness(h)
<1>. DEFINE N == DOMAIN h.node
<1>. DEFINE w == Wilderness(h)
<1>0. /\ \A x \in N : x \in Nat /\ EndOf(h, x) \in Nat /\ EndOf(h, x) >= x + 20
      /\ \A f \in DOMAIN h.foot : f \in Nat
      /\ h.size \in Nat /\ r.size \in Nat
  BY Ends DEF IsHeap
<1>1. w \in N /\ EndOf(h, w) = h.size /\ \A x \in N : x # w => EndOf(h, x) # h.size
  BY WildernessIs
<1>2. Wilderness(r) = w
  BY DEF Wilderness, FooterSize
<1>. HIDE DEF w
<1>3. \A x \in N : x # w => x < w
  BY <1>0, <1>1 DEF Tiles
<1>4. ASSUME NEW x \in N
      PROVE  /\ EndOf(r, x) \in N \cup {r.size}
             /\ EndOf(r, x) <= r.size
             /\ EndOf(r, x) - 4 \in DOMAIN r.foot
             /\ r.foot[EndOf(r, x) - 4] = x
             /\ x = 0 \/ x - 4 \in DOMAIN r.foot
  <2>0. x = 0 \/ x - 4 \in DOMAIN r.foot
    <3>1. x < h.size
      BY <1>0, <1>1, <1>3
    <3>2. x - 4 # h.size - 4
      BY <1>0, <3>1
    <3>. QED
      BY <3>2 DEF Tiles
  <2>1. CASE x = w
    BY <2>0, <2>1, <1>0 DEF w
  <2>2. CASE x # w
    <3>1. EndOf(r, x) = EndOf(h, x) /\ EndOf(h, x) # h.size
      BY <2>2, <1>1 DEF w
    <3>2. /\ EndOf(h, x) - 4 \in DOMAIN h.foot /\ EndOf(h, x) - 4 # h.size - 4
          /\ h.foot[EndOf(h, x) - 4] = x /\ EndOf(h, x) \in N /\ EndOf(h, x) <= h.size
      BY <3>1, <1>0 DEF Tiles
    <3>. QED
      BY <2>0, <3>1, <3>2, <1>0
  <2>. QED
    BY <2>1, <2>2
<1>5. ASSUME NEW x \in N, NEW y \in N, x < y PROVE EndOf(r, x) <= y
  <2>1. x # w
    BY <1>0, <1>1, <1>3, <1>5
  <2>. QED
    BY <2>1, <1>5 DEF Tiles, w
<1>6. ASSUME NEW f \in DOMAIN r.foot
      PROVE  r.foot[f] \in N /\ EndOf(r, r.foot[f]) = f + 4
  <2>1. CASE f = r.size - 4
    BY <2>1, <1>0, <1>1 DEF w
  <2>2. CASE f \in DOMAIN h.foot /\ f # h.size - 4
    <3>1. /\ h.foot[f] \in N /\ EndOf(h, h.foot[f]) = f + 4
          /\ r.foot[f] = h.foot[f] /\ f \in Nat
      BY <2>2, <1>0 DEF Tiles
    <3>2. h.foot[f] # w
      BY <2>2, <3>1, <1>0, <1>1
    <3>. QED
      BY <3>1, <3>2 DEF w
  <2>. QED
    BY <2>1, <2>2
<1>7. 0 \in DOMAIN r.node /\ r.size - 4 \in DOMAIN r.foot
  BY DEF Tiles
<1>. QED
  BY <1>2, <1>4, <1>5, <1>6, <1>7 DEF Tiles, w

LEMMA SameTiles ==
  ASSUME NEW h, Tiles(h), NEW r, r.size = h.size, r.foot = h.foot,
         DOMAIN r.node = DOMAIN h.node,
         \A x \in DOMAIN h.node : EndOf(r, x) = EndOf(h, x)
  PROVE  Tiles(r) /\ Wilderness(r) = Wilderness(h)
BY DEF Tiles, Wilderness

-----------------------------------------------------------------------------
(* Every hole but those of "except" is on the list of its size, and on no  *)
(* other, and nothing else is on a list.                                   *)
Lists(h, except) ==
  /\ Once(h)
  /\ \A b \in Bins, x \in Nat : On(h, b, x) <=>
       IsHole(h, x) /\ x \notin except /\ b = BinIndex(h.node[x].size)

Good(h) == IsHeap(h) /\ Tiles(h) /\ Lists(h, {}) /\ h.size % Page = 0

Reserve(h, k) == IsHole(h, Wilderness(h)) /\ h.node[Wilderness(h)].size >= k

Used(h) == {x \in DOMAIN h.node : ~h.node[x].hole}

LEMMA ExpandIs ==
  ASSUME NEW h, IsHeap(h), Tiles(h), NEW r, r = Expand(h, Page)
  PROVE  /\ IsHeap(r) /\ Tiles(r) /\ r.size = h.size + 4096 /\ r.bin = h.bin
         /\ Wilderness(r) = Wilderness(h) /\ DOMAIN r.node = DOMAIN h.node
         /\ r.node[Wilderness(h)] = [hole |-> h.node[Wilderness(h)].hole,
                                     size |-> h.node[Wilderness(h)].size + 4096]
         /\ \A x \in DOMAIN h.node : x # Wilderness(h) => r.node[x] = h.node[x]
<1>1. PICK w : w = Wilderness(h)
  OBVIOUS
<1>2. w \in DOMAIN h.node /\ EndOf(h, w) = h.size
  BY <1>1, WildernessIs
<1>3. /\ w \in Nat /\ h.node[w].size \in Nat /\ h.node[w].hole \in BOOLEAN
      /\ EndOf(h, w) = w + 20 + h.node[w].size
  BY <1>2, Ends DEF Chunk
<1>4. PICK d : d = DropFooter(h, h.size - FooterSize)
  OBVIOUS
<1>. DEFINE grown == [d EXCEPT !.size = @ + 4096]
<1>. HIDE DEF grown
<1>5. PICK g : g = grown
  OBVIOUS
<1>5a. PICK n \in Nat : n = h.node[w].size + 4096
  BY <1>3
<1>5b. PICK v \in BOOLEAN : v = h.node[w].hole
  BY <1>3
<1>6. r = PutChunk(g, w, v, n)
  <2>1. Page \div Page = 1 /\ 1 * Page = 4096
    BY DEF Page
  <2>. QED
    BY <2>1, <1>1, <1>4, <1>5, <1>5a, <1>5b DEF Expand, grown
<1>7. /\ IsHeap(d) /\ d.size = h.size /\ d.bin = h.bin /\ d.node = h.node
      /\ DOMAIN d.foot = DOMAIN h.foot \ {h.size - 4}
      /\ \A x \in DOMAIN d.foot : d.foot[x] = h.foot[x]
  BY <1>4, DropFooterIs DEF FooterSize
<1>8. /\ g.size = h.size + 4096 /\ g.bin = h.bin /\ g.node = h.node /\ g.foot = d.foot
      /\ IsHeap(g)
  <2>1. d = [size |-> d.size, node |-> d.node, foot |-> d.foot, bin |-> d.bin]
    BY <1>7 DEF IsHeap
  <2>2. g = [size |-> d.size + 4096, node |-> d.node, foot |-> d.foot, bin |-> d.bin]
    BY <1>5, <2>1 DEF grown
  <2>3. g.size = d.size + 4096 /\ g.node = d.node /\ g.foot = d.foot /\ g.bin = d.bin
    BY <2>2
  <2>4. g = [size |-> g.size, node |-> g.node, foot |-> g.foot, bin |-> g.bin]
    BY <2>2, <2>3
  <2>. QED
    BY <2>3, <2>4, <1>7 DEF IsHeap
<1>8a. IsHeap(g) /\ w \in Nat
  BY <1>3, <1>8
<1>9. FooterOf(w, n) = h.size + 4096 - 4
  BY <1>2, <1>3, <1>5a DEF FooterOf, NodeSize
<1>10a. /\ IsHeap(r) /\ r.size = g.size /\ r.bin = g.bin
        /\ DOMAIN r.node = DOMAIN g.node \cup {w}
        /\ r.node[w] = [hole |-> v, size |-> n]
        /\ \A x \in DOMAIN g.node : x # w => r.node[x] = g.node[x]
        /\ DOMAIN r.foot = DOMAIN g.foot \cup {FooterOf(w, n)}
        /\ r.foot[FooterOf(w, n)] = w
        /\ \A f \in DOMAIN g.foot : f # FooterOf(w, n) => r.foot[f] = g.foot[f]
  <2>1. IsPut(g, w, v, n, r)
    BY <1>6, <1>8a, PutChunkIs
  <2>. QED
    BY <2>1 DEF IsPut
<1>10. /\ IsHeap(r) /\ r.size = h.size + 4096 /\ r.bin = h.bin
       /\ DOMAIN r.node = DOMAIN h.node
       /\ r.node[w] = [hole |-> h.node[w].hole, size |-> h.node[w].size + 4096]
       /\ \A x \in DOMAIN h.node : x # w => r.node[x] = h.node[x]
  BY <1>2, <1>5a, <1>5b, <1>8, <1>10a
<1>11. /\ DOMAIN r.foot = (DOMAIN h.foot \ {h.size - 4}) \cup {r.size - 4}
       /\ r.foot[r.size - 4] = w
       /\ \A f \in DOMAIN g.foot : f # r.size - 4 => r.foot[f] = g.foot[f]
  <2>1. FooterOf(w, n) = r.size - 4
    BY <1>9, <1>10 DEF IsHeap
  <2>. QED
    BY <2>1, <1>7, <1>8, <1>10a
<1>12. EndOf(r, w) = r.size /\ \A x \in DOMAIN h.node : x # w => EndOf(r, x) = EndOf(h, x)
  BY <1>2, <1>3, <1>10 DEF EndOf, FooterOf, NodeSize, FooterSize
<1>13. \A f \in DOMAIN h.foot : f # h.size - 4 => r.foot[f] = h.foot[f]
  <2>. SUFFICES ASSUME NEW f \in DOMAIN h.foot, f # h.size - 4 PROVE r.foot[f] = h.foot[f]
    OBVIOUS
  <2>1. f # r.size - 4
    <3>1. f \in Nat /\ h.foot[f] \in DOMAIN h.node /\ EndOf(h, h.foot[f]) = f + 4
      BY DEF Tiles, IsHeap
    <3>2. f + 4 <= h.size /\ h.size \in Nat
      BY <3>1 DEF Tiles, IsHeap
    <3>. QED
      BY <3>1, <3>2, <1>10
  <2>. QED
    BY <2>1, <1>7, <1>8, <1>11
<1>14. r.size > h.size
  BY <1>10 DEF IsHeap
<1>15. Tiles(r) /\ Wilderness(r) = Wilderness(h)
  BY <1>1, <1>10, <1>11, <1>12, <1>13, <1>14, GrowTiles
<1>. QED
  BY <1>1, <1>10, <1>15

LEMMA TopUpGood ==
  ASSUME NEW h, Good(h), NEW m \in Nat, m >= 1024, Reserve(h, m), NEW r, r = TopUp(h)
  PROVE  /\ Good(r) /\ r.size \in Nat /\ r.size >= h.size
         /\ DOMAIN r.node = DOMAIN h.node
         /\ \A x \in DOMAIN h.node : r.node[x].hole = h.node[x].hole
         /\ \A x \in Used(h) : r.node[x] = h.node[x]
         /\ Reserve(r, 8192) \/ Reserve(r, m + 4096)
<1>1. PICK w : w = Wilderness(h)
  OBVIOUS
<1>2. /\ w \in DOMAIN h.node /\ w \in Nat /\ h.node[w].hole /\ h.node[w].size >= m
      /\ h.node[w].size \in Nat /\ h.size \in Nat
  <2>1. IsHeap(h) /\ Tiles(h) /\ h.size \in Nat /\ h.size % Page = 0
    BY DEF Good, IsHeap
  <2>2. w \in DOMAIN h.node /\ EndOf(h, w) = h.size
    BY <2>1, <1>1, WildernessIs
  <2>3. w \in Nat /\ h.node[w].size \in Nat
    BY <2>1, <2>2, Ends
  <2>. QED
    BY <2>1, <2>2, <2>3, <1>1 DEF Reserve, IsHole
<1>3. CASE ~(h.node[w].size < 8192)
  <2>1. r = h
    BY <1>1, <1>3 DEF TopUp, MinWilderness
  <2>2. Reserve(h, 8192)
    BY <1>1, <1>2, <1>3 DEF Reserve, IsHole
  <2>. QED
    BY <2>1, <2>2, <1>2
<1>4. CASE h.node[w].size < 8192
  <2>0. r = Expand(h, Page)
    BY <1>1, <1>4 DEF TopUp, MinWilderness
  <2>1. /\ IsHeap(r) /\ Tiles(r) /\ r.size = h.size + 4096 /\ r.bin = h.bin
        /\ Wilderness(r) = w /\ DOMAIN r.node = DOMAIN h.node
        /\ r.node[w] = [hole |-> h.node[w].hole, size |-> h.node[w].size + 4096]
        /\ \A x \in DOMAIN h.node : x # w => r.node[x] = h.node[x]
    BY <2>0, <1>1, ExpandIs DEF Good
  <2>2. r.node[w].hole /\ r.node[w].size = h.node[w].size + 4096
    BY <2>1, <1>2
  <2>3. \A x \in DOMAIN h.node : r.node[x].hole = h.node[x].hole
    <3>1. r.node[w].hole = h.node[w].hole
      BY <2>1
    <3>. QED
      BY <2>1, <3>1
  <2>4. BinIndex(h.node[w].size) = 8 /\ BinIndex(r.node[w].size) = 8
    BY <1>2, <2>2, BinIndexIs
  <2>5. Once(r) /\ \A b \in Bins, x \in Nat : On(r, b, x) <=> On(h, b, x)
    BY <2>1 DEF Good, Lists, Once, On
  <2>6. Lists(r, {})
    <3>1. \A x \in DOMAIN h.node : BinIndex(r.node[x].size) = BinIndex(h.node[x].size)
      BY <2>1, <2>4
    <3>2. \A x \in Nat : IsHole(r, x) <=> IsHole(h, x)
      BY <2>1, <2>3 DEF IsHole
    <3>. QED
      BY <2>5, <3>1, <3>2 DEF Good, Lists, IsHole
  <2>7. r.size % Page = 0
    BY <2>1, <1>2 DEF Good, Page
  <2>8. Reserve(r, m + 4096)
    BY <2>1, <2>2, <1>2 DEF Reserve, IsHole
  <2>. QED
    BY <2>1, <2>3, <2>6, <2>7, <2>8, <1>2 DEF Good, Used
<1>. QED
  BY <1>3, <1>4

(* A hole is taken off its list and handed out, and what a request of n    *)
(* does not need of it becomes a hole of its own.                          *)
LEMMA TakeGood ==
  ASSUME NEW h, Good(h), NEW a \in Nat, NEW b \in Bins, On(h, b, a),
         NEW n \in Nat, h.node[a].size >= n,
         NEW m \in Nat, m >= 1024,
         NEW k \in Nat, k = m + n + 20, Reserve(h, k),
         NEW r, r = Take(h, b, a, n)
  PROVE  /\ Good(r) /\ r.size = h.size /\ Reserve(r, m)
         /\ a \in DOMAIN h.node /\ h.node[a].hole
         /\ Used(r) = Used(h) \cup {a} /\ r.node[a].size >= n
         /\ \A x \in Used(h) : r.node[x] = h.node[x]
<1>1. PICK w : w = Wilderness(h)
  OBVIOUS
<1>2. /\ w \in DOMAIN h.node /\ w \in Nat /\ h.node[w].hole /\ h.node[w].size >= m + n + 20
      /\ EndOf(h, w) = h.size
      /\ h.node[w].size \in Nat /\ h.size \in Nat /\ h.size % Page = 0
  <2>1. IsHeap(h) /\ Tiles(h) /\ h.size \in Nat /\ h.size % Page = 0
    BY DEF Good, IsHeap
  <2>2. w \in DOMAIN h.node /\ EndOf(h, w) = h.size
    BY <2>1, <1>1, WildernessIs
  <2>3. w \in Nat /\ h.node[w].size \in Nat
    BY <2>1, <2>2, Ends
  <2>. QED
    BY <2>1, <2>2, <2>3, <1>1 DEF Reserve, IsHole
<1>3. /\ IsHeap(h) /\ Tiles(h) /\ Once(h)
      /\ \A c \in Bins, x \in Nat : On(h, c, x) <=> IsHole(h, x) /\ c = BinIndex(h.node[x].size)
  BY DEF Good, Lists
<1>4. a \in DOMAIN h.node /\ h.node[a].hole /\ b = BinIndex(h.node[a].size)
  BY <1>3 DEF IsHole
<1>5. /\ h.node[a].size \in Nat /\ EndOf(h, a) = a + 20 + h.node[a].size
      /\ h.node[a] = [hole |-> TRUE, size |-> h.node[a].size]
  BY <1>3, <1>4, Ends DEF Chunk
<1>6. CASE ~(h.node[a].size - n > 24)
  <2>1. Split(h, a, n) = h
    <3>1. ~(h.node[a].size - n > Overhead + 4)
      BY <1>5, <1>6 DEF Overhead, NodeSize, FooterSize
    <3>. QED
      BY <3>1, Zenon DEF Split
  <2>2. PICK g : g = Mark(h, a, InUse)
    OBVIOUS
  <2>3. /\ IsHeap(g) /\ g.size = h.size /\ g.bin = h.bin /\ g.foot = h.foot
        /\ DOMAIN g.node = DOMAIN h.node
        /\ ~g.node[a].hole /\ g.node[a].size = h.node[a].size
        /\ \A x \in DOMAIN h.node : x # a => g.node[x] = h.node[x]
    BY <2>2, <1>3, <1>4, MarkUsedIs
  <2>4. r = RemoveNode(g, b, a)
    BY <2>1, <2>2 DEF Take
  <2>5. Once(g) /\ \A c \in Bins, x \in Nat : On(g, c, x) <=> On(h, c, x)
    BY <2>3, <1>3 DEF Once, On
  <2>6. /\ IsHeap(r) /\ r.size = g.size /\ r.node = g.node /\ r.foot = g.foot
        /\ \A c \in Bins, x \in Nat : On(r, c, x) <=> On(g, c, x) /\ ~(c = b /\ x = a)
        /\ Once(r)
    BY <2>3, <2>4, <2>5, RemoveNodeIs
  <2>7. \A x \in DOMAIN h.node : EndOf(r, x) = EndOf(h, x)
    BY <2>3, <2>6 DEF EndOf, FooterOf
  <2>8. Tiles(r) /\ Wilderness(r) = w
    BY <2>3, <2>6, <2>7, <1>1, <1>3, SameTiles
  <2>9. a # w
    BY <1>2, <1>6
  <2>10. /\ \A x \in Nat : IsHole(r, x) <=> IsHole(h, x) /\ x # a
         /\ \A x \in DOMAIN h.node : x # a => r.node[x] = h.node[x]
         /\ DOMAIN r.node = DOMAIN h.node /\ ~r.node[a].hole
         /\ r.node[a].size = h.node[a].size
    BY <2>3, <2>6 DEF IsHole
  <2>11. Lists(r, {})
    <3>. SUFFICES ASSUME NEW c \in Bins, NEW x \in Nat
                  PROVE  On(r, c, x) <=> IsHole(r, x) /\ c = BinIndex(r.node[x].size)
      BY <2>6 DEF Lists
    <3>1. CASE x = a
      BY <3>1, <1>3, <1>4, <2>5, <2>6, <2>10
    <3>2. CASE x # a
      BY <3>2, <1>3, <2>5, <2>6, <2>10 DEF IsHole
    <3>. QED
      BY <3>1, <3>2
  <2>12. Reserve(r, m)
    BY <1>2, <2>8, <2>9, <2>10 DEF Reserve, IsHole
  <2>13. Used(r) = Used(h) \cup {a}
    <3>1. a \in DOMAIN r.node /\ ~r.node[a].hole
      BY <1>4, <2>10
    <3>2. \A x : x \in DOMAIN r.node /\ ~r.node[x].hole
                 <=> (x \in DOMAIN h.node /\ ~h.node[x].hole) \/ x = a
      BY <2>10, <3>1
    <3>. QED
      BY <3>2, Zenon DEF Used
  <2>14. a \notin Used(h)
    BY <1>4 DEF Used
  <2>15. \A x \in Used(h) : r.node[x] = h.node[x]
    BY <2>10, <2>14 DEF Used
  <2>16. Good(r) /\ r.size = h.size
    BY <1>2, <2>3, <2>6, <2>8, <2>11 DEF Good
  <2>17. r.node[a].size >= n
    BY <2>10
  <2>. QED
    BY <1>4, <2>12, <2>13, <2>15, <2>16, <2>17, Zenon
<1>7. CASE h.node[a].size - n > 24
  <2>1. PICK rest \in Nat : rest = a + 20 + n
    BY <1>3, <1>4, Ends
  <2>2. PICK size \in Nat : size = h.node[a].size - n - 20
    BY <1>5, <1>7
  <2>3. PICK p1 : p1 = PutChunk(h, rest, Hole, size)
    OBVIOUS
  <2>4. PICK p2 : p2 = AddNode(p1, BinIndex(size), rest)
    OBVIOUS
  <2>5. PICK p3 : p3 = PutChunk(p2, a, Hole, n)
    OBVIOUS
  <2>6. Split(h, a, n) = p3
    <3>1. a + 20 + n = a + Overhead + n /\ h.node[a].size - n - 20 = h.node[a].size - n - Overhead
      BY <1>5 DEF Overhead, NodeSize, FooterSize
    <3>2. h.node[a].size - n > Overhead + 4
      BY <1>5, <1>7 DEF Overhead, NodeSize, FooterSize
    <3>. QED
      BY <2>1, <2>2, <2>3, <2>4, <2>5, <3>1, <3>2 DEF Split
  <2>7. PICK g : g = Mark(p3, a, InUse)
    OBVIOUS
  <2>8. r = RemoveNode(g, b, a)
    BY <2>6, <2>7 DEF Take
  <2>9. /\ a < rest /\ rest < EndOf(h, a) /\ rest # a
        /\ FooterOf(rest, size) = EndOf(h, a) - 4 /\ FooterOf(a, n) = rest - 4
        /\ EndOf(h, a) - 4 # rest - 4
    BY <1>5, <1>7, <2>1, <2>2 DEF FooterOf, NodeSize
  <2>10. rest \notin DOMAIN h.node
    BY <1>4, <1>5, <2>9, <1>3 DEF Tiles
  <2>11. /\ IsHeap(p1) /\ p1.size = h.size /\ p1.bin = h.bin
         /\ DOMAIN p1.node = DOMAIN h.node \cup {rest}
         /\ p1.node[rest].hole /\ p1.node[rest].size = size
         /\ \A x \in DOMAIN h.node : x # rest => p1.node[x] = h.node[x]
         /\ DOMAIN p1.foot = DOMAIN h.foot \cup {FooterOf(rest, size)}
         /\ p1.foot[FooterOf(rest, size)] = rest
         /\ \A f \in DOMAIN h.foot : f # FooterOf(rest, size) => p1.foot[f] = h.foot[f]
    <3>1. IsHeap(h)
      BY <1>3
    <3>2. /\ IsHeap(p1) /\ p1.size = h.size /\ p1.bin = h.bin
          /\ DOMAIN p1.node = DOMAIN h.node \cup {rest}
          /\ p1.node[rest] = [hole |-> Hole, size |-> size]
          /\ \A x \in DOMAIN h.node : x # rest => p1.node[x] = h.node[x]
          /\ DOMAIN p1.foot = DOMAIN h.foot \cup {FooterOf(rest, size)}
          /\ p1.foot[FooterOf(rest, size)] = rest
          /\ \A f \in DOMAIN h.foot : f # FooterOf(rest, size) => p1.foot[f] = h.foot[f]
      BY <2>3, <3>1, HoleIs, PutChunkIs DEF IsPut
    <3>3. p1.node[rest].hole = Hole /\ p1.node[rest].size = size
      BY <3>2
    <3>4. p1.node[rest].hole
      BY <3>3, Zenon DEF Hole
    <3>. QED
      BY <3>2, <3>3, <3>4, Zenon
  <2>12. /\ Once(p1) /\ \A c \in Bins, x \in Nat : On(p1, c, x) <=> On(h, c, x)
         /\ \A c \in Bins : ~On(p1, c, rest)
    BY <2>10, <2>11, <1>3 DEF Once, On, IsHole
  <2>13. /\ IsHeap(p2) /\ p2.size = p1.size /\ p2.node = p1.node /\ p2.foot = p1.foot
         /\ \A c \in Bins, x \in Nat :
              On(p2, c, x) <=> On(p1, c, x) \/ (c = BinIndex(size) /\ x = rest)
         /\ Once(p2)
    BY <2>4, <2>11, <2>12, AddNodeIs, BinIndexIs
  <2>14. /\ IsHeap(p3) /\ p3.size = p2.size /\ p3.bin = p2.bin
         /\ DOMAIN p3.node = DOMAIN p2.node \cup {a}
         /\ p3.node[a].hole /\ p3.node[a].size = n
         /\ \A x \in DOMAIN p2.node : x # a => p3.node[x] = p2.node[x]
         /\ DOMAIN p3.foot = DOMAIN p2.foot \cup {FooterOf(a, n)}
         /\ p3.foot[FooterOf(a, n)] = a
         /\ \A f \in DOMAIN p2.foot : f # FooterOf(a, n) => p3.foot[f] = p2.foot[f]
    <3>1. IsHeap(p2)
      BY <2>13
    <3>2. /\ IsHeap(p3) /\ p3.size = p2.size /\ p3.bin = p2.bin
          /\ DOMAIN p3.node = DOMAIN p2.node \cup {a}
          /\ p3.node[a] = [hole |-> Hole, size |-> n]
          /\ \A x \in DOMAIN p2.node : x # a => p3.node[x] = p2.node[x]
          /\ DOMAIN p3.foot = DOMAIN p2.foot \cup {FooterOf(a, n)}
          /\ p3.foot[FooterOf(a, n)] = a
          /\ \A f \in DOMAIN p2.foot : f # FooterOf(a, n) => p3.foot[f] = p2.foot[f]
      BY <2>5, <3>1, HoleIs, PutChunkIs DEF IsPut
    <3>3. p3.node[a].hole = Hole /\ p3.node[a].size = n
      BY <3>2
    <3>4. p3.node[a].hole
      BY <3>3, Zenon DEF Hole
    <3>. QED
      BY <3>2, <3>3, <3>4, Zenon
  <2>15. /\ IsHeap(g) /\ g.size = p3.size /\ g.bin = p3.bin /\ g.foot = p3.foot
         /\ DOMAIN g.node = DOMAIN p3.node
         /\ ~g.node[a].hole /\ g.node[a].size = n
         /\ \A x \in DOMAIN p3.node : x # a => g.node[x] = p3.node[x]
    <3>1. a \in DOMAIN p3.node /\ p3.node[a].size = n
      BY <2>14
    <3>. QED
      <4>1. /\ IsHeap(g) /\ g.size = p3.size /\ g.bin = p3.bin /\ g.foot = p3.foot
            /\ DOMAIN g.node = DOMAIN p3.node
            /\ ~g.node[a].hole /\ g.node[a].size = p3.node[a].size
            /\ \A x \in DOMAIN p3.node : x # a => g.node[x] = p3.node[x]
        BY <2>7, <2>14, <3>1, MarkUsedIs
      <4>. QED
        BY <4>1, <3>1
  <2>16. Once(g) /\ \A c \in Bins, x \in Nat : On(g, c, x) <=> On(p2, c, x)
    BY <2>13, <2>14, <2>15 DEF Once, On
  <2>17. /\ IsHeap(r) /\ r.size = g.size /\ r.node = g.node /\ r.foot = g.foot
         /\ \A c \in Bins, x \in Nat : On(r, c, x) <=> On(g, c, x) /\ ~(c = b /\ x = a)
         /\ Once(r)
    BY <2>8, <2>15, <2>16, RemoveNodeIs, ZenonT(40)
  <2>18. /\ r.size = h.size /\ DOMAIN r.node = DOMAIN h.node \cup {rest}
         /\ ~r.node[a].hole /\ r.node[a].size = n
         /\ r.node[rest].hole /\ r.node[rest].size = size
         /\ \A x \in DOMAIN h.node : x # a => r.node[x] = h.node[x]
    <3>1. /\ r.size = p3.size /\ p3.size = p1.size /\ DOMAIN r.node = DOMAIN p3.node
          /\ DOMAIN p3.node = DOMAIN p1.node \cup {a}
      BY <2>13, <2>14, <2>15, <2>17
    <3>2. ~r.node[a].hole /\ r.node[a].size = n
      BY <2>15, <2>17
    <3>3. \A x \in DOMAIN p1.node : x # a => r.node[x] = p1.node[x]
      BY <2>13, <2>14, <2>15, <2>17
    <3>4. a \in DOMAIN h.node /\ rest # a
      BY <1>4, <2>10
    <3>5. r.size = h.size /\ DOMAIN r.node = DOMAIN h.node \cup {rest}
      BY <2>11, <3>1, <3>4
    <3>6. r.node[rest].hole /\ r.node[rest].size = size
      <4>1. r.node[rest] = p1.node[rest]
        BY <2>11, <3>3, <3>4
      <4>. QED
        BY <2>11, <4>1
    <3>7. \A x \in DOMAIN h.node : x # a => r.node[x] = h.node[x]
      BY <2>10, <2>11, <3>3
    <3>. QED
      BY <3>2, <3>5, <3>6, <3>7
  <2>19. /\ DOMAIN r.foot = DOMAIN h.foot \cup {rest - 4}
         /\ r.foot[rest - 4] = a /\ r.foot[EndOf(h, a) - 4] = rest
         /\ \A f \in DOMAIN h.foot : f # EndOf(h, a) - 4 => r.foot[f] = h.foot[f]
    <3>1. EndOf(h, a) - 4 \in DOMAIN h.foot
      BY <1>3, <1>4 DEF Tiles
    <3>2. rest - 4 \notin DOMAIN h.foot
      <4>. SUFFICES ASSUME rest - 4 \in DOMAIN h.foot PROVE FALSE
        OBVIOUS
      <4>1. PICK c \in DOMAIN h.node : EndOf(h, c) = (rest - 4) + 4
        BY <1>3 DEF Tiles
      <4>2. c \in Nat /\ EndOf(h, c) = rest /\ EndOf(h, c) >= c + 20
        BY <1>3, <4>1, <2>1, Ends
      <4>. QED
        BY <1>3, <1>4, <1>5, <4>2, <2>9 DEF Tiles
    <3>3. r.foot = p3.foot /\ p2.foot = p1.foot
      BY <2>13, <2>15, <2>17
    <3>4. /\ DOMAIN r.foot = DOMAIN p1.foot \cup {rest - 4} /\ r.foot[rest - 4] = a
          /\ \A f \in DOMAIN p1.foot : f # rest - 4 => r.foot[f] = p1.foot[f]
      BY <2>14, <3>3, <2>9
    <3>5. /\ DOMAIN p1.foot = DOMAIN h.foot
          /\ p1.foot[EndOf(h, a) - 4] = rest
          /\ \A f \in DOMAIN h.foot : f # EndOf(h, a) - 4 => p1.foot[f] = h.foot[f]
      BY <2>11, <2>9, <3>1
    <3>. QED
      BY <2>9, <3>1, <3>2, <3>4, <3>5
  <2>20. /\ EndOf(r, a) = rest /\ EndOf(r, rest) = EndOf(h, a)
         /\ \A x \in DOMAIN h.node : x # a => EndOf(r, x) = EndOf(h, x)
    <3>1. r.node[a].size = n /\ r.node[rest].size = size
      BY <2>18
    <3>2. EndOf(r, a) = rest /\ EndOf(r, rest) = EndOf(h, a)
      BY <3>1, <1>5, <1>7, <2>1, <2>2 DEF EndOf, FooterOf, NodeSize, FooterSize
    <3>. QED
      BY <2>18, <3>2 DEF EndOf, FooterOf
  <2>21. Tiles(r)
    <3>1. IsSplit(h, a, rest, r)
      BY <2>9, <2>18, <2>19, <2>20 DEF IsSplit
    <3>. QED
      BY <3>1, <1>3, <1>4, <2>17, SplitTiles
  <2>22. /\ \A x \in Nat : IsHole(r, x) <=> (IsHole(h, x) /\ x # a) \/ x = rest
         /\ r.node[rest].hole /\ r.node[rest].size = size
         /\ ~r.node[a].hole /\ r.node[a].size = n
    BY <2>9, <2>10, <2>18 DEF IsHole
  <2>23. Lists(r, {})
    <3>. SUFFICES ASSUME NEW c \in Bins, NEW x \in Nat
                  PROVE  On(r, c, x) <=> IsHole(r, x) /\ c = BinIndex(r.node[x].size)
      BY <2>17 DEF Lists
    <3>0. On(r, c, x) <=> (On(h, c, x) \/ (c = BinIndex(size) /\ x = rest)) /\ ~(c = b /\ x = a)
      BY <2>12, <2>13, <2>16, <2>17
    <3>1. CASE x = a
      BY <3>0, <3>1, <1>3, <1>4, <2>9, <2>22
    <3>2. CASE x = rest
      BY <3>0, <3>2, <1>3, <2>9, <2>10, <2>22 DEF IsHole
    <3>3. CASE x # a /\ x # rest
      <4>1. IsHole(h, x) => r.node[x] = h.node[x]
        BY <3>3, <2>18 DEF IsHole
      <4>. QED
        BY <3>0, <3>3, <4>1, <1>3, <2>22
    <3>. QED
      BY <3>1, <3>2, <3>3
  <2>24. Reserve(r, m)
    <3>0. Wilderness(r) = IF w = a THEN rest ELSE w
      <4>1. IsHeap(r) /\ EndOf(r, IF w = a THEN rest ELSE w) = r.size
        BY <1>2, <2>17, <2>18, <2>20
      <4>. QED
        BY <4>1, <1>2, <2>18, <2>21, WildernessIs
    <3>1. CASE w = a
      BY <3>0, <3>1, <1>2, <2>2, <2>18, <2>22 DEF Reserve, IsHole
    <3>2. CASE w # a
      BY <3>0, <3>2, <1>2, <2>18 DEF Reserve, IsHole
    <3>. QED
      BY <3>1, <3>2
  <2>25. Used(r) = Used(h) \cup {a}
    <3>1. ASSUME NEW x \in DOMAIN h.node, x # a PROVE r.node[x] = h.node[x]
      BY <3>1, <2>18
    <3>2. ASSUME NEW x \in Used(r) PROVE x \in Used(h) \cup {a}
      BY <3>1, <3>2, <2>18 DEF Used
    <3>3. ASSUME NEW x \in Used(h) PROVE x \in Used(r)
      BY <3>1, <3>3, <1>4, <2>18 DEF Used
    <3>4. a \in Used(r)
      BY <1>4, <2>18 DEF Used
    <3>. QED
      BY <3>2, <3>3, <3>4
  <2>26. a \notin Used(h)
    BY <1>4 DEF Used
  <2>27. \A x \in Used(h) : r.node[x] = h.node[x]
    BY <2>18, <2>26 DEF Used
  <2>28. Good(r) /\ r.size = h.size
    BY <1>2, <2>17, <2>18, <2>21, <2>23 DEF Good
  <2>29. r.node[a].size >= n
    BY <2>22
  <2>. QED
    BY <1>4, <2>24, <2>25, <2>27, <2>28, <2>29, Zenon
<1>. QED
  BY <1>6, <1>7

(* What kheap_alloc does of a request of n: a hole is taken that is large  *)
(* enough, no other chunk in use changes, and the wilderness keeps m, and  *)
(* gets a page more as long as it is below its minimum.                    *)
Served(h, n, m, r) ==
  /\ r.ok /\ Good(r.heap) /\ r.heap.size >= h.size /\ r.heap.size \in Nat
  /\ Reserve(r.heap, 8192) \/ Reserve(r.heap, m + 4096)
  /\ \E a \in DOMAIN h.node :
       /\ h.node[a].hole /\ r.ptr = a + 16
       /\ Used(r.heap) = Used(h) \cup {a} /\ r.heap.node[a].size >= n
  /\ \A x \in Used(h) : r.heap.node[x] = h.node[x]

LEMMA AllocGood ==
  ASSUME NEW h, Good(h), NEW n \in Nat, NEW m \in Nat, m >= 1024,
         NEW k \in Nat, k = m + n + 20, Reserve(h, k),
         NEW r, r = AllocOn(h, n)
  PROVE  Served(h, n, m, r)
<1>1. PICK w : w = Wilderness(h)
  OBVIOUS
<1>2. /\ w \in DOMAIN h.node /\ w \in Nat /\ h.node[w].hole /\ h.node[w].size >= m + n + 20
      /\ h.node[w].size \in Nat
  BY <1>1, WildernessIs, Ends DEF Good, Reserve, IsHole
<1>3. On(h, 8, w)
  <2>1. BinIndex(h.node[w].size) = 8 /\ 8 \in Bins
    BY <1>2, BinIndexIs DEF Bins
  <2>. QED
    BY <2>1, <1>2 DEF Good, Lists, IsHole
<1>4. \A b \in Bins : FitsOn(h, b, n) = {i \in 1..Len(h.bin[b]) : h.node[h.bin[b][i]].size >= n}
  BY DEF FitsOn, Good, IsHeap
<1>5. 8 \in FitBins(h, BinIndex(n), n)
  <2>1. PICK i \in 1..Len(h.bin[8]) : h.bin[8][i] = w
    BY <1>3 DEF On, In
  <2>2. i \in FitsOn(h, 8, n)
    <3>1. FitsOn(h, 8, n) = {j \in 1..Len(h.bin[8]) : h.node[h.bin[8][j]].size >= n}
      BY <1>4 DEF Bins
    <3>2. h.node[w].size >= n
      BY <1>2
    <3>. QED
      BY <2>1, <3>1, <3>2
  <2>3. BinIndex(n) \in Bins
    BY BinIndexIs
  <2>. QED
    BY <2>2, <2>3 DEF FitBins, Bins
<1>6. PICK fits : fits = FitBins(h, BinIndex(n), n)
  OBVIOUS
<1>7. Min(fits) \in fits
  <2>1. fits \subseteq Nat /\ fits # {}
    BY <1>5, <1>6 DEF FitBins, Bins
  <2>. QED
    BY <2>1, Least
<1>8. PICK b \in Bins : b = Min(fits) /\ FitsOn(h, b, n) # {}
  BY <1>6, <1>7 DEF FitBins
<1>9. Min(FitsOn(h, b, n)) \in FitsOn(h, b, n)
  <2>1. FitsOn(h, b, n) \subseteq Nat /\ FitsOn(h, b, n) # {}
    BY <1>4, <1>8
  <2>. QED
    BY <2>1, Least
<1>10. PICK i \in 1..Len(h.bin[b]) : i = Min(FitsOn(h, b, n)) /\ h.node[h.bin[b][i]].size >= n
  BY <1>4, <1>9
<1>11. PICK a : a = h.bin[b][i]
  OBVIOUS
<1>12. a \in Nat /\ On(h, b, a) /\ h.node[a].size >= n
  BY <1>10, <1>11 DEF On, In, Good, IsHeap
<1>13. PICK h3 : h3 = Take(h, b, a, n)
  OBVIOUS
<1>14. r = [ok |-> TRUE, heap |-> TopUp(h3), ptr |-> a + 16]
  <2>1. fits # {} /\ r = AllocFrom(h, BinIndex(n), n)
    BY <1>5, <1>6, Zenon DEF AllocOn
  <2>2. b = Min(FitBins(h, BinIndex(n), n))
    BY <1>6, <1>8
  <2>3. a = h.bin[b][Min(FitsOn(h, b, n))]
    BY <1>10, <1>11
  <2>4. AllocFrom(h, BinIndex(n), n)
          = [ok |-> TRUE, heap |-> TopUp(Take(h, b, a, n)), ptr |-> a + NodeSize]
    BY <2>1, <2>2, <2>3, <1>6, Zenon DEF AllocFrom
  <2>. QED
    BY <2>1, <2>4, <1>13 DEF NodeSize
<1>15. /\ Good(h3) /\ h3.size = h.size /\ Reserve(h3, m)
       /\ a \in DOMAIN h.node /\ h.node[a].hole
       /\ Used(h3) = Used(h) \cup {a} /\ h3.node[a].size >= n
       /\ \A x \in Used(h) : h3.node[x] = h.node[x]
  BY <1>12, <1>13, TakeGood
<1>16. PICK h4 : h4 = TopUp(h3)
  OBVIOUS
<1>17. /\ Good(h4) /\ h4.size \in Nat /\ h4.size >= h3.size
       /\ DOMAIN h4.node = DOMAIN h3.node
       /\ \A x \in DOMAIN h3.node : h4.node[x].hole = h3.node[x].hole
       /\ \A x \in Used(h3) : h4.node[x] = h3.node[x]
       /\ Reserve(h4, 8192) \/ Reserve(h4, m + 4096)
  BY <1>15, <1>16, TopUpGood
<1>18. r.ok /\ r.heap = h4 /\ r.ptr = a + 16
  BY <1>14, <1>16
<1>19. Used(h4) = Used(h3)
  BY <1>17 DEF Used
<1>. QED
  BY <1>15, <1>17, <1>18, <1>19 DEF Served

-----------------------------------------------------------------------------
(* kheap_free: the freed chunk, merged or not, is the only hole that is on *)
(* no list until it is put on one.                                         *)
LEMMA OffIs ==
  ASSUME NEW h, IsHeap(h), NEW e, Lists(h, e), NEW a \in DOMAIN h.node, h.node[a].hole, a \notin e,
         NEW r, r = RemoveNode(h, BinIndex(h.node[a].size), a)
  PROVE  /\ IsHeap(r) /\ r.size = h.size /\ r.node = h.node /\ r.foot = h.foot /\ Once(r)
         /\ \A c \in Bins, x \in Nat : On(r, c, x) <=>
              IsHole(h, x) /\ x \notin e /\ x # a /\ c = BinIndex(h.node[x].size)
<1>1. PICK b \in Bins : b = BinIndex(h.node[a].size)
  BY Ends, BinIndexIs
<1>2. a \in Nat /\ Once(h)
  BY Ends DEF Lists
<1>3. /\ IsHeap(r) /\ r.size = h.size /\ r.node = h.node /\ r.foot = h.foot
      /\ \A c \in Bins, x \in Nat : On(r, c, x) <=> On(h, c, x) /\ ~(c = b /\ x = a)
      /\ Once(r)
  <2>1. r = RemoveNode(h, b, a)
    BY <1>1
  <2>. QED
    BY <2>1, <1>2, RemoveNodeIs
<1>4. ASSUME NEW c \in Bins, NEW x \in Nat
      PROVE  On(r, c, x) <=> IsHole(h, x) /\ x \notin e /\ x # a /\ c = BinIndex(h.node[x].size)
  <2>1. On(h, c, x) <=> IsHole(h, x) /\ x \notin e /\ c = BinIndex(h.node[x].size)
    BY DEF Lists
  <2>. QED
    BY <2>1, <1>1, <1>3
<1>. QED
  BY <1>3, <1>4

LEMMA MergePreviousGood ==
  ASSUME NEW h, IsHeap(h), Tiles(h), Lists(h, {}),
         NEW a \in Used(h), NEW prev \in DOMAIN h.node, IsHole(h, prev), EndOf(h, prev) = a,
         NEW r, r = MergePrevious(h, a, prev)
  PROVE  /\ IsHeap(r) /\ Tiles(r) /\ Lists(r, {prev}) /\ r.size = h.size
         /\ DOMAIN r.node = DOMAIN h.node \ {a} /\ prev # a
         /\ EndOf(r, prev) = EndOf(h, a) /\ IsHole(r, prev)
         /\ \A x \in DOMAIN r.node : x # prev => r.node[x] = h.node[x] /\ EndOf(r, x) = EndOf(h, x)
<1>0. a \in DOMAIN h.node /\ ~h.node[a].hole /\ h.node[prev].hole
  BY DEF Used, IsHole
<1>1. /\ a \in Nat /\ prev \in Nat /\ h.node[a].size \in Nat /\ h.node[prev].size \in Nat
      /\ EndOf(h, a) = a + 20 + h.node[a].size /\ a = prev + 20 + h.node[prev].size
      /\ EndOf(h, a) \in Nat /\ h.size \in Nat
  BY <1>0, Ends DEF IsHeap
<1>2. PICK n \in Nat : n = h.node[prev].size + 20 + h.node[a].size
  BY <1>1
<1>3. PICK off : off = RemoveNode(h, BinIndex(h.node[prev].size), prev)
  OBVIOUS
<1>4. /\ IsHeap(off) /\ off.size = h.size /\ off.node = h.node /\ off.foot = h.foot /\ Once(off)
      /\ \A c \in Bins, x \in Nat : On(off, c, x) <=>
           IsHole(h, x) /\ x # prev /\ c = BinIndex(h.node[x].size)
  <2>1. prev \notin {}
    OBVIOUS
  <2>. QED
    BY <2>1, <1>0, <1>3, OffIs
<1>5. PICK d : d = DropFooter(off, a - FooterSize)
  OBVIOUS
<1>6. PICK g : g = DropNode(d, a)
  OBVIOUS
<1>7. r = PutChunk(g, prev, Hole, n)
  <2>1. h.node[prev].size + 20 + h.node[a].size = h.node[prev].size + Overhead + h.node[a].size
    BY <1>1 DEF Overhead, NodeSize, FooterSize
  <2>. QED
    BY <2>1, <1>2, <1>3, <1>5, <1>6, Zenon DEF MergePrevious
<1>8. /\ IsHeap(d) /\ d.size = off.size /\ d.bin = off.bin /\ d.node = off.node
      /\ DOMAIN d.foot = DOMAIN off.foot \ {a - 4}
      /\ \A x \in DOMAIN d.foot : d.foot[x] = off.foot[x]
  BY <1>4, <1>5, DropFooterIs DEF FooterSize
<1>9. /\ IsHeap(g) /\ g.size = d.size /\ g.bin = d.bin /\ g.foot = d.foot
      /\ DOMAIN g.node = DOMAIN d.node \ {a}
      /\ \A x \in DOMAIN g.node : g.node[x] = d.node[x]
  BY <1>6, <1>8, DropNodeIs
<1>10. FooterOf(prev, n) = EndOf(h, a) - 4 /\ prev # a
  BY <1>1, <1>2 DEF FooterOf, NodeSize
<1>11. /\ IsHeap(r) /\ r.size = g.size /\ r.bin = g.bin
       /\ DOMAIN r.node = DOMAIN g.node \cup {prev}
       /\ r.node[prev] = [hole |-> Hole, size |-> n]
       /\ \A x \in DOMAIN g.node : x # prev => r.node[x] = g.node[x]
       /\ DOMAIN r.foot = DOMAIN g.foot \cup {FooterOf(prev, n)}
       /\ r.foot[FooterOf(prev, n)] = prev
       /\ \A f \in DOMAIN g.foot : f # FooterOf(prev, n) => r.foot[f] = g.foot[f]
  <2>1. IsHeap(g) /\ prev \in Nat
    BY <1>1, <1>9
  <2>. QED
    BY <2>1, <1>7, HoleIs, PutChunkIs DEF IsPut
<1>12. r.node[prev].hole = Hole /\ r.node[prev].size = n
  BY <1>11
<1>13. r.node[prev].hole
  BY <1>12, Zenon DEF Hole
<1>14. /\ DOMAIN r.node = DOMAIN h.node \ {a} /\ r.size = h.size
       /\ \A x \in DOMAIN r.node : x # prev => r.node[x] = h.node[x]
  BY <1>0, <1>4, <1>8, <1>9, <1>10, <1>11
<1>15. /\ EndOf(r, prev) = EndOf(h, a)
       /\ \A x \in DOMAIN r.node : x # prev => EndOf(r, x) = EndOf(h, x)
  <2>1. EndOf(r, prev) = EndOf(h, a)
    BY <1>1, <1>2, <1>12 DEF EndOf, FooterOf, NodeSize, FooterSize
  <2>. QED
    BY <2>1, <1>14 DEF EndOf, FooterOf
<1>16. /\ DOMAIN r.foot = (DOMAIN h.foot \ {a - 4}) \cup {EndOf(h, a) - 4}
       /\ r.foot[EndOf(h, a) - 4] = prev
       /\ \A f \in DOMAIN r.foot : f # EndOf(h, a) - 4 => r.foot[f] = h.foot[f]
  BY <1>4, <1>8, <1>9, <1>10, <1>11
<1>17. Tiles(r)
  <2>1. IsHeap(r)
    BY <1>11
  <2>. QED
    BY <2>1, <1>0, <1>14, <1>15, <1>16, MergeTiles
<1>18. Lists(r, {prev})
  <2>1. Once(r) /\ \A c \in Bins, x \in Nat : On(r, c, x) <=> On(off, c, x)
    BY <1>4, <1>8, <1>9, <1>11 DEF Once, On
  <2>2. ASSUME NEW c \in Bins, NEW x \in Nat
        PROVE  On(r, c, x) <=> IsHole(r, x) /\ x \notin {prev} /\ c = BinIndex(r.node[x].size)
    <3>1. CASE x = prev
      BY <3>1, <2>1, <1>4
    <3>2. CASE x # prev
      <4>1. IsHole(r, x) <=> IsHole(h, x)
        BY <3>2, <1>0, <1>14 DEF IsHole
      <4>2. IsHole(r, x) => r.node[x] = h.node[x]
        BY <3>2, <1>0, <1>14 DEF IsHole
      <4>. QED
        BY <3>2, <4>1, <4>2, <2>1, <1>4
    <3>. QED
      BY <3>1, <3>2
  <2>. QED
    BY <2>1, <2>2 DEF Lists
<1>. QED
  BY <1>10, <1>11, <1>13, <1>14, <1>15, <1>17, <1>18 DEF IsHole

LEMMA MergeNextGood ==
  ASSUME NEW h, IsHeap(h), Tiles(h), NEW a \in DOMAIN h.node, Lists(h, {a}),
         NEW next \in DOMAIN h.node, IsHole(h, next), EndOf(h, a) = next,
         NEW r, r = MergeNext(h, a, next)
  PROVE  /\ IsHeap(r) /\ Tiles(r) /\ Lists(r, {a}) /\ r.size = h.size
         /\ DOMAIN r.node = DOMAIN h.node \ {next} /\ next # a
         /\ EndOf(r, a) = EndOf(h, next)
         /\ \A k \in Nat : h.node[next].size >= k => r.node[a].size >= k
         /\ \A x \in DOMAIN r.node : x # a => r.node[x] = h.node[x] /\ EndOf(r, x) = EndOf(h, x)
<1>1. /\ a \in Nat /\ next \in Nat /\ h.node[a].size \in Nat /\ h.node[next].size \in Nat
      /\ h.node[a].hole \in BOOLEAN
      /\ EndOf(h, next) = next + 20 + h.node[next].size /\ next = a + 20 + h.node[a].size
      /\ FooterOf(a, h.node[a].size) = next - 4
      /\ EndOf(h, next) \in Nat /\ h.size \in Nat /\ next # a
  <2>1. /\ a \in Nat /\ h.node[a] \in Chunk /\ EndOf(h, a) = a + 20 + h.node[a].size
        /\ FooterOf(a, h.node[a].size) = EndOf(h, a) - 4 /\ h.node[a].size \in Nat
    BY Ends
  <2>2. /\ next \in Nat /\ EndOf(h, next) = next + 20 + h.node[next].size
        /\ EndOf(h, next) \in Nat /\ h.node[next].size \in Nat
    BY Ends
  <2>3. h.node[a].hole \in BOOLEAN /\ h.size \in Nat
    BY <2>1 DEF Chunk, IsHeap
  <2>4. next = a + 20 + h.node[a].size /\ next # a
    BY <2>1, <2>2
  <2>. QED
    BY <2>1, <2>2, <2>3, <2>4
<1>2. PICK n \in Nat : n = h.node[a].size + 20 + h.node[next].size
  BY <1>1
<1>2a. PICK v \in BOOLEAN : v = h.node[a].hole
  BY <1>1
<1>3. PICK off : off = RemoveNode(h, BinIndex(h.node[next].size), next)
  OBVIOUS
<1>4. /\ IsHeap(off) /\ off.size = h.size /\ off.node = h.node /\ off.foot = h.foot /\ Once(off)
      /\ \A c \in Bins, x \in Nat : On(off, c, x) <=>
           IsHole(h, x) /\ x \notin {a} /\ x # next /\ c = BinIndex(h.node[x].size)
  <2>1. next \notin {a} /\ h.node[next].hole
    BY <1>1 DEF IsHole
  <2>. QED
    BY <2>1, <1>3, OffIs
<1>5. PICK d : d = DropFooter(off, next - 4)
  OBVIOUS
<1>6. PICK k : k = Clear(d, next)
  OBVIOUS
<1>7. PICK g : g = Forget(k, next)
  OBVIOUS
<1>8. r = PutChunk(g, a, v, n)
  <2>1. h.node[a].size + 20 + h.node[next].size = h.node[a].size + Overhead + h.node[next].size
    BY <1>1 DEF Overhead, NodeSize, FooterSize
  <2>2. v = h.node[a].hole
    BY <1>2a
  <2>. QED
    BY <2>1, <2>2, <1>1, <1>2, <1>3, <1>5, <1>6, <1>7 DEF MergeNext
<1>9. /\ IsHeap(d) /\ d.size = off.size /\ d.bin = off.bin /\ d.node = off.node
      /\ DOMAIN d.foot = DOMAIN off.foot \ {next - 4}
      /\ \A x \in DOMAIN d.foot : d.foot[x] = off.foot[x]
  BY <1>4, <1>5, DropFooterIs
<1>10. /\ IsHeap(k) /\ k.size = d.size /\ k.bin = d.bin /\ k.foot = d.foot
       /\ DOMAIN k.node = DOMAIN d.node
       /\ \A x \in DOMAIN d.node : x # next => k.node[x] = d.node[x]
  <2>1. next \in DOMAIN d.node /\ IsHeap(d)
    BY <1>4, <1>9
  <2>. QED
    BY <2>1, <1>6, ClearIs
<1>11. g = DropNode(k, next)
  <2>1. \A c \in Bins : next \notin Range(k.bin[c])
    <3>1. \A c \in Bins : ~On(k, c, next)
      BY <1>1, <1>4, <1>9, <1>10 DEF On
    <3>2. \A c \in Bins : DOMAIN k.bin[c] = 1..Len(k.bin[c])
      BY <1>10 DEF IsHeap
    <3>. QED
      BY <3>1, <3>2, Zenon DEF On, In, Range
  <2>. QED
    BY <2>1, <1>7, Zenon DEF Forget
<1>12. /\ IsHeap(g) /\ g.size = k.size /\ g.bin = k.bin /\ g.foot = k.foot
       /\ DOMAIN g.node = DOMAIN k.node \ {next}
       /\ \A x \in DOMAIN g.node : g.node[x] = k.node[x]
  BY <1>10, <1>11, DropNodeIs
<1>13. FooterOf(a, n) = EndOf(h, next) - 4
  BY <1>1, <1>2 DEF FooterOf, NodeSize
<1>14. /\ IsHeap(r) /\ r.size = g.size /\ r.bin = g.bin
       /\ DOMAIN r.node = DOMAIN g.node \cup {a}
       /\ r.node[a] = [hole |-> v, size |-> n]
       /\ \A x \in DOMAIN g.node : x # a => r.node[x] = g.node[x]
       /\ DOMAIN r.foot = DOMAIN g.foot \cup {FooterOf(a, n)}
       /\ r.foot[FooterOf(a, n)] = a
       /\ \A f \in DOMAIN g.foot : f # FooterOf(a, n) => r.foot[f] = g.foot[f]
  <2>1. IsHeap(g) /\ a \in Nat
    BY <1>1, <1>12
  <2>. QED
    BY <2>1, <1>8, PutChunkIs DEF IsPut
<1>15. r.node[a].size = n
  BY <1>14
<1>16. /\ DOMAIN r.node = DOMAIN h.node \ {next} /\ r.size = h.size
       /\ \A x \in DOMAIN r.node : x # a => r.node[x] = h.node[x]
  <2>1. DOMAIN g.node = DOMAIN h.node \ {next} /\ \A x \in DOMAIN g.node : g.node[x] = h.node[x]
    BY <1>4, <1>9, <1>10, <1>12
  <2>. QED
    <3>1. r.size = h.size
      BY <1>4, <1>9, <1>10, <1>12, <1>14
    <3>2. DOMAIN r.node = DOMAIN h.node \ {next}
      BY <2>1, <1>1, <1>14
    <3>3. \A x \in DOMAIN r.node : x # a => r.node[x] = h.node[x]
      BY <2>1, <3>2, <1>14
    <3>. QED
      BY <3>1, <3>2, <3>3
<1>17. /\ EndOf(r, a) = EndOf(h, next)
       /\ \A x \in DOMAIN r.node : x # a => EndOf(r, x) = EndOf(h, x)
  <2>1. EndOf(r, a) = EndOf(h, next)
    BY <1>1, <1>2, <1>15 DEF EndOf, FooterOf, NodeSize, FooterSize
  <2>. QED
    BY <2>1, <1>16 DEF EndOf, FooterOf
<1>18. /\ DOMAIN r.foot = (DOMAIN h.foot \ {next - 4}) \cup {EndOf(h, next) - 4}
       /\ r.foot[EndOf(h, next) - 4] = a
       /\ \A f \in DOMAIN r.foot : f # EndOf(h, next) - 4 => r.foot[f] = h.foot[f]
  BY <1>4, <1>9, <1>10, <1>12, <1>13, <1>14
<1>19. Tiles(r)
  <2>1. IsHeap(r)
    BY <1>14
  <2>. QED
    BY <2>1, <1>16, <1>17, <1>18, MergeTiles
<1>20. Lists(r, {a})
  <2>1. Once(r) /\ \A c \in Bins, x \in Nat : On(r, c, x) <=> On(off, c, x)
    BY <1>4, <1>9, <1>10, <1>12, <1>14 DEF Once, On
  <2>2. ASSUME NEW c \in Bins, NEW x \in Nat
        PROVE  On(r, c, x) <=> IsHole(r, x) /\ x \notin {a} /\ c = BinIndex(r.node[x].size)
    <3>1. CASE x = a
      BY <3>1, <2>1, <1>4
    <3>2. CASE x = next
      BY <3>2, <2>1, <1>4, <1>16 DEF IsHole
    <3>3. CASE x # a /\ x # next
      <4>1. IsHole(r, x) <=> IsHole(h, x)
        BY <3>3, <1>16 DEF IsHole
      <4>2. IsHole(r, x) => r.node[x] = h.node[x]
        BY <3>3, <1>16 DEF IsHole
      <4>. QED
        BY <3>3, <4>1, <4>2, <2>1, <1>4
    <3>. QED
      BY <3>1, <3>2, <3>3
  <2>. QED
    BY <2>1, <2>2 DEF Lists
<1>21. \A k1 \in Nat : h.node[next].size >= k1 => r.node[a].size >= k1
  BY <1>1, <1>2, <1>15
<1>. QED
  BY <1>1, <1>14, <1>16, <1>17, <1>19, <1>20, <1>21

LEMMA ReleaseGood ==
  ASSUME NEW h, IsHeap(h), Tiles(h), NEW a \in DOMAIN h.node, Lists(h, {a}),
         NEW r, r = Release(h, a)
  PROVE  /\ IsHeap(r) /\ Tiles(r) /\ Lists(r, {}) /\ r.size = h.size
         /\ Wilderness(r) = Wilderness(h) /\ DOMAIN r.node = DOMAIN h.node
         /\ r.node[a].hole /\ r.node[a].size = h.node[a].size
         /\ \A x \in DOMAIN h.node : x # a => r.node[x] = h.node[x]
<1>1. a \in Nat /\ h.node[a].size \in Nat
  BY Ends
<1>2. PICK b \in Bins : b = BinIndex(h.node[a].size)
  BY <1>1, BinIndexIs
<1>3. PICK g : g = Mark(h, a, Hole)
  OBVIOUS
<1>4. r = AddNode(g, b, a)
  BY <1>2, <1>3 DEF Release
<1>5. /\ IsHeap(g) /\ g.size = h.size /\ g.bin = h.bin /\ g.foot = h.foot
      /\ DOMAIN g.node = DOMAIN h.node
      /\ g.node[a].hole /\ g.node[a].size = h.node[a].size
      /\ \A x \in DOMAIN h.node : x # a => g.node[x] = h.node[x]
  BY <1>3, MarkHoleIs
<1>6. /\ Once(g) /\ \A c \in Bins : ~On(g, c, a)
      /\ \A c \in Bins, x \in Nat : On(g, c, x) <=>
           IsHole(h, x) /\ x \notin {a} /\ c = BinIndex(h.node[x].size)
  BY <1>1, <1>5 DEF Lists, Once, On
<1>7. /\ IsHeap(r) /\ r.size = g.size /\ r.node = g.node /\ r.foot = g.foot
      /\ \A c \in Bins, x \in Nat : On(r, c, x) <=> On(g, c, x) \/ (c = b /\ x = a)
      /\ Once(r)
  <2>1. IsHeap(g) /\ Once(g) /\ ~On(g, b, a)
    BY <1>5, <1>6
  <2>. QED
    BY <2>1, <1>1, <1>4, AddNodeIs
<1>8. \A x \in DOMAIN h.node : EndOf(r, x) = EndOf(h, x)
  <2>1. \A x \in DOMAIN h.node : r.node[x].size = h.node[x].size
    BY <1>5, <1>7
  <2>. QED
    BY <2>1 DEF EndOf, FooterOf
<1>9. Tiles(r) /\ Wilderness(r) = Wilderness(h)
  <2>1. r.size = h.size /\ r.foot = h.foot /\ DOMAIN r.node = DOMAIN h.node
    BY <1>5, <1>7
  <2>. QED
    BY <2>1, <1>8, SameTiles
<1>10. Lists(r, {})
  <2>1. ASSUME NEW c \in Bins, NEW x \in Nat
        PROVE  On(r, c, x) <=> IsHole(r, x) /\ x \notin {} /\ c = BinIndex(r.node[x].size)
    <3>1. CASE x = a
      BY <3>1, <1>2, <1>5, <1>6, <1>7 DEF IsHole
    <3>2. CASE x # a
      <4>1. IsHole(r, x) <=> IsHole(h, x)
        BY <3>2, <1>5, <1>7 DEF IsHole
      <4>2. IsHole(r, x) => r.node[x] = h.node[x]
        BY <3>2, <1>5, <1>7 DEF IsHole
      <4>. QED
        BY <3>2, <4>1, <4>2, <1>6, <1>7
    <3>. QED
      BY <3>1, <3>2
  <2>. QED
    BY <2>1, <1>7 DEF Lists
<1>. QED
  BY <1>5, <1>7, <1>9, <1>10

LEMMA ReleaseKeeps ==
  ASSUME NEW h, IsHeap(h), Tiles(h), NEW a \in DOMAIN h.node, Lists(h, {a}),
         NEW k \in Nat, h.node[Wilderness(h)].size >= k,
         Wilderness(h) = a \/ h.node[Wilderness(h)].hole,
         NEW r, r = Release(h, a)
  PROVE  /\ IsHeap(r) /\ Tiles(r) /\ Lists(r, {}) /\ r.size = h.size /\ Reserve(r, k)
         /\ Used(r) = Used(h) \ {a} /\ \A x \in Used(r) : r.node[x] = h.node[x]
<1>1. /\ IsHeap(r) /\ Tiles(r) /\ Lists(r, {}) /\ r.size = h.size
      /\ Wilderness(r) = Wilderness(h) /\ DOMAIN r.node = DOMAIN h.node
      /\ r.node[a].hole /\ r.node[a].size = h.node[a].size
      /\ \A x \in DOMAIN h.node : x # a => r.node[x] = h.node[x]
  BY ReleaseGood
<1>2. PICK w \in DOMAIN h.node : w = Wilderness(h)
  BY WildernessIs
<1>3. Reserve(r, k)
  <2>1. CASE w = a
    BY <2>1, <1>1, <1>2 DEF Reserve, IsHole
  <2>2. CASE w # a
    <3>1. r.node[w] = h.node[w] /\ h.node[w].hole /\ h.node[w].size >= k
      BY <2>2, <1>1, <1>2
    <3>. QED
      BY <3>1, <1>1, <1>2 DEF Reserve, IsHole
  <2>. QED
    BY <2>1, <2>2
<1>4. \A x : x \in Used(r) <=> x \in Used(h) /\ x # a
  BY <1>1 DEF Used
<1>5. \A x \in Used(r) : r.node[x] = h.node[x]
  BY <1>1, <1>4 DEF Used
<1>6. Used(r) = Used(h) \ {a}
  BY <1>4
<1>. QED
  BY <1>1, <1>3, <1>5, <1>6

LEMMA CoalesceGood ==
  ASSUME NEW h, IsHeap(h), Tiles(h), NEW a \in DOMAIN h.node, Lists(h, {a}),
         NEW next \in DOMAIN h.node, EndOf(h, a) = next, NEW k \in Nat, Reserve(h, k),
         NEW r, r = Release(MergeIfHole(h, a, next), a)
  PROVE  /\ IsHeap(r) /\ Tiles(r) /\ Lists(r, {}) /\ r.size = h.size /\ Reserve(r, k)
         /\ Used(r) = Used(h) \ {a} /\ \A x \in Used(r) : r.node[x] = h.node[x]
<1>1. PICK w \in DOMAIN h.node : w = Wilderness(h)
  BY WildernessIs
<1>2. h.node[w].hole /\ h.node[w].size >= k /\ EndOf(h, w) = h.size
  BY <1>1, WildernessIs DEF Reserve, IsHole
<1>3. CASE ~h.node[next].hole
  <2>1. r = Release(h, a)
    BY <1>3 DEF MergeIfHole, IsHole
  <2>2. h.node[Wilderness(h)].size >= k /\ h.node[Wilderness(h)].hole
    BY <1>1, <1>2
  <2>. QED
    BY <2>1, <2>2, ReleaseKeeps
<1>4. CASE h.node[next].hole
  <2>1. PICK g : g = MergeNext(h, a, next)
    OBVIOUS
  <2>2. r = Release(g, a)
    BY <2>1, <1>4 DEF MergeIfHole, IsHole
  <2>3. /\ IsHeap(g) /\ Tiles(g) /\ Lists(g, {a}) /\ g.size = h.size
        /\ DOMAIN g.node = DOMAIN h.node \ {next} /\ next # a
        /\ EndOf(g, a) = EndOf(h, next)
        /\ \A j \in Nat : h.node[next].size >= j => g.node[a].size >= j
        /\ \A x \in DOMAIN g.node : x # a => g.node[x] = h.node[x] /\ EndOf(g, x) = EndOf(h, x)
    <3>1. IsHole(h, next)
      BY <1>4 DEF IsHole
    <3>. QED
      BY <2>1, <3>1, MergeNextGood
  <2>4. g.node[Wilderness(g)].size >= k /\ (Wilderness(g) = a \/ g.node[Wilderness(g)].hole)
    <3>1. CASE w = next
      <4>1. EndOf(g, a) = g.size /\ a \in DOMAIN g.node
        BY <2>3, <3>1, <1>2
      <4>2. Wilderness(g) = a
        BY <4>1, <2>3, WildernessIs
      <4>3. h.node[w].size \in Nat
        BY Ends
      <4>4. g.node[a].size \in Nat
        BY <2>3, <4>1, Ends
      <4>5. g.node[a].size >= k
        BY <4>3, <4>4, <2>3, <3>1, <1>2
      <4>. QED
        BY <4>2, <4>5
    <3>2. CASE w # next
      <4>1. w # a
        <5>1. EndOf(h, next) >= next + 20 /\ EndOf(h, next) <= h.size /\ next \in Nat
              /\ h.size \in Nat /\ EndOf(h, next) \in Nat
          BY Ends DEF Tiles, IsHeap
        <5>. QED
          BY <5>1, <1>2
      <4>2. w \in DOMAIN g.node /\ g.node[w] = h.node[w] /\ EndOf(g, w) = g.size
        BY <2>3, <3>2, <4>1, <1>2
      <4>3. Wilderness(g) = w
        BY <4>2, <2>3, WildernessIs
      <4>. QED
        BY <4>2, <4>3, <1>2
    <3>. QED
      BY <3>1, <3>2
  <2>5. a \in DOMAIN g.node
    BY <2>3
  <2>6. /\ IsHeap(r) /\ Tiles(r) /\ Lists(r, {}) /\ r.size = g.size /\ Reserve(r, k)
        /\ Used(r) = Used(g) \ {a} /\ \A x \in Used(r) : r.node[x] = g.node[x]
    BY <2>2, <2>3, <2>4, <2>5, ReleaseKeeps
  <2>7. \A x : x # a => (x \in Used(g) <=> x \in Used(h))
    BY <2>3, <1>4 DEF Used
  <2>8. Used(r) = Used(h) \ {a}
    BY <2>6, <2>7
  <2>9. \A x \in Used(r) : g.node[x] = h.node[x]
    BY <2>3, <2>6 DEF Used
  <2>10. r.size = h.size /\ \A x \in Used(r) : r.node[x] = h.node[x]
    BY <2>3, <2>6, <2>9
  <2>. QED
    BY <2>6, <2>8, <2>10
<1>. QED
  BY <1>3, <1>4

LEMMA FreeGood ==
  ASSUME NEW h, Good(h), NEW k \in Nat, Reserve(h, k), NEW a \in Used(h),
         NEW p \in Nat, p = a + 16, NEW r, r = FreeOn(h, p)
  PROVE  /\ r.ok /\ Good(r.heap) /\ r.heap.size = h.size /\ Reserve(r.heap, k)
         /\ Used(r.heap) = Used(h) \ {a}
         /\ \A x \in Used(r.heap) : r.heap.node[x] = h.node[x]
<1>1. /\ IsHeap(h) /\ Tiles(h) /\ Lists(h, {}) /\ h.size % Page = 0
      /\ a \in DOMAIN h.node /\ ~h.node[a].hole
  BY DEF Good, Used
<1>2. /\ a \in Nat /\ h.size \in Nat /\ EndOf(h, a) \in Nat
  BY <1>1, Ends DEF IsHeap
<1>3. PICK w \in DOMAIN h.node : w = Wilderness(h)
  BY <1>1, WildernessIs
<1>4. h.node[w].hole /\ h.node[w].size >= k /\ EndOf(h, w) = h.size /\ w # a
  BY <1>1, <1>3, WildernessIs DEF Reserve, IsHole
<1>5. PICK next \in DOMAIN h.node : next = EndOf(h, a)
  <2>1. EndOf(h, a) # h.size
    BY <1>1, <1>3, <1>4, WildernessIs
  <2>. QED
    BY <2>1, <1>1 DEF Tiles
<1>6. ~(next >= h.size) /\ next \in Nat
  <2>1. next \in Nat /\ EndOf(h, next) \in Nat /\ EndOf(h, next) >= next + 20
        /\ EndOf(h, next) <= h.size
    BY <1>1, Ends DEF Tiles
  <2>. QED
    BY <2>1, <1>2
<1>7. PICK prev : prev = h.foot[a - FooterSize]
  OBVIOUS
<1>8. a # 0 => prev \in DOMAIN h.node /\ EndOf(h, prev) = a
  <2>. SUFFICES ASSUME a # 0 PROVE prev \in DOMAIN h.node /\ EndOf(h, prev) = a
    OBVIOUS
  <2>1. a - 4 \in DOMAIN h.foot
    BY <1>1 DEF Tiles
  <2>2. h.foot[a - 4] \in DOMAIN h.node /\ EndOf(h, h.foot[a - 4]) = (a - 4) + 4
    BY <2>1, <1>1 DEF Tiles
  <2>. QED
    BY <2>2, <1>2, <1>7 DEF FooterSize
<1>9. PICK g : g = IF a = 0 THEN Release(h, a)
                   ELSE IF IsHole(h, prev)
                   THEN Release(MergeIfHole(MergePrevious(h, a, prev), prev, next), prev)
                   ELSE Release(MergeIfHole(h, a, next), a)
  OBVIOUS
<1>10. r = [ok |-> TRUE, heap |-> g]
  <2>1. p - NodeSize = a
    BY <1>2 DEF NodeSize
  <2>. QED
    BY <2>1, <1>5, <1>6, <1>7, <1>9, ZenonT(40) DEF FreeOn
<1>11. Lists(h, {a})
  <2>1. \A x \in Nat : IsHole(h, x) => x \notin {a}
    BY <1>1 DEF IsHole
  <2>. QED
    BY <2>1, <1>1 DEF Lists
<1>12. /\ IsHeap(g) /\ Tiles(g) /\ Lists(g, {}) /\ g.size = h.size /\ Reserve(g, k)
       /\ Used(g) = Used(h) \ {a} /\ \A x \in Used(g) : g.node[x] = h.node[x]
  <2>1. CASE a = 0
    <3>1. h.node[Wilderness(h)].size >= k /\ h.node[Wilderness(h)].hole
      BY <1>3, <1>4
    <3>2. g = Release(h, a)
      BY <2>1, <1>9
    <3>. QED
      BY <3>1, <3>2, <1>1, <1>11, ReleaseKeeps
  <2>2. CASE a # 0 /\ ~IsHole(h, prev)
    <3>1. g = Release(MergeIfHole(h, a, next), a) /\ EndOf(h, a) = next
      BY <2>2, <1>5, <1>9
    <3>. QED
      BY <3>1, <1>1, <1>11, CoalesceGood
  <2>3. CASE a # 0 /\ IsHole(h, prev)
    <3>1. PICK m : m = MergePrevious(h, a, prev)
      OBVIOUS
    <3>2. g = Release(MergeIfHole(m, prev, next), prev)
      BY <2>3, <3>1, <1>9
    <3>3. prev \in DOMAIN h.node /\ h.node[prev].hole /\ EndOf(h, prev) = a
      BY <2>3, <1>8 DEF IsHole
    <3>4. /\ IsHeap(m) /\ Tiles(m) /\ Lists(m, {prev}) /\ m.size = h.size
          /\ DOMAIN m.node = DOMAIN h.node \ {a} /\ prev # a
          /\ EndOf(m, prev) = EndOf(h, a) /\ IsHole(m, prev)
          /\ \A x \in DOMAIN m.node : x # prev => m.node[x] = h.node[x] /\ EndOf(m, x) = EndOf(h, x)
      BY <2>3, <3>1, <3>3, <1>1, MergePreviousGood
    <3>5. next # a /\ a < h.size
      <4>1. EndOf(h, a) >= a + 20 /\ EndOf(h, a) <= h.size
        BY <1>1, Ends DEF Tiles
      <4>. QED
        BY <4>1, <1>2, <1>5
    <3>6. Reserve(m, k)
      <4>1. w # prev
        BY <3>3, <3>5, <1>2, <1>4
      <4>2. w \in DOMAIN m.node /\ m.node[w] = h.node[w] /\ EndOf(m, w) = m.size
        BY <3>4, <4>1, <1>4
      <4>3. Wilderness(m) = w
        BY <3>4, <4>2, WildernessIs
      <4>. QED
        BY <4>2, <4>3, <1>4 DEF Reserve, IsHole
    <3>7. prev \in DOMAIN m.node /\ next \in DOMAIN m.node /\ EndOf(m, prev) = next
      BY <3>3, <3>4, <3>5, <1>5
    <3>8. /\ IsHeap(g) /\ Tiles(g) /\ Lists(g, {}) /\ g.size = m.size /\ Reserve(g, k)
          /\ Used(g) = Used(m) \ {prev} /\ \A x \in Used(g) : g.node[x] = m.node[x]
      BY <3>2, <3>4, <3>6, <3>7, CoalesceGood
    <3>9. \A x : x \in Used(m) <=> x \in Used(h) /\ x # a
      BY <3>3, <3>4 DEF Used, IsHole
    <3>10. prev \notin Used(h)
      BY <3>3 DEF Used
    <3>11. Used(g) = Used(h) \ {a}
      BY <3>8, <3>9, <3>10
    <3>12. \A x \in Used(g) : m.node[x] = h.node[x]
      BY <3>4, <3>8 DEF Used
    <3>13. g.size = h.size /\ \A x \in Used(g) : g.node[x] = h.node[x]
      BY <3>4, <3>8, <3>12
    <3>. QED
      BY <3>8, <3>11, <3>13
  <2>. QED
    BY <2>1, <2>2, <2>3
<1>13. Good(g)
  BY <1>1, <1>12 DEF Good
<1>14. r.ok /\ r.heap = g
  BY <1>10
<1>. QED
  BY <1>12, <1>13, <1>14

-----------------------------------------------------------------------------
(* kheap_init.                                                             *)
LEMMA ReserveAtLeast ==
  ASSUME NEW h, IsHeap(h), Tiles(h), NEW k \in Nat, Reserve(h, k), NEW j \in Nat, j <= k
  PROVE  Reserve(h, j)
<1>1. PICK w \in DOMAIN h.node : w = Wilderness(h)
  BY WildernessIs
<1>2. h.node[w].size \in Nat
  BY Ends
<1>. QED
  BY <1>1, <1>2 DEF Reserve

LEMMA InitialRegionGood ==
  /\ Good(InitialRegion) /\ Reserve(InitialRegion, 4076)
  /\ Used(InitialRegion) = {} /\ InitialRegion.size = 4096
<1>. DEFINE empty == [size |-> InitialSize, node |-> <<>>, foot |-> <<>>, bin |-> [b \in Bins |-> <<>>]]
<1>. HIDE DEF empty
<1>1. PICK e : e = empty
  OBVIOUS
<1>2. /\ IsHeap(e) /\ e.size = 4096 /\ DOMAIN e.node = {} /\ DOMAIN e.foot = {}
      /\ \A b \in Bins : e.bin[b] = <<>>
  BY <1>1 DEF empty, IsHeap, InitialSize
<1>3. PICK n \in Nat : n = 4076
  OBVIOUS
<1>4. PICK g : g = PutChunk(e, 0, Hole, n)
  OBVIOUS
<1>5. PICK r : r = AddNode(g, BinIndex(n), 0)
  OBVIOUS
<1>6. r = InitialRegion
  <2>1. InitialSize - Overhead = n
    BY <1>3 DEF InitialSize, Overhead, NodeSize, FooterSize
  <2>. QED
    BY <2>1, <1>1, <1>4, <1>5 DEF InitialRegion, empty
<1>7. FooterOf(0, n) = 4092
  BY <1>3 DEF FooterOf, NodeSize
<1>8. /\ IsHeap(g) /\ g.size = e.size /\ g.bin = e.bin
      /\ DOMAIN g.node = DOMAIN e.node \cup {0}
      /\ g.node[0] = [hole |-> Hole, size |-> n]
      /\ DOMAIN g.foot = DOMAIN e.foot \cup {FooterOf(0, n)}
      /\ g.foot[FooterOf(0, n)] = 0
  <2>1. PICK z \in Nat : z = 0
    OBVIOUS
  <2>2. g = PutChunk(e, z, Hole, n)
    BY <1>4, <2>1
  <2>3. /\ IsHeap(g) /\ g.size = e.size /\ g.bin = e.bin
        /\ DOMAIN g.node = DOMAIN e.node \cup {z}
        /\ g.node[z] = [hole |-> Hole, size |-> n]
        /\ DOMAIN g.foot = DOMAIN e.foot \cup {FooterOf(z, n)}
        /\ g.foot[FooterOf(z, n)] = z
    BY <1>2, <2>2, HoleIs, PutChunkIs DEF IsPut
  <2>. QED
    BY <2>1, <2>3
<1>9. g.node[0].hole = Hole /\ g.node[0].size = n
  BY <1>8
<1>10. g.node[0].hole
  BY <1>9, Zenon DEF Hole
<1>11. Once(g) /\ \A c \in Bins, x \in Nat : ~On(g, c, x)
  <2>1. Len(<<>>) = 0
    OBVIOUS
  <2>. QED
    BY <2>1, <1>2, <1>8 DEF Once, On, In, NoneTwice
<1>12. /\ IsHeap(r) /\ r.size = g.size /\ r.node = g.node /\ r.foot = g.foot
       /\ \A c \in Bins, x \in Nat : On(r, c, x) <=> On(g, c, x) \/ (c = BinIndex(n) /\ x = 0)
       /\ Once(r)
  <2>1. BinIndex(n) \in Bins
    BY BinIndexIs
  <2>. QED
    BY <2>1, <1>5, <1>8, <1>11, AddNodeIs
<1>13. /\ DOMAIN r.node = {0} /\ r.node[0].hole /\ r.node[0].size = n /\ r.size = 4096
       /\ DOMAIN r.foot = {4092} /\ r.foot[4092] = 0
  BY <1>2, <1>7, <1>8, <1>9, <1>10, <1>12
<1>14. EndOf(r, 0) = 4096
  BY <1>3, <1>13 DEF EndOf, FooterOf, NodeSize, FooterSize
<1>15. Tiles(r)
  BY <1>13, <1>14 DEF Tiles
<1>16. Lists(r, {})
  <2>1. ASSUME NEW c \in Bins, NEW x \in Nat
        PROVE  On(r, c, x) <=> IsHole(r, x) /\ x \notin {} /\ c = BinIndex(r.node[x].size)
    BY <1>11, <1>12, <1>13 DEF IsHole
  <2>. QED
    BY <2>1, <1>12 DEF Lists
<1>17. Good(r)
  BY <1>12, <1>13, <1>15, <1>16 DEF Good, Page
<1>18. Reserve(r, 4076)
  <2>1. Wilderness(r) = 0
    BY <1>13 DEF Wilderness, FooterSize
  <2>. QED
    BY <2>1, <1>3, <1>13 DEF Reserve, IsHole
<1>19. Used(r) = {}
  BY <1>13 DEF Used
<1>. QED
  BY <1>6, <1>13, <1>17, <1>18, <1>19

(* The same in terms of the reserve before (k) and after the call (j).     *)
Given(h, n, j, r) ==
  /\ r.ok /\ Good(r.heap) /\ Reserve(r.heap, j)
  /\ r.heap.size >= h.size /\ r.heap.size \in Nat
  /\ \E a \in DOMAIN h.node :
       /\ h.node[a].hole /\ r.ptr = a + 16
       /\ Used(r.heap) = Used(h) \cup {a} /\ r.heap.node[a].size >= n
  /\ \A x \in Used(h) : r.heap.node[x] = h.node[x]

LEMMA AllocOf ==
  ASSUME NEW h, Good(h), NEW n \in Nat, NEW k \in Nat, k >= n + 1044, Reserve(h, k),
         NEW j \in Nat, j <= 8192, j <= k - n - 20 + 4096,
         NEW r, r = AllocOn(h, n)
  PROVE  Given(h, n, j, r)
<1>1. PICK m \in Nat : m = k - n - 20
  OBVIOUS
<1>2. m >= 1024 /\ k = m + n + 20
  BY <1>1
<1>3. /\ r.ok /\ Good(r.heap) /\ r.heap.size >= h.size /\ r.heap.size \in Nat
      /\ Reserve(r.heap, 8192) \/ Reserve(r.heap, m + 4096)
      /\ \E a \in DOMAIN h.node :
           /\ h.node[a].hole /\ r.ptr = a + 16
           /\ Used(r.heap) = Used(h) \cup {a} /\ r.heap.node[a].size >= n
      /\ \A x \in Used(h) : r.heap.node[x] = h.node[x]
  <2>1. Served(h, n, m, r)
    BY <1>2, AllocGood
  <2>. QED
    BY <2>1 DEF Served
<1>4. Reserve(r.heap, j)
  <2>1. IsHeap(r.heap) /\ Tiles(r.heap)
    BY <1>3 DEF Good
  <2>2. CASE Reserve(r.heap, 8192)
    BY <2>1, <2>2, ReserveAtLeast
  <2>3. CASE Reserve(r.heap, m + 4096)
    <3>1. PICK i \in Nat : i = m + 4096
      OBVIOUS
    <3>2. Reserve(r.heap, i) /\ j <= i
      BY <2>3, <3>1, <1>1
    <3>. QED
      BY <2>1, <3>2, ReserveAtLeast
  <2>. QED
    BY <2>2, <2>3, <1>3
<1>. QED
  BY <1>3, <1>4 DEF Given

LEMMA SelfTestedGood ==
  /\ Good(SelfTested) /\ Reserve(SelfTested, 8192) /\ Used(SelfTested) = {}
<1>. DEFINE h0 == InitialRegion
           t1 == AllocOn(h0, 8)
           h1 == t1.heap
           t2 == AllocOn(h1, 8)
           h2 == t2.heap
           t3 == AllocOn(h2, 4000)
           h3 == t3.heap
           t4 == AllocOn(h3, 8)
           h4 == t4.heap
           f1 == FreeOn(h4, t1.ptr)
           f2 == FreeOn(f1.heap, t3.ptr)
           f3 == FreeOn(f2.heap, t2.ptr)
           f4 == FreeOn(f3.heap, t4.ptr)
<1>14. SelfTested = f4.heap
  BY Zenon DEF SelfTested
<1>. HIDE DEF h0, t1, h1, t2, h2, t3, h3, t4, h4, f1, f2, f3, f4
<1>1. h0 = InitialRegion
  BY DEF h0
<1>2. t1 = AllocOn(h0, 8)
  BY DEF t1
<1>3. h1 = t1.heap
  BY DEF h1
<1>4. t2 = AllocOn(h1, 8)
  BY DEF t2
<1>5. h2 = t2.heap
  BY DEF h2
<1>6. t3 = AllocOn(h2, 4000)
  BY DEF t3
<1>7. h3 = t3.heap
  BY DEF h3
<1>8. t4 = AllocOn(h3, 8)
  BY DEF t4
<1>9. h4 = t4.heap
  BY DEF h4
<1>10. f1 = FreeOn(h4, t1.ptr)
  BY DEF f1
<1>11. f2 = FreeOn(f1.heap, t3.ptr)
  BY DEF f2
<1>12. f3 = FreeOn(f2.heap, t2.ptr)
  BY DEF f3
<1>13. f4 = FreeOn(f3.heap, t4.ptr)
  BY DEF f4
<1>15. Good(h0) /\ Reserve(h0, 4076) /\ Used(h0) = {}
  BY <1>1, InitialRegionGood
<1>16. /\ Good(h1) /\ Reserve(h1, 8144)
       /\ \E a \in DOMAIN h0.node : /\ h0.node[a].hole /\ t1.ptr = a + 16
                                     /\ Used(h1) = Used(h0) \cup {a}
  <2>1. PICK n \in Nat, k \in Nat, j \in Nat : n = 8 /\ k = 4076 /\ j = 8144
    OBVIOUS
  <2>2. k >= n + 1044 /\ j <= 8192 /\ j <= k - n - 20 + 4096
    BY <2>1
  <2>3. Good(h0) /\ Reserve(h0, k) /\ t1 = AllocOn(h0, n)
    BY <2>1, <1>2, <1>15
  <2>4. /\ Good(h1) /\ Reserve(h1, j)
        /\ \E a \in DOMAIN h0.node : /\ h0.node[a].hole /\ t1.ptr = a + 16
                                       /\ Used(h1) = Used(h0) \cup {a}
    <3>1. Given(h0, n, j, t1)
      BY <2>2, <2>3, AllocOf
    <3>. QED
      BY <3>1, <1>3 DEF Given
  <2>. QED
    BY <2>1, <2>4
<1>17. /\ Good(h2) /\ Reserve(h2, 8192)
       /\ \E a \in DOMAIN h1.node : /\ h1.node[a].hole /\ t2.ptr = a + 16
                                     /\ Used(h2) = Used(h1) \cup {a}
  BY <1>4, <1>5, <1>16, AllocOf DEF Given
<1>18. /\ Good(h3) /\ Reserve(h3, 8192)
       /\ \E a \in DOMAIN h2.node : /\ h2.node[a].hole /\ t3.ptr = a + 16
                                     /\ Used(h3) = Used(h2) \cup {a}
  BY <1>6, <1>7, <1>17, AllocOf, SMTT(60) DEF Given
<1>19. /\ Good(h4) /\ Reserve(h4, 8192)
       /\ \E a \in DOMAIN h3.node : /\ h3.node[a].hole /\ t4.ptr = a + 16
                                     /\ Used(h4) = Used(h3) \cup {a}
  BY <1>8, <1>9, <1>18, AllocOf DEF Given
<1>20. PICK a1 \in DOMAIN h0.node : /\ h0.node[a1].hole /\ t1.ptr = a1 + 16
                                 /\ Used(h1) = Used(h0) \cup {a1}
  BY <1>16
<1>21. PICK a2 \in DOMAIN h1.node : /\ h1.node[a2].hole /\ t2.ptr = a2 + 16
                                 /\ Used(h2) = Used(h1) \cup {a2}
  BY <1>17
<1>22. PICK a3 \in DOMAIN h2.node : /\ h2.node[a3].hole /\ t3.ptr = a3 + 16
                                 /\ Used(h3) = Used(h2) \cup {a3}
  BY <1>18
<1>23. PICK a4 \in DOMAIN h3.node : /\ h3.node[a4].hole /\ t4.ptr = a4 + 16
                                 /\ Used(h4) = Used(h3) \cup {a4}
  BY <1>19
<1>24. a1 \in Nat /\ a2 \in Nat /\ a3 \in Nat /\ a4 \in Nat
  BY <1>15, <1>16, <1>17, <1>18 DEF Good, IsHeap
<1>25. a2 \notin Used(h1) /\ a3 \notin Used(h2) /\ a4 \notin Used(h3)
  BY <1>21, <1>22, <1>23 DEF Used
<1>26. /\ Used(h4) = {a1, a2, a3, a4}
       /\ a2 # a1 /\ a3 # a1 /\ a3 # a2 /\ a4 # a1 /\ a4 # a2 /\ a4 # a3
  BY <1>15, <1>20, <1>21, <1>22, <1>23, <1>25
<1>27. Good(f1.heap) /\ Reserve(f1.heap, 8192) /\ Used(f1.heap) = {a2, a3, a4}
  <2>1. t1.ptr \in Nat /\ a1 \in Used(h4)
    BY <1>20, <1>24, <1>26
  <2>2. Good(f1.heap) /\ Reserve(f1.heap, 8192) /\ Used(f1.heap) = Used(h4) \ {a1}
    BY <2>1, <1>10, <1>19, <1>20, FreeGood
  <2>. QED
    BY <2>2, <1>26
<1>28. Good(f2.heap) /\ Reserve(f2.heap, 8192) /\ Used(f2.heap) = {a2, a4}
  <2>1. t3.ptr \in Nat /\ a3 \in Used(f1.heap)
    BY <1>22, <1>24, <1>27
  <2>2. Good(f2.heap) /\ Reserve(f2.heap, 8192) /\ Used(f2.heap) = Used(f1.heap) \ {a3}
    BY <2>1, <1>11, <1>22, <1>27, FreeGood
  <2>. QED
    BY <2>2, <1>26, <1>27
<1>29. Good(f3.heap) /\ Reserve(f3.heap, 8192) /\ Used(f3.heap) = {a4}
  <2>1. t2.ptr \in Nat /\ a2 \in Used(f2.heap)
    BY <1>21, <1>24, <1>28
  <2>2. Good(f3.heap) /\ Reserve(f3.heap, 8192) /\ Used(f3.heap) = Used(f2.heap) \ {a2}
    BY <2>1, <1>12, <1>21, <1>28, FreeGood
  <2>. QED
    BY <2>2, <1>26, <1>28
<1>30. Good(f4.heap) /\ Reserve(f4.heap, 8192) /\ Used(f4.heap) = {}
  <2>1. t4.ptr \in Nat /\ a4 \in Used(f3.heap)
    BY <1>23, <1>24, <1>29
  <2>2. Good(f4.heap) /\ Reserve(f4.heap, 8192) /\ Used(f4.heap) = Used(f3.heap) \ {a4}
    BY <2>1, <1>13, <1>23, <1>29, FreeGood
  <2>. QED
    BY <2>2, <1>29
<1>. QED
  BY <1>14, <1>30
-----------------------------------------------------------------------------
(* The callers.                                                            *)

(* One page after each allocation keeps up with requests that fit a page.  *)
SmallRequests == Sizes \subseteq 1..(Page - Overhead)

(* Every pointer in l is to a chunk in use of its own that is large enough,*)
(* and every chunk in use has one.                                         *)
Held(h, l) ==
  /\ \A x \in l : /\ x = [ptr |-> x.ptr, size |-> x.size]
                  /\ x.ptr \in Nat /\ x.size \in Sizes
                  /\ \E a \in Used(h) : x.ptr = a + 16 /\ h.node[a].size >= x.size
  /\ \A x, y \in l : x.ptr = y.ptr => x = y
  /\ \A a \in Used(h) : \E x \in l : x.ptr = a + 16

Kept(h, l) == Good(h) /\ Reserve(h, 8192) /\ Held(h, l)

SameSize(g, h) == g.size = h.size

LEMMA UsedIs ==
  ASSUME NEW h, Good(h), NEW a \in Used(h)
  PROVE  /\ a \in DOMAIN h.node /\ a \in Nat /\ ~h.node[a].hole
         /\ h.node[a].size \in Nat /\ EndOf(h, a) = a + 20 + h.node[a].size
<1>1. a \in DOMAIN h.node /\ ~h.node[a].hole
  BY DEF Used
<1>. QED
  BY <1>1, Ends DEF Good

LEMMA GrantKeeps ==
  ASSUME SmallRequests, NEW h, NEW l, Kept(h, l), NEW n \in Sizes,
         NEW r, r = AllocOn(h, n), NEW x, x = [ptr |-> r.ptr, size |-> n]
  PROVE  /\ r.ok /\ Kept(r.heap, l \cup {x}) /\ r.heap.size >= h.size
         /\ r.ptr \in Nat /\ \A y \in l : y.ptr # r.ptr
<1>1. n \in Nat /\ n <= 4076
  BY DEF SmallRequests, Page, Overhead, NodeSize, FooterSize
<1>2. PICK k \in Nat, j \in Nat : k = 8192 /\ j = 8192
  OBVIOUS
<1>3. k >= n + 1044 /\ j <= 8192 /\ j <= k - n - 20 + 4096 /\ Good(h) /\ Reserve(h, k)
  BY <1>1, <1>2 DEF Kept
<1>4. PICK g : g = r.heap
  OBVIOUS
<1>5. /\ r.ok /\ Good(g) /\ Reserve(g, j)
      /\ g.size >= h.size /\ g.size \in Nat
      /\ \E a \in DOMAIN h.node :
           /\ h.node[a].hole /\ r.ptr = a + 16
           /\ Used(g) = Used(h) \cup {a} /\ g.node[a].size >= n
      /\ \A y \in Used(h) : g.node[y] = h.node[y]
  <2>1. Given(h, n, j, r)
    BY <1>1, <1>3, AllocOf
  <2>. QED
    BY <2>1, <1>4 DEF Given
<1>6. PICK a \in DOMAIN h.node : /\ h.node[a].hole /\ r.ptr = a + 16
                                 /\ Used(g) = Used(h) \cup {a} /\ g.node[a].size >= n
  BY <1>5
<1>7. a \in Nat /\ a \notin Used(h)
  BY <1>3, <1>6 DEF Good, IsHeap, Used
<1>8. Held(h, l) /\ x.ptr = a + 16 /\ x.size = n
  BY <1>6 DEF Kept
<1>9. ASSUME NEW y \in l
      PROVE  y.ptr # r.ptr /\ \E c \in Used(g) : y.ptr = c + 16 /\ g.node[c].size >= y.size
  <2>1. PICK c \in Used(h) : y.ptr = c + 16 /\ h.node[c].size >= y.size
    BY <1>8 DEF Held
  <2>2. c \in Nat
    BY <1>3, UsedIs
  <2>3. c # a
    BY <1>7
  <2>4. y.ptr # r.ptr
    BY <2>1, <2>2, <2>3, <1>6, <1>7
  <2>. QED
    BY <2>1, <2>4, <1>5, <1>6
<1>10. Held(g, l \cup {x})
  <2>1. ASSUME NEW y \in l \cup {x}
        PROVE  /\ y = [ptr |-> y.ptr, size |-> y.size] /\ y.ptr \in Nat /\ y.size \in Sizes
               /\ \E c \in Used(g) : y.ptr = c + 16 /\ g.node[c].size >= y.size
    <3>1. CASE y \in l
      BY <3>1, <1>8, <1>9 DEF Held
    <3>2. CASE y = x
      BY <3>2, <1>6, <1>7, <1>8
    <3>. QED
      BY <3>1, <3>2
  <2>2. ASSUME NEW y \in l \cup {x}, NEW z \in l \cup {x}, y.ptr = z.ptr PROVE y = z
    <3>1. x.ptr = r.ptr
      BY <1>6, <1>8
    <3>2. CASE y \in l /\ z \in l
      BY <3>2, <2>2, <1>8 DEF Held
    <3>. QED
      BY <3>1, <3>2, <2>2, <1>9
  <2>3. ASSUME NEW c \in Used(g) PROVE \E y \in l \cup {x} : y.ptr = c + 16
    <3>1. CASE c = a
      BY <3>1, <1>8
    <3>2. CASE c \in Used(h)
      BY <3>2, <1>8 DEF Held
    <3>. QED
      BY <3>1, <3>2, <1>6
  <2>. QED
    BY <2>1, <2>2, <2>3 DEF Held
<1>11. r.ptr \in Nat /\ Reserve(g, 8192)
  BY <1>2, <1>5, <1>6, <1>7
<1>. QED
  BY <1>4, <1>5, <1>9, <1>10, <1>11 DEF Kept

LEMMA ReturnKeeps ==
  ASSUME NEW h, NEW l, Kept(h, l), NEW x \in l, NEW r, r = FreeOn(h, x.ptr)
  PROVE  r.ok /\ Kept(r.heap, l \ {x}) /\ SameSize(r.heap, h)
<1>1. Good(h) /\ Reserve(h, 8192) /\ Held(h, l)
  BY DEF Kept
<1>2. PICK a \in Used(h) : x.ptr = a + 16
  BY <1>1 DEF Held
<1>3. PICK p \in Nat : p = x.ptr
  BY <1>1 DEF Held
<1>4. PICK k \in Nat : k = 8192
  OBVIOUS
<1>5. PICK g : g = r.heap
  OBVIOUS
<1>6. p = a + 16 /\ r = FreeOn(h, p) /\ Reserve(h, k)
  BY <1>1, <1>2, <1>3, <1>4
<1>7. /\ r.ok /\ Good(g) /\ g.size = h.size /\ Reserve(g, k)
      /\ Used(g) = Used(h) \ {a} /\ \A c \in Used(g) : g.node[c] = h.node[c]
  BY <1>1, <1>5, <1>6, FreeGood
<1>8. \A c \in Used(h) : c \in Nat
  BY <1>1, UsedIs
<1>9. Held(g, l \ {x})
  <2>1. ASSUME NEW y \in l \ {x}
        PROVE  /\ y = [ptr |-> y.ptr, size |-> y.size] /\ y.ptr \in Nat /\ y.size \in Sizes
               /\ \E c \in Used(g) : y.ptr = c + 16 /\ g.node[c].size >= y.size
    <3>1. /\ y = [ptr |-> y.ptr, size |-> y.size] /\ y.ptr \in Nat /\ y.size \in Sizes
          /\ y.ptr # x.ptr
      BY <1>1 DEF Held
    <3>2. PICK c \in Used(h) : y.ptr = c + 16 /\ h.node[c].size >= y.size
      BY <1>1 DEF Held
    <3>3. c \in Used(g)
      BY <3>1, <3>2, <1>2, <1>7
    <3>. QED
      BY <3>1, <3>2, <3>3, <1>7
  <2>2. ASSUME NEW y \in l \ {x}, NEW z \in l \ {x}, y.ptr = z.ptr PROVE y = z
    BY <2>2, <1>1 DEF Held
  <2>3. ASSUME NEW c \in Used(g) PROVE \E y \in l \ {x} : y.ptr = c + 16
    <3>1. c \in Used(h) /\ c # a
      BY <1>7
    <3>2. PICK y \in l : y.ptr = c + 16
      BY <3>1, <1>1 DEF Held
    <3>3. y # x
      BY <3>1, <3>2, <1>2, <1>8
    <3>. QED
      BY <3>2, <3>3
  <2>. QED
    BY <2>1, <2>2, <2>3 DEF Held
<1>10. Reserve(g, 8192)
  BY <1>4, <1>7
<1>. QED
  BY <1>5, <1>7, <1>9, <1>10 DEF Kept, SameSize

(* What is held lies within the heap and apart.                            *)
LEMMA Apart ==
  ASSUME NEW h, NEW l, Kept(h, l), NEW x \in l
  PROVE  /\ x.ptr \in Nat /\ x.size \in Nat /\ x.ptr + x.size <= h.size
         /\ \A y \in l : y # x =>
              x.ptr + x.size <= y.ptr \/ y.ptr + y.size <= x.ptr
<1>1. Good(h) /\ Held(h, l) /\ Tiles(h) /\ h.size \in Nat
  BY DEF Kept, Good, IsHeap
<1>2. ASSUME NEW y \in l
      PROVE  /\ y.ptr \in Nat /\ y.size \in Nat
             /\ \E c \in DOMAIN h.node : /\ c \in Nat /\ y.ptr = c + 16
                                         /\ c + 20 + y.size <= EndOf(h, c)
                                         /\ EndOf(h, c) \in Nat
  <2>1. y.ptr \in Nat /\ y.size \in Nat
    BY <1>1, SizesAssumption DEF Held
  <2>2. PICK c \in Used(h) : y.ptr = c + 16 /\ h.node[c].size >= y.size
    BY <1>1 DEF Held
  <2>3. /\ c \in DOMAIN h.node /\ c \in Nat
        /\ h.node[c].size \in Nat /\ EndOf(h, c) = c + 20 + h.node[c].size
    BY <1>1, UsedIs
  <2>4. c + 20 + y.size <= EndOf(h, c) /\ EndOf(h, c) \in Nat
    BY <2>1, <2>2, <2>3
  <2>. QED
    BY <2>1, <2>2, <2>3, <2>4
<1>3. PICK a \in DOMAIN h.node : /\ a \in Nat /\ x.ptr = a + 16 /\ EndOf(h, a) \in Nat
                                 /\ a + 20 + x.size <= EndOf(h, a)
  BY <1>2
<1>4. x.ptr \in Nat /\ x.size \in Nat
  BY <1>2
<1>5. x.ptr + x.size <= h.size
  <2>1. EndOf(h, a) <= h.size
    BY <1>1 DEF Tiles
  <2>. QED
    BY <2>1, <1>1, <1>3, <1>4
<1>6. ASSUME NEW y \in l, y # x
      PROVE  x.ptr + x.size <= y.ptr \/ y.ptr + y.size <= x.ptr
  <2>1. PICK c \in DOMAIN h.node : /\ c \in Nat /\ y.ptr = c + 16 /\ EndOf(h, c) \in Nat
                                   /\ c + 20 + y.size <= EndOf(h, c)
    BY <1>2
  <2>2. y.size \in Nat
    BY <1>2
  <2>3. c # a
    BY <2>1, <1>1, <1>3, <1>6 DEF Held
  <2>4. (a < c => EndOf(h, a) <= c) /\ (c < a => EndOf(h, c) <= a)
    BY <1>1 DEF Tiles
  <2>5. CASE a < c
    BY <2>1, <2>2, <2>4, <2>5, <1>3, <1>4
  <2>6. CASE c < a
    BY <2>1, <2>2, <2>4, <2>6, <1>3, <1>4
  <2>. QED
    BY <2>1, <2>3, <2>5, <2>6, <1>3
<1>. QED
  BY <1>4, <1>5, <1>6

-----------------------------------------------------------------------------
(* The heap's own invariant: its chunks tile it, the lists hold its holes, *)
(* the wilderness has its reserve, and the chunks in use are the callers'. *)
IInv == Kept(heap, live) /\ fault = FALSE

LEMMA InitIInv == Init => IInv
<1>. SUFFICES ASSUME Init PROVE IInv
  OBVIOUS
<1>1. heap = SelfTested /\ live = {} /\ fault = FALSE
  BY DEF Init
<1>2. Good(heap) /\ Reserve(heap, 8192) /\ Used(heap) = {}
  BY <1>1, SelfTestedGood
<1>. QED
  BY <1>1, <1>2 DEF IInv, Kept, Held

LEMMA AllocStep ==
  ASSUME SmallRequests, IInv, NEW n \in Sizes, Alloc(n)
  PROVE  /\ IInv' /\ heap'.size >= heap.size
         /\ \E x : /\ live' = live \cup {x} /\ x.size = n /\ x \notin live
<1>1. PICK r : r = AllocOn(heap, n)
  OBVIOUS
<1>2. PICK x : x = [ptr |-> r.ptr, size |-> n]
  OBVIOUS
<1>3. Kept(heap, live)
  BY DEF IInv
<1>4. /\ r.ok /\ Kept(r.heap, live \cup {x}) /\ r.heap.size >= heap.size
      /\ \A y \in live : y.ptr # r.ptr
  BY <1>1, <1>2, <1>3, GrantKeeps
<1>5. heap' = r.heap /\ fault' = ~r.ok /\ live' = IF r.ok THEN live \cup {x} ELSE live
  BY <1>1, <1>2, Zenon DEF Alloc
<1>6. fault' = FALSE
  BY <1>4, <1>5, Zenon
<1>7. live' = live \cup {x} /\ x.size = n /\ x \notin live
  BY <1>2, <1>4, <1>5
<1>8. Kept(heap, live)'
  BY <1>4, <1>5, <1>7
<1>. QED
  BY <1>4, <1>5, <1>6, <1>7, <1>8 DEF IInv

LEMMA FreeStep ==
  ASSUME IInv, NEW x \in live, Free(x)
  PROVE  IInv' /\ heap'.size = heap.size /\ live' = live \ {x}
<1>1. PICK r : r = FreeOn(heap, x.ptr)
  OBVIOUS
<1>2. Kept(heap, live)
  BY DEF IInv
<1>3. r.ok /\ Kept(r.heap, live \ {x}) /\ SameSize(r.heap, heap)
  BY <1>1, <1>2, ReturnKeeps, Zenon
<1>4. heap' = r.heap /\ fault' = ~r.ok /\ live' = live \ {x}
  BY <1>1, Zenon DEF Free
<1>5. fault' = FALSE
  BY <1>3, <1>4, Zenon
<1>6. Kept(heap, live)'
  BY <1>3, <1>4
<1>. QED
  BY <1>3, <1>4, <1>5, <1>6 DEF IInv, SameSize

LEMMA ReallocStep ==
  ASSUME SmallRequests, IInv, NEW x \in live, NEW n \in Sizes, Realloc(x, n)
  PROVE  /\ IInv' /\ heap'.size >= heap.size
         /\ \E z : /\ live' = (live \ {x}) \cup {z} /\ z.size = n /\ z \notin live
                   /\ \E h : Kept(h, live \cup {z}) /\ h.size = heap'.size
<1>1. PICK new : new = AllocOn(heap, n)
  OBVIOUS
<1>2. PICK z : z = [ptr |-> new.ptr, size |-> n]
  OBVIOUS
<1>3. PICK old : old = FreeOn(new.heap, x.ptr)
  OBVIOUS
<1>4. Kept(heap, live)
  BY DEF IInv
<1>5. /\ new.ok /\ Kept(new.heap, live \cup {z}) /\ new.heap.size >= heap.size
      /\ \A y \in live : y.ptr # new.ptr
  BY <1>1, <1>2, <1>4, GrantKeeps
<1>6. old.ok /\ Kept(old.heap, (live \cup {z}) \ {x}) /\ SameSize(old.heap, new.heap)
  BY <1>3, <1>5, ReturnKeeps
<1>7. /\ heap' = old.heap /\ fault' = ~(new.ok /\ old.ok)
      /\ live' = (live \ {x}) \cup {z}
  BY <1>1, <1>2, <1>3, Zenon DEF Realloc
<1>8. fault' = FALSE
  BY <1>5, <1>6, <1>7, Zenon
<1>9. z \notin live /\ z.size = n
  BY <1>2, <1>5
<1>10. (live \cup {z}) \ {x} = live'
  BY <1>7, <1>9
<1>11. Kept(heap, live)'
  BY <1>6, <1>7, <1>10
<1>. QED
  BY <1>5, <1>6, <1>7, <1>8, <1>9, <1>10, <1>11 DEF IInv, SameSize

LEMMA NextIInv == SmallRequests /\ IInv /\ [Next]_vars => IInv'
<1>. SUFFICES ASSUME SmallRequests, IInv, [Next]_vars PROVE IInv'
  OBVIOUS
<1>1. ASSUME NEW n \in Sizes, Alloc(n) PROVE IInv'
  BY <1>1, AllocStep
<1>2. ASSUME NEW x \in live, Free(x) PROVE IInv'
  BY <1>2, FreeStep
<1>3. ASSUME NEW x \in live, NEW n \in Sizes, Realloc(x, n) PROVE IInv'
  BY <1>3, ReallocStep
<1>4. CASE UNCHANGED vars
  BY <1>4 DEF vars, IInv
<1>. QED
  BY <1>1, <1>2, <1>3, <1>4 DEF Next

LEMMA Inductive == ASSUME SmallRequests PROVE Spec => []IInv
<1>. QED
  BY InitIInv, NextIInv, PTL DEF Spec
-----------------------------------------------------------------------------
LEMMA ListIs ==
  ASSUME NEW h, IsHeap(h), NEW b \in Bins
  PROVE  /\ DOMAIN h.bin[b] = 1..Len(h.bin[b])
         /\ \A i \in 1..Len(h.bin[b]) : h.bin[b][i] \in Nat /\ On(h, b, h.bin[b][i])
<1>1. h.bin[b] \in Seq(Nat)
  BY DEF IsHeap
<1>. QED
  BY <1>1 DEF On, In

LEMMA KeptTypes ==
  ASSUME Kept(heap, live)
  PROVE  /\ heap.size % Page = 0
         /\ \A a \in Nodes : a \in 0..(heap.size - Overhead) /\ heap.node[a].size \in Nat
         /\ \A f \in DOMAIN heap.foot : heap.foot[f] \in Nodes
         /\ \A b \in Bins : Range(heap.bin[b]) \subseteq Nodes
         /\ \A x \in live : x.ptr \in 0..heap.size
<1>1. /\ IsHeap(heap) /\ Tiles(heap) /\ Lists(heap, {}) /\ heap.size % Page = 0
      /\ heap.size \in Nat
  BY DEF Kept, Good, IsHeap
<1>2. ASSUME NEW a \in Nodes
      PROVE  a \in 0..(heap.size - Overhead) /\ heap.node[a].size \in Nat
  <2>1. a \in Nat /\ EndOf(heap, a) \in Nat /\ EndOf(heap, a) >= a + 20 /\ heap.node[a].size \in Nat
    BY <1>1, Ends DEF Nodes
  <2>2. EndOf(heap, a) <= heap.size
    BY <1>1 DEF Tiles, Nodes
  <2>. QED
    BY <2>1, <2>2, <1>1 DEF Overhead, NodeSize, FooterSize
<1>3. \A f \in DOMAIN heap.foot : heap.foot[f] \in Nodes
  BY <1>1 DEF Tiles, Nodes
<1>4. ASSUME NEW b \in Bins PROVE Range(heap.bin[b]) \subseteq Nodes
  <2>1. ASSUME NEW i \in DOMAIN heap.bin[b] PROVE heap.bin[b][i] \in Nodes
    <3>1. heap.bin[b][i] \in Nat /\ On(heap, b, heap.bin[b][i])
      BY <1>1, ListIs
    <3>. QED
      BY <3>1, <1>1 DEF Lists, IsHole, Nodes
  <2>. QED
    BY <2>1 DEF Range
<1>5. ASSUME NEW x \in live PROVE x.ptr \in 0..heap.size
  <2>1. x.ptr \in Nat /\ x.size \in Nat /\ x.ptr + x.size <= heap.size
    BY Apart
  <2>. QED
    BY <2>1, <1>1
<1>. QED
  BY <1>1, <1>2, <1>3, <1>4, <1>5

(* The state of the heap keeps its types: its chunks lie inside it, and    *)
(* every footer and every list leads to a header.                          *)
THEOREM TypeCorrect == ASSUME SmallRequests PROVE Spec => []TypeOK
<1>1. IInv => TypeOK
  BY KeptTypes DEF IInv, TypeOK
<1>. QED
  BY <1>1, Inductive, PTL

(* kheap_alloc's split, kheap_expand and the merges of kheap_free leave no *)
(* gap and no overlap between chunks, and every boundary tag leads to the  *)
(* neighbour.                                                              *)
THEOREM ChunksTile == ASSUME SmallRequests PROVE Spec => []Tiled
<1>1. ASSUME Kept(heap, live) PROVE Tiled
  <2>1. IsHeap(heap) /\ Tiles(heap)
    BY <1>1 DEF Kept, Good
  <2>2. ASSUME NEW a \in Nodes
        PROVE  /\ heap.foot[FooterOf(a, heap.node[a].size)] = a
               /\ EndOf(heap, a) \in Nodes \cup {heap.size}
               /\ a # 0 => EndOf(heap, heap.foot[a - FooterSize]) = a
    <3>1. a \in Nat /\ FooterOf(a, heap.node[a].size) = EndOf(heap, a) - 4
      BY <2>1, Ends DEF Nodes
    <3>2. heap.foot[EndOf(heap, a) - 4] = a /\ EndOf(heap, a) \in Nodes \cup {heap.size}
      BY <2>1 DEF Tiles, Nodes
    <3>3. ASSUME a # 0 PROVE EndOf(heap, heap.foot[a - FooterSize]) = a
      <4>1. PICK f : f = a - 4
        OBVIOUS
      <4>2. f \in DOMAIN heap.foot /\ f + 4 = a /\ a - FooterSize = f
        BY <2>1, <3>1, <3>3, <4>1 DEF Tiles, Nodes, FooterSize
      <4>. QED
        BY <2>1, <4>2 DEF Tiles
    <3>. QED
      BY <3>1, <3>2, <3>3
  <2>3. 0 \in Nodes /\ \A a, b \in Nodes : a < b => EndOf(heap, a) <= b
    BY <2>1 DEF Tiles, Nodes
  <2>. QED
    BY <2>2, <2>3 DEF Tiled
<1>2. IInv => Tiled
  BY <1>1 DEF IInv
<1>. QED
  BY <1>2, Inductive, PTL

(* The chunks in use are exactly those of the pointers that callers hold:  *)
(* kheap_alloc and kheap_free give out none twice and lose none.           *)
THEOREM NoneLostNoneTwice == ASSUME SmallRequests PROVE Spec => []InUseExactly
<1>1. ASSUME Kept(heap, live) PROVE InUseExactly
  <2>1. Good(heap) /\ Held(heap, live)
    BY <1>1 DEF Kept
  <2>2. ASSUME NEW x \in live
        PROVE  x.ptr - NodeSize \in Used(heap) /\ heap.node[x.ptr - NodeSize].size >= x.size
    <3>1. PICK a \in Used(heap) : x.ptr = a + 16 /\ heap.node[a].size >= x.size
      BY <2>1 DEF Held
    <3>2. a \in Nat
      BY <2>1, UsedIs
    <3>3. x.ptr - NodeSize = a
      BY <3>1, <3>2 DEF NodeSize
    <3>. QED
      BY <3>1, <3>3
  <2>3. ASSUME NEW a \in Used(heap) PROVE a \in {x.ptr - NodeSize : x \in live}
    <3>1. PICK x \in live : x.ptr = a + 16
      BY <2>1 DEF Held
    <3>2. a \in Nat
      BY <2>1, UsedIs
    <3>3. x.ptr - NodeSize = a
      BY <3>1, <3>2 DEF NodeSize
    <3>. QED
      BY <3>3
  <2>4. {a \in Nodes : ~heap.node[a].hole} = Used(heap)
    BY DEF Nodes, Used
  <2>5. Used(heap) = {x.ptr - NodeSize : x \in live}
    BY <2>2, <2>3
  <2>6. \A x, y \in live : x.ptr = y.ptr => x = y
    BY <2>1 DEF Held
  <2>. QED
    BY <2>2, <2>4, <2>5, <2>6 DEF InUseExactly
<1>2. IInv => InUseExactly
  BY <1>1 DEF IInv
<1>. QED
  BY <1>2, Inductive, PTL

(* What the invariant's lists hold.                                        *)
LEMMA OnlyHolesOnLists == IInv => ListedAreHoles
<1>1. SUFFICES ASSUME IInv PROVE ListedAreHoles
  OBVIOUS
<1>2. IsHeap(heap) /\ Lists(heap, {})
  BY <1>1 DEF IInv, Kept, Good
<1>3. ASSUME NEW b \in Bins, NEW i \in DOMAIN heap.bin[b]
      PROVE  heap.node[heap.bin[b][i]].hole
  <2>1. i \in 1..Len(heap.bin[b])
    BY <1>2, ListIs
  <2>2. heap.bin[b][i] \in Nat /\ On(heap, b, heap.bin[b][i])
    BY <1>2, <2>1, ListIs
  <2>. QED
    BY <1>2, <2>2 DEF Lists, IsHole
<1>. QED
  BY <1>3 DEF ListedAreHoles, Listed, Range

(* Nothing but a hole is on a list: kheap_alloc takes off the chunk it     *)
(* hands out and kheap_free the chunks it merges.  kheap_expand breaks     *)
(* this once requests are too large for SmallRequests (MCKHeap_fat.cfg).   *)
THEOREM OnlyHolesListed == ASSUME SmallRequests PROVE Spec => []ListedAreHoles
<1>. QED
  BY OnlyHolesOnLists, Inductive, PTL

(* Every hole is once on the list of its size and on no other: kheap_alloc *)
(* finds it and kheap_free can take it off when it merges it.  Nothing     *)
(* else is on a list.                                                      *)
THEOREM HolesListed == ASSUME SmallRequests PROVE Spec => []HolesInTheirBins
<1>1. ASSUME IInv PROVE HolesInTheirBins
  <2>1. IsHeap(heap) /\ Lists(heap, {})
    BY <1>1 DEF IInv, Kept, Good
  <2>2. ASSUME NEW a \in Nodes, heap.node[a].hole, NEW b \in Bins
        PROVE  Cardinality({i \in DOMAIN heap.bin[b] : heap.bin[b][i] = a}) =
                 IF b = BinIndex(heap.node[a].size) THEN 1 ELSE 0
    <3>1. a \in Nat /\ IsHole(heap, a)
      BY <2>1, <2>2 DEF IsHeap, Nodes, IsHole
    <3>2. On(heap, b, a) <=> b = BinIndex(heap.node[a].size)
      BY <2>1, <3>1 DEF Lists
    <3>3. DOMAIN heap.bin[b] = 1..Len(heap.bin[b])
      BY <2>1, ListIs
    <3>4. CASE On(heap, b, a)
      <4>1. PICK i \in 1..Len(heap.bin[b]) : heap.bin[b][i] = a
        BY <3>4 DEF On, In
      <4>2. \A j \in 1..Len(heap.bin[b]) : heap.bin[b][j] = a => j = i
        BY <2>1, <4>1 DEF Lists, Once, NoneTwice
      <4>3. {j \in DOMAIN heap.bin[b] : heap.bin[b][j] = a} = {i}
        BY <3>3, <4>1, <4>2
      <4>4. Cardinality({i}) = 1
        BY FS_Singleton
      <4>. QED
        BY <3>2, <3>4, <4>3, <4>4
    <3>5. CASE ~On(heap, b, a)
      <4>1. {j \in DOMAIN heap.bin[b] : heap.bin[b][j] = a} = {}
        BY <3>3, <3>5 DEF On, In
      <4>. QED
        BY <3>2, <3>5, <4>1, FS_EmptySet
    <3>. QED
      BY <3>4, <3>5
  <2>. QED
    BY <1>1, <2>2, OnlyHolesOnLists DEF HolesInTheirBins
<1>2. IInv => HolesInTheirBins
  BY <1>1
<1>. QED
  BY <1>2, Inductive, PTL

(* The last chunk stays a hole of KHEAP_MIN_WILDERNESS at least, so that   *)
(* kheap_alloc never goes on without a chunk, and kheap_free never looks   *)
(* for a header behind the heap.                                           *)
THEOREM ReserveHolds == ASSUME SmallRequests PROVE Spec => []WildernessReserve
<1>1. IInv => WildernessReserve
  BY DEF IInv, Kept, Reserve, IsHole, WildernessReserve, MinWilderness
<1>. QED
  BY <1>1, Inductive, PTL

-----------------------------------------------------------------------------
(* What is granted lies inside the heap and apart from all that was.       *)
LEMMA NewPart ==
  ASSUME NEW h, NEW l, NEW x, Kept(h, l \cup {x}), x \notin l, x.size \in Sizes
  PROVE  /\ x \notin l /\ x.size \in Sizes
         /\ x.ptr >= 0 /\ x.ptr + x.size <= h.size
         /\ \A y \in l : Abstract!Disjoint(y, x)
<1>1. PICK all : all = l \cup {x}
  OBVIOUS
<1>2. Kept(h, all) /\ x \in all
  BY <1>1
<1>3. x.ptr \in Nat /\ x.ptr + x.size <= h.size
  BY <1>2, Apart
<1>4. ASSUME NEW y \in l PROVE Abstract!Disjoint(y, x)
  <2>1. y \in all /\ y # x
    BY <1>1
  <2>. QED
    BY <2>1, <1>2, Apart DEF Abstract!Disjoint
<1>. QED
  BY <1>3, <1>4

LEMMA AllocatorStep ==
  SmallRequests /\ IInv /\ [Next]_vars => [Abstract!Next]_<<live, heap.size>>
<1>. SUFFICES ASSUME SmallRequests, IInv, [Next]_vars
              PROVE  [Abstract!Next]_<<live, heap.size>>
  OBVIOUS
<1>1. ASSUME NEW n \in Sizes, Alloc(n) PROVE Abstract!Grant
  <2>1. IInv' /\ heap'.size >= heap.size
    BY <1>1, AllocStep
  <2>2. PICK x : live' = live \cup {x} /\ x.size = n /\ x \notin live
    BY <1>1, AllocStep
  <2>3. Kept(heap', live \cup {x})
    BY <2>1, <2>2 DEF IInv
  <2>4. Abstract!New(x)
    BY <2>2, <2>3, NewPart DEF Abstract!New
  <2>. QED
    BY <2>1, <2>2, <2>4 DEF Abstract!Grant
<1>2. ASSUME NEW x \in live, Free(x) PROVE Abstract!Return(x)
  BY <1>2, FreeStep DEF Abstract!Return
<1>3. ASSUME NEW x \in live, NEW n \in Sizes, Realloc(x, n) PROVE Abstract!Exchange(x)
  <2>1. heap'.size >= heap.size
    BY <1>3, ReallocStep
  <2>2. PICK z : /\ live' = (live \ {x}) \cup {z} /\ z.size = n /\ z \notin live
                 /\ \E h : Kept(h, live \cup {z}) /\ h.size = heap'.size
    BY <1>3, ReallocStep
  <2>3. PICK h : Kept(h, live \cup {z}) /\ h.size = heap'.size
    BY <2>2
  <2>4. Abstract!New(z)
    BY <2>2, <2>3, NewPart DEF Abstract!New
  <2>. QED
    BY <2>1, <2>2, <2>4 DEF Abstract!Exchange
<1>4. CASE UNCHANGED vars
  BY <1>4 DEF vars
<1>. QED
  BY <1>1, <1>2, <1>3, <1>4 DEF Next, Abstract!Next

(* Callers of kheap_alloc, kheap_realloc and kheap_free get what Allocator *)
(* promises: memory inside the heap that nobody else holds.                *)
THEOREM IsAllocator == ASSUME SmallRequests PROVE Spec => ImplementsAllocator
<1>1. Init => live = {}
  BY DEF Init
<1>. QED
  BY <1>1, AllocatorStep, Inductive, PTL DEF Spec, ImplementsAllocator, Abstract!Spec
=============================================================================
