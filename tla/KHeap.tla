-------------------------------- MODULE KHeap --------------------------------
(***************************************************************************)
(* The kernel heap (kernel/memory/kheap.c) of the i386 build: chunks with  *)
(* a header before and a footer behind them tile the heap, and the free    *)
(* ones (holes) are kept on nine lists by size.  The last chunk, the       *)
(* "wilderness", grows when the heap is extended by pages.                 *)
(*                                                                         *)
(* Addresses are byte offsets from KHEAP_START and sizes are the real      *)
(* ones.  kheap_alloc and kheap_free hold kheap_lock throughout (kheap.c   *)
(* 225-295, 301-357), so each is one action (SpinLock_i386).  A header or  *)
(* footer that a merge or a move leaves behind is dropped from the heap    *)
(* record unless something can still read it.                              *)
(***************************************************************************)
EXTENDS Integers, Sequences, SequencesExt, FiniteSetsExt, Functions

CONSTANTS
  Sizes,      (* the sizes callers ask for                                 *)
  MaxLive,    (* bound: allocations in use at the same time                *)
  MaxCalls    (* bound: calls made after boot                              *)

ASSUME SizesAssumption == Sizes \subseteq Nat \ {0}

NodeSize == 16                      \* sizeof(kheap_node_t)
FooterSize == 4                     \* sizeof(kheap_footer_t)
Overhead == NodeSize + FooterSize   \* KHEAP_OVERHEAD
Page == 4096                        \* PAGE_SIZE_4K
InitialSize == 4096                 \* KHEAP_INITIAL_SIZE
MinWilderness == 8192               \* KHEAP_MIN_WILDERNESS
Bins == 0..8                        \* KHEAP_BIN_COUNT lists

VARIABLES
  heap,       (* [size: currentKernelHeapSize, node: the chunk headers,    *)
              (*  foot: the footers' back pointers, bin: the nine lists]   *)
  live,       (* the pointers callers hold, with the size they asked for   *)
  fault,      (* a NULL header was used, or memory behind the heap read    *)
  calls       (* calls made so far                                         *)

vars == <<heap, live, fault, calls>>

Call == ~fault /\ calls < MaxCalls /\ calls' = calls + 1

-----------------------------------------------------------------------------
(* log2(size) - 2, within 0..8: BinFloor[b] is the smallest size on list b.*)
BinFloor == <<8, 16, 32, 64, 128, 256, 512, 1024>>

BinIndex(n) ==
  CHOOSE b \in Bins : (b = 0 \/ BinFloor[b] <= n) /\ (b = 8 \/ n < BinFloor[b + 1])

FooterOf(a, n) == a + NodeSize + n
EndOf(h, a) == FooterOf(a, h.node[a].size) + FooterSize
Wilderness(h) == h.foot[h.size - FooterSize]

Write(f, x, v) == [y \in DOMAIN f \cup {x} |-> IF y = x THEN v ELSE f[y]]

Hole == TRUE                        \* kheap_node_t.hole
InUse == FALSE

(* A header is written and kheap_create_footer called for it.              *)
PutChunk(h, a, isHole, n) ==
  [h EXCEPT !.node = Write(@, a, [hole |-> isHole, size |-> n]),
            !.foot = Write(@, FooterOf(a, n), a)]

(* The header that a merge leaves behind reads as not a hole.              *)
IsHole(h, a) == a \in DOMAIN h.node /\ h.node[a].hole

DropFooter(h, f) == [h EXCEPT !.foot = Restrict(@, DOMAIN @ \ {f})]
DropNode(h, a)   == [h EXCEPT !.node = Restrict(@, DOMAIN @ \ {a})]

(* A node that belongs at the end of a list is not linked to the last one. *)
AddNodeMutant(h, b, a) ==
  LET bigger == {i \in DOMAIN h.bin[b] : h.node[h.bin[b][i]].size > h.node[a].size}
  IN IF h.bin[b] = <<>> THEN [h EXCEPT !.bin[b] = <<a>>]
     ELSE IF bigger = {} THEN h ELSE [h EXCEPT !.bin[b] = InsertAt(@, Min(bigger), a)]

(* kheap_add_node: behind the nodes that are not larger.                   *)
AddNode(h, b, a) ==
  LET bigger == {i \in DOMAIN h.bin[b] : h.node[h.bin[b][i]].size > h.node[a].size}
      at     == IF bigger = {} THEN Len(h.bin[b]) + 1 ELSE Min(bigger)
  IN [h EXCEPT !.bin[b] = InsertAt(@, at, a)]

(* kheap_remove_node: a node that is not on this list is left where it is. *)
RemoveNode(h, b, a) == [h EXCEPT !.bin[b] = RemoveFirst(@, a)]

(* kheap_expand: whole pages only, appended to the wilderness chunk, which *)
(* stays on the list it is on.                                             *)
Expand(h, n) ==
  LET pages == n \div Page
      w     == Wilderness(h)
      grown == [DropFooter(h, h.size - FooterSize) EXCEPT !.size = @ + pages * Page]
  IN IF pages = 0 THEN h
     ELSE PutChunk(grown, w, h.node[w].hole, h.node[w].size + pages * Page)

(* kheap_get_best_fit over the lists from b on: the first node of the      *)
(* first list that has one large enough.                                   *)
FitsOnMutant(h, b, n) == DOMAIN h.bin[b]    \* the size is not compared
FitsOn(h, b, n) == {i \in DOMAIN h.bin[b] : h.node[h.bin[b][i]].size >= n}
FitBins(h, b, n) == {c \in Bins : c >= b /\ FitsOn(h, c, n) # {}}

(* The rest of chunk a behind a request of n becomes a hole of its own.    *)
Split(h, a, n) ==
  LET total == h.node[a].size
      rest  == a + Overhead + n
      size  == total - n - Overhead
  IN IF total - n > Overhead + 4
     THEN PutChunk(AddNode(PutChunk(h, rest, Hole, size), BinIndex(size), rest), a, Hole, n)
     ELSE h

(* The wilderness is topped up by one page after each allocation.          *)
TopUpMutant(h) ==
  IF h.node[Wilderness(h)].size < Page THEN Expand(h, Page) ELSE h

TopUp(h) ==
  IF h.node[Wilderness(h)].size < MinWilderness THEN Expand(h, Page) ELSE h

Mark(h, a, isHole) == [h EXCEPT !.node[a].hole = isHole]
Take(h, b, a, n) == RemoveNode(Mark(Split(h, a, n), a, InUse), b, a)

(* The best fit on the lists from "from" on is taken.  "ok" is FALSE where *)
(* the code would go on with a NULL node.                                  *)
AllocFrom(h, from, n) ==
  LET fits == FitBins(h, from, n)
      b    == Min(fits)
      a    == h.bin[b][Min(FitsOn(h, b, n))]
  IN IF fits = {} THEN [ok |-> FALSE, heap |-> h, ptr |-> 0]
     ELSE [ok |-> TRUE, heap |-> TopUp(Take(h, b, a, n)), ptr |-> a + NodeSize]

(* kheap_alloc.                                                            *)
AllocOn(h, n) ==
  IF FitBins(h, BinIndex(n), n) # {} THEN AllocFrom(h, BinIndex(n), n)
                                     ELSE AllocFrom(Expand(h, n), 0, n)

(* The room of the header and footer between the chunks is forgotten.      *)
MergeNextMutant(h, a, next) ==
  LET off  == RemoveNode(h, BinIndex(h.node[next].size), next)
      size == h.node[a].size + h.node[next].size
  IN PutChunk(DropNode(DropFooter(off, FooterOf(a, h.node[a].size)), next), a, Hole, size)

(* A header that is on a list can still be read after it is cleared.       *)
Clear(h, a) == [h EXCEPT !.node[a] = [hole |-> InUse, size |-> 0]]
Forget(h, a) == IF \E b \in Bins : a \in Range(h.bin[b]) THEN h ELSE DropNode(h, a)

(* The chunk behind header a is a hole: it is taken off its list, and its  *)
(* header cleared and its space added to a.                                *)
MergeNext(h, a, next) ==
  LET off  == RemoveNode(h, BinIndex(h.node[next].size), next)
      gone == Forget(Clear(DropFooter(off, FooterOf(a, h.node[a].size)), next), next)
  IN PutChunk(gone, a, h.node[a].hole, h.node[a].size + Overhead + h.node[next].size)

(* The footer is left as it is.                                            *)
MergePreviousMutant(h, a, prev) ==
  LET off  == RemoveNode(h, BinIndex(h.node[prev].size), prev)
      size == h.node[prev].size + Overhead + h.node[a].size
  IN [DropNode(DropFooter(off, a - FooterSize), a) EXCEPT !.node[prev].size = size]

(* The chunk before header a is a hole: it takes in the chunk of a.        *)
MergePrevious(h, a, prev) ==
  LET off  == RemoveNode(h, BinIndex(h.node[prev].size), prev)
      size == h.node[prev].size + Overhead + h.node[a].size
  IN PutChunk(DropNode(DropFooter(off, a - FooterSize), a), prev, Hole, size)

MergeIfHole(h, a, next) == IF IsHole(h, next) THEN MergeNext(h, a, next) ELSE h

Release(h, a) == AddNode(Mark(h, a, Hole), BinIndex(h.node[a].size), a)

(* kheap_free.  The first chunk of the heap is not merged with its         *)
(* neighbour.  The header behind the last chunk is not in the heap.        *)
FreeOn(h, p) ==
  LET a    == p - NodeSize
      next == EndOf(h, a)
      prev == h.foot[a - FooterSize]
  IN IF a # 0 /\ next >= h.size THEN [ok |-> FALSE, heap |-> h]
     ELSE [ok   |-> TRUE,
           heap |-> IF a = 0 THEN Release(h, a)
                    ELSE IF IsHole(h, prev)
                    THEN Release(MergeIfHole(MergePrevious(h, a, prev), prev, next), prev)
                    ELSE Release(MergeIfHole(h, a, next), a)]

-----------------------------------------------------------------------------
(* kheap_init: one chunk, and the allocations of its self-test.            *)
InitialRegion ==
  LET n     == InitialSize - Overhead
      empty == [size |-> InitialSize, node |-> <<>>, foot |-> <<>>, bin |-> [b \in Bins |-> <<>>]]
  IN AddNode(PutChunk(empty, 0, Hole, n), BinIndex(n), 0)

SelfTested ==
  LET test  == AllocOn(InitialRegion, 8)
      test2 == AllocOn(test.heap, 8)
      big   == AllocOn(test2.heap, 4000)
      test4 == AllocOn(big.heap, 8)
      free1 == FreeOn(test4.heap, test.ptr)
      free2 == FreeOn(free1.heap, big.ptr)
      free3 == FreeOn(free2.heap, test2.ptr)
  IN FreeOn(free3.heap, test4.ptr).heap

Init == heap = SelfTested /\ live = {} /\ fault = FALSE /\ calls = 0

Alloc(n) ==
  LET r == AllocOn(heap, n) IN
  /\ Call /\ Cardinality(live) < MaxLive
  /\ heap'  = r.heap
  /\ fault' = ~r.ok
  /\ live'  = IF r.ok THEN live \cup {[ptr |-> r.ptr, size |-> n]} ELSE live

Free(x) ==
  LET r == FreeOn(heap, x.ptr) IN
  /\ Call
  /\ heap'  = r.heap
  /\ fault' = ~r.ok
  /\ live'  = live \ {x}

(* kheap_realloc: an allocation, the copy, and the old chunk is freed.     *)
(* Calls of other threads between the two are those of an Alloc and a Free. *)
Realloc(x, n) ==
  LET new == AllocOn(heap, n)
      old == FreeOn(new.heap, x.ptr)
  IN
  /\ Call
  /\ heap'  = old.heap
  /\ fault' = ~(new.ok /\ old.ok)
  /\ live'  = (live \ {x}) \cup {[ptr |-> new.ptr, size |-> n]}

Next ==
  \/ \E n \in Sizes : Alloc(n)
  \/ \E x \in live : Free(x)
  \/ \E x \in live, n \in Sizes : Realloc(x, n)

Spec == Init /\ [][Next]_vars

-----------------------------------------------------------------------------
Nodes == DOMAIN heap.node
Listed == UNION {Range(heap.bin[b]) : b \in Bins}

TypeOK ==
  /\ heap.size % Page = 0
  /\ \A a \in Nodes : a \in 0..(heap.size - Overhead) /\ heap.node[a].size \in Nat
  /\ \A f \in DOMAIN heap.foot : heap.foot[f] \in Nodes
  /\ \A b \in Bins : Range(heap.bin[b]) \subseteq Nodes
  /\ \A x \in live : x.ptr \in 0..heap.size
  /\ fault \in BOOLEAN

(* Boundary tags: from every header the heap can be walked in both         *)
(* directions, the chunks tile the heap exactly and none overlaps another. *)
Tiled ==
  /\ 0 \in Nodes
  /\ \A a \in Nodes :
       /\ heap.foot[FooterOf(a, heap.node[a].size)] = a
       /\ EndOf(heap, a) \in Nodes \cup {heap.size}
       /\ a # 0 => EndOf(heap, heap.foot[a - FooterSize]) = a
  /\ \A a, b \in Nodes : a < b => EndOf(heap, a) <= b

(* The chunks in use are those the callers hold and not one more, each at  *)
(* least as large as what was asked for: no memory is given out twice, and *)
(* none is lost.                                                           *)
InUseExactly ==
  /\ {a \in Nodes : ~heap.node[a].hole} = {x.ptr - NodeSize : x \in live}
  /\ \A x \in live : heap.node[x.ptr - NodeSize].size >= x.size
  /\ \A x, y \in live : x.ptr = y.ptr => x = y

(* Every node on a list is a hole: kheap_free removes the chunks it merges *)
(* from their lists, kheap_alloc the chunk it hands out.                   *)
ListedAreHoles == \A a \in Listed : heap.node[a].hole

(* Every hole is on exactly one list, once, and on the list of its size:   *)
(* kheap_alloc can find it, and the next kheap_free that merges it can     *)
(* remove it.  Nothing else is on a list.                                  *)
HolesInTheirBins ==
  /\ ListedAreHoles
  /\ \A a \in Nodes : heap.node[a].hole =>
       \A b \in Bins :
         Cardinality({i \in DOMAIN heap.bin[b] : heap.bin[b][i] = a}) =
           IF b = BinIndex(heap.node[a].size) THEN 1 ELSE 0

(* As long as no request takes more than a page, the last chunk is a hole  *)
(* of KHEAP_MIN_WILDERNESS at least between calls: one page after each     *)
(* allocation keeps up with them, and a freed chunk always has a header    *)
(* behind it.  So kheap_alloc finds a chunk for every request and          *)
(* kheap_free stays within the heap.                                       *)
WildernessReserve ==
  /\ ~fault
  /\ heap.node[Wilderness(heap)].hole
  /\ heap.node[Wilderness(heap)].size >= MinWilderness

(* Callers get memory as Allocator promises it: inside the heap and apart  *)
(* from everything else in use.                                            *)
Abstract == INSTANCE Allocator WITH
  Requests <- Sizes, granted <- live, extent <- heap.size

ImplementsAllocator == Abstract!Spec
=============================================================================
