------------------------ MODULE DeviceWindow_proofs -------------------------
(***************************************************************************)
(* Proofs about page frames and the device window, for any number of       *)
(* contexts, any stacks of frames and a window of any size.  A frame       *)
(* leaves its stack under pagingLock (Popping), and from then on is owned  *)
(* by the one context or the one range it went to (Owners).  A page of the *)
(* window that a search has counted stays free until it is mapped, as      *)
(* maps are made under paging_device_alloc_lock and an unmap, which is     *)
(* not, only makes pages free (Pages...).                                  *)
(***************************************************************************)
EXTENDS DeviceWindow, TLAPS

States == {"idle", "pop", "take", "drop", "alloc", "search", "map", "unmap", "panic"}
Sizes == Counts \cup {1}
Ranges == [ptr : Pages, size : Sizes, phys : Nat]

StackTypes ==
  /\ top \in [Kinds -> Nat] /\ available = top
  /\ \A k \in Kinds : top[k] <= Len(stack[k])
  /\ frameLock \in Contexts \cup {None} /\ windowLock \in Contexts \cup {None}

ContextTypes ==
  /\ pc \in [Contexts -> States]
  /\ kind \in [Contexts -> Kinds]
  /\ phys \in [Contexts -> Nat \cup {None}]
  /\ n \in [Contexts -> Sizes] /\ page \in [Contexts -> Pages]
  /\ count \in [Contexts -> Nat]

RangeTypes ==
  /\ live \subseteq Ranges /\ \A r \in live : r.ptr + r.size <= Window
  /\ \A c \in Contexts :
       /\ pc[c] \in {"search", "map", "unmap"} => count[c] <= n[c]
       /\ pc[c] = "map" => page[c] + n[c] <= Window

Types == StackTypes /\ ContextTypes /\ RangeTypes

-----------------------------------------------------------------------------
StackFrames == {f \in Nat : \E k \in Kinds : \E i \in 1..top[k] : stack[k][i] = f}

Popping ==
  \A c \in Contexts :
    /\ pc[c] \in {"take", "drop"} => frameLock = c
    /\ pc[c] = "drop" => top[kind[c]] > 0 /\ phys[c] = stack[kind[c]][top[kind[c]]]
    /\ pc[c] \in {"idle", "pop", "take"} => phys[c] = None
    /\ pc[c] \in {"drop", "alloc", "search", "map", "unmap"} => phys[c] # None

(* The contexts that have taken a frame, or a device's page.               *)
Holders ==
  {c \in Contexts : /\ pc[c] \in {"alloc", "search", "map", "unmap", "panic"}
                    /\ phys[c] # None}

Owners ==
  /\ \A c \in Holders : phys[c] \notin StackFrames /\ \A r \in live : r.phys # phys[c]
  /\ \A c, d \in Holders : phys[c] = phys[d] => c = d
  /\ \A r \in live : r.phys \notin StackFrames
  /\ \A r, q \in live : r.phys = q.phys => r = q

(* Contexts that have found a page and not mapped it, that have mapped it  *)
(* and not returned, and that have not unmapped theirs yet.                *)
Found     == {c \in Contexts : \/ pc[c] = "search" /\ count[c] = 1
                               \/ pc[c] = "map" /\ count[c] = 0}
Mapping   == {c \in Contexts : pc[c] = "map" /\ count[c] = 1}
Unmapping == {c \in Contexts : pc[c] = "unmap" /\ count[c] = 0}

(* What becomes of pages when they are mapped one at a time.               *)
Searching ==
  /\ mapped \in [Pages -> Nat \cup {None}]
  /\ \A c \in Contexts : pc[c] \in {"search", "map"} => windowLock = c
  /\ \A c \in Found : mapped[page[c]] = None

PagesMapped ==
  /\ \A r \in live : mapped[r.ptr] = r.phys
  /\ \A c \in Mapping : mapped[page[c]] = phys[c]
  /\ \A c \in Unmapping : mapped[page[c]] # None

PagesOnce ==
  /\ \A r, q \in live : r.ptr = q.ptr => r = q
  /\ \A c \in Mapping \cup Unmapping : \A r \in live : r.ptr # page[c]
  /\ \A c, d \in Mapping \cup Unmapping : page[c] = page[d] => c = d

PageInv == Searching /\ PagesMapped /\ PagesOnce

(* The inductive invariant for frames.                                     *)
IInv == Types /\ Popping /\ Owners

-----------------------------------------------------------------------------
LEMMA Constants ==
  /\ Window \in Nat \ {0} /\ 0 \in Pages /\ Pages \subseteq Nat
  /\ Sizes \subseteq Nat \ {0} /\ Counts \subseteq Sizes /\ 1 \in Sizes
  /\ Devices \subseteq Nat /\ None \notin Nat /\ None \notin Contexts
  /\ \A k \in Kinds : stack[k] \in Seq(Nat)
  BY WindowAssumption DEF Pages, Sizes, None, Kinds, stack

LEMMA InitIInv == Init => IInv
<1>. SUFFICES ASSUME Init PROVE IInv
  OBVIOUS
<1>. USE Constants DEF Init
<1>1. StackTypes
  <2>1. \A k \in Kinds : Len(stack[k]) \in Nat
    OBVIOUS
  <2>. QED
    BY <2>1 DEF StackTypes
<1>2. ContextTypes
  BY DEF ContextTypes, States, Kinds
<1>3. RangeTypes
  BY DEF RangeTypes
<1>4. Popping
  BY DEF Popping
<1>5. Owners
  BY DEF Owners, Holders
<1>. QED
  BY <1>1, <1>2, <1>3, <1>4, <1>5 DEF IInv, Types

(* What a step does to the types, part by part.                            *)
LEMMA StepStackTypes ==
  ASSUME IInv, [Next]_vars
  PROVE  StackTypes'
<1>. USE Constants DEF IInv, Types, frames, locals, StackTypes, ContextTypes, Popping
<1>1. ASSUME NEW c \in Contexts, CreateThread(c)
     PROVE  StackTypes'
  BY <1>1 DEF CreateThread, Goto
<1>2. ASSUME NEW c \in Contexts, NEW d \in Devices, NEW k \in Counts, MapDevice(c, d, k)
     PROVE  StackTypes'
  BY <1>2 DEF MapDevice, Goto
<1>3. ASSUME NEW c \in Contexts, PopLock(c)
     PROVE  StackTypes'
  BY <1>3 DEF PopLock, Goto
<1>4. ASSUME NEW c \in Contexts, PopTake(c)
     PROVE  StackTypes'
  BY <1>4 DEF PopTake, Goto
<1>5. ASSUME NEW c \in Contexts, PopDrop(c)
     PROVE  StackTypes'
  BY <1>5 DEF PopDrop, Goto
<1>6. ASSUME NEW c \in Contexts, PopPanic(c)
     PROVE  StackTypes'
  BY <1>6 DEF PopPanic, Goto
<1>7. ASSUME NEW c \in Contexts, AllocLock(c)
     PROVE  StackTypes'
  BY <1>7 DEF AllocLock, Goto
<1>8. ASSUME NEW c \in Contexts, SearchFree(c)
     PROVE  StackTypes'
  BY <1>8 DEF SearchFree
<1>9. ASSUME NEW c \in Contexts, SearchUsed(c)
     PROVE  StackTypes'
  BY <1>9 DEF SearchUsed
<1>10. ASSUME NEW c \in Contexts, SearchDone(c)
      PROVE  StackTypes'
  BY <1>10 DEF SearchDone, Goto
<1>11. ASSUME NEW c \in Contexts, SearchPanic(c)
      PROVE  StackTypes'
  BY <1>11 DEF SearchPanic, Goto
<1>12. ASSUME NEW c \in Contexts, MapPage(c)
      PROVE  StackTypes'
  BY <1>12 DEF MapPage
<1>13. ASSUME NEW c \in Contexts, AllocReturn(c)
      PROVE  StackTypes'
  BY <1>13 DEF AllocReturn, Goto
<1>14. ASSUME NEW c \in Contexts, NEW r \in live, FreeBegin(c, r)
      PROVE  StackTypes'
  BY <1>14 DEF FreeBegin, Goto
<1>15. ASSUME NEW c \in Contexts, UnmapPage(c)
      PROVE  StackTypes'
  BY <1>15 DEF UnmapPage
<1>16. ASSUME NEW c \in Contexts, FreeReturn(c)
      PROVE  StackTypes'
  BY <1>16 DEF FreeReturn, Goto
<1>17. CASE UNCHANGED vars
  BY <1>17 DEF vars
<1>. QED
  BY <1>1, <1>2, <1>3, <1>4, <1>5, <1>6, <1>7, <1>8, <1>9, <1>10, <1>11, <1>12, <1>13, <1>14, <1>15, <1>16, <1>17
     DEF Next, Pop, Alloc, Unmap

LEMMA StepContextTypes ==
  ASSUME IInv, [Next]_vars
  PROVE  ContextTypes'
<1>. USE Constants DEF IInv, Types, frames, locals, StackTypes, ContextTypes, RangeTypes, States, Ranges
<1>1. ASSUME NEW c \in Contexts, CreateThread(c)
     PROVE  ContextTypes'
  BY <1>1 DEF CreateThread, Goto
<1>2. ASSUME NEW c \in Contexts, NEW d \in Devices, NEW k \in Counts, MapDevice(c, d, k)
     PROVE  ContextTypes'
  BY <1>2 DEF MapDevice, Goto
<1>3. ASSUME NEW c \in Contexts, PopLock(c)
     PROVE  ContextTypes'
  BY <1>3 DEF PopLock, Goto
<1>4. ASSUME NEW c \in Contexts, PopTake(c)
     PROVE  ContextTypes'
  <2>. DEFINE s == IF available["long"] # 0 THEN "long" ELSE "short"
  <2>1. s \in Kinds
    BY DEF Kinds
  <2>2. top[s] \in 1..Len(stack[s])
    BY <1>4, <2>1 DEF PopTake
  <2>3. stack[s][top[s]] \in Nat
    BY <2>1, <2>2
  <2>4. /\ kind' = [kind EXCEPT ![c] = s] /\ phys' = [phys EXCEPT ![c] = stack[s][top[s]]]
        /\ pc' = [pc EXCEPT ![c] = "drop"] /\ UNCHANGED <<n, page, count>>
    BY <1>4 DEF PopTake, Goto
  <2>. QED
    BY <2>1, <2>3, <2>4
<1>5. ASSUME NEW c \in Contexts, PopDrop(c)
     PROVE  ContextTypes'
  BY <1>5 DEF PopDrop, Goto
<1>6. ASSUME NEW c \in Contexts, PopPanic(c)
     PROVE  ContextTypes'
  BY <1>6 DEF PopPanic, Goto
<1>7. ASSUME NEW c \in Contexts, AllocLock(c)
     PROVE  ContextTypes'
  BY <1>7 DEF AllocLock, Goto
<1>8. ASSUME NEW c \in Contexts, SearchFree(c)
     PROVE  ContextTypes'
  BY <1>8 DEF SearchFree
<1>9. ASSUME NEW c \in Contexts, SearchUsed(c)
     PROVE  ContextTypes'
  <2>1. page[c] + 1 \in Pages
    BY <1>9 DEF SearchUsed, Pages
  <2>. QED
    BY <1>9, <2>1 DEF SearchUsed
<1>10. ASSUME NEW c \in Contexts, SearchDone(c)
      PROVE  ContextTypes'
  BY <1>10 DEF SearchDone, Goto
<1>11. ASSUME NEW c \in Contexts, SearchPanic(c)
      PROVE  ContextTypes'
  BY <1>11 DEF SearchPanic, Goto
<1>12. ASSUME NEW c \in Contexts, MapPage(c)
      PROVE  ContextTypes'
  BY <1>12 DEF MapPage
<1>13. ASSUME NEW c \in Contexts, AllocReturn(c)
      PROVE  ContextTypes'
  BY <1>13 DEF AllocReturn, Goto
<1>14. ASSUME NEW c \in Contexts, NEW r \in live, FreeBegin(c, r)
      PROVE  ContextTypes'
  BY <1>14 DEF FreeBegin, Goto
<1>15. ASSUME NEW c \in Contexts, UnmapPage(c)
      PROVE  ContextTypes'
  BY <1>15 DEF UnmapPage
<1>16. ASSUME NEW c \in Contexts, FreeReturn(c)
      PROVE  ContextTypes'
  BY <1>16 DEF FreeReturn, Goto
<1>17. CASE UNCHANGED vars
  BY <1>17 DEF vars
<1>. QED
  BY <1>1, <1>2, <1>3, <1>4, <1>5, <1>6, <1>7, <1>8, <1>9, <1>10, <1>11, <1>12, <1>13, <1>14, <1>15, <1>16, <1>17
     DEF Next, Pop, Alloc, Unmap

LEMMA StepRangeTypes ==
  ASSUME IInv, [Next]_vars
  PROVE  RangeTypes'
<1>. USE Constants DEF IInv, Types, frames, locals, ContextTypes, RangeTypes, Ranges, Popping
<1>1. ASSUME NEW c \in Contexts, CreateThread(c)
     PROVE  RangeTypes'
  BY <1>1 DEF CreateThread, Goto
<1>2. ASSUME NEW c \in Contexts, NEW d \in Devices, NEW k \in Counts, MapDevice(c, d, k)
     PROVE  RangeTypes'
  BY <1>2 DEF MapDevice, Goto
<1>3. ASSUME NEW c \in Contexts, PopLock(c)
     PROVE  RangeTypes'
  BY <1>3 DEF PopLock, Goto
<1>4. ASSUME NEW c \in Contexts, PopTake(c)
     PROVE  RangeTypes'
  BY <1>4 DEF PopTake, Goto
<1>5. ASSUME NEW c \in Contexts, PopDrop(c)
     PROVE  RangeTypes'
  BY <1>5 DEF PopDrop, Goto
<1>6. ASSUME NEW c \in Contexts, PopPanic(c)
     PROVE  RangeTypes'
  BY <1>6 DEF PopPanic, Goto
<1>7. ASSUME NEW c \in Contexts, AllocLock(c)
     PROVE  RangeTypes'
  <2>1. live' \subseteq Ranges /\ \A q \in live' : q.ptr + q.size <= Window
    BY <1>7 DEF AllocLock, Goto
  <2>2. ASSUME NEW e \in Contexts
        PROVE  /\ pc'[e] \in {"search", "map", "unmap"} => count'[e] <= n'[e]
               /\ pc'[e] = "map" => page'[e] + n'[e] <= Window
    <3>1. CASE e = c
      <4>1. n[c] \in Nat /\ count[c] \in Nat /\ page[c] \in Nat /\ Window \in Nat
        OBVIOUS
      <4>2. pc'[c] = "search" /\ count'[c] = 0 /\ n'[c] = n[c]
        BY <1>7 DEF AllocLock, Goto
      <4>3. pc[c] = "map" => page[c] + n[c] <= Window
        OBVIOUS
      <4>. QED
        BY ONLY <3>1, <4>1, <4>2, <4>3, Constants DEF Ranges
    <3>2. CASE e # c
      BY <1>7, <3>2 DEF AllocLock, Goto
    <3>. QED
      BY <3>1, <3>2
  <2>. QED
    BY <2>1, <2>2
<1>8. ASSUME NEW c \in Contexts, SearchFree(c)
     PROVE  RangeTypes'
  <2>1. live' \subseteq Ranges /\ \A q \in live' : q.ptr + q.size <= Window
    BY <1>8 DEF SearchFree
  <2>2. ASSUME NEW e \in Contexts
        PROVE  /\ pc'[e] \in {"search", "map", "unmap"} => count'[e] <= n'[e]
               /\ pc'[e] = "map" => page'[e] + n'[e] <= Window
    <3>1. CASE e = c
      <4>1. n[c] \in Nat /\ count[c] \in Nat /\ page[c] \in Nat /\ Window \in Nat
        OBVIOUS
      <4>2. pc'[c] = "search" /\ count[c] < n[c] /\ count'[c] = count[c] + 1 /\ n'[c] = n[c]
        BY <1>8 DEF SearchFree
      <4>3. pc[c] = "map" => page[c] + n[c] <= Window
        OBVIOUS
      <4>. QED
        BY ONLY <3>1, <4>1, <4>2, <4>3, Constants DEF Ranges
    <3>2. CASE e # c
      BY <1>8, <3>2 DEF SearchFree
    <3>. QED
      BY <3>1, <3>2
  <2>. QED
    BY <2>1, <2>2
<1>9. ASSUME NEW c \in Contexts, SearchUsed(c)
     PROVE  RangeTypes'
  <2>1. live' \subseteq Ranges /\ \A q \in live' : q.ptr + q.size <= Window
    BY <1>9 DEF SearchUsed
  <2>2. ASSUME NEW e \in Contexts
        PROVE  /\ pc'[e] \in {"search", "map", "unmap"} => count'[e] <= n'[e]
               /\ pc'[e] = "map" => page'[e] + n'[e] <= Window
    <3>1. CASE e = c
      <4>1. n[c] \in Nat /\ count[c] \in Nat /\ page[c] \in Nat /\ Window \in Nat
        OBVIOUS
      <4>2. pc'[c] = "search" /\ count'[c] = 0 /\ n'[c] = n[c]
        BY <1>9 DEF SearchUsed
      <4>3. pc[c] = "map" => page[c] + n[c] <= Window
        OBVIOUS
      <4>. QED
        BY ONLY <3>1, <4>1, <4>2, <4>3, Constants DEF Ranges
    <3>2. CASE e # c
      BY <1>9, <3>2 DEF SearchUsed
    <3>. QED
      BY <3>1, <3>2
  <2>. QED
    BY <2>1, <2>2
<1>10. ASSUME NEW c \in Contexts, SearchDone(c)
      PROVE  RangeTypes'
  <2>1. live' \subseteq Ranges /\ \A q \in live' : q.ptr + q.size <= Window
    BY <1>10 DEF SearchDone, Goto
  <2>2. ASSUME NEW e \in Contexts
        PROVE  /\ pc'[e] \in {"search", "map", "unmap"} => count'[e] <= n'[e]
               /\ pc'[e] = "map" => page'[e] + n'[e] <= Window
    <3>1. CASE e = c
      <4>1. n[c] \in Nat /\ count[c] \in Nat /\ page[c] \in Nat /\ Window \in Nat
        OBVIOUS
      <4>2. /\ pc'[c] = "map" /\ count'[c] = 0 /\ n'[c] = n[c] /\ page'[c] = page[c]
            /\ page[c] + n[c] - 1 < Window
        BY <1>10 DEF SearchDone, Goto
      <4>3. pc[c] = "map" => page[c] + n[c] <= Window
        OBVIOUS
      <4>. QED
        BY ONLY <3>1, <4>1, <4>2, <4>3, Constants DEF Ranges
    <3>2. CASE e # c
      BY <1>10, <3>2 DEF SearchDone, Goto
    <3>. QED
      BY <3>1, <3>2
  <2>. QED
    BY <2>1, <2>2
<1>11. ASSUME NEW c \in Contexts, SearchPanic(c)
      PROVE  RangeTypes'
  BY <1>11 DEF SearchPanic, Goto
<1>12. ASSUME NEW c \in Contexts, MapPage(c)
      PROVE  RangeTypes'
  <2>1. live' \subseteq Ranges /\ \A q \in live' : q.ptr + q.size <= Window
    BY <1>12 DEF MapPage
  <2>2. ASSUME NEW e \in Contexts
        PROVE  /\ pc'[e] \in {"search", "map", "unmap"} => count'[e] <= n'[e]
               /\ pc'[e] = "map" => page'[e] + n'[e] <= Window
    <3>1. CASE e = c
      <4>1. n[c] \in Nat /\ count[c] \in Nat /\ page[c] \in Nat /\ Window \in Nat
        OBVIOUS
      <4>2. /\ pc[c] = "map" /\ count[c] < n[c] /\ count'[c] = count[c] + 1
            /\ n'[c] = n[c] /\ page'[c] = page[c]
        BY <1>12 DEF MapPage
      <4>3. pc[c] = "map" => page[c] + n[c] <= Window
        OBVIOUS
      <4>. QED
        BY ONLY <3>1, <4>1, <4>2, <4>3, Constants DEF Ranges
    <3>2. CASE e # c
      BY <1>12, <3>2 DEF MapPage
    <3>. QED
      BY <3>1, <3>2
  <2>. QED
    BY <2>1, <2>2
<1>13. ASSUME NEW c \in Contexts, AllocReturn(c)
      PROVE  RangeTypes'
  BY <1>13 DEF AllocReturn, Goto
<1>14. ASSUME NEW c \in Contexts, NEW r \in live, FreeBegin(c, r)
      PROVE  RangeTypes'
  <2>1. live' \subseteq Ranges /\ \A q \in live' : q.ptr + q.size <= Window
    BY <1>14 DEF FreeBegin, Goto
  <2>2. ASSUME NEW e \in Contexts
        PROVE  /\ pc'[e] \in {"search", "map", "unmap"} => count'[e] <= n'[e]
               /\ pc'[e] = "map" => page'[e] + n'[e] <= Window
    <3>1. CASE e = c
      <4>1. n[c] \in Nat /\ count[c] \in Nat /\ page[c] \in Nat /\ Window \in Nat
        OBVIOUS
      <4>2. pc'[c] = "unmap" /\ count'[c] = 0 /\ n'[c] \in Nat
        BY <1>14 DEF FreeBegin, Goto
      <4>3. pc[c] = "map" => page[c] + n[c] <= Window
        OBVIOUS
      <4>. QED
        BY ONLY <3>1, <4>1, <4>2, <4>3, Constants DEF Ranges
    <3>2. CASE e # c
      BY <1>14, <3>2 DEF FreeBegin, Goto
    <3>. QED
      BY <3>1, <3>2
  <2>. QED
    BY <2>1, <2>2
<1>15. ASSUME NEW c \in Contexts, UnmapPage(c)
      PROVE  RangeTypes'
  <2>1. live' \subseteq Ranges /\ \A q \in live' : q.ptr + q.size <= Window
    BY <1>15 DEF UnmapPage
  <2>2. ASSUME NEW e \in Contexts
        PROVE  /\ pc'[e] \in {"search", "map", "unmap"} => count'[e] <= n'[e]
               /\ pc'[e] = "map" => page'[e] + n'[e] <= Window
    <3>1. CASE e = c
      <4>1. n[c] \in Nat /\ count[c] \in Nat /\ page[c] \in Nat /\ Window \in Nat
        OBVIOUS
      <4>2. pc'[c] = "unmap" /\ count[c] < n[c] /\ count'[c] = count[c] + 1 /\ n'[c] = n[c]
        BY <1>15 DEF UnmapPage
      <4>3. pc[c] = "map" => page[c] + n[c] <= Window
        OBVIOUS
      <4>. QED
        BY ONLY <3>1, <4>1, <4>2, <4>3, Constants DEF Ranges
    <3>2. CASE e # c
      BY <1>15, <3>2 DEF UnmapPage
    <3>. QED
      BY <3>1, <3>2
  <2>. QED
    BY <2>1, <2>2
<1>16. ASSUME NEW c \in Contexts, FreeReturn(c)
      PROVE  RangeTypes'
  BY <1>16 DEF FreeReturn, Goto
<1>17. CASE UNCHANGED vars
  BY <1>17 DEF vars
<1>. QED
  BY <1>1, <1>2, <1>3, <1>4, <1>5, <1>6, <1>7, <1>8, <1>9, <1>10, <1>11, <1>12, <1>13, <1>14, <1>15, <1>16, <1>17
     DEF Next, Pop, Alloc, Unmap

(* A frame is popped by one context at a time.                             *)
LEMMA StepPopping ==
  ASSUME IInv, [Next]_vars
  PROVE  Popping'
<1>. USE Constants DEF IInv, Types, frames, locals, StackTypes, ContextTypes, RangeTypes, Ranges, Popping
<1>1. ASSUME NEW c \in Contexts, CreateThread(c)
     PROVE  Popping'
  BY <1>1 DEF CreateThread, Goto
<1>2. ASSUME NEW c \in Contexts, NEW d \in Devices, NEW k \in Counts, MapDevice(c, d, k)
     PROVE  Popping'
  BY <1>2 DEF MapDevice, Goto
<1>3. ASSUME NEW c \in Contexts, PopLock(c)
     PROVE  Popping'
  BY <1>3 DEF PopLock, Goto
<1>4. ASSUME NEW c \in Contexts, PopTake(c)
     PROVE  Popping'
  <2>. DEFINE s == IF available["long"] # 0 THEN "long" ELSE "short"
  <2>1. s \in Kinds
    BY DEF Kinds
  <2>2. top[s] \in 1..Len(stack[s])
    BY <1>4, <2>1 DEF PopTake
  <2>3. stack[s][top[s]] \in Nat
    BY <2>1, <2>2, SMTT(30)
  <2>4. /\ pc[c] = "take" /\ pc' = [pc EXCEPT ![c] = "drop"]
        /\ kind' = [kind EXCEPT ![c] = s] /\ phys' = [phys EXCEPT ![c] = stack[s][top[s]]]
        /\ UNCHANGED <<top, frameLock, live>>
    BY <1>4 DEF PopTake, Goto
  <2>. HIDE DEF s
  <2>5. ASSUME NEW e \in Contexts, e # c PROVE pc[e] \notin {"take", "drop"}
    BY <2>4, <2>5
  <2>6. top[s] > 0 /\ top[s] \in Nat
    BY <2>2
  <2>. QED
    BY <2>1, <2>3, <2>4, <2>5, <2>6
<1>5. ASSUME NEW c \in Contexts, PopDrop(c)
     PROVE  Popping'
  BY <1>5 DEF PopDrop, Goto
<1>6. ASSUME NEW c \in Contexts, PopPanic(c)
     PROVE  Popping'
  BY <1>6 DEF PopPanic, Goto
<1>7. ASSUME NEW c \in Contexts, AllocLock(c)
     PROVE  Popping'
  BY <1>7 DEF AllocLock, Goto
<1>8. ASSUME NEW c \in Contexts, SearchFree(c)
     PROVE  Popping'
  BY <1>8 DEF SearchFree
<1>9. ASSUME NEW c \in Contexts, SearchUsed(c)
     PROVE  Popping'
  BY <1>9 DEF SearchUsed
<1>10. ASSUME NEW c \in Contexts, SearchDone(c)
      PROVE  Popping'
  BY <1>10 DEF SearchDone, Goto
<1>11. ASSUME NEW c \in Contexts, SearchPanic(c)
      PROVE  Popping'
  BY <1>11 DEF SearchPanic, Goto
<1>12. ASSUME NEW c \in Contexts, MapPage(c)
      PROVE  Popping'
  BY <1>12 DEF MapPage
<1>13. ASSUME NEW c \in Contexts, AllocReturn(c)
      PROVE  Popping'
  BY <1>13 DEF AllocReturn, Goto
<1>14. ASSUME NEW c \in Contexts, NEW r \in live, FreeBegin(c, r)
      PROVE  Popping'
  BY <1>14 DEF FreeBegin, Goto
<1>15. ASSUME NEW c \in Contexts, UnmapPage(c)
      PROVE  Popping'
  BY <1>15 DEF UnmapPage
<1>16. ASSUME NEW c \in Contexts, FreeReturn(c)
      PROVE  Popping'
  BY <1>16 DEF FreeReturn, Goto
<1>17. CASE UNCHANGED vars
  BY <1>17 DEF vars
<1>. QED
  BY <1>1, <1>2, <1>3, <1>4, <1>5, <1>6, <1>7, <1>8, <1>9, <1>10, <1>11, <1>12, <1>13, <1>14, <1>15, <1>16, <1>17
     DEF Next, Pop, Alloc, Unmap

(* And it has one owner.                                                   *)
LEMMA StepOwners ==
  ASSUME IInv, [Next]_vars
  PROVE  Owners'
<1>. USE Constants DEF IInv, Types, frames, locals, StackTypes, ContextTypes, RangeTypes, Ranges, Popping, Owners
<1>1. ASSUME NEW c \in Contexts, CreateThread(c)
     PROVE  Owners'
  <2>1. Holders' \subseteq Holders /\ \A e \in Holders' : phys'[e] = phys[e]
    BY <1>1 DEF CreateThread, Goto, Holders
  <2>2. StackFrames' = StackFrames /\ live' = live
    BY <1>1 DEF CreateThread, Goto, StackFrames
  <2>. QED
    BY <2>1, <2>2
<1>2. ASSUME NEW c \in Contexts, NEW d \in Devices, NEW k \in Counts, MapDevice(c, d, k)
     PROVE  Owners'
  <2>1. /\ Holders' \subseteq Holders \cup {c} /\ phys'[c] = d
        /\ \A e \in Holders' \ {c} : phys'[e] = phys[e]
    BY <1>2 DEF MapDevice, Goto, Holders
  <2>2. StackFrames' = StackFrames /\ live' = live
    BY <1>2 DEF MapDevice, StackFrames
  <2>3. d \notin StackFrames
    <3>1. \A l \in Kinds : \A i \in 1..top[l] : i \in 1..Len(stack[l])
      OBVIOUS
    <3>2. \A l \in Kinds : \A i \in 1..top[l] : stack[l][i] # d
      BY <3>1, FramesAssumption
    <3>. QED
      BY <3>2 DEF StackFrames
  <2>4. (\A r \in live : r.phys # d) /\ \A e \in Contexts : phys[e] # d
    BY <1>2 DEF MapDevice
  <2>5. Holders \subseteq Contexts
    BY DEF Holders
  <2>6. \A e \in Holders' : /\ phys'[e] \notin StackFrames'
                          /\ \A q \in live' : q.phys # phys'[e]
    BY <2>1, <2>2, <2>3, <2>4
  <2>7. ASSUME NEW e \in Holders', NEW g \in Holders', phys'[e] = phys'[g] PROVE e = g
    <3>1. CASE e = c \/ g = c
      BY <2>1, <2>4, <2>5, <2>7, <3>1
    <3>2. CASE e # c /\ g # c
      BY <2>1, <2>7, <3>2
    <3>. QED
      BY <3>1, <3>2
  <2>. QED
    BY <2>2, <2>6, <2>7
<1>3. ASSUME NEW c \in Contexts, PopLock(c)
     PROVE  Owners'
  <2>1. Holders' \subseteq Holders /\ \A e \in Holders' : phys'[e] = phys[e]
    BY <1>3 DEF PopLock, Goto, Holders
  <2>2. StackFrames' = StackFrames /\ live' = live
    BY <1>3 DEF PopLock, Goto, StackFrames
  <2>. QED
    BY <2>1, <2>2
<1>4. ASSUME NEW c \in Contexts, PopTake(c)
     PROVE  Owners'
  <2>1. Holders' \subseteq Holders /\ \A e \in Holders' : phys'[e] = phys[e]
    BY <1>4 DEF PopTake, Goto, Holders
  <2>2. StackFrames' = StackFrames /\ live' = live
    BY <1>4 DEF PopTake, Goto, StackFrames
  <2>. QED
    BY <2>1, <2>2
<1>5. ASSUME NEW c \in Contexts, PopDrop(c)
     PROVE  Owners'
  <2>. DEFINE k == kind[c]
             f == stack[k][top[k]]
  <2>1. /\ k \in Kinds /\ top[k] \in 1..Len(stack[k]) /\ phys[c] = f /\ f \in Nat
        /\ c \notin Holders
    <3>1. pc[c] = "drop" /\ k \in Kinds
      BY <1>5 DEF PopDrop, Goto
    <3>2. top[k] \in 1..Len(stack[k]) /\ phys[c] = f
      BY <3>1
    <3>3. f \in Nat
      BY <3>1, <3>2
    <3>. QED
      BY <3>1, <3>2, <3>3 DEF Holders
  <2>2. top' = [top EXCEPT ![k] = @ - 1] /\ live' = live /\ phys' = phys
    BY <1>5 DEF PopDrop
  <2>3. f \in StackFrames
    BY <2>1 DEF StackFrames
  <2>4. \A l \in Kinds : 1..top'[l] \subseteq 1..top[l]
    BY <2>1, <2>2
  <2>5. StackFrames' \subseteq StackFrames
    BY <2>4 DEF StackFrames
  <2>6. ASSUME NEW l \in Kinds, NEW i \in 1..top'[l] PROVE stack[l][i] # f
    <3>1. i \in 1..Len(stack[l]) /\ top[k] \in 1..Len(stack[k])
      <4>1. i \in 1..top[l] /\ top[l] \in Nat /\ top[l] <= Len(stack[l])
        BY <2>4, <2>6
      <4>. QED
        BY <2>1, <4>1
    <3>2. l = k => i # top[k]
      BY <2>1, <2>2, <2>6
    <3>. QED
      BY <2>1, <3>1, <3>2, FramesAssumption
  <2>7. f \notin StackFrames'
    BY <2>6 DEF StackFrames
  <2>8. Holders' \subseteq Holders \cup {c}
    BY <1>5 DEF PopDrop, Goto, Holders
  <2>. HIDE DEF f
  <2>. QED
    BY <2>1, <2>2, <2>3, <2>5, <2>7, <2>8, ZenonT(40)
<1>6. ASSUME NEW c \in Contexts, PopPanic(c)
     PROVE  Owners'
  <2>1. Holders' \subseteq Holders /\ \A e \in Holders' : phys'[e] = phys[e]
    BY <1>6 DEF PopPanic, Goto, Holders
  <2>2. StackFrames' = StackFrames /\ live' = live
    BY <1>6 DEF PopPanic, Goto, StackFrames
  <2>. QED
    BY <2>1, <2>2
<1>7. ASSUME NEW c \in Contexts, AllocLock(c)
     PROVE  Owners'
  <2>1. Holders' \subseteq Holders /\ \A e \in Holders' : phys'[e] = phys[e]
    BY <1>7 DEF AllocLock, Goto, Holders
  <2>2. StackFrames' = StackFrames /\ live' = live
    BY <1>7 DEF AllocLock, Goto, StackFrames
  <2>. QED
    BY <2>1, <2>2
<1>8. ASSUME NEW c \in Contexts, SearchFree(c)
     PROVE  Owners'
  <2>1. Holders' \subseteq Holders /\ \A e \in Holders' : phys'[e] = phys[e]
    BY <1>8 DEF SearchFree, Holders
  <2>2. StackFrames' = StackFrames /\ live' = live
    BY <1>8 DEF SearchFree, StackFrames
  <2>. QED
    BY <2>1, <2>2
<1>9. ASSUME NEW c \in Contexts, SearchUsed(c)
     PROVE  Owners'
  <2>1. Holders' \subseteq Holders /\ \A e \in Holders' : phys'[e] = phys[e]
    BY <1>9 DEF SearchUsed, Holders
  <2>2. StackFrames' = StackFrames /\ live' = live
    BY <1>9 DEF SearchUsed, StackFrames
  <2>. QED
    BY <2>1, <2>2
<1>10. ASSUME NEW c \in Contexts, SearchDone(c)
      PROVE  Owners'
  <2>1. Holders' \subseteq Holders /\ \A e \in Holders' : phys'[e] = phys[e]
    BY <1>10 DEF SearchDone, Goto, Holders
  <2>2. StackFrames' = StackFrames /\ live' = live
    BY <1>10 DEF SearchDone, Goto, StackFrames
  <2>. QED
    BY <2>1, <2>2
<1>11. ASSUME NEW c \in Contexts, SearchPanic(c)
      PROVE  Owners'
  <2>1. Holders' \subseteq Holders /\ \A e \in Holders' : phys'[e] = phys[e]
    BY <1>11 DEF SearchPanic, Goto, Holders
  <2>2. StackFrames' = StackFrames /\ live' = live
    BY <1>11 DEF SearchPanic, Goto, StackFrames
  <2>. QED
    BY <2>1, <2>2
<1>12. ASSUME NEW c \in Contexts, MapPage(c)
      PROVE  Owners'
  <2>1. Holders' \subseteq Holders /\ \A e \in Holders' : phys'[e] = phys[e]
    BY <1>12 DEF MapPage, Holders
  <2>2. StackFrames' = StackFrames /\ live' = live
    BY <1>12 DEF MapPage, StackFrames
  <2>. QED
    BY <2>1, <2>2
<1>13. ASSUME NEW c \in Contexts, AllocReturn(c)
      PROVE  Owners'
  <2>. DEFINE new == [ptr |-> page[c], size |-> n[c], phys |-> phys[c]]
  <2>1. /\ Holders' \subseteq Holders \ {c} /\ c \in Holders /\ new.phys = phys[c]
        /\ \A e \in Holders' : phys'[e] = phys[e]
    BY <1>13 DEF AllocReturn, Goto, Holders
  <2>2. StackFrames' = StackFrames /\ live' = live \cup {new}
    BY <1>13 DEF AllocReturn, StackFrames
  <2>. HIDE DEF new
  <2>3. \A e \in Holders' : /\ phys'[e] \notin StackFrames'
                          /\ \A q \in live' : q.phys # phys'[e]
    BY <2>1, <2>2
  <2>4. \A q, r \in live' : q.phys = r.phys => q = r
    BY <2>1, <2>2
  <2>. QED
    BY <2>1, <2>2, <2>3, <2>4
<1>14. ASSUME NEW c \in Contexts, NEW r \in live, FreeBegin(c, r)
      PROVE  Owners'
  <2>1. /\ Holders' \subseteq Holders \cup {c} /\ phys'[c] = r.phys /\ c \notin Holders
        /\ \A e \in Holders' \ {c} : phys'[e] = phys[e]
    BY <1>14 DEF FreeBegin, Goto, Holders
  <2>2. StackFrames' = StackFrames /\ live' = live \ {r}
    BY <1>14 DEF FreeBegin, StackFrames
  <2>3. \A q \in live' : q.phys # r.phys
    BY <2>2
  <2>4. \A e \in Holders' : /\ phys'[e] \notin StackFrames'
                          /\ \A q \in live' : q.phys # phys'[e]
    BY <2>1, <2>2, <2>3
  <2>5. ASSUME NEW e \in Holders', NEW g \in Holders', phys'[e] = phys'[g] PROVE e = g
    <3>1. CASE e = c \/ g = c
      BY <2>1, <2>5, <3>1
    <3>2. CASE e # c /\ g # c
      BY <2>1, <2>5, <3>2
    <3>. QED
      BY <3>1, <3>2
  <2>. QED
    BY <2>2, <2>4, <2>5
<1>15. ASSUME NEW c \in Contexts, UnmapPage(c)
      PROVE  Owners'
  <2>1. Holders' \subseteq Holders /\ \A e \in Holders' : phys'[e] = phys[e]
    BY <1>15 DEF UnmapPage, Holders
  <2>2. StackFrames' = StackFrames /\ live' = live
    BY <1>15 DEF UnmapPage, StackFrames
  <2>. QED
    BY <2>1, <2>2
<1>16. ASSUME NEW c \in Contexts, FreeReturn(c)
      PROVE  Owners'
  <2>1. Holders' \subseteq Holders /\ \A e \in Holders' : phys'[e] = phys[e]
    BY <1>16 DEF FreeReturn, Goto, Holders
  <2>2. StackFrames' = StackFrames /\ live' = live
    BY <1>16 DEF FreeReturn, Goto, StackFrames
  <2>. QED
    BY <2>1, <2>2
<1>17. CASE UNCHANGED vars
  BY <1>17 DEF vars, Holders, StackFrames
<1>. QED
  BY <1>1, <1>2, <1>3, <1>4, <1>5, <1>6, <1>7, <1>8, <1>9, <1>10, <1>11, <1>12, <1>13, <1>14, <1>15, <1>16, <1>17
     DEF Next, Pop, Alloc, Unmap

(* The invariant of frames and window holds in every state.                *)
THEOREM Inductive == Spec => []IInv
<1>1. IInv /\ [Next]_vars => IInv'
  BY StepStackTypes, StepContextTypes, StepRangeTypes, StepPopping, StepOwners DEF IInv, Types
<1>. QED
  BY InitIInv, <1>1, PTL DEF Spec

(* The variables of the memory managers keep their types.                  *)
THEOREM TypeCorrect == Spec => []TypeOK
<1>1. IInv => TypeOK
  BY Constants DEF IInv, Types, StackTypes, ContextTypes, RangeTypes, TypeOK
<1>. QED
  BY Inductive, <1>1, PTL

(* pmm_pop_frame never hands out a frame that is in use.                   *)
THEOREM FramesOnce == Spec => []NoFrameTwice
<1>1. ASSUME IInv PROVE NoFrameTwice
  <2>. DEFINE onStack == UNION {{stack[k][i] : i \in 1..top[k]} : k \in Kinds}
              popped(c) == IF pc[c] \in {"alloc", "search", "map", "panic"} THEN {phys[c]} \ {None} ELSE {}
              under == {r.phys : r \in live}
  <2>1. onStack \subseteq StackFrames
    <3>1. ASSUME NEW k \in Kinds, NEW i \in 1..top[k] PROVE stack[k][i] \in StackFrames
      <4>1. i \in 1..Len(stack[k])
        BY <1>1 DEF IInv, Types, StackTypes
      <4>. QED
        BY <3>1, <4>1, Constants DEF StackFrames
    <3>. QED
      BY <3>1
  <2>2. ASSUME NEW c \in Contexts, NEW f \in popped(c) PROVE c \in Holders /\ f = phys[c]
    BY <2>2 DEF Holders
  <2>3. ASSUME NEW c \in Contexts, NEW f \in popped(c) PROVE f \notin onStack /\ f \notin under
    <3>1. c \in Holders /\ f = phys[c]
      BY <2>2
    <3>. HIDE DEF onStack, popped
    <3>. QED
      BY <1>1, <2>1, <3>1 DEF IInv, Owners
  <2>4. \A c, d \in Contexts : c # d => popped(c) \cap popped(d) = {}
    BY <1>1, <2>2 DEF IInv, Owners
  <2>5. under \cap onStack = {} /\ \A r, q \in live : r.phys = q.phys => r = q
    BY <1>1, <2>1 DEF IInv, Owners
  <2>. QED
    BY <2>3, <2>4, <2>5 DEF NoFrameTwice
<1>. QED
  BY Inductive, <1>1, PTL

-----------------------------------------------------------------------------
(* Pages, when they are mapped one at a time.                              *)
LEMMA StepSearching ==
  ASSUME IInv, PageInv, Counts = {1}, [Next]_vars
  PROVE  Searching'
<1>. USE Constants DEF IInv, Types, frames, locals, ContextTypes, RangeTypes, Ranges, Sizes, PageInv, Searching, Popping
<1>1. ASSUME NEW c \in Contexts, CreateThread(c)
     PROVE  Searching'
  BY <1>1 DEF CreateThread, Goto, Found
<1>2. ASSUME NEW c \in Contexts, NEW d \in Devices, NEW k \in Counts, MapDevice(c, d, k)
     PROVE  Searching'
  BY <1>2 DEF MapDevice, Goto, Found
<1>3. ASSUME NEW c \in Contexts, PopLock(c)
     PROVE  Searching'
  BY <1>3 DEF PopLock, Goto, Found
<1>4. ASSUME NEW c \in Contexts, PopTake(c)
     PROVE  Searching'
  BY <1>4 DEF PopTake, Goto, Found
<1>5. ASSUME NEW c \in Contexts, PopDrop(c)
     PROVE  Searching'
  BY <1>5 DEF PopDrop, Goto, Found
<1>6. ASSUME NEW c \in Contexts, PopPanic(c)
     PROVE  Searching'
  BY <1>6 DEF PopPanic, Goto, Found
<1>7. ASSUME NEW c \in Contexts, AllocLock(c)
     PROVE  Searching'
  BY <1>7 DEF AllocLock, Goto, Found
<1>8. ASSUME NEW c \in Contexts, SearchFree(c)
     PROVE  Searching'
  BY <1>8 DEF SearchFree, Found
<1>9. ASSUME NEW c \in Contexts, SearchUsed(c)
     PROVE  Searching'
  BY <1>9 DEF SearchUsed, Found
<1>10. ASSUME NEW c \in Contexts, SearchDone(c)
      PROVE  Searching'
  BY <1>10 DEF SearchDone, Goto, Found
<1>11. ASSUME NEW c \in Contexts, SearchPanic(c)
      PROVE  Searching'
  BY <1>11 DEF SearchPanic, Goto, Found
<1>12. ASSUME NEW c \in Contexts, MapPage(c)
      PROVE  Searching'
  <2>1. /\ count[c] = 0 /\ pc[c] = "map" /\ page[c] \in Pages /\ phys[c] \in Nat
        /\ c \in Found
    <3>1. count[c] < n[c] /\ n[c] = 1 /\ count[c] \in Nat /\ pc[c] = "map"
      BY <1>12 DEF MapPage
    <3>. QED
      BY <3>1 DEF Found
  <2>2. /\ mapped' = [mapped EXCEPT ![page[c]] = phys[c]]
        /\ count' = [count EXCEPT ![c] = 1]
        /\ UNCHANGED <<pc, page, phys, live, windowLock>>
    <3>0. page[c] \in Nat /\ phys[c] \in Nat /\ count[c] = 0
      BY <2>1, Constants
    <3>1. page[c] + count[c] = page[c] /\ phys[c] + count[c] = phys[c] /\ count[c] + 1 = 1
      BY ONLY <3>0
    <3>2. /\ mapped' = [mapped EXCEPT ![page[c] + count[c]] = phys[c] + count[c]]
          /\ count' = [count EXCEPT ![c] = count[c] + 1]
          /\ UNCHANGED <<pc, page, phys, live, windowLock>>
      BY <1>12 DEF MapPage
    <3>. QED
      BY ONLY <3>1, <3>2
  <2>3. Found' = {}
    BY <2>1, <2>2 DEF Found
  <2>. QED
    BY <2>1, <2>2, <2>3
<1>13. ASSUME NEW c \in Contexts, AllocReturn(c)
      PROVE  Searching'
  BY <1>13 DEF AllocReturn, Goto, Found
<1>14. ASSUME NEW c \in Contexts, NEW r \in live, FreeBegin(c, r)
      PROVE  Searching'
  BY <1>14 DEF FreeBegin, Goto, Found
<1>15. ASSUME NEW c \in Contexts, UnmapPage(c)
      PROVE  Searching'
  BY <1>15, ZenonT(40) DEF UnmapPage, Found
<1>16. ASSUME NEW c \in Contexts, FreeReturn(c)
      PROVE  Searching'
  BY <1>16 DEF FreeReturn, Goto, Found
<1>17. CASE UNCHANGED vars
  BY <1>17 DEF vars, Found
<1>. QED
  BY <1>1, <1>2, <1>3, <1>4, <1>5, <1>6, <1>7, <1>8, <1>9, <1>10, <1>11, <1>12, <1>13, <1>14, <1>15, <1>16, <1>17
     DEF Next, Pop, Alloc, Unmap

LEMMA StepPagesMapped ==
  ASSUME IInv, PageInv, Counts = {1}, [Next]_vars
  PROVE  PagesMapped'
<1>. USE Constants DEF IInv, Types, frames, locals, ContextTypes, RangeTypes, Ranges, Sizes, PageInv, Searching, PagesMapped, PagesOnce, Popping
<1>1. ASSUME NEW c \in Contexts, CreateThread(c)
     PROVE  PagesMapped'
  BY <1>1 DEF CreateThread, Goto, Found, Mapping, Unmapping
<1>2. ASSUME NEW c \in Contexts, NEW d \in Devices, NEW k \in Counts, MapDevice(c, d, k)
     PROVE  PagesMapped'
  BY <1>2 DEF MapDevice, Goto, Found, Mapping, Unmapping
<1>3. ASSUME NEW c \in Contexts, PopLock(c)
     PROVE  PagesMapped'
  BY <1>3 DEF PopLock, Goto, Found, Mapping, Unmapping
<1>4. ASSUME NEW c \in Contexts, PopTake(c)
     PROVE  PagesMapped'
  BY <1>4 DEF PopTake, Goto, Found, Mapping, Unmapping
<1>5. ASSUME NEW c \in Contexts, PopDrop(c)
     PROVE  PagesMapped'
  BY <1>5 DEF PopDrop, Goto, Found, Mapping, Unmapping
<1>6. ASSUME NEW c \in Contexts, PopPanic(c)
     PROVE  PagesMapped'
  BY <1>6 DEF PopPanic, Goto, Found, Mapping, Unmapping
<1>7. ASSUME NEW c \in Contexts, AllocLock(c)
     PROVE  PagesMapped'
  BY <1>7 DEF AllocLock, Goto, Found, Mapping, Unmapping
<1>8. ASSUME NEW c \in Contexts, SearchFree(c)
     PROVE  PagesMapped'
  BY <1>8 DEF SearchFree, Found, Mapping, Unmapping
<1>9. ASSUME NEW c \in Contexts, SearchUsed(c)
     PROVE  PagesMapped'
  BY <1>9 DEF SearchUsed, Found, Mapping, Unmapping
<1>10. ASSUME NEW c \in Contexts, SearchDone(c)
      PROVE  PagesMapped'
  BY <1>10 DEF SearchDone, Goto, Found, Mapping, Unmapping
<1>11. ASSUME NEW c \in Contexts, SearchPanic(c)
      PROVE  PagesMapped'
  BY <1>11 DEF SearchPanic, Goto, Found, Mapping, Unmapping
<1>12. ASSUME NEW c \in Contexts, MapPage(c)
      PROVE  PagesMapped'
  <2>1. /\ count[c] = 0 /\ pc[c] = "map" /\ page[c] \in Pages /\ phys[c] \in Nat
        /\ c \in Found
    <3>1. count[c] < n[c] /\ n[c] = 1 /\ count[c] \in Nat /\ pc[c] = "map"
      BY <1>12 DEF MapPage
    <3>. QED
      BY <3>1 DEF Found
  <2>2. /\ mapped' = [mapped EXCEPT ![page[c]] = phys[c]]
        /\ count' = [count EXCEPT ![c] = 1]
        /\ UNCHANGED <<pc, page, phys, live, windowLock>>
    <3>0. page[c] \in Nat /\ phys[c] \in Nat /\ count[c] = 0
      BY <2>1, Constants
    <3>1. page[c] + count[c] = page[c] /\ phys[c] + count[c] = phys[c] /\ count[c] + 1 = 1
      BY ONLY <3>0
    <3>2. /\ mapped' = [mapped EXCEPT ![page[c] + count[c]] = phys[c] + count[c]]
          /\ count' = [count EXCEPT ![c] = count[c] + 1]
          /\ UNCHANGED <<pc, page, phys, live, windowLock>>
      BY <1>12 DEF MapPage
    <3>. QED
      BY ONLY <3>1, <3>2
  <2>3. Mapping' = {c} /\ Unmapping' = Unmapping
    BY <2>1, <2>2 DEF Mapping, Unmapping
  <2>4. mapped[page[c]] = None
    BY <2>1
  <2>5. \A r \in live : r.phys \in Nat /\ r.ptr \in Pages
    OBVIOUS
  <2>6. \A r \in live' : mapped'[r.ptr] = r.phys
    BY <2>1, <2>2, <2>4, <2>5
  <2>7. \A e \in Mapping' : mapped'[page'[e]] = phys'[e]
    BY <2>1, <2>2, <2>3
  <2>8. \A e \in Unmapping' : mapped'[page'[e]] # None
    BY <2>1, <2>2, <2>3 DEF Unmapping
  <2>. QED
    BY <2>6, <2>7, <2>8
<1>13. ASSUME NEW c \in Contexts, AllocReturn(c)
      PROVE  PagesMapped'
  BY <1>13 DEF AllocReturn, Goto, Found, Mapping, Unmapping
<1>14. ASSUME NEW c \in Contexts, NEW r \in live, FreeBegin(c, r)
      PROVE  PagesMapped'
  BY <1>14 DEF FreeBegin, Goto, Found, Mapping, Unmapping
<1>15. ASSUME NEW c \in Contexts, UnmapPage(c)
      PROVE  PagesMapped'
  <2>1. count[c] = 0 /\ page[c] \in Pages /\ c \in Unmapping
    <3>1. count[c] < n[c] /\ n[c] = 1 /\ count[c] \in Nat /\ pc[c] = "unmap"
      BY <1>15 DEF UnmapPage
    <3>. QED
      BY <3>1 DEF Unmapping
  <2>2. /\ mapped' = [mapped EXCEPT ![page[c]] = None]
        /\ count' = [count EXCEPT ![c] = 1]
        /\ pc[c] = "unmap" /\ UNCHANGED <<pc, page, phys, live>>
    <3>0. page[c] \in Nat /\ count[c] = 0
      BY <2>1, Constants
    <3>1. page[c] + count[c] = page[c] /\ count[c] + 1 = 1
      BY ONLY <3>0
    <3>2. /\ mapped' = [mapped EXCEPT ![page[c] + count[c]] = None]
          /\ count' = [count EXCEPT ![c] = count[c] + 1]
          /\ pc[c] = "unmap" /\ UNCHANGED <<pc, page, phys, live>>
      BY <1>15 DEF UnmapPage
    <3>. QED
      BY ONLY <3>1, <3>2
  <2>3. Mapping' = Mapping /\ Unmapping' = Unmapping \ {c}
    BY <1>15, <2>1, <2>2 DEF UnmapPage, Mapping, Unmapping
  <2>4. \A r \in live' : mapped'[r.ptr] = r.phys
    BY <2>1, <2>2
  <2>5. \A e \in Mapping' : mapped'[page'[e]] = phys'[e]
    <3>1. ASSUME NEW e \in Mapping
          PROVE  e \in Contexts /\ page[e] \in Pages /\ page[e] # page[c] /\ mapped[page[e]] = phys[e]
      BY <2>1, <2>2 DEF Mapping
    <3>. QED
      BY <2>1, <2>2, <2>3, <3>1
  <2>6. \A e \in Unmapping' : mapped'[page'[e]] # None
    BY <2>1, <2>2, <2>3 DEF Unmapping
  <2>. QED
    BY <2>4, <2>5, <2>6
<1>16. ASSUME NEW c \in Contexts, FreeReturn(c)
      PROVE  PagesMapped'
  BY <1>16 DEF FreeReturn, Goto, Found, Mapping, Unmapping
<1>17. CASE UNCHANGED vars
  BY <1>17 DEF vars, Found, Mapping, Unmapping
<1>. QED
  BY <1>1, <1>2, <1>3, <1>4, <1>5, <1>6, <1>7, <1>8, <1>9, <1>10, <1>11, <1>12, <1>13, <1>14, <1>15, <1>16, <1>17
     DEF Next, Pop, Alloc, Unmap

LEMMA StepPagesOnce ==
  ASSUME IInv, PageInv, Counts = {1}, [Next]_vars
  PROVE  PagesOnce'
<1>. USE Constants DEF IInv, Types, frames, locals, ContextTypes, RangeTypes, Ranges, Sizes, PageInv, Searching, PagesMapped, PagesOnce
<1>1. ASSUME NEW c \in Contexts, CreateThread(c)
     PROVE  PagesOnce'
  BY <1>1 DEF CreateThread, Goto, Found, Mapping, Unmapping
<1>2. ASSUME NEW c \in Contexts, NEW d \in Devices, NEW k \in Counts, MapDevice(c, d, k)
     PROVE  PagesOnce'
  BY <1>2 DEF MapDevice, Goto, Found, Mapping, Unmapping
<1>3. ASSUME NEW c \in Contexts, PopLock(c)
     PROVE  PagesOnce'
  BY <1>3 DEF PopLock, Goto, Found, Mapping, Unmapping
<1>4. ASSUME NEW c \in Contexts, PopTake(c)
     PROVE  PagesOnce'
  BY <1>4 DEF PopTake, Goto, Found, Mapping, Unmapping
<1>5. ASSUME NEW c \in Contexts, PopDrop(c)
     PROVE  PagesOnce'
  BY <1>5 DEF PopDrop, Goto, Found, Mapping, Unmapping
<1>6. ASSUME NEW c \in Contexts, PopPanic(c)
     PROVE  PagesOnce'
  BY <1>6 DEF PopPanic, Goto, Found, Mapping, Unmapping
<1>7. ASSUME NEW c \in Contexts, AllocLock(c)
     PROVE  PagesOnce'
  BY <1>7 DEF AllocLock, Goto, Found, Mapping, Unmapping
<1>8. ASSUME NEW c \in Contexts, SearchFree(c)
     PROVE  PagesOnce'
  BY <1>8 DEF SearchFree, Found, Mapping, Unmapping
<1>9. ASSUME NEW c \in Contexts, SearchUsed(c)
     PROVE  PagesOnce'
  BY <1>9 DEF SearchUsed, Found, Mapping, Unmapping
<1>10. ASSUME NEW c \in Contexts, SearchDone(c)
      PROVE  PagesOnce'
  BY <1>10 DEF SearchDone, Goto, Found, Mapping, Unmapping
<1>11. ASSUME NEW c \in Contexts, SearchPanic(c)
      PROVE  PagesOnce'
  BY <1>11 DEF SearchPanic, Goto, Found, Mapping, Unmapping
<1>12. ASSUME NEW c \in Contexts, MapPage(c)
      PROVE  PagesOnce'
  BY <1>12 DEF MapPage, Found, Mapping, Unmapping
<1>13. ASSUME NEW c \in Contexts, AllocReturn(c)
      PROVE  PagesOnce'
  BY <1>13 DEF AllocReturn, Goto, Found, Mapping, Unmapping
<1>14. ASSUME NEW c \in Contexts, NEW r \in live, FreeBegin(c, r)
      PROVE  PagesOnce'
  BY <1>14 DEF FreeBegin, Goto, Found, Mapping, Unmapping
<1>15. ASSUME NEW c \in Contexts, UnmapPage(c)
      PROVE  PagesOnce'
  BY <1>15 DEF UnmapPage, Found, Mapping, Unmapping
<1>16. ASSUME NEW c \in Contexts, FreeReturn(c)
      PROVE  PagesOnce'
  BY <1>16 DEF FreeReturn, Goto, Found, Mapping, Unmapping
<1>17. CASE UNCHANGED vars
  BY <1>17 DEF vars, Found, Mapping, Unmapping
<1>. QED
  BY <1>1, <1>2, <1>3, <1>4, <1>5, <1>6, <1>7, <1>8, <1>9, <1>10, <1>11, <1>12, <1>13, <1>14, <1>15, <1>16, <1>17
     DEF Next, Pop, Alloc, Unmap

LEMMA PagesInductive ==
  ASSUME Counts = {1}
  PROVE  Spec => []PageInv
<1>1. Init => PageInv
  BY Constants DEF Init, PageInv, Searching, PagesMapped, PagesOnce, Found, Mapping, Unmapping
<1>2. IInv /\ PageInv /\ [Next]_vars => PageInv'
  BY StepSearching, StepPagesMapped, StepPagesOnce DEF PageInv
<1>. QED
  BY Inductive, <1>1, <1>2, PTL DEF Spec

(* As long as pages are asked for one at a time, what a driver or ACPI has  *)
(* mapped stays mapped until it is freed, although paging_device_free      *)
(* takes no lock.                                                          *)
THEOREM PagesStay ==
  ASSUME Counts = {1}
  PROVE  Spec => []RangesStayMapped
<1>1. IInv /\ PageInv => RangesStayMapped
  <2>. SUFFICES ASSUME IInv, PageInv, NEW r \in live, NEW i \in 0..(r.size - 1)
                PROVE  mapped[r.ptr + i] = r.phys + i
    BY DEF RangesStayMapped
  <2>1. r.size = 1 /\ r.ptr \in Nat /\ r.phys \in Nat
    BY Constants DEF IInv, Types, RangeTypes, Ranges, Sizes
  <2>2. i = 0
    BY <2>1
  <2>. QED
    BY <2>1, <2>2 DEF PageInv, PagesMapped
<1>. QED
  BY Inductive, PagesInductive, <1>1, PTL

(* A range is granted when paging_device_alloc returns it, after a search  *)
(* that others ran beside, and returned when paging_device_free begins.    *)
LEMMA AllocatorStep ==
  Counts = {1} /\ IInv /\ PageInv /\ [Next]_vars => [Abstract!Next]_<<live, Window>>
<1>. SUFFICES ASSUME Counts = {1}, IInv, PageInv, [Next]_vars
              PROVE  [Abstract!Next]_<<live, Window>>
  OBVIOUS
<1>1. ASSUME NEW c \in Contexts, AllocReturn(c) PROVE Abstract!Grant
  <2>1. PICK x : x = [ptr |-> page[c], size |-> n[c], phys |-> phys[c]]
    OBVIOUS
  <2>2. live' = live \cup {x} /\ x.ptr = page[c] /\ x.size = n[c]
    BY <1>1, <2>1 DEF AllocReturn
  <2>3. pc[c] = "map" /\ count[c] = n[c]
    BY <1>1 DEF AllocReturn, Goto
  <2>4. n[c] = 1 /\ page[c] \in Nat /\ page[c] + n[c] <= Window
    BY <2>3, Constants DEF IInv, Types, ContextTypes, RangeTypes, Sizes
  <2>5. \A r \in live : r.ptr # page[c] /\ r.ptr \in Nat /\ r.size = 1
    <3>1. c \in Mapping
      BY <2>3, <2>4 DEF Mapping
    <3>. QED
      BY <3>1, Constants DEF PageInv, PagesOnce, IInv, Types, RangeTypes, Ranges, Sizes
  <2>6. \A r \in live : Abstract!Disjoint(r, x)
    BY <2>2, <2>4, <2>5 DEF Abstract!Disjoint
  <2>7. x \notin live
    BY <2>2, <2>5
  <2>8. Abstract!New(x)
    BY <2>2, <2>4, <2>6, <2>7 DEF Abstract!New
  <2>. QED
    BY <2>2, <2>8, WindowAssumption DEF Abstract!Grant
<1>2. ASSUME NEW c \in Contexts, NEW r \in live, FreeBegin(c, r) PROVE Abstract!Return(r)
  BY <1>2 DEF FreeBegin, Abstract!Return
<1>3. ASSUME NEW c \in Contexts,
             CreateThread(c) \/ Pop(c) \/ (\E d \in Devices, k \in Counts : MapDevice(c, d, k))
               \/ SearchPanic(c)
      PROVE  live' = live
  BY <1>3 DEF CreateThread, Pop, PopLock, PopTake, PopDrop, PopPanic, MapDevice, SearchPanic
<1>4. ASSUME NEW c \in Contexts,
             \/ AllocLock(c) \/ SearchFree(c) \/ SearchUsed(c) \/ SearchDone(c) \/ MapPage(c)
             \/ UnmapPage(c) \/ FreeReturn(c)
      PROVE  live' = live
  BY <1>4 DEF AllocLock, SearchFree, SearchUsed, SearchDone, MapPage, UnmapPage, FreeReturn
<1>5. CASE UNCHANGED vars
  BY <1>5 DEF vars
<1>. QED
  BY <1>1, <1>2, <1>3, <1>4, <1>5 DEF Next, Alloc, Unmap, Abstract!Next

(* As long as pages are asked for one at a time, drivers and ACPI get what *)
(* Allocator promises of the window: addresses that nobody else holds.     *)
THEOREM IsAllocator ==
  ASSUME Counts = {1}
  PROVE  Spec => ImplementsAllocator
<1>1. Init => live = {}
  BY DEF Init
<1>. QED
  BY <1>1, AllocatorStep, Inductive, PagesInductive, PTL
     DEF Spec, ImplementsAllocator, Abstract!Spec
=============================================================================
