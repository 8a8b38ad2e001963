------------------------------ MODULE Allocator ------------------------------
(***************************************************************************)
(* What an allocator promises its callers: a request is granted a part of  *)
(* the memory that overlaps nothing granted before and not yet returned.   *)
(* The memory may grow and never shrinks.  KHeap is shown to implement     *)
(* this for bytes of the heap, DeviceWindow for pages of the device window.*)
(***************************************************************************)
EXTENDS Integers

CONSTANT Requests   (* the sizes callers may ask for                       *)

VARIABLES
  granted,          (* the parts in use: [ptr, size] records               *)
  extent            (* where the memory ends                               *)

Disjoint(x, y) == x.ptr + x.size <= y.ptr \/ y.ptr + y.size <= x.ptr

(* A new part appears in granted, apart from everything there.             *)
New(part) ==
  /\ part \notin granted
  /\ part.size \in Requests
  /\ part.ptr >= 0 /\ part.ptr + part.size <= extent'
  /\ \A x \in granted : Disjoint(x, part)

Grant ==
  /\ extent' >= extent
  /\ \E part \in granted' : New(part) /\ granted' = granted \cup {part}

Return(x) == granted' = granted \ {x} /\ extent' = extent

(* The old part is returned only after the new one is granted: both exist  *)
(* while the data is copied.                                               *)
Exchange(x) ==
  /\ extent' >= extent
  /\ \E part \in granted' : New(part) /\ granted' = (granted \ {x}) \cup {part}

Next == Grant \/ \E x \in granted : Return(x) \/ Exchange(x)

Spec == granted = {} /\ [][Next]_<<granted, extent>>
=============================================================================
