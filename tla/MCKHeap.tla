------------------------------- MODULE MCKHeap -------------------------------
(* A request below the size of a list node, one in the middle and one that *)
(* takes most of a page, as kheap_init's own self-test asks for.           *)
EXTENDS KHeap
=============================================================================
