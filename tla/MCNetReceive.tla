---------------------------- MODULE MCNetReceive ----------------------------
(* Five packets of two or three units in a ring of seven: the ring wraps at *)
(* its very end and inside a packet, and is full while packets arrive.      *)
EXTENDS NetReceive
=============================================================================
