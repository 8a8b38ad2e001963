-------------------------------- MODULE Fifo --------------------------------
(***************************************************************************)
(* What the reception path of a network device promises: the packets that  *)
(* the device took in are processed once each, in the order of arrival.    *)
(* NetReceive is shown to implement this.                                  *)
(***************************************************************************)
EXTENDS Integers, Sequences

VARIABLES
  items,      (* the packets taken in and not yet processed                *)
  count,      (* how many were taken in                                    *)
  got         (* the packet that is processed, or was processed last       *)

Put == count' = count + 1 /\ items' = Append(items, count') /\ UNCHANGED got

Get == items # <<>> /\ got' = Head(items) /\ items' = Tail(items) /\ UNCHANGED count

Spec ==
  /\ items = <<>> /\ count = 0 /\ got = 0
  /\ [][Put \/ Get]_<<items, count, got>>
=============================================================================
