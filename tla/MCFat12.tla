------------------------------ MODULE MCFat12 -------------------------------
(* Three disks.  The clusters 2, 4 and 5 lie on two tracks and both heads  *)
(* are used; the second disk's chain leaves the part of the FAT that is    *)
(* known, the third one's ends before the file does.                       *)
EXTENDS Fat12, TLC

EndOfChain == 4095

MCDisks == {
  [fat |-> (2 :> 5) @@ (5 :> 4) @@ (4 :> EndOfChain), start |-> 2, clusters |-> 3],
  [fat |-> (4 :> 6) @@ (6 :> 5) @@ (5 :> EndOfChain), start |-> 4, clusters |-> 3],
  [fat |-> (5 :> EndOfChain), start |-> 5, clusters |-> 2] }

MCKnown == 0..5
MCGarbage == {7, 100}
=============================================================================
