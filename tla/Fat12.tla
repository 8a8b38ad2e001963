------------------------------- MODULE Fat12 --------------------------------
(***************************************************************************)
(* Reading a file from a FAT12 disk (fat.c) by way of the floppy driver:   *)
(* the command "floppy" of the console calls fat_init, which reads the     *)
(* header, the first FAT and the root directory and then, in               *)
(* fat_print_dir, the file BEEMOVIE.                                       *)
(*                                                                         *)
(* Read (floppy_storage_read) reads one sector whatever the length, so of  *)
(* the FAT and of the root directory only the first sector is ever known.  *)
(* fat_init looks at the result of none of its reads.                      *)
(***************************************************************************)
EXTENDS Floppy, Functions

CONSTANTS
  Disks,    (* the disks to read: the FAT of each, and the first cluster    *)
            (* and the number of clusters (Length over bytesPerCluster,     *)
            (* rounded up) of its file                                      *)
  Known,    (* the clusters whose entries are in the first sector of the    *)
            (* FAT: 0..340                                                  *)
  Garbage   (* what an uninitialized block number may be                    *)

ASSUME FatAssumption ==
  /\ \A d \in Disks : DOMAIN d.fat \subseteq Nat /\ d.start \in Nat /\ d.clusters \in Nat
  /\ Garbage \subseteq Sectors /\ Garbage # {}

(* The header of a 1.44 MB disk, and the sectors that fat_init computes    *)
(* from it.                                                                *)
ReservedSectors == 1
TableSize == 9
TableCount == 2
RootLength == 14        \* of 224 entries
TableStart == ReservedSectors
RootStart == TableStart + TableSize * TableCount
DataStart == RootStart + RootLength

VARIABLES
  fs,       (* what fat_init is reading, "none" when it does not run, or    *)
            (* "fault" when it has divided by zero or freed an              *)
            (* uninitialized pointer                                        *)
  disk,     (* the disk in the drive                                        *)
  table     (* fatVolume->Table                                             *)

fatVars == <<fs, disk, table>>
fVars == <<vars, fatVars>>

NoTable == <<>>

FInit == Init /\ fs = "none" /\ disk \in Disks /\ table = NoTable

-----------------------------------------------------------------------------
(* fat_fat12_get_cluster: an entry outside what was read is 0.             *)
NextCluster(t, c) == IF c \in DOMAIN t THEN t[c] ELSE 0

InUse(c) == c \in 2..4079       \* 0x002..0xFEF

(* n clusters from start on; past the end of the chain they mean nothing.  *)
Followed(t, start, n) ==
  LET c[i \in 1..n] == IF i = 1 THEN start ELSE NextCluster(t, c[i - 1]) IN c

(* The clusters from start on, as far as the chain goes, but at most n.    *)
Chain(t, start, n) ==
  LET c == Followed(t, start, n)
      k == CHOOSE j \in 0..n : /\ \A i \in 1..j : InUse(c[i])
                               /\ j = n \/ ~InUse(c[j + 1])
  IN  [i \in 1..k |-> c[i]]

BlockOf(cluster) == DataStart + cluster - 2

(* The list that fat_entry_read_fat12 makes: only its first bytes are      *)
(* cleared, so what the chain does not fill may hold anything.             *)
BlockList(t, start, n, garbage) ==
  LET chain == Chain(t, start, n)
  IN  [i \in 1..n |-> IF i \in DOMAIN chain THEN BlockOf(chain[i]) ELSE garbage[i]]

-----------------------------------------------------------------------------
(* A read has returned.  The caller's buffer was cleared before and holds  *)
(* the sector if all went well; otherwise it may be clear or hold parts of *)
(* the sector.                                                             *)
Filled(lba) == result /\ out = <<lba>>
Maybe(lba) == IF Filled(lba) THEN {TRUE} ELSE {TRUE, FALSE}

FloppyCommand ==
  /\ fs = "none"
  /\ Begin(<<0>>) /\ fs' = "header"
  /\ UNCHANGED <<disk, table>>

(* With BytesPerSector 0 the division for RootDirectoryLength faults.      *)
HeaderRead ==
  /\ fs = "header" /\ pc = "ready"
  /\ \E there \in Maybe(0) :
       IF there THEN Begin(<<TableStart>>) /\ fs' = "table"
                ELSE fs' = "fault" /\ UNCHANGED vars
  /\ UNCHANGED <<disk, table>>

TableRead ==
  /\ fs = "table" /\ pc = "ready"
  /\ \E there \in Maybe(TableStart) :
       table' = IF there THEN [c \in DOMAIN disk.fat \cap Known |-> disk.fat[c]] ELSE NoTable
  /\ Begin(<<RootStart>>) /\ fs' = "root"
  /\ UNCHANGED disk

(* When fat_get_root_dir fails, fat_init frees a pointer that nobody set.  *)
RootRead ==
  /\ fs = "root" /\ pc = "ready"
  /\ IF ~result
     THEN fs' = "fault" /\ UNCHANGED <<vars, table>>
     ELSE \E there \in Maybe(RootStart), g \in [1..disk.clusters -> Garbage] :
            IF there THEN /\ Begin(BlockList(table, disk.start, disk.clusters, g))
                          /\ fs' = "file" /\ UNCHANGED table
                     ELSE fs' = "none" /\ table' = NoTable /\ UNCHANGED vars
  /\ UNCHANGED disk

FileRead ==
  /\ fs = "file" /\ pc = "ready"
  /\ fs' = "none" /\ table' = NoTable
  /\ UNCHANGED <<vars, disk>>

FNext ==
  \/ FloppyCommand \/ HeaderRead \/ TableRead \/ RootRead \/ FileRead
  \/ (Interrupt \/ Driver) /\ UNCHANGED fatVars

FSpec == FInit /\ [][FNext]_fVars /\ WF_vars(Driver)
            /\ WF_fVars(HeaderRead \/ TableRead \/ RootRead \/ FileRead)

-----------------------------------------------------------------------------
(* Type invariant of the two modules.                                      *)
TypeOK ==
  /\ DriverTypeOK
  /\ fs \in {"none", "header", "table", "root", "file", "fault"}
  /\ disk \in Disks
  /\ DOMAIN table \subseteq DOMAIN disk.fat

(* When the sectors of a file have been read without a failure that the    *)
(* driver noticed or a wait that timed out, and its chain lies in the      *)
(* sector of the FAT that is known, they hold the file's clusters in       *)
(* order: fat_entry_read_fat12, the CHS conversion, the seeks and the      *)
(* choice of when to read a track again (lastTrack) fit together.          *)
FileInOrder ==
  LET whole == Chain(disk.fat, disk.start, disk.clusters) IN
  /\ fs = "file" /\ pc = "ready" /\ result /\ ~lost /\ ~trackFailed
  /\ table = Restrict(disk.fat, DOMAIN disk.fat \cap Known)
  /\ DOMAIN whole = 1..disk.clusters
  /\ \A i \in DOMAIN whole : whole[i] \in Known
  => out = [i \in 1..disk.clusters |-> BlockOf(whole[i])]

(* Whatever the controller does, the command "floppy" comes to an end: it  *)
(* answers, retries a bounded number of times, or faults.                  *)
CommandEnds == fs = "header" ~> fs \in {"none", "fault"}
=============================================================================
