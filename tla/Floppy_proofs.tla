--------------------------- MODULE Floppy_proofs ---------------------------
(***************************************************************************)
(* Proofs about the floppy driver, for any number of tracks and of tries   *)
(* and any list of sectors.  The answers of the controller are those to    *)
(* the driver's commands as long as no wait has timed out (Pairing), so    *)
(* the buffer holds the track that lastTrack says (Buffered), and each     *)
(* copy is the sector that was asked for (Copied).                         *)
(*                                                                         *)
(* The file system above it makes requests of the driver and nothing else, *)
(* so what is true of the driver holds below it (UsesTheDriver).  The      *)
(* chain of clusters is followed by a recursive function, which is known   *)
(* by induction on its argument (FollowedIs) and the same in two tables    *)
(* that agree where it goes (FollowsOnce).  A read of a file is therefore  *)
(* a request for the blocks of its chain (Reading).                        *)
(***************************************************************************)
EXTENDS Fat12, WellFoundedInduction, TLAPS

Sent(c) == pc \in {"wait", "answer"} /\ cmd = c

(* The commands that are tried again.                                      *)
Counting ==
  Sent("recalibrate") \/ Sent("seek") \/ Sent("read") => tries < RetryCount

Pairing ==
  ~lost => /\ pc = "wait" => (busy <=> ~irqTriggered)
           /\ pc # "wait" => ~busy /\ ~irqTriggered

Requested ==
  /\ pc \in {"seek", "read"} \/ Sent("seek") \/ Sent("read") => index < Len(blocks)
  /\ pc = "read" \/ Sent("read") => lastTrack = TrackOf(blocks[index + 1])
  /\ result => index = Len(blocks)

Running ==
  /\ pc \in {"sector", "seek", "read"} \/ Sent("seek") \/ Sent("read") => motor
  /\ pc = "ready" => ~motor

Buffered ==
  ~lost /\ ~trackFailed =>
    /\ pc = "sector" /\ lastTrack # NoTrack => dma = lastTrack
    /\ Sent("read") /\ ~busy /\ answer = "ok" => dma = lastTrack

Copied == ~lost /\ ~trackFailed => \A i \in 1..index : out[i] = blocks[i]

(* The parts of the type invariant.                                        *)
PlaceOK ==
  /\ pc \in {"boot", "absent", "calibrate", "ready", "sector", "seek", "read",
            "wait", "answer"}
  /\ cmd \in Commands /\ tries \in 0..RetryCount
FlagsOK ==
  /\ motor \in BOOLEAN /\ irqTriggered \in BOOLEAN /\ result \in BOOLEAN
  /\ busy \in BOOLEAN /\ lost \in BOOLEAN /\ trackFailed \in BOOLEAN
RequestOK ==
  /\ blocks \in Seq(Sectors) /\ index \in 0..Len(blocks)
  /\ out \in Seq(Int) /\ Len(out) = index
DeviceOK ==
  /\ lastTrack \in Tracks \cup {NoTrack}
  /\ answer \in Answers /\ head \in Tracks /\ dma \in Tracks \cup {NoTrack}

(* The inductive invariant.                                                *)
IInv ==
  /\ DriverTypeOK /\ Counting /\ Pairing /\ Requested /\ Running /\ Buffered /\ Copied

-----------------------------------------------------------------------------
(* The place of a sector in the buffer is its place on the disk.           *)
LEMMA SectorPlace ==
  ASSUME NEW lba \in Nat
  PROVE  /\ TrackOf(lba) \in Nat
         /\ TrackOf(lba) # NoTrack => CopyFrom(TrackOf(lba), lba) = lba
         /\ \A t \in Tracks \cup {NoTrack} : CopyFrom(t, lba) \in Int
  BY FloppyAssumption DEF Tracks, NoData, TrackOf, HeadOf, SectorOf, CopyFrom, SectorsPerTrack, NoTrack

LEMMA InitIInv == Init => IInv
<1>. SUFFICES ASSUME Init PROVE IInv
  OBVIOUS
<1>. USE FloppyAssumption DEF Init
<1>1. DriverTypeOK
  <2>1. PlaceOK
    BY DEF PlaceOK, Commands
  <2>2. FlagsOK
    BY DEF FlagsOK
  <2>3. RequestOK
    BY DEF RequestOK
  <2>4. DeviceOK
    BY DEF DeviceOK, Answers, Tracks, NoTrack
  <2>. QED
    BY <2>1, <2>2, <2>3, <2>4 DEF DriverTypeOK, PlaceOK, FlagsOK, RequestOK, DeviceOK
<1>2. Counting /\ Pairing /\ Requested /\ Running /\ Buffered /\ Copied
  BY DEF Counting, Pairing, Requested, Running, Buffered, Copied, Sent
<1>. QED
  BY <1>1, <1>2 DEF IInv

(* What a step does to the types, part by part.                            *)
LEMMA StepPlace ==
  ASSUME IInv, [Next]_vars
  PROVE  PlaceOK'
<1>. USE FloppyAssumption DEF IInv, DriverTypeOK, PlaceOK, Commands, Counting, Sent, Answers, device, request, history
<1>1. CASE Interrupt
  BY <1>1 DEF Interrupt
<1>2. CASE Wait
  BY <1>2 DEF Wait
<1>3. CASE Detect
  BY <1>3 DEF Detect, Send
<1>4. CASE ResetDone
  BY <1>4 DEF ResetDone, Send, Answered
<1>5. CASE Recalibrate
  BY <1>5 DEF Recalibrate, Send
<1>6. CASE RecalibrateDone
  BY <1>6 DEF RecalibrateDone, Answered
<1>7. CASE Sector
  BY <1>7 DEF Sector, Return, NeedsTrack
<1>8. CASE Seek
  BY <1>8 DEF Seek, Send, Return
<1>9. CASE SeekDone
  BY <1>9 DEF SeekDone, Answered
<1>10. CASE Read
  BY <1>10 DEF Read, Send
<1>11. CASE ReadDone
  <2>1. tries < RetryCount /\ cmd' = cmd
    BY <1>11 DEF ReadDone, Answered
  <2>2. PICK a \in Answers :
          \/ a = "ok" /\ pc' = "sector" /\ tries' = tries
          \/ a = "protected" /\ pc' = "sector" /\ tries' = tries
          \/ a = "retry" /\ pc' = "read" /\ tries' = tries + 1
    BY <1>11 DEF ReadDone
  <2>. QED
    BY <2>1, <2>2
<1>12. ASSUME NEW list \in Seq(Sectors), Begin(list) PROVE PlaceOK'
  BY <1>12 DEF Begin
<1>13. CASE UNCHANGED vars
  BY <1>13 DEF vars
<1>. QED
  BY <1>1, <1>2, <1>3, <1>4, <1>5, <1>6, <1>7, <1>8, <1>9, <1>10, <1>11, <1>12, <1>13 DEF Next, Driver

LEMMA StepFlags ==
  ASSUME IInv, [Next]_vars
  PROVE  FlagsOK'
<1>. USE FloppyAssumption DEF IInv, DriverTypeOK, FlagsOK, Answers, device, request, history
<1>1. CASE Interrupt
  BY <1>1 DEF Interrupt
<1>2. CASE Wait
  BY <1>2 DEF Wait
<1>3. CASE Detect
  BY <1>3 DEF Detect, Send
<1>4. CASE ResetDone
  BY <1>4 DEF ResetDone, Send, Answered
<1>5. CASE Recalibrate
  BY <1>5 DEF Recalibrate, Send
<1>6. CASE RecalibrateDone
  BY <1>6 DEF RecalibrateDone, Answered
<1>7. CASE Sector
  BY <1>7 DEF Sector, Return, NeedsTrack
<1>8. CASE Seek
  BY <1>8 DEF Seek, Send, Return
<1>9. CASE SeekDone
  BY <1>9 DEF SeekDone, Answered
<1>10. CASE Read
  BY <1>10 DEF Read, Send
<1>11. CASE ReadDone
  BY <1>11 DEF ReadDone, Answered
<1>12. ASSUME NEW list \in Seq(Sectors), Begin(list) PROVE FlagsOK'
  BY <1>12 DEF Begin
<1>13. CASE UNCHANGED vars
  BY <1>13 DEF vars
<1>. QED
  BY <1>1, <1>2, <1>3, <1>4, <1>5, <1>6, <1>7, <1>8, <1>9, <1>10, <1>11, <1>12, <1>13 DEF Next, Driver

LEMMA StepRequest ==
  ASSUME IInv, [Next]_vars
  PROVE  RequestOK'
<1>. USE FloppyAssumption DEF IInv, DriverTypeOK, RequestOK, Tracks, NoTrack, Requested, Sent, device, request, history
<1>1. CASE Interrupt
  BY <1>1 DEF Interrupt
<1>2. CASE Wait
  BY <1>2 DEF Wait
<1>3. CASE Detect
  BY <1>3 DEF Detect, Send
<1>4. CASE ResetDone
  BY <1>4 DEF ResetDone, Send, Answered
<1>5. CASE Recalibrate
  BY <1>5 DEF Recalibrate, Send
<1>6. CASE RecalibrateDone
  BY <1>6 DEF RecalibrateDone, Answered
<1>7. CASE Sector
  <2>1. CASE index = Len(blocks)
    BY <1>7, <2>1 DEF Sector, Return
  <2>2. CASE index # Len(blocks)
    <3>. DEFINE lba == blocks[index + 1]
    <3>1. lba \in Nat
      <4>1. lba \in Sectors
        BY <2>2
      <4>2. Sectors \subseteq Nat
        BY DEF Sectors
      <4>. QED
        BY <4>1, <4>2
    <3>2. CASE NeedsTrack(lba)
      <4>1. /\ pc = "sector" /\ pc' = "seek" /\ tries' = 0
            /\ UNCHANGED <<motor, blocks, index, lastTrack, out, result, cmd, irqTriggered>>
            /\ UNCHANGED <<busy, answer, head, dma, lost, trackFailed>>
        BY <1>7, <2>2, <3>2 DEF Sector
      <4>. QED
        BY <2>2, <4>1
    <3>3. CASE ~NeedsTrack(lba)
      <4>1. /\ out' = Append(out, CopyFrom(dma, lba)) /\ index' = index + 1
            /\ UNCHANGED <<pc, tries, motor, blocks, lastTrack, result, cmd, irqTriggered>>
            /\ UNCHANGED <<busy, answer, head, dma, lost, trackFailed>> /\ pc = "sector"
        BY <1>7, <2>2, <3>3 DEF Sector
      <4>2. CopyFrom(dma, lba) \in Int
        BY <3>1, SectorPlace
      <4>3. out' \in Seq(Int) /\ Len(out') = index'
        BY <4>1, <4>2
      <4>4. blocks' \in Seq(Sectors) /\ index' \in 0..Len(blocks')
        BY <4>1, <2>2
      <4>. QED
        BY <4>3, <4>4
    <3>. QED
      BY <3>2, <3>3
  <2>. QED
    BY <2>1, <2>2
<1>8. CASE Seek
  BY <1>8 DEF Seek, Send, Return
<1>9. CASE SeekDone
  BY <1>9 DEF SeekDone, Answered
<1>10. CASE Read
  BY <1>10 DEF Read, Send
<1>11. CASE ReadDone
  BY <1>11 DEF ReadDone, Answered
<1>12. ASSUME NEW list \in Seq(Sectors), Begin(list) PROVE RequestOK'
  BY <1>12 DEF Begin
<1>13. CASE UNCHANGED vars
  BY <1>13 DEF vars
<1>. QED
  BY <1>1, <1>2, <1>3, <1>4, <1>5, <1>6, <1>7, <1>8, <1>9, <1>10, <1>11, <1>12, <1>13 DEF Next, Driver

LEMMA StepDevice ==
  ASSUME IInv, [Next]_vars
  PROVE  DeviceOK'
<1>. USE FloppyAssumption DEF IInv, DriverTypeOK, DeviceOK, Answers, Tracks, NoTrack, Commands, device, request, history
<1>1. CASE Interrupt
  BY <1>1 DEF Interrupt
<1>2. CASE Wait
  BY <1>2 DEF Wait
<1>3. CASE Detect
  BY <1>3 DEF Detect, Send
<1>4. CASE ResetDone
  BY <1>4 DEF ResetDone, Send, Answered
<1>5. CASE Recalibrate
  BY <1>5 DEF Recalibrate, Send
<1>6. CASE RecalibrateDone
  BY <1>6 DEF RecalibrateDone, Answered
<1>7. CASE Sector
  BY <1>7 DEF Sector, Return, NeedsTrack
<1>8. CASE Seek
  BY <1>8 DEF Seek, Send, Return
<1>9. CASE SeekDone
  BY <1>9 DEF SeekDone, Answered
<1>10. CASE Read
  BY <1>10 DEF Read, Send
<1>11. CASE ReadDone
  BY <1>11 DEF ReadDone, Answered
<1>12. ASSUME NEW list \in Seq(Sectors), Begin(list) PROVE DeviceOK'
  BY <1>12 DEF Begin
<1>13. CASE UNCHANGED vars
  BY <1>13 DEF vars
<1>. QED
  BY <1>1, <1>2, <1>3, <1>4, <1>5, <1>6, <1>7, <1>8, <1>9, <1>10, <1>11, <1>12, <1>13 DEF Next, Driver

LEMMA StepTypes ==
  ASSUME IInv, [Next]_vars
  PROVE  DriverTypeOK'
  BY StepPlace, StepFlags, StepRequest, StepDevice
     DEF DriverTypeOK, PlaceOK, FlagsOK, RequestOK, DeviceOK

(* Commands, answers and the place in the request.                         *)
LEMMA StepProtocol ==
  ASSUME IInv, [Next]_vars
  PROVE  Counting' /\ Pairing' /\ Requested' /\ Running'
<1>. USE FloppyAssumption DEF IInv, DriverTypeOK, Counting, Pairing, Requested, Running, Sent, Answers, device, request, history
<1>1. CASE Interrupt
  BY <1>1 DEF Interrupt
<1>2. CASE Wait
  BY <1>2 DEF Wait
<1>3. CASE Detect
  BY <1>3 DEF Detect, Send
<1>4. CASE ResetDone
  BY <1>4 DEF ResetDone, Send, Answered
<1>5. CASE Recalibrate
  BY <1>5 DEF Recalibrate, Send
<1>6. CASE RecalibrateDone
  BY <1>6 DEF RecalibrateDone, Answered
<1>7. CASE Sector
  <2>1. CASE index = Len(blocks)
    BY <1>7, <2>1 DEF Sector, Return
  <2>2. CASE index # Len(blocks)
    <3>. DEFINE lba == blocks[index + 1]
    <3>1. lba \in Nat
      <4>1. lba \in Sectors
        BY <2>2
      <4>2. Sectors \subseteq Nat
        BY DEF Sectors
      <4>. QED
        BY <4>1, <4>2
    <3>2. CASE NeedsTrack(lba)
      <4>1. /\ pc = "sector" /\ pc' = "seek" /\ tries' = 0
            /\ UNCHANGED <<motor, blocks, index, lastTrack, out, result, cmd, irqTriggered>>
            /\ UNCHANGED <<busy, answer, head, dma, lost, trackFailed>>
        BY <1>7, <2>2, <3>2 DEF Sector
      <4>. QED
        BY <2>2, <4>1
    <3>3. CASE ~NeedsTrack(lba)
      <4>1. /\ out' = Append(out, CopyFrom(dma, lba)) /\ index' = index + 1
            /\ UNCHANGED <<pc, tries, motor, blocks, lastTrack, result, cmd, irqTriggered>>
            /\ UNCHANGED <<busy, answer, head, dma, lost, trackFailed>> /\ pc = "sector"
        BY <1>7, <2>2, <3>3 DEF Sector
      <4>. QED
        BY <2>2, <4>1
    <3>. QED
      BY <3>2, <3>3
  <2>. QED
    BY <2>1, <2>2
<1>8. CASE Seek
  BY <1>8 DEF Seek, Send, Return
<1>9. CASE SeekDone
  BY <1>9 DEF SeekDone, Answered
<1>10. CASE Read
  BY <1>10 DEF Read, Send
<1>11. CASE ReadDone
  BY <1>11 DEF ReadDone, Answered
<1>12. ASSUME NEW list \in Seq(Sectors), Begin(list) PROVE Counting' /\ Pairing' /\ Requested' /\ Running'
  BY <1>12 DEF Begin
<1>13. CASE UNCHANGED vars
  BY <1>13 DEF vars
<1>. QED
  BY <1>1, <1>2, <1>3, <1>4, <1>5, <1>6, <1>7, <1>8, <1>9, <1>10, <1>11, <1>12, <1>13 DEF Next, Driver

(* The buffer and the copies.                                              *)
LEMMA StepData ==
  ASSUME IInv, [Next]_vars
  PROVE  Buffered' /\ Copied'
<1>. USE FloppyAssumption DEF IInv, DriverTypeOK, Counting, Pairing, Requested, Buffered, Copied, Sent, Tracks, NoTrack, Answers, device, request, history
<1>1. CASE Interrupt
  BY <1>1 DEF Interrupt
<1>2. CASE Wait
  BY <1>2 DEF Wait
<1>3. CASE Detect
  BY <1>3 DEF Detect, Send
<1>4. CASE ResetDone
  BY <1>4 DEF ResetDone, Send, Answered
<1>5. CASE Recalibrate
  BY <1>5 DEF Recalibrate, Send
<1>6. CASE RecalibrateDone
  BY <1>6 DEF RecalibrateDone, Answered
<1>7. CASE Sector
  <2>1. CASE index = Len(blocks)
    BY <1>7, <2>1 DEF Sector, Return
  <2>2. CASE index # Len(blocks)
    <3>. DEFINE lba == blocks[index + 1]
    <3>1. lba \in Nat
      <4>1. lba \in Sectors
        BY <2>2
      <4>2. Sectors \subseteq Nat
        BY DEF Sectors
      <4>. QED
        BY <4>1, <4>2
    <3>2. CASE NeedsTrack(lba)
      <4>1. /\ pc = "sector" /\ pc' = "seek" /\ tries' = 0
            /\ UNCHANGED <<motor, blocks, index, lastTrack, out, result, cmd, irqTriggered>>
            /\ UNCHANGED <<busy, answer, head, dma, lost, trackFailed>>
        BY <1>7, <2>2, <3>2 DEF Sector
      <4>. QED
        BY <2>2, <4>1
    <3>3. CASE ~NeedsTrack(lba)
      <4>1. /\ out' = Append(out, CopyFrom(dma, lba)) /\ index' = index + 1
            /\ UNCHANGED <<pc, tries, motor, blocks, lastTrack, result, cmd, irqTriggered>>
            /\ UNCHANGED <<busy, answer, head, dma, lost, trackFailed>> /\ pc = "sector"
        BY <1>7, <2>2, <3>3 DEF Sector
      <4>2. Buffered'
        BY <4>1
      <4>3. ASSUME ~lost, ~trackFailed, NEW i \in 1..index' PROVE out'[i] = blocks[i]
        <5>1. CASE i = index + 1
          <6>1. lastTrack = TrackOf(lba) /\ lastTrack # NoTrack
            <7>1. lastTrack = TrackOf(lba)
              BY <3>3 DEF NeedsTrack
            <7>2. TrackOf(lba) \in Nat
              BY <3>1, SectorPlace
            <7>. QED
              BY <7>1, <7>2
          <6>2. dma = TrackOf(lba)
            BY <4>1, <4>3, <6>1
          <6>3. CopyFrom(dma, lba) = lba
            BY <3>1, <6>1, <6>2, SectorPlace
          <6>. QED
            BY <4>1, <5>1, <6>3
        <5>2. CASE i # index + 1
          BY <4>1, <4>3, <5>2
        <5>. QED
          BY <5>1, <5>2
      <4>. QED
        BY <4>1, <4>2, <4>3
    <3>. QED
      BY <3>2, <3>3
  <2>. QED
    BY <2>1, <2>2
<1>8. CASE Seek
  BY <1>8 DEF Seek, Send, Return
<1>9. CASE SeekDone
  BY <1>9 DEF SeekDone, Answered
<1>10. CASE Read
  BY <1>10 DEF Read, Send
<1>11. CASE ReadDone
  BY <1>11 DEF ReadDone, Answered
<1>12. ASSUME NEW list \in Seq(Sectors), Begin(list) PROVE Buffered' /\ Copied'
  BY <1>12 DEF Begin
<1>13. CASE UNCHANGED vars
  BY <1>13 DEF vars
<1>. QED
  BY <1>1, <1>2, <1>3, <1>4, <1>5, <1>6, <1>7, <1>8, <1>9, <1>10, <1>11, <1>12, <1>13 DEF Next, Driver

(* The invariant of the driver holds at every step of it.                  *)
THEOREM Inductive == Spec => []IInv
<1>1. IInv /\ [Next]_vars => IInv'
  BY StepTypes, StepProtocol, StepData DEF IInv
<1>. QED
  BY InitIInv, <1>1, PTL DEF Spec

(* The variables of the driver and of the controller keep their types.     *)
THEOREM TypeCorrect == Spec => []DriverTypeOK
<1>1. IInv => DriverTypeOK
  BY DEF IInv
<1>. QED
  BY Inductive, <1>1, PTL

(* floppy_read_blocks copies the sectors it was asked for.                 *)
THEOREM ReadsTheSectors == Spec => []ReadsWhatWasAsked
<1>1. ASSUME IInv PROVE ReadsWhatWasAsked
  <2>1. ASSUME pc = "ready", result, ~lost, ~trackFailed PROVE out = blocks
    <3>1. Len(out) = Len(blocks) /\ out \in Seq(Int) /\ blocks \in Seq(Sectors)
      BY <1>1, <2>1 DEF IInv, DriverTypeOK, Requested
    <3>2. \A i \in 1..Len(blocks) : out[i] = blocks[i]
      BY <1>1, <2>1 DEF IInv, Requested, Copied
    <3>. QED
      BY <3>1, <3>2
  <2>2. (pc \in {"sector", "seek", "read"} => motor) /\ (pc = "ready" => ~motor)
    BY <1>1 DEF IInv, Running
  <2>. QED
    BY <2>1, <2>2 DEF ReadsWhatWasAsked
<1>. QED
  BY Inductive, <1>1, PTL

-----------------------------------------------------------------------------
(***************************************************************************)
(* Reading a file (fat.c).                                                 *)
(***************************************************************************)
LEMMA Induction ==
  ASSUME NEW T, 0 \in T, \A k \in Nat : k \in T => k + 1 \in T
  PROVE  Nat \subseteq T
<1>. SUFFICES ASSUME Nat \ T # {} PROVE FALSE
  OBVIOUS
<1>. DEFINE less == {ss \in Nat \X Nat : ss[1] < ss[2]}
<1>1. \E k \in Nat \ T : \A j \in Nat \ T : <<j, k>> \notin less
  BY NatLessThanWellFounded, WFMin, Zenon DEF OpToRel
<1>2. \A j, k \in Nat : j < k => <<j, k>> \in less
  OBVIOUS
<1>. HIDE DEF less
<1>3. PICK k \in Nat \ T : \A j \in Nat \ T : ~(j < k)
  BY <1>1, <1>2
<1>4. k # 0 /\ k - 1 \in Nat /\ k - 1 \in T
  BY <1>3
<1>. QED
  BY <1>3, <1>4

(* The function c follows the table t from cluster start on.               *)
Follows(c, t, start, n) ==
  c = [i \in 1..n |-> IF i = 1 THEN start ELSE NextCluster(t, c[i - 1])]

LEMMA FollowedIs ==
  ASSUME NEW t, NEW start, NEW n \in Nat
  PROVE  Follows(Followed(t, start, n), t, start, n)
<1>. DEFINE T == {m \in Nat : \E c : Follows(c, t, start, m)}
<1>1. 0 \in T
  <2>1. Follows([i \in 1..0 |-> start], t, start, 0)
    BY DEF Follows
  <2>. QED
    BY <2>1
<1>2. ASSUME NEW m \in Nat, m \in T PROVE m + 1 \in T
  <2>1. PICK c : Follows(c, t, start, m)
    BY <1>2
  <2>2. PICK next : next = IF m = 0 THEN start ELSE NextCluster(t, c[m])
    OBVIOUS
  <2>3. PICK d : d = [i \in 1..(m + 1) |-> IF i <= m THEN c[i] ELSE next]
    OBVIOUS
  <2>4. \A i \in 1..m : c[i] = IF i = 1 THEN start ELSE NextCluster(t, c[i - 1])
    BY <2>1 DEF Follows
  <2>5. ASSUME NEW i \in 1..(m + 1)
        PROVE  d[i] = IF i = 1 THEN start ELSE NextCluster(t, d[i - 1])
    <3>1. CASE i <= m
      <4>1. i \in 1..m /\ d[i] = c[i] /\ (i # 1 => i - 1 \in 1..(m + 1) /\ i - 1 <= m)
        BY <2>3, <3>1
      <4>2. i # 1 => d[i - 1] = c[i - 1]
        BY <2>3, <4>1
      <4>. QED
        BY <2>4, <4>1, <4>2
    <3>2. CASE ~(i <= m)
      <4>1. i = m + 1 /\ d[i] = next /\ i - 1 = m /\ (i = 1 <=> m = 0)
        BY <2>3, <3>2
      <4>2. m # 0 => d[m] = c[m]
        BY <2>3
      <4>. QED
        BY <2>2, <4>1, <4>2
    <3>. QED
      BY <3>1, <3>2
  <2>6. Follows(d, t, start, m + 1)
    <3>1. d = [i \in 1..(m + 1) |-> d[i]]
      BY <2>3
    <3>. QED
      BY <2>5, <3>1 DEF Follows
  <2>. QED
    BY <2>6
<1>3. n \in T
  <2>. HIDE DEF T
  <2>. QED
    BY <1>1, <1>2, Induction
<1>4. \E c : Follows(c, t, start, n)
  BY <1>3
<1>. QED
  BY <1>4 DEF Followed, Follows

LEMMA FollowsOnce ==
  ASSUME NEW t, NEW start, NEW n \in Nat, NEW c, NEW d,
         Follows(c, t, start, n), Follows(d, t, start, n)
  PROVE  c = d
<1>1. /\ \A i \in 1..n : c[i] = IF i = 1 THEN start ELSE NextCluster(t, c[i - 1])
      /\ \A i \in 1..n : d[i] = IF i = 1 THEN start ELSE NextCluster(t, d[i - 1])
  BY DEF Follows
<1>. DEFINE T == {m \in Nat : m \in 1..n => c[m] = d[m]}
<1>2. 0 \in T
  OBVIOUS
<1>3. ASSUME NEW m \in Nat, m \in T PROVE m + 1 \in T
  <2>. SUFFICES ASSUME m + 1 \in 1..n PROVE c[m + 1] = d[m + 1]
    OBVIOUS
  <2>1. CASE m = 0
    BY <1>1, <2>1
  <2>2. CASE m # 0
    <3>1. m \in 1..n /\ (m + 1) - 1 = m /\ m + 1 # 1
      BY <2>2
    <3>2. c[m] = d[m]
      BY <1>3, <3>1
    <3>. QED
      BY <1>1, <3>1, <3>2
  <2>. QED
    BY <2>1, <2>2
<1>4. \A m \in Nat : m \in T
  <2>. HIDE DEF T
  <2>. QED
    BY <1>2, <1>3, Induction
<1>5. \A i \in 1..n : c[i] = d[i]
  BY <1>4
<1>6. c = [i \in 1..n |-> c[i]] /\ d = [i \in 1..n |-> d[i]]
  BY DEF Follows
<1>. QED
  BY <1>5, <1>6

(* The chain: clusters in use, and as many as there are up to n.           *)
Ends(c, k, n) == (\A i \in 1..k : InUse(c[i])) /\ (k = n \/ ~InUse(c[k + 1]))

LEMMA ChainIs ==
  ASSUME NEW t, NEW start, NEW n \in Nat
  PROVE  \E k \in 0..n : /\ Ends(Followed(t, start, n), k, n)
                         /\ Chain(t, start, n) = [i \in 1..k |-> Followed(t, start, n)[i]]
<1>1. PICK c : c = Followed(t, start, n)
  OBVIOUS
<1>. DEFINE T == {m \in Nat : m \in 0..n => (\A i \in 1..m : InUse(c[i])) \/ \E j \in 0..n : Ends(c, j, n)}
<1>2. 0 \in T
  OBVIOUS
<1>3. ASSUME NEW m \in Nat, m \in T PROVE m + 1 \in T
  <2>. SUFFICES ASSUME m + 1 \in 0..n, ~\E j \in 0..n : Ends(c, j, n)
                PROVE  \A i \in 1..(m + 1) : InUse(c[i])
    OBVIOUS
  <2>1. m \in 0..n /\ m # n
    OBVIOUS
  <2>2. \A i \in 1..m : InUse(c[i])
    BY <1>3, <2>1
  <2>3. InUse(c[m + 1])
    BY <2>1, <2>2 DEF Ends
  <2>4. \A i \in 1..(m + 1) : i = m + 1 \/ i \in 1..m
    OBVIOUS
  <2>. QED
    BY <2>2, <2>3, <2>4
<1>4. n \in T
  <2>. HIDE DEF T
  <2>. QED
    BY <1>2, <1>3, Induction
<1>5. \E j \in 0..n : Ends(c, j, n)
  BY <1>4 DEF Ends
<1>6. PICK k : k = CHOOSE j \in 0..n : Ends(c, j, n)
  OBVIOUS
<1>7. k \in 0..n /\ Ends(c, k, n)
  BY <1>5, <1>6
<1>8. Chain(t, start, n) = [i \in 1..k |-> c[i]]
  BY <1>1, <1>6 DEF Chain, Ends
<1>. QED
  BY <1>1, <1>7, <1>8

LEMMA BlockNumbers ==
  ASSUME NEW t, NEW start, NEW n \in Nat, NEW g \in [1..n -> Garbage]
  PROVE  BlockList(t, start, n, g) \in Seq(Sectors)
<1>1. PICK k \in 0..n : /\ Ends(Followed(t, start, n), k, n)
                        /\ Chain(t, start, n) = [i \in 1..k |-> Followed(t, start, n)[i]]
  BY ChainIs
<1>2. PICK chain : chain = Chain(t, start, n)
  OBVIOUS
<1>3. \A i \in DOMAIN chain : InUse(chain[i])
  BY <1>1, <1>2 DEF Ends
<1>4. \A c : InUse(c) => BlockOf(c) \in Sectors
  BY DEF InUse, BlockOf, DataStart, RootStart, RootLength, TableStart, TableSize, TableCount,
         ReservedSectors, Sectors, SectorsPerTrack
<1>5. \A i \in 1..n : g[i] \in Sectors
  BY FatAssumption
<1>6. PICK list : list = BlockList(t, start, n, g)
  OBVIOUS
<1>7. list = [i \in 1..n |-> IF i \in DOMAIN chain THEN BlockOf(chain[i]) ELSE g[i]]
  BY <1>2, <1>6 DEF BlockList
<1>8. list \in [1..n -> Sectors]
  BY <1>3, <1>4, <1>5, <1>7
<1>. QED
  BY <1>6, <1>8

(* A chain that is known as a whole is the same in the part of the table   *)
(* that is known.                                                          *)
LEMMA WholeChain ==
  ASSUME NEW t, NEW start, NEW n \in Nat, DOMAIN Chain(t, start, n) = 1..n,
         \A i \in DOMAIN Chain(t, start, n) : Chain(t, start, n)[i] \in Known
  PROVE  Chain(Restrict(t, DOMAIN t \cap Known), start, n) = Chain(t, start, n)
<1>1. PICK u : u = Restrict(t, DOMAIN t \cap Known)
  OBVIOUS
<1>2. PICK c : c = Followed(t, start, n)
  OBVIOUS
<1>3. PICK d : d = Followed(u, start, n)
  OBVIOUS
<1>4. PICK k \in 0..n : Ends(c, k, n) /\ Chain(t, start, n) = [i \in 1..k |-> c[i]]
  BY <1>2, ChainIs
<1>5. PICK m \in 0..n : Ends(d, m, n) /\ Chain(u, start, n) = [i \in 1..m |-> d[i]]
  BY <1>3, ChainIs
<1>6. k = n
  <2>1. 1..k = 1..n
    BY <1>4
  <2>. QED
    BY <2>1
<1>7. \A i \in 1..n : c[i] \in Known /\ InUse(c[i])
  BY <1>4, <1>6 DEF Ends
<1>8. \A e \in Known : NextCluster(u, e) = NextCluster(t, e)
  BY <1>1 DEF NextCluster, Restrict
<1>9. Follows(c, t, start, n) /\ Follows(d, u, start, n)
  BY <1>2, <1>3, FollowedIs
<1>10. Follows(c, u, start, n)
  <2>1. /\ c = [i \in 1..n |-> c[i]]
        /\ \A i \in 1..n : c[i] = IF i = 1 THEN start ELSE NextCluster(t, c[i - 1])
    BY <1>9 DEF Follows
  <2>2. ASSUME NEW i \in 1..n PROVE c[i] = IF i = 1 THEN start ELSE NextCluster(u, c[i - 1])
    <3>1. i # 1 => i - 1 \in 1..n
      OBVIOUS
    <3>. QED
      BY <1>7, <1>8, <2>1, <3>1
  <2>. QED
    BY <2>1, <2>2 DEF Follows
<1>11. d = c
  BY <1>9, <1>10, FollowsOnce
<1>12. m = n
  <2>1. m # n => m + 1 \in 1..n
    OBVIOUS
  <2>. QED
    BY <1>5, <1>7, <1>11, <2>1 DEF Ends
<1>. QED
  BY <1>1, <1>4, <1>5, <1>6, <1>11, <1>12

-----------------------------------------------------------------------------
(* What fat_init has and what it asked for last.                           *)
Reading ==
  /\ fs \in {"none", "header", "table", "root", "file", "fault"}
  /\ disk \in Disks
  /\ DOMAIN table \subseteq DOMAIN disk.fat
  /\ fs = "file" => \E g \in [1..disk.clusters -> Garbage] :
       blocks = BlockList(table, disk.start, disk.clusters, g)

LEMMA StepReading ==
  ASSUME Reading, [FNext]_fVars
  PROVE  Reading' /\ [Next]_vars
<1>. USE DEF fatVars
<1>1. \A list : Begin(list) => blocks' = list
  BY DEF Begin
<1>2. \A s \in Sectors : <<s>> \in Seq(Sectors)
  OBVIOUS
<1>3. {0, TableStart, RootStart} \subseteq Sectors
  BY DEF RootStart, TableStart, TableSize, TableCount, ReservedSectors, Sectors, SectorsPerTrack
<1>4. DOMAIN NoTable = {}
  BY DEF NoTable
<1>5. CASE FloppyCommand
  <2>1. Begin(<<0>>) /\ fs' = "header" /\ UNCHANGED <<disk, table>>
    BY <1>5 DEF FloppyCommand
  <2>2. <<0>> \in Seq(Sectors)
    BY <1>2, <1>3
  <2>. QED
    BY <2>1, <2>2 DEF Reading, Next
<1>6. CASE HeaderRead
  <2>1. /\ fs' \in {"table", "fault"} /\ UNCHANGED <<disk, table>>
        /\ Begin(<<TableStart>>) \/ UNCHANGED vars
    BY <1>6 DEF HeaderRead
  <2>2. <<TableStart>> \in Seq(Sectors)
    BY <1>2, <1>3
  <2>. QED
    BY <2>1, <2>2 DEF Reading, Next
<1>7. CASE TableRead
  <2>1. /\ fs' = "root" /\ UNCHANGED disk /\ Begin(<<RootStart>>)
        /\ table' = [c \in DOMAIN disk.fat \cap Known |-> disk.fat[c]] \/ table' = NoTable
    BY <1>7 DEF TableRead
  <2>2. <<RootStart>> \in Seq(Sectors)
    BY <1>2, <1>3
  <2>3. DOMAIN table' \subseteq DOMAIN disk'.fat
    BY <1>4, <2>1
  <2>. QED
    BY <2>1, <2>2, <2>3 DEF Reading, Next
<1>8. CASE RootRead
  <2>1. /\ UNCHANGED disk
        /\ \/ fs' = "fault" /\ UNCHANGED <<vars, table>>
           \/ fs' = "none" /\ table' = NoTable /\ UNCHANGED vars
           \/ \E g \in [1..disk.clusters -> Garbage] :
                /\ Begin(BlockList(table, disk.start, disk.clusters, g))
                /\ fs' = "file" /\ UNCHANGED table
    BY <1>8 DEF RootRead
  <2>2. CASE fs' = "fault" /\ UNCHANGED <<vars, table>>
    BY <2>1, <2>2 DEF Reading
  <2>3. CASE fs' = "none" /\ table' = NoTable /\ UNCHANGED vars
    BY <1>4, <2>1, <2>3 DEF Reading
  <2>4. ASSUME NEW g \in [1..disk.clusters -> Garbage],
               Begin(BlockList(table, disk.start, disk.clusters, g)), fs' = "file", UNCHANGED table
        PROVE  Reading' /\ Next
    <3>1. disk.clusters \in Nat
      BY FatAssumption DEF Reading
    <3>2. BlockList(table, disk.start, disk.clusters, g) \in Seq(Sectors)
      BY <3>1, BlockNumbers
    <3>3. Next
      BY <2>4, <3>2 DEF Next
    <3>4. blocks' = BlockList(table', disk'.start, disk'.clusters, g)
      BY <1>1, <2>1, <2>4
    <3>. QED
      BY <2>1, <2>4, <3>3, <3>4 DEF Reading
  <2>. QED
    BY <2>1, <2>2, <2>3, <2>4
<1>9. CASE FileRead
  BY <1>4, <1>9 DEF FileRead, Reading
<1>10. CASE (Interrupt \/ Driver) /\ UNCHANGED fatVars
  <2>1. Next
    BY <1>10 DEF Next
  <2>2. blocks' = blocks
    <3>1. CASE Interrupt
      BY <3>1 DEF Interrupt, request
    <3>2. CASE Driver
      BY <3>2 DEF Driver, Wait, Detect, ResetDone, Recalibrate, RecalibrateDone, Sector, Seek,
                  SeekDone, Read, ReadDone, Return, Send, request
    <3>. QED
      BY <1>10, <3>1, <3>2
  <2>. QED
    BY <1>10, <2>1, <2>2 DEF Reading
<1>11. CASE UNCHANGED fVars
  BY <1>11 DEF fVars, vars, request, Reading
<1>. QED
  BY <1>5, <1>6, <1>7, <1>8, <1>9, <1>10, <1>11 DEF FNext

LEMMA FileReading == FSpec => []Reading
<1>1. FInit => Reading
  BY DEF FInit, Reading, NoTable
<1>2. Reading /\ [FNext]_fVars => Reading'
  BY StepReading
<1>. QED
  BY <1>1, <1>2, PTL DEF FSpec

(* fat.c uses the driver as the driver expects: each request is a list of  *)
(* sector numbers, made when the last one has returned.  So what is true   *)
(* of the driver is true of it below the file system.                      *)
THEOREM UsesTheDriver == FSpec => Spec
<1>1. FInit => Init
  BY DEF FInit
<1>2. Reading /\ [FNext]_fVars => [Next]_vars
  BY StepReading
<1>. QED
  BY FileReading, <1>1, <1>2, PTL DEF FSpec, Spec

(* The variables of the file system and of the driver keep their types;    *)
(* every block number that fat_entry_read_fat12 makes from a chain is one  *)
(* of a sector.                                                            *)
THEOREM FatTypeCorrect == FSpec => []TypeOK
<1>1. Reading /\ DriverTypeOK => TypeOK
  BY DEF Reading, TypeOK
<1>. QED
  BY FileReading, UsesTheDriver, TypeCorrect, <1>1, PTL

(* A file whose chain is known is read in the order of its chain.          *)
THEOREM ReadsTheFile == FSpec => []FileInOrder
<1>1. ASSUME Reading, ReadsWhatWasAsked PROVE FileInOrder
  <2>1. PICK whole : whole = Chain(disk.fat, disk.start, disk.clusters)
    OBVIOUS
  <2>2. SUFFICES
          ASSUME fs = "file", pc = "ready", result, ~lost, ~trackFailed,
                 table = Restrict(disk.fat, DOMAIN disk.fat \cap Known),
                 DOMAIN whole = 1..disk.clusters, \A i \in DOMAIN whole : whole[i] \in Known
          PROVE  out = [i \in 1..disk.clusters |-> BlockOf(whole[i])]
    BY <2>1 DEF FileInOrder
  <2>3. PICK g : blocks = BlockList(table, disk.start, disk.clusters, g)
    BY <1>1, <2>2 DEF Reading
  <2>4. disk.clusters \in Nat
    BY <1>1, FatAssumption DEF Reading
  <2>5. Chain(table, disk.start, disk.clusters) = whole
    BY <2>1, <2>2, <2>4, WholeChain
  <2>6. blocks = [i \in 1..disk.clusters |-> BlockOf(whole[i])]
    BY <2>2, <2>3, <2>5 DEF BlockList
  <2>7. out = blocks
    BY <1>1, <2>2 DEF ReadsWhatWasAsked
  <2>. QED
    BY <2>6, <2>7
<1>. QED
  BY FileReading, UsesTheDriver, ReadsTheSectors, <1>1, PTL
=============================================================================
