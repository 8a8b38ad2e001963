------------------------------- MODULE Floppy -------------------------------
(***************************************************************************)
(* The floppy driver (floppy.c), which runs in one thread, and the 82077AA *)
(* controller with its drive, which answers a command when it pleases and  *)
(* then raises IRQ6; floppy_callback notes the interrupt in irqTriggered.  *)
(*                                                                         *)
(* Every command is sent, waited for and answered: pc goes through "wait"  *)
(* and "answer" while cmd says which command it is.  No caller looks at    *)
(* the value of floppy_wait_for_irq, and a byte that is not there in time  *)
(* reads as 0.  So once a wait has timed out the driver may take the       *)
(* answer of one command for that of another: after that (lost) the model  *)
(* lets every answer be anything.                                          *)
(*                                                                         *)
(* Abstractions: drive A is the only drive and blockSize is 1, as in every *)
(* call; what a sector holds is its number.  Sectors of the disk are those *)
(* with a track in Tracks; a caller may ask for others.                    *)
(***************************************************************************)
EXTENDS Integers, Sequences

CONSTANTS
  NumTracks,    (* tracks (cylinders) of the disk: 80                       *)
  RetryCount    (* FLOPPY_CMD_RETRY_COUNT: 10                               *)

ASSUME FloppyAssumption == NumTracks \in 1..256 /\ RetryCount \in Nat \ {0}

SectorsPerTrack == 18           \* FLOPPY_SECTORS_PER_TRACK
Tracks == 0..(NumTracks - 1)
Sectors == 0..(2 * SectorsPerTrack * 256 - 1)   \* bound: track fits in a byte
NoTrack == -1                   \* lastTrack, and a buffer that holds no track
NoData == -1                    \* what is read from such a buffer

(* floppy_lba_to_chs, with sectors counted from 0.                         *)
TrackOf(lba)  == lba \div (2 * SectorsPerTrack)
HeadOf(lba)   == (lba % (2 * SectorsPerTrack)) \div SectorsPerTrack
SectorOf(lba) == (lba % (2 * SectorsPerTrack)) % SectorsPerTrack

VARIABLES
  pc,           (* where the driver is; "ready" between requests            *)
  cmd,          (* the command last sent                                    *)
  tries,        (* i in the retry loops                                     *)
  motor,        (* whether the motor is on                                  *)
  irqTriggered,
  blocks, index, lastTrack, out,  (* floppy_read_blocks: the sectors asked   *)
                (* for, how many are copied, what the copies hold           *)
  result,       (* what it returned last                                    *)
  busy,         (* the controller: whether it is executing cmd,             *)
  answer,       (* and what it will answer: "ok", "retry", "protected"      *)
  head,         (* the cylinder the drive's head is on                      *)
  dma,          (* the track that the DMA buffer holds                      *)
  lost,         (* history: a wait has timed out since the start            *)
  trackFailed   (* history: a track of this request could not be read       *)

device  == <<busy, answer, head, dma>>
request == <<blocks, index, lastTrack, out, result>>
history == <<lost, trackFailed>>
vars == <<pc, cmd, tries, motor, irqTriggered, request, device, history>>

Commands == {"reset", "recalibrate", "seek", "read"}
Answers  == {"ok", "retry", "protected"}

Init ==
  /\ pc = "boot" /\ cmd = "reset" /\ tries = 0 /\ motor = FALSE
  /\ irqTriggered = FALSE
  /\ blocks = <<>> /\ index = 0 /\ lastTrack = NoTrack /\ out = <<>> /\ result = FALSE
  /\ busy = FALSE /\ answer = "ok" /\ head \in Tracks /\ dma = NoTrack
  /\ lost = FALSE /\ trackFailed = FALSE

-----------------------------------------------------------------------------
(* The controller finishes a command and raises its interrupt, on time or  *)
(* after the driver has stopped waiting.  It finds a track only where the  *)
(* head is, and a failed read leaves part of a track in the buffer.        *)
Interrupt ==
  /\ busy
  /\ busy' = FALSE
  /\ irqTriggered' = TRUE           \* floppy_callback
  /\ answer' \in Answers
  /\ CASE cmd = "read" /\ ~lost ->
            /\ head' = head
            /\ answer' = "ok" => head = TrackOf(blocks[index + 1])
            /\ dma' = IF answer' = "ok" THEN head ELSE NoTrack
       [] cmd = "reset" /\ ~lost -> UNCHANGED <<head, dma>>
       [] cmd \in {"seek", "recalibrate"} /\ ~lost -> head' \in Tracks /\ dma' = dma
       [] lost -> head' \in Tracks /\ dma' \in Tracks \cup {NoTrack}
  /\ UNCHANGED <<pc, cmd, tries, motor, request, history>>

(* A command is written to the FIFO byte by byte; a controller that is not *)
(* ready does not get it (floppy_write_data).                              *)
Send(c) ==
  /\ cmd' = c
  /\ busy' = TRUE
  /\ pc' = "wait"
  /\ UNCHANGED <<irqTriggered, answer, head, dma>>

(* floppy_wait_for_irq                                                     *)
Wait ==
  /\ pc = "wait"
  /\ irqTriggered \/ busy
  /\ lost' = (lost \/ ~irqTriggered)
  /\ irqTriggered' = FALSE
  /\ pc' = "answer"
  /\ UNCHANGED <<cmd, tries, motor, request, device, trackFailed>>

(* What the driver takes for the answer of a command: the cylinder from    *)
(* floppy_sense_interrupt, and whether a status register shows an error.   *)
Answered(c, a, cylinder) ==
  /\ pc = "answer" /\ cmd = c
  /\ IF lost THEN a \in Answers /\ cylinder \in Tracks
             ELSE a = answer /\ cylinder = head

-----------------------------------------------------------------------------
(* floppy_init: drives detected in CMOS or not, the handler installed and  *)
(* the controller reset.                                                   *)
Detect ==
  /\ pc = "boot"
  /\ \/ pc' = "absent" /\ UNCHANGED <<cmd, irqTriggered, device>>
     \/ Send("reset")
  /\ UNCHANGED <<tries, motor, request, history>>

(* floppy_reset ends with four sense commands whose answers are dropped.   *)
(* After the first reset (tries is 0) the version is asked for and the DMA *)
(* frame taken, either of which may end the start, and the second reset is *)
(* done; after the second one drive A is set up, if there is one.          *)
ResetDone ==
  /\ \E a \in Answers, c \in Tracks : Answered("reset", a, c)
  /\ \/ pc' = "absent" /\ UNCHANGED <<cmd, tries, motor, irqTriggered, device>>
     \/ tries = 0 /\ tries' = 1 /\ Send("reset") /\ UNCHANGED motor
     \/ /\ tries = 1 /\ tries' = 0 /\ motor' = TRUE /\ pc' = "calibrate"
        /\ UNCHANGED <<cmd, irqTriggered, device>>
  /\ UNCHANGED <<request, history>>

(* One try too many.                                                       *)
RecalibrateMutant ==
  /\ pc = "calibrate"
  /\ IF tries <= RetryCount
     THEN Send("recalibrate") /\ UNCHANGED motor
     ELSE pc' = "ready" /\ motor' = FALSE /\ UNCHANGED <<cmd, irqTriggered, device>>
  /\ UNCHANGED <<tries, request, history>>

(* floppy_recalibrate within floppy_drive_init, which does not look at its *)
(* result; the device is then registered (storage_register).               *)
Recalibrate ==
  /\ pc = "calibrate"
  /\ IF tries < RetryCount
     THEN Send("recalibrate") /\ UNCHANGED motor
     ELSE pc' = "ready" /\ motor' = FALSE /\ UNCHANGED <<cmd, irqTriggered, device>>
  /\ UNCHANGED <<tries, request, history>>

RecalibrateDone ==
  /\ \E a \in Answers, c \in Tracks :
       /\ Answered("recalibrate", a, c)
       /\ IF c = 0 THEN pc' = "ready" /\ motor' = FALSE /\ UNCHANGED tries
                   ELSE pc' = "calibrate" /\ tries' = tries + 1 /\ UNCHANGED motor
  /\ UNCHANGED <<cmd, irqTriggered, request, device, history>>

-----------------------------------------------------------------------------
(* floppy_read_blocks is called.                                           *)
Begin(list) ==
  /\ pc = "ready"
  /\ pc' = "sector" /\ motor' = TRUE
  /\ blocks' = list /\ index' = 0 /\ lastTrack' = NoTrack /\ out' = <<>>
  /\ result' = FALSE /\ trackFailed' = FALSE
  /\ UNCHANGED <<cmd, tries, irqTriggered, device, lost>>

Return(ok) ==
  /\ pc' = "ready" /\ motor' = FALSE /\ result' = ok
  /\ UNCHANGED <<blocks, index, lastTrack, out>>

(* The head is forgotten.                                                  *)
CopyFromMutant(track, lba) ==
  IF track = NoTrack THEN NoData ELSE 2 * SectorsPerTrack * track + SectorOf(lba)

(* The sector is copied from its place in the buffer.                      *)
CopyFrom(track, lba) ==
  IF track = NoTrack THEN NoData
  ELSE 2 * SectorsPerTrack * track + SectorsPerTrack * HeadOf(lba) + SectorOf(lba)

(* The track in the buffer is taken for granted.                           *)
NeedsTrackMutant(lba) == lastTrack = NoTrack
NeedsTrack(lba) == lastTrack # TrackOf(lba)

(* The body of the loop over the sectors: a sector on another track is     *)
(* sought first, any other is copied; after the last one the motor is      *)
(* switched off.                                                           *)
Sector ==
  /\ pc = "sector"
  /\ IF index = Len(blocks)
     THEN Return(TRUE) /\ UNCHANGED tries
     ELSE LET lba == blocks[index + 1] IN
          IF NeedsTrack(lba)
          THEN pc' = "seek" /\ tries' = 0 /\ UNCHANGED <<motor, request>>
          ELSE /\ out' = Append(out, CopyFrom(dma, lba))
               /\ index' = index + 1
               /\ UNCHANGED <<pc, tries, motor, blocks, lastTrack, result>>
  /\ UNCHANGED <<cmd, irqTriggered, device, history>>

(* floppy_seek; when it gives up, so does the request.                     *)
Seek ==
  /\ pc = "seek"
  /\ IF tries < RetryCount
     THEN Send("seek") /\ UNCHANGED <<motor, request>>
     ELSE Return(FALSE) /\ UNCHANGED <<cmd, irqTriggered, device>>
  /\ UNCHANGED <<tries, history>>

(* Failed tries are not counted.                                           *)
SeekDoneMutant ==
  /\ \E a \in Answers, c \in Tracks :
       /\ Answered("seek", a, c)
       /\ LET track == TrackOf(blocks[index + 1]) IN
          IF a = "ok" /\ c = track
          THEN pc' = "read" /\ tries' = 0 /\ lastTrack' = track
          ELSE pc' = "seek" /\ UNCHANGED <<tries, lastTrack>>
  /\ UNCHANGED <<cmd, motor, irqTriggered, blocks, index, out, result, device, history>>

SeekDone ==
  /\ \E a \in Answers, c \in Tracks :
       /\ Answered("seek", a, c)
       /\ LET track == TrackOf(blocks[index + 1]) IN
          IF a = "ok" /\ c = track
          THEN pc' = "read" /\ tries' = 0 /\ lastTrack' = track
          ELSE pc' = "seek" /\ tries' = tries + 1 /\ UNCHANGED lastTrack
  /\ UNCHANGED <<cmd, motor, irqTriggered, blocks, index, out, result, device, history>>

(* floppy_read_track; floppy_read_blocks goes on whatever it returns.      *)
Read ==
  /\ pc = "read"
  /\ IF tries < RetryCount
     THEN Send("read") /\ UNCHANGED trackFailed
     ELSE /\ pc' = "sector" /\ trackFailed' = TRUE
          /\ UNCHANGED <<cmd, irqTriggered, device>>
  /\ UNCHANGED <<tries, motor, request, lost>>

ReadDone ==
  /\ \E a \in Answers, c \in Tracks :
       /\ Answered("read", a, c)
       /\ CASE a = "ok"        -> pc' = "sector" /\ UNCHANGED <<tries, trackFailed>>
            [] a = "protected" -> pc' = "sector" /\ trackFailed' = TRUE /\ UNCHANGED tries
            [] a = "retry"     -> pc' = "read" /\ tries' = tries + 1 /\ UNCHANGED trackFailed
  /\ UNCHANGED <<cmd, motor, irqTriggered, request, device, lost>>

Driver ==
  \/ Wait \/ Detect \/ ResetDone \/ Recalibrate \/ RecalibrateDone
  \/ Sector \/ Seek \/ SeekDone \/ Read \/ ReadDone

Next ==
  \/ Interrupt
  \/ Driver
  \/ \E list \in Seq(Sectors) : Begin(list)

-----------------------------------------------------------------------------
(* The driver's thread is scheduled, and its waits time out by themselves. *)
(* Nothing is assumed of the controller.                                   *)
Spec == Init /\ [][Next]_vars /\ WF_vars(Driver)

DriverTypeOK ==
  /\ pc \in {"boot", "absent", "calibrate", "ready", "sector", "seek", "read",
            "wait", "answer"}
  /\ cmd \in Commands /\ tries \in 0..RetryCount
  /\ motor \in BOOLEAN /\ irqTriggered \in BOOLEAN
  /\ blocks \in Seq(Sectors) /\ index \in 0..Len(blocks)
  /\ lastTrack \in Tracks \cup {NoTrack}
  /\ out \in Seq(Int) /\ Len(out) = index
  /\ result \in BOOLEAN
  /\ busy \in BOOLEAN /\ answer \in Answers
  /\ head \in Tracks /\ dma \in Tracks \cup {NoTrack}
  /\ lost \in BOOLEAN /\ trackFailed \in BOOLEAN

(* As long as no wait has timed out: when floppy_read_blocks has returned  *)
(* true and could read each track, what it copied for every sector of its  *)
(* list is that sector, from whatever tracks, heads and in whatever order; *)
(* and the motor runs during a request and at no other time.               *)
ReadsWhatWasAsked ==
  /\ pc = "ready" /\ result /\ ~lost /\ ~trackFailed => out = blocks
  /\ pc \in {"sector", "seek", "read"} => motor
  /\ pc = "ready" => ~motor
=============================================================================
