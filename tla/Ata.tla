-------------------------------- MODULE Ata --------------------------------
(***************************************************************************)
(* drivers/ata.c: the polling driver and the drive it talks to through     *)
(* the status register.  The driver and the drive take turns in any order. *)
(* A loop that reads the status until a bit changes is a step that waits   *)
(* for the bit.  The drive is external: it does what the driver's comments *)
(* on the status bits say, and it may take a while to raise BSY after a    *)
(* command was written.                                                    *)
(***************************************************************************)
EXTENDS Naturals, Sequences

CONSTANTS Sectors,    \* sector addresses
          Words       \* 16-bit words of a sector

ASSUME WordsAssumption == Words \in Nat \ {0}

(* How the drive may end a command: an error may come with a sector's      *)
(* worth of meaningless words or alone.                                    *)
Outcomes == {"ok", "error_data", "error"}

Identify == "identify"      \* what the drive sends for CMD_IDENTIFY
ASSUME IdentifyAssumption == Identify \notin Sectors

VARIABLES
  phase,    \* of the drive
  err,      \* its ERR bit
  addr,     \* its sector number, cylinder and head registers
  sends,    \* what the data register holds words of
  left,     \* words to read before DRQ clears
  pc,       \* where the driver is
  want,     \* the sector asked for
  buf,      \* the caller's buffer
  result,   \* what ata_read_sector_chs returned
  \* history variables
  ended     \* how the drive ended the command of this call, if it was sent

drive  == <<phase, err, addr, sends, left>>
driver == <<pc, want, buf, result>>
vars   == <<drive, driver, ended>>

Drq == phase = "data"
Bsy == phase \in {"resetting", "busy"}
Rdy == phase \in {"idle", "accepted", "data"}

InitPC == {"off", "rst_wait", "select", "id_send", "id_send_wait", "id_status",
           "id_busy", "id_drq", "id_words"}
ReadPC == {"rd_send", "rd_send_wait", "rd_wait", "rd_words"}

Buffers == Seq(Sectors \cup {Identify, "junk"})

TypeOK == /\ phase \in {"absent", "resetting", "idle", "accepted", "busy", "data"}
          /\ err \in BOOLEAN
          /\ addr \in Sectors \cup {Identify}
          /\ sends \in Sectors \cup {Identify, "junk"}
          /\ left \in 0 .. Words
          /\ pc \in {"ready", "failed"} \cup InitPC \cup ReadPC
          /\ want \in Sectors \cup {Identify}
          /\ buf \in Buffers /\ Len(buf) <= Words
          /\ result \in {0, 1}
          /\ ended \in Outcomes \cup {"not_sent", "not_ended"}

Init == /\ phase \in {"idle", "absent"}
        /\ err = FALSE
        /\ addr = Identify
        /\ sends = "junk"
        /\ left = 0
        /\ pc = "off"
        /\ want = Identify
        /\ buf = <<>>
        /\ result = 0
        /\ ended = "not_sent"

-----------------------------------------------------------------------------
(* The drive.                                                              *)

(* A written command is accepted, but for a drive that has data to hand    *)
(* over: that one goes on with it.                                         *)
WriteCommand(a) == /\ phase' = IF Drq THEN phase ELSE "accepted"
                   /\ addr' = a
                   /\ ended' = "not_ended"
                   /\ UNCHANGED <<err, sends, left>>

DriveStarts == /\ phase = "accepted"
               /\ phase' = "busy"
               /\ err' = FALSE
               /\ UNCHANGED <<addr, sends, left, driver, ended>>

DriveEnds(how) == /\ phase = "busy"
                  /\ err' = (how # "ok")
                  /\ phase' = IF how = "error" THEN "idle" ELSE "data"
                  /\ sends' = IF how = "ok" THEN addr ELSE "junk"
                  /\ left' = IF how = "error" THEN 0 ELSE Words
                  /\ ended' = how
                  /\ UNCHANGED <<addr, driver>>

DriveReset(fault) == /\ phase = "resetting"
                     /\ phase' = "idle"
                     /\ err' = fault
                     /\ UNCHANGED <<addr, sends, left, driver, ended>>

Drive == \/ DriveStarts
         \/ \E how \in Outcomes : DriveEnds(how)
         \/ \E fault \in BOOLEAN : DriveReset(fault)

-----------------------------------------------------------------------------
(* ata_init: _reset, ata_select_drive and _identify.                       *)

Goto(here, there) == pc = here /\ pc' = there

Reset == /\ Goto("off", "rst_wait")
         /\ phase' = IF phase = "absent" THEN phase ELSE "resetting"
         /\ UNCHANGED <<err, addr, sends, left, want, buf, result, ended>>

RstWait == /\ Goto("rst_wait", "select")
           /\ ~Bsy
           /\ UNCHANGED <<drive, want, buf, result, ended>>

Select == /\ pc = "select"
          /\ Rdy
          /\ pc' = IF err THEN "failed" ELSE "id_send"
          /\ UNCHANGED <<drive, want, buf, result, ended>>

(* _identify does not look at what _send_cmd returns. *)
IdSend == /\ pc = "id_send"
          /\ pc' = IF Drq THEN "id_status" ELSE "id_send_wait"
          /\ UNCHANGED <<drive, want, buf, result, ended>>

IdSendWait == /\ Goto("id_send_wait", "id_status")
              /\ ~Bsy
              /\ WriteCommand(Identify)
              /\ UNCHANGED <<want, buf, result>>

(* A status register of zero: the drive does not exist. *)
IdStatus == /\ pc = "id_status"
            /\ pc' = IF phase = "absent" THEN "failed" ELSE "id_busy"
            /\ UNCHANGED <<drive, want, buf, result, ended>>

IdBusy == /\ Goto("id_busy", "id_drq")
          /\ ~Bsy
          /\ UNCHANGED <<drive, want, buf, result, ended>>

IdDrq == /\ Goto("id_drq", "id_words")
         /\ Drq
         /\ buf' = <<>>
         /\ UNCHANGED <<drive, want, result, ended>>

-----------------------------------------------------------------------------
(* ata_read_sector_chs with arguments in range.                            *)

Read(s) == /\ Goto("ready", "rd_send")
           /\ want' = s
           /\ buf' = <<>>
           /\ ended' = "not_sent"
           /\ UNCHANGED <<drive, result>>

Return(r) == /\ pc' = "ready"
             /\ result' = r

(* Mutant: DRQ is not looked at before a command. *)
RdSendAnyway == /\ Goto("rd_send", "rd_send_wait")
                /\ UNCHANGED <<drive, result, want, buf, ended>>

RdSend == /\ pc = "rd_send"
          /\ IF Drq THEN Return(1)
             ELSE pc' = "rd_send_wait" /\ UNCHANGED result
          /\ UNCHANGED <<drive, want, buf, ended>>

RdSendWait == /\ Goto("rd_send_wait", "rd_wait")
              /\ ~Bsy
              /\ WriteCommand(want)
              /\ UNCHANGED <<want, buf, result>>

(* Mutant: the wait ends as soon as the drive is not busy. *)
RdWaitNotBusy == /\ pc = "rd_wait"
                 /\ ~Bsy
                 /\ IF err THEN Return(1)
                    ELSE pc' = "rd_words" /\ UNCHANGED result
                 /\ UNCHANGED <<drive, want, buf, ended>>

(* Mutant: ERR is not looked at. *)
RdWaitNoErr == /\ Goto("rd_wait", "rd_words")
               /\ Drq /\ ~Bsy
               /\ UNCHANGED <<drive, want, buf, result, ended>>

RdWait == /\ pc = "rd_wait"
          /\ Drq /\ ~Bsy
          /\ IF err THEN Return(1)
             ELSE pc' = "rd_words" /\ UNCHANGED result
          /\ UNCHANGED <<drive, want, buf, ended>>

(* Mutant: one word more than a sector has. *)
WordOneMore == /\ pc \in {"id_words", "rd_words"}
               /\ Drq
               /\ buf' = Append(buf, sends)
               /\ left' = left - 1
               /\ phase' = IF left = 1 THEN "idle" ELSE phase
               /\ IF Len(buf) = Words THEN Return(0)
                  ELSE UNCHANGED <<pc, result>>
               /\ UNCHANGED <<err, addr, sends, want, ended>>

(* _read_buffer_data and _read_data: each word waits for DRQ, which the    *)
(* drive clears with the last one.                                         *)
Word == /\ pc \in {"id_words", "rd_words"}
        /\ Drq
        /\ buf' = Append(buf, sends)
        /\ left' = left - 1
        /\ phase' = IF left = 1 THEN "idle" ELSE phase
        /\ IF Len(buf) + 1 = Words THEN Return(0)
           ELSE UNCHANGED <<pc, result>>
        /\ UNCHANGED <<err, addr, sends, want, ended>>

Driver == \/ Reset \/ RstWait \/ Select
          \/ IdSend \/ IdSendWait \/ IdStatus \/ IdBusy \/ IdDrq
          \/ RdSend \/ RdSendWait \/ RdWait
          \/ Word

Next == Drive \/ Driver \/ \E s \in Sectors : Read(s)

(* The loops poll for ever, and a drive ends what it has begun. *)
Spec == Init /\ [][Next]_vars /\ WF_vars(Driver) /\ WF_vars(Drive)

-----------------------------------------------------------------------------
(* Properties.                                                             *)

(* ata_read_sector_chs that returns zero has filled the buffer with the    *)
(* sector it was asked for, whatever the calls before it left behind in    *)
(* the drive.  (_identify does not look at ERR; its data may be junk.)     *)
DataIsSector ==
  pc = "ready" /\ want \in Sectors /\ result = 0 =>
    buf = [k \in 1 .. Words |-> want]

(* A call returns one only when the drive ended this command with an       *)
(* error, or when none was sent because DRQ was still set, as a command    *)
(* before may leave it: that command's error does not count.               *)
FailureHasReason ==
  pc = "ready" /\ result = 1 => \/ ended \in {"error_data", "error"}
                                \/ ended = "not_sent" /\ Drq

(* "check BSY & DRQ before trying to send a command": none is written to a *)
(* drive that is busy or has data to hand over.                            *)
CommandWhenReady ==
  [][ended' = "not_ended" /\ ended # "not_ended" => ~Bsy /\ ~Drq]_vars

(* A call polls for ever in two cases only: there is no drive, and         *)
(* ata_select_drive waits for RDY before _identify can find that out; or   *)
(* the drive ended the command with an error and no data, and the loop     *)
(* behind _send_cmd waits for DRQ.                                         *)
NoDrive == phase = "absent" /\ pc = "select"
NoData  == phase = "idle" /\ ended = "error" /\ pc \in {"id_drq", "rd_wait"}

(* ata_init and every read return, but for those two.                      *)
CallsReturn ==
  pc \in InitPC \cup ReadPC ~> pc \in {"ready", "failed"} \/ NoDrive \/ NoData
=============================================================================
