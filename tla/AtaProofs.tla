----------------------------- MODULE AtaProofs -----------------------------
(***************************************************************************)
(* Theorems about Ata for any set of sectors and any number of words:      *)
(* type correctness, what a read returns and when a command is written.    *)
(***************************************************************************)
EXTENDS Ata, TLAPS

(* The drive's phase while the driver is at a place of its own. *)
PhaseAt ==
  /\ pc \in {"off", "select"} => phase \in {"idle", "absent"}
  /\ pc = "rst_wait" => phase \in {"idle", "absent", "resetting"}
  /\ pc \in {"id_send", "id_send_wait", "rd_send_wait"} => phase = "idle"
  /\ pc \in {"id_status", "id_busy", "id_drq", "rd_wait"}
       => phase \in {"accepted", "busy", "data", "idle"}
  /\ pc \in {"id_words", "rd_words"} => phase = "data"
  /\ pc \in {"ready", "rd_send"} => phase \in {"idle", "data"}

(* A drive with data to hand over has a sector's worth of it, less what    *)
(* the driver has read.                                                    *)
Handing ==
  /\ phase = "data" => left \in 1 .. Words
  /\ phase = "data" /\ pc \notin {"id_words", "rd_words"} => left = Words
  /\ pc \in {"id_words", "rd_words"} => left + Len(buf) = Words

(* Which sector a call is about, and what it has read of it. *)
Asked ==
  /\ pc \in InitPC => want = Identify
  /\ pc \in {"rd_send", "rd_send_wait", "rd_wait"} => buf = <<>>
  /\ pc = "rd_wait" => addr = want
  /\ pc = "rd_words" => /\ sends = want
                        /\ \A k \in 1 .. Len(buf) : buf[k] = want

(* How the drive answers the command that was written for this call. *)
Answered ==
  /\ pc = "rd_send" => ended = "not_sent"
  /\ pc = "rd_wait" =>
       /\ phase \in {"accepted", "busy"} => ended = "not_ended"
       /\ phase = "data" => IF err THEN ended = "error_data" ELSE sends = want

IInv == /\ TypeOK /\ PhaseAt /\ Handing /\ Asked /\ Answered
        /\ DataIsSector /\ FailureHasReason

-----------------------------------------------------------------------------

LEMMA Constants ==
  Words \in Nat \ {0} /\ Identify \notin Sectors
BY WordsAssumption, IdentifyAssumption

(* Facts about buffers, so that no other step has to look into Seq. *)
LEMMA SeqEmpty == ASSUME NEW S PROVE <<>> \in Seq(S) /\ Len(<<>>) = 0
OBVIOUS

LEMMA Empty == <<>> \in Buffers /\ Len(<<>>) = 0
BY SeqEmpty DEF Buffers

LEMMA SeqAppend ==
  ASSUME NEW S, NEW b \in Seq(S), NEW e \in S
  PROVE  /\ Append(b, e) \in Seq(S)
         /\ Len(b) \in Nat /\ Len(Append(b, e)) = Len(b) + 1
         /\ \A k \in 1 .. Len(b) : Append(b, e)[k] = b[k]
         /\ Append(b, e)[Len(b) + 1] = e
OBVIOUS

LEMMA SeqLen == ASSUME NEW b \in Buffers PROVE Len(b) \in Nat
BY DEF Buffers

LEMMA SeqEqual ==
  ASSUME NEW b \in Buffers, NEW w, Len(b) = Words, \A k \in 1 .. Len(b) : b[k] = w
  PROVE  b = [k \in 1 .. Words |-> w]
BY DEF Buffers

LEMMA InitIInv == Init => IInv
<1> SUFFICES ASSUME Init PROVE IInv
  OBVIOUS
<1>1. TypeOK
  <2>1. buf \in Buffers /\ Len(buf) <= Words
    BY Constants, Empty DEF Init
  <2>2. /\ phase \in {"idle", "absent"} /\ err = FALSE /\ addr = Identify
        /\ sends = "junk" /\ left = 0 /\ pc = "off" /\ want = Identify
        /\ result = 0 /\ ended = "not_sent"
    BY DEF Init
  <2>3. pc \in InitPC /\ left \in 0 .. Words
    BY <2>2, Constants DEF InitPC
  <2> QED
    BY <2>1, <2>2, <2>3 DEF TypeOK
<1> QED
  BY <1>1 DEF Init, IInv, PhaseAt, Handing, Asked, Answered, DataIsSector,
              FailureHasReason, InitPC

(* The drive's steps leave the driver alone. *)
LEMMA DriveStep ==
  ASSUME IInv, Drive
  PROVE  IInv'
<1> USE Constants DEF IInv, drive, driver
<1>1. CASE DriveStarts
  <2>1. TypeOK'
    BY <1>1 DEF DriveStarts, TypeOK
  <2>2. PhaseAt' /\ Handing' /\ Asked' /\ Answered'
    BY <1>1 DEF DriveStarts, TypeOK, PhaseAt, Handing, Asked, Answered
  <2>3. DataIsSector' /\ FailureHasReason'
    BY <1>1 DEF DriveStarts, DataIsSector, FailureHasReason, PhaseAt, Drq
  <2> QED
    BY <2>1, <2>2, <2>3
<1>2. ASSUME NEW how \in Outcomes, DriveEnds(how) PROVE IInv'
  <2>1. /\ phase = "busy"
        /\ phase' = (IF how = "error" THEN "idle" ELSE "data")
        /\ sends' = (IF how = "ok" THEN addr ELSE "junk")
        /\ left' = (IF how = "error" THEN 0 ELSE Words)
        /\ ended' = how
        /\ UNCHANGED <<addr, pc, want, buf, result>>
    BY <1>2, Zenon DEF DriveEnds
  <2>2. (how = "ok" /\ err' = FALSE) \/ (how # "ok" /\ err' = TRUE)
    BY <1>2, Zenon DEF DriveEnds
  <2>3. how \in {"ok", "error_data", "error"}
    BY DEF Outcomes
  <2>4. TypeOK'
    <3>1. err' \in BOOLEAN
      BY <2>2
    <3>2. /\ phase' \in {"idle", "data"} /\ left' \in 0 .. Words
          /\ sends' \in Sectors \cup {Identify, "junk"} /\ ended' \in Outcomes
      BY <2>1, <2>3 DEF TypeOK, Outcomes
    <3> QED
      BY <2>1, <3>1, <3>2 DEF TypeOK
  <2>5. PhaseAt' /\ Handing' /\ Asked' /\ Answered'
    BY <2>1, <2>2, <2>3 DEF TypeOK, PhaseAt, Handing, Asked, Answered
  <2>6. DataIsSector' /\ FailureHasReason'
    BY <2>1, <2>2, <2>3 DEF DataIsSector, FailureHasReason, PhaseAt
  <2> QED
    BY <2>4, <2>5, <2>6
<1>3. ASSUME NEW fault \in BOOLEAN, DriveReset(fault) PROVE IInv'
  <2>1. TypeOK'
    BY <1>3 DEF DriveReset, TypeOK
  <2>2. PhaseAt' /\ Handing' /\ Asked' /\ Answered'
    BY <1>3 DEF DriveReset, TypeOK, PhaseAt, Handing, Asked, Answered
  <2>3. DataIsSector' /\ FailureHasReason'
    BY <1>3 DEF DriveReset, DataIsSector, FailureHasReason, PhaseAt
  <2> QED
    BY <2>1, <2>2, <2>3
<1> QED
  BY <1>1, <1>2, <1>3 DEF Drive

(* ata_init, but for reading the words. *)
LEMMA InitStep ==
  ASSUME IInv,
         Reset \/ RstWait \/ Select \/ IdSend \/ IdSendWait \/ IdStatus
           \/ IdBusy \/ IdDrq
  PROVE  IInv'
<1> USE Constants DEF IInv, drive, Goto, TypeOK, InitPC, ReadPC, Bsy, Drq, Rdy
<1> DEFINE Rest == PhaseAt' /\ Handing' /\ Asked' /\ Answered'
                   /\ DataIsSector' /\ FailureHasReason'
<1>1. CASE Reset
  <2>1. TypeOK'
    BY <1>1 DEF Reset
  <2>2. Rest
    BY <1>1 DEF Reset, PhaseAt, Handing, Asked, Answered, DataIsSector, FailureHasReason
  <2> QED
    BY <2>1, <2>2
<1>2. CASE RstWait
  <2>1. TypeOK'
    BY <1>2 DEF RstWait
  <2>2. Rest
    BY <1>2 DEF RstWait, PhaseAt, Handing, Asked, Answered, DataIsSector, FailureHasReason
  <2> QED
    BY <2>1, <2>2
<1>3. CASE Select
  <2>1. TypeOK'
    BY <1>3 DEF Select
  <2>2. Rest
    BY <1>3 DEF Select, PhaseAt, Handing, Asked, Answered, DataIsSector, FailureHasReason
  <2> QED
    BY <2>1, <2>2
<1>4. CASE IdSend
  <2>1. TypeOK'
    BY <1>4 DEF IdSend
  <2>2. Rest
    BY <1>4 DEF IdSend, PhaseAt, Handing, Asked, Answered, DataIsSector, FailureHasReason
  <2> QED
    BY <2>1, <2>2
<1>5. CASE IdSendWait
  <2>1. TypeOK'
    BY <1>5 DEF IdSendWait, WriteCommand
  <2>2. Rest
    BY <1>5 DEF IdSendWait, WriteCommand, PhaseAt, Handing, Asked, Answered,
                DataIsSector, FailureHasReason
  <2> QED
    BY <2>1, <2>2
<1>6. CASE IdStatus
  <2>1. TypeOK'
    BY <1>6 DEF IdStatus
  <2>2. Rest
    BY <1>6 DEF IdStatus, PhaseAt, Handing, Asked, Answered, DataIsSector, FailureHasReason
  <2> QED
    BY <2>1, <2>2
<1>7. CASE IdBusy
  <2>1. TypeOK'
    BY <1>7 DEF IdBusy
  <2>2. Rest
    BY <1>7 DEF IdBusy, PhaseAt, Handing, Asked, Answered, DataIsSector, FailureHasReason
  <2> QED
    BY <2>1, <2>2
<1>8. CASE IdDrq
  <2>1. TypeOK'
    BY <1>8, Empty DEF IdDrq
  <2>2. Rest
    BY <1>8, Empty DEF IdDrq, PhaseAt, Handing, Asked, Answered, DataIsSector, FailureHasReason
  <2> QED
    BY <2>1, <2>2
<1> QED
  BY <1>1, <1>2, <1>3, <1>4, <1>5, <1>6, <1>7, <1>8

(* ata_read_sector_chs, but for reading the words. *)
LEMMA ReadStep ==
  ASSUME IInv,
         (\E s \in Sectors : Read(s)) \/ RdSend \/ RdSendWait \/ RdWait
  PROVE  IInv'
<1> USE Constants, Empty DEF IInv, drive, Goto, TypeOK, InitPC, ReadPC, Bsy, Drq, Rdy
<1> DEFINE Rest == PhaseAt' /\ Handing' /\ Asked' /\ Answered'
                   /\ DataIsSector' /\ FailureHasReason'
<1>1. ASSUME NEW s \in Sectors, Read(s) PROVE IInv'
  <2>1. TypeOK'
    BY <1>1 DEF Read
  <2>2. Rest
    BY <1>1 DEF Read, PhaseAt, Handing, Asked, Answered, DataIsSector, FailureHasReason
  <2> QED
    BY <2>1, <2>2
<1>2. CASE RdSend
  <2>1. TypeOK'
    BY <1>2 DEF RdSend, Return
  <2>2. PhaseAt' /\ Handing' /\ Asked' /\ Answered'
    BY <1>2 DEF RdSend, Return, PhaseAt, Handing, Asked, Answered
  <2>3. DataIsSector' /\ FailureHasReason'
    BY <1>2 DEF RdSend, Return, DataIsSector, FailureHasReason, Answered
  <2> QED
    BY <2>1, <2>2, <2>3
<1>3. CASE RdSendWait
  <2>1. TypeOK'
    BY <1>3 DEF RdSendWait, WriteCommand
  <2>2. Rest
    BY <1>3 DEF RdSendWait, WriteCommand, PhaseAt, Handing, Asked, Answered,
                DataIsSector, FailureHasReason
  <2> QED
    BY <2>1, <2>2
<1>4. CASE RdWait
  <2>1. TypeOK'
    BY <1>4 DEF RdWait, Return
  <2>2. PhaseAt' /\ Handing' /\ Asked' /\ Answered'
    BY <1>4 DEF RdWait, Return, PhaseAt, Handing, Asked, Answered
  <2>3. DataIsSector' /\ FailureHasReason'
    BY <1>4 DEF RdWait, Return, DataIsSector, FailureHasReason, Answered
  <2> QED
    BY <2>1, <2>2, <2>3
<1> QED
  BY <1>1, <1>2, <1>3, <1>4

LEMMA WordStep ==
  ASSUME IInv, Word
  PROVE  IInv'
<1> USE Constants DEF IInv, Drq
<1>1. /\ pc \in {"id_words", "rd_words"} /\ phase = "data"
      /\ buf' = Append(buf, sends) /\ left' = left - 1
      /\ phase' = (IF left = 1 THEN "idle" ELSE phase)
      /\ UNCHANGED <<err, addr, sends, want, ended>>
  BY DEF Word
<1>2. IF Len(buf) + 1 = Words THEN pc' = "ready" /\ result' = 0
      ELSE pc' = pc /\ result' = result
  BY DEF Word, Return
<1>3. /\ buf' \in Buffers
      /\ Len(buf) \in Nat /\ Len(buf') = Len(buf) + 1
      /\ \A k \in 1 .. Len(buf) : buf'[k] = buf[k]
      /\ buf'[Len(buf) + 1] = sends
  <2>1. buf \in Buffers /\ sends \in Sectors \cup {Identify, "junk"}
    BY DEF TypeOK
  <2>2. /\ Append(buf, sends) \in Buffers
        /\ Len(buf) \in Nat /\ Len(Append(buf, sends)) = Len(buf) + 1
        /\ \A k \in 1 .. Len(buf) : Append(buf, sends)[k] = buf[k]
        /\ Append(buf, sends)[Len(buf) + 1] = sends
    BY <2>1, SeqAppend DEF Buffers
  <2> QED
    BY <1>1, <2>2
<1>4. left \in 1 .. Words /\ left + Len(buf) = Words
  BY <1>1 DEF Handing
<1>5. TypeOK'
  BY <1>1, <1>2, <1>3, <1>4 DEF TypeOK, InitPC, ReadPC
<1>6. PhaseAt' /\ Handing'
  BY <1>1, <1>2, <1>3, <1>4 DEF PhaseAt, Handing
<1>7. pc = "rd_words" => \A k \in 1 .. Len(buf') : buf'[k] = want
  BY <1>1, <1>3, <1>4 DEF Asked
<1>8. Asked' /\ Answered'
  BY <1>1, <1>2, <1>7 DEF Asked, Answered, InitPC
<1>9. DataIsSector'
  <2>1. SUFFICES ASSUME pc' = "ready", want \in Sectors
                 PROVE  buf' = [k \in 1 .. Words |-> want]
    BY <1>1 DEF DataIsSector
  <2>2. pc = "rd_words" /\ Len(buf') = Words
    BY <1>1, <1>2, <1>4, <2>1 DEF Asked, InitPC
  <2> QED
    BY <1>3, <1>7, <2>2, SeqEqual
<1>10. FailureHasReason'
  BY <1>1, <1>2 DEF FailureHasReason
<1> QED
  BY <1>5, <1>6, <1>8, <1>9, <1>10

LEMMA Step ==
  ASSUME IInv, [Next]_vars
  PROVE  IInv'
<1>1. CASE Drive
  BY <1>1, DriveStep
<1>2. CASE Driver
  BY <1>2, InitStep, ReadStep, WordStep DEF Driver
<1>3. CASE \E s \in Sectors : Read(s)
  BY <1>3, ReadStep
<1>4. CASE UNCHANGED vars
  BY <1>4 DEF vars, drive, driver, IInv, TypeOK, PhaseAt, Handing, Asked, Answered,
              DataIsSector, FailureHasReason, Drq
<1> QED
  BY <1>1, <1>2, <1>3, <1>4 DEF Next

(* The inductive invariant holds in every state of driver and drive. *)
THEOREM Invariance == Spec => []IInv
<1>1. IInv /\ [Next]_vars => IInv'
  BY Step
<1> QED
  BY InitIInv, <1>1, PTL DEF Spec

(* The registers, the buffer and the driver's place keep their types; the  *)
(* buffer never gets more words than a sector has.                         *)
THEOREM TypeCorrect == Spec => []TypeOK
<1>1. IInv => TypeOK
  BY DEF IInv
<1> QED
  BY Invariance, <1>1, PTL

(* A read that returns zero has the words of the sector asked for, for any *)
(* size of a sector and whatever calls came before.                        *)
THEOREM ReadRight == Spec => []DataIsSector
<1>1. IInv => DataIsSector
  BY DEF IInv
<1> QED
  BY Invariance, <1>1, PTL

(* A read that returns one has a reason that is there in this call: its    *)
(* own command ended with an error, or the call refused to send one        *)
(* because the drive still had data to hand over, which an earlier command *)
(* may have left.  An error of an earlier command is never taken for its   *)
(* own.                                                                    *)
THEOREM FailureReason == Spec => []FailureHasReason
<1>1. IInv => FailureHasReason
  BY DEF IInv
<1> QED
  BY Invariance, <1>1, PTL

(* No command is written to a drive that is busy or has data to hand over: *)
(* between the look at DRQ and the write nothing can bring it back.        *)
THEOREM CommandsInTime == Spec => CommandWhenReady
<1>1. ASSUME IInv, [Next]_vars, ended' = "not_ended", ended # "not_ended"
      PROVE  ~Bsy /\ ~Drq
  <2>1. CASE IdSendWait \/ RdSendWait
    BY <1>1, <2>1 DEF IdSendWait, RdSendWait, Goto, IInv, PhaseAt, Bsy, Drq
  <2>2. CASE Drive
    BY <1>1, <2>2 DEF Drive, DriveStarts, DriveEnds, DriveReset, Outcomes
  <2>3. CASE \E s \in Sectors : Read(s)
    BY <1>1, <2>3 DEF Read
  <2>4. CASE UNCHANGED vars
    BY <1>1, <2>4 DEF vars
  <2>5. CASE \/ Reset \/ RstWait \/ Select \/ IdSend \/ IdStatus \/ IdBusy
             \/ IdDrq \/ RdSend \/ RdWait \/ Word
    BY <1>1, <2>5 DEF Reset, RstWait, Select, IdSend, IdStatus, IdBusy, IdDrq,
                      RdSend, RdWait, Word, drive
  <2> QED
    BY <1>1, <2>1, <2>2, <2>3, <2>4, <2>5 DEF Next, Driver
<1>2. IInv /\ [Next]_vars
        => [ended' = "not_ended" /\ ended # "not_ended" => ~Bsy /\ ~Drq]_vars
  BY <1>1
<1> QED
  BY Invariance, <1>2, PTL DEF Spec, CommandWhenReady
=============================================================================
