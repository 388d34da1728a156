-------------------------------- MODULE Hdd --------------------------------
(***************************************************************************)
(* drivers/hdd.c and drivers/mbr.c over the address arithmetic of          *)
(* drivers/ata.c: how a sector of a partition becomes a cylinder, a head   *)
(* and a sector of the drive.  A sector's content is named by the drive    *)
(* address it was read from.                                               *)
(***************************************************************************)
EXTENDS Integers, Sequences

CONSTANTS Heads,         \* _id_data.heads
          Spt,           \* _id_data.spt, sectors per track
          NumSectors     \* _id_data.num_sectors

ASSUME GeometryAssumption ==
  /\ Heads \in 1 .. 16
  /\ Spt \in 1 .. 255
  /\ NumSectors \in Nat

Partitions == 0 .. 3     \* NUM_PARTITIONS_MAX

Failed == -1             \* any nonzero return value

-----------------------------------------------------------------------------
(* The boot record.                                                        *)

(* An entry of the table on disk; one that is all zero is unused. *)
NoEntry == [status |-> "none", first |-> 0, num |-> 0]

(* An entry of _partition_entry, before mbr_init and when it is invalid.   *)
Invalid == [valid |-> FALSE, bootable |-> FALSE, first |-> 0, num |-> 0]

(* _bootable_partition_found when mbr_init comes to entry p. *)
BootableBefore(table, p) ==
  \E q \in Partitions : q < p /\ table[q].status = "boot"

(* Mutant: every partition that claims to be bootable is taken. *)
SetPartitionInfoAny(table, p) ==
  IF table[p] = NoEntry THEN Invalid
  ELSE [valid |-> TRUE, bootable |-> table[p].status = "boot",
        first |-> table[p].first, num |-> table[p].num]

(* _set_partition_info: a second bootable partition keeps its place and is *)
(* left invalid.                                                           *)
SetPartitionInfo(table, p) ==
  LET second == table[p].status = "boot" /\ BootableBefore(table, p)
  IN  IF table[p] = NoEntry THEN Invalid
      ELSE [valid |-> ~second,
            bootable |-> table[p].status = "boot" /\ ~second,
            first |-> table[p].first, num |-> table[p].num]

(* mbr_init, which does not look at what _set_partition_info returns. *)
MbrInit(table) == [p \in Partitions |-> SetPartitionInfo(table, p)]

-----------------------------------------------------------------------------
(* Addresses.                                                              *)

Lba2Chs(lba) == [c |-> lba \div (Heads * Spt),
                 h |-> (lba % (Heads * Spt)) \div Spt,
                 s |-> (lba % Spt) + 1]

(* The drive's own numbering of its sectors. *)
DriveSector(chs) == (chs.c * Heads + chs.h) * Spt + chs.s - 1

(* ata_read_sector_lba and the checks of ata_read_sector_chs: the drive    *)
(* sector that is read.                                                    *)
AtaSector(lba) ==
  LET chs == Lba2Chs(lba)
  IN  IF lba >= NumSectors \/ chs.c > 1023 THEN Failed ELSE DriveSector(chs)

(* Mutant: the sector behind the partition is taken for its last. *)
Rel2AbsOneMore(part, p, rsec) ==
  IF ~part[p].valid \/ rsec > part[p].num THEN Failed
  ELSE part[p].first + rsec

(* _within_partition and _rel2abs_sector.  A partition lies on the drive,  *)
(* so the sum does not leave 32 bits.                                      *)
Rel2Abs(part, p, rsec) ==
  IF ~part[p].valid \/ rsec >= part[p].num THEN Failed
  ELSE part[p].first + rsec

(* hdd_read_sector: the drive sector it reads, or Failed. *)
HddSector(part, p, rsec) ==
  LET lba == Rel2Abs(part, p, rsec)
  IN  IF lba = Failed THEN Failed ELSE AtaSector(lba)
=============================================================================
