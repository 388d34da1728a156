---------------------------- MODULE Fat16Proofs ----------------------------
(***************************************************************************)
(* Theorems about Fat16 for every drive, geometry and partition table and  *)
(* every size of sectors and directory entries: type correctness, one      *)
(* bootable partition, that reads stay in the partition and that a lookup  *)
(* finds the first entry of the name asked for where strncmp tells names   *)
(* apart.  For drives that hold what their parameters say, what is loaded  *)
(* is the file, and a file that is there is loaded.                        *)
(***************************************************************************)
EXTENDS Fat16, NumberFacts

(* mbr_init fills the table once. *)
Tables == part \in {[p \in Partitions |-> Invalid], MbrInit(disk.table)}

(* What the file system has once it is mounted. *)
InUse == pc \in {"idle", "find", "load"}

Mounted ==
  /\ InUse => /\ mount.mounted
              /\ mount.spc = disk.spc /\ mount.rootEntries = disk.rootEntries
              /\ mount.cluStart = RootStart /\ mount.fatStart = disk.res
              /\ part[mount.pnum].valid => part[mount.pnum].first = disk.start
  /\ ~InUse => ~mount.mounted
  /\ pc \in {"off", "hdd"} => bufSec = Failed

(* An entry whose name the search does not tell from the one asked for. *)
Alike(k) == Named(disk.root[k]) /\ disk.root[k].name.stem = call.name.stem

(* The search has passed no such entry, and comes to the first one. *)
Searching == pc = "find" =>
  found = Failed /\ \A k \in DOMAIN disk.root : k < i => ~Alike(k)

FirstTaken == found # Failed =>
  /\ found \in DOMAIN disk.root /\ Alike(found)
  /\ \A k \in DOMAIN disk.root : Alike(k) => found <= k

IInv == /\ TypeOK /\ disk \in Disks /\ Tables /\ Mounted /\ Searching
        /\ ReadsInPartition /\ FirstTaken

-----------------------------------------------------------------------------
(* Addresses.                                                              *)

LEMMA BelowBoth ==
  ASSUME NEW k \in Int, NEW m \in Nat, NEW n \in Nat, k < (IF m < n THEN m ELSE n)
  PROVE  k < m
OBVIOUS

LEMMA Sizes ==
  /\ Heads \in Nat \ {0} /\ Spt \in Nat \ {0} /\ NumSectors \in Nat
  /\ SectorSize \in Nat \ {0} /\ DirEntrySize \in Nat \ {0} /\ FatEntrySize \in Nat \ {0}
  /\ DirEntriesPerSector \in Nat \ {0} /\ SectorSize = DirEntriesPerSector * DirEntrySize
  /\ FatEntriesPerSector \in Nat \ {0}
<1>1. /\ Heads \in Nat \ {0} /\ Spt \in Nat \ {0} /\ NumSectors \in Nat
      /\ SectorSize \in Nat \ {0} /\ DirEntrySize \in Nat \ {0} /\ FatEntrySize \in Nat \ {0}
      /\ SectorSize % DirEntrySize = 0
      /\ DirEntrySize <= SectorSize /\ FatEntrySize <= SectorSize
  BY GeometryAssumption, SizeAssumption
<1>2. /\ DirEntriesPerSector \in Nat
      /\ SectorSize = DirEntrySize * DirEntriesPerSector
  BY <1>1, DivMod DEF DirEntriesPerSector
<1>3. /\ FatEntriesPerSector \in Nat /\ SectorSize % FatEntrySize < FatEntrySize
      /\ SectorSize = FatEntrySize * FatEntriesPerSector + (SectorSize % FatEntrySize)
  BY <1>1, DivMod DEF FatEntriesPerSector
<1>4. DirEntriesPerSector # 0 /\ FatEntriesPerSector # 0
  BY <1>1, <1>2, <1>3
<1> QED
  BY <1>1, <1>2, <1>3, <1>4

(* The drive sector of cylinder, head and sector is the address they were  *)
(* computed from.                                                          *)
LEMMA ChsIsLba ==
  ASSUME NEW lba \in Nat
  PROVE  DriveSector(Lba2Chs(lba)) = lba
<1> DEFINE t == lba \div Spt
           s == lba % Spt
<1>1. t \in Nat /\ s \in 0 .. Spt - 1 /\ lba = Spt * t + s
  BY Sizes, DivMod
<1>2. /\ t \div Heads = lba \div (Spt * Heads)
      /\ lba % (Spt * Heads) = Spt * (t % Heads) + s
  BY Sizes, DivDiv
<1> HIDE DEF t, s
<1>3. t \div Heads \in Nat /\ t % Heads \in 0 .. Heads - 1
      /\ t = Heads * (t \div Heads) + (t % Heads)
  BY <1>1, Sizes, DivMod
<1>4. (Spt * (t % Heads) + s) \div Spt = t % Heads
  BY <1>1, <1>3, Sizes, DivModUnique
<1>5. Heads * Spt = Spt * Heads
  BY Sizes
<1>6. Lba2Chs(lba) = [c |-> t \div Heads, h |-> t % Heads, s |-> s + 1]
  BY <1>2, <1>4, <1>5 DEF Lba2Chs, s
<1>7. DriveSector(Lba2Chs(lba)) = ((t \div Heads) * Heads + (t % Heads)) * Spt + (s + 1) - 1
  BY <1>6 DEF DriveSector
<1>8. (t \div Heads) * Heads + (t % Heads) = t
  BY <1>3, Sizes
<1> QED
  BY <1>1, <1>7, <1>8, Sizes

PartitionTable == [Partitions -> [valid : BOOLEAN, bootable : BOOLEAN,
                                  first : Nat, num : Nat]]

(* hdd_read_sector reads the sector of the partition it is asked for. *)
LEMMA HddRight ==
  ASSUME NEW pt \in PartitionTable, NEW p \in Partitions, NEW rsec \in Nat,
         HddSector(pt, p, rsec) # Failed
  PROVE  /\ pt[p].valid
         /\ HddSector(pt, p, rsec) = pt[p].first + rsec
         /\ HddSector(pt, p, rsec) \in pt[p].first .. pt[p].first + pt[p].num - 1
         /\ HddSector(pt, p, rsec) \in 0 .. NumSectors - 1
<1>1. pt[p] \in [valid : BOOLEAN, bootable : BOOLEAN, first : Nat, num : Nat]
  BY DEF PartitionTable
<1>2. pt[p].first \in Nat /\ pt[p].num \in Nat
  BY <1>1
<1> DEFINE lba == Rel2Abs(pt, p, rsec)
<1>3. lba # Failed
  BY DEF HddSector
<1>4. pt[p].valid /\ rsec < pt[p].num /\ lba = pt[p].first + rsec
  BY <1>2, <1>3 DEF Rel2Abs
<1>5. lba \in Nat
  BY <1>2, <1>4
<1> HIDE DEF lba
<1>6. AtaSector(lba) # Failed /\ HddSector(pt, p, rsec) = AtaSector(lba)
  BY <1>3 DEF HddSector, lba
<1>7. AtaSector(lba) = DriveSector(Lba2Chs(lba)) /\ lba < NumSectors
  BY <1>5, <1>6, Sizes DEF AtaSector
<1>8. HddSector(pt, p, rsec) = lba
  BY <1>5, <1>6, <1>7, ChsIsLba
<1> QED
  BY <1>2, <1>4, <1>5, <1>7, <1>8, Sizes

-----------------------------------------------------------------------------
(* What the drive and a mounted file system have.                          *)

LEMMA DiskFacts ==
  ASSUME disk \in Disks
  PROVE  /\ disk.start \in Nat /\ disk.res \in Nat /\ disk.rootEntries \in Nat
         /\ disk.nf \in Nat /\ disk.spf \in Nat /\ RootStart \in Nat
         /\ disk.spc \in Nat \ {0}
         /\ disk.table \in [Partitions -> [status : {"none", "plain", "boot"},
                                           first : Nat, num : Nat]]
         /\ disk.chain \in Seq(Nat) /\ disk.eoc \in Nat
         /\ DOMAIN disk.root \subseteq Nat
         /\ \A k \in DOMAIN disk.root :
              /\ disk.root[k].kind \in {"unused", "long", "file", "dir", "volume"}
              /\ disk.root[k].start \in Nat /\ disk.root[k].size \in Nat
<1>1. /\ {disk.start, disk.sectors, disk.res, disk.nf, disk.spf, disk.rootEntries}
           \subseteq Nat
      /\ disk.spc \in Nat \ {0}
      /\ disk.table \in [Partitions -> [status : {"none", "plain", "boot"},
                                        first : Nat, num : Nat]]
      /\ disk.chain \in Seq(Nat) /\ disk.eoc \in EndMarks
      /\ DOMAIN disk.root \subseteq Nat
      /\ \A k \in DOMAIN disk.root :
           /\ disk.root[k].kind \in {"unused", "long", "file", "dir", "volume"}
           /\ disk.root[k].start \in Nat /\ disk.root[k].size \in Nat
  BY DisksAssumption, Zenon
<1>2. /\ disk.start \in Nat /\ disk.res \in Nat /\ disk.rootEntries \in Nat
      /\ disk.nf \in Nat /\ disk.spf \in Nat /\ disk.eoc \in Nat
  BY <1>1 DEF EndMarks
<1>3. RootStart \in Nat
  BY <1>2 DEF RootStart
<1> QED
  BY <1>1, <1>2, <1>3

LEMMA UseFacts ==
  ASSUME IInv, InUse
  PROVE  /\ mount.mounted /\ mount.pnum \in Partitions /\ part \in PartitionTable
         /\ mount.spc = disk.spc /\ mount.spc \in Nat \ {0}
         /\ mount.rootEntries = disk.rootEntries
         /\ mount.cluStart = RootStart /\ mount.cluStart \in Nat
         /\ mount.fatStart = disk.res /\ mount.fatStart \in Nat
         /\ part[mount.pnum].valid => part[mount.pnum].first = disk.start
         /\ ClusterSize \in Nat \ {0} /\ RootClusters \in Nat
<1>1. /\ mount.mounted /\ mount.pnum \in Partitions
      /\ mount.spc = disk.spc /\ mount.rootEntries = disk.rootEntries
      /\ mount.cluStart = RootStart /\ mount.fatStart = disk.res
      /\ part[mount.pnum].valid => part[mount.pnum].first = disk.start
  BY DEF IInv, Mounted, TypeOK, VolumeTypeOK
<1>2. part \in PartitionTable
  BY DEF IInv, TypeOK, VolumeTypeOK, PartitionTable
<1>3. /\ disk.spc \in Nat \ {0} /\ RootStart \in Nat /\ disk.res \in Nat
      /\ disk.rootEntries \in Nat
  BY DiskFacts DEF IInv
<1>4. ClusterSize \in Nat \ {0}
  BY <1>1, <1>3, Sizes DEF ClusterSize
<1>5. mount.rootEntries * DirEntrySize \in Nat
  BY <1>1, <1>3, Sizes
<1>6. RootClusters \in Nat
  BY <1>4, <1>5, DivMod DEF RootClusters
<1> QED
  BY <1>1, <1>2, <1>3, <1>4, <1>6

(* Where a read may come from. *)
InPartition(sector) ==
  /\ part[mount.pnum].valid
  /\ sector \in part[mount.pnum].first .. part[mount.pnum].first + part[mount.pnum].num - 1
  /\ sector \in 0 .. NumSectors - 1

LEMMA SectorRead ==
  ASSUME IInv, InUse, NEW rsec \in Nat, NEW works \in BOOLEAN,
         ReadSector(rsec, works) # Failed
  PROVE  InPartition(ReadSector(rsec, works)) /\ ReadSector(rsec, works) = disk.start + rsec
<1>1. ReadSector(rsec, works) = HddSector(part, mount.pnum, rsec)
  BY DEF ReadSector
<1> QED
  BY <1>1, UseFacts, HddRight DEF InPartition

LEMMA ClusterRead ==
  ASSUME IInv, InUse, NEW c \in Nat, NEW sec \in Nat, NEW works \in BOOLEAN,
         ReadClusterSec(c, sec, works) # Failed
  PROVE  /\ InPartition(ReadClusterSec(c, sec, works))
         /\ c >= 2 /\ sec < mount.spc
         /\ ReadClusterSec(c, sec, works)
              = disk.start + (sec + (c - 2) * mount.spc + mount.cluStart)
<1>1. /\ c >= 2 /\ sec < mount.spc
      /\ ReadClusterSec(c, sec, works)
           = ReadSector(sec + (c - 2) * mount.spc + mount.cluStart, works)
  BY UseFacts DEF ReadClusterSec
<1>2. c - 2 \in Nat /\ (c - 2) * mount.spc \in Nat
  BY <1>1, UseFacts
<1>3. sec + (c - 2) * mount.spc + mount.cluStart \in Nat
  BY <1>2, UseFacts
<1> QED
  BY <1>1, <1>3, SectorRead

(* _rootdir_get_entry_num comes to the sector that holds the entry, and to *)
(* the entry in it.                                                        *)
LEMMA EntryRead ==
  ASSUME IInv, InUse, NEW n \in Nat, NEW works \in BOOLEAN,
         RootEntrySector(n, works) # Failed
  PROVE  /\ InPartition(RootEntrySector(n, works))
         /\ DirEntry(RootEntrySector(n, works), n % DirEntriesPerSector)
              = IF n \in DOMAIN disk.root THEN disk.root[n] ELSE [kind |-> "end"]
<1> DEFINE b == n * DirEntrySize
           e == n \div DirEntriesPerSector
           sector == RootEntrySector(n, works)
<1>1. b \in Nat /\ e \in Nat /\ n = DirEntriesPerSector * e + (n % DirEntriesPerSector)
  <2>1. DirEntriesPerSector \in Nat \ {0} /\ DirEntrySize \in Nat
    BY Sizes
  <2>2. e \in Nat /\ n = DirEntriesPerSector * e + (n % DirEntriesPerSector)
    BY <2>1, DivMod
  <2> QED
    BY <2>1, <2>2
<1>2. b \div SectorSize = e
  <2>1. b \div (DirEntriesPerSector * DirEntrySize) = e
    BY Sizes, DivCancel
  <2> QED
    BY <2>1, Sizes
<1> HIDE DEF b
<1>3. b \div ClusterSize = e \div mount.spc
  <2>1. (b \div SectorSize) \div mount.spc = b \div (SectorSize * mount.spc)
    <3>1. SectorSize \in Nat \ {0} /\ mount.spc \in Nat \ {0}
      BY Sizes, UseFacts
    <3> QED
      BY <1>1, <3>1, DivDiv
  <2>2. ClusterSize = SectorSize * mount.spc
    BY Sizes, UseFacts DEF ClusterSize
  <2> QED
    BY <1>2, <2>1, <2>2
<1> HIDE DEF e
<1>4. /\ e \div mount.spc \in Nat /\ e % mount.spc \in Nat
      /\ e = mount.spc * (e \div mount.spc) + (e % mount.spc)
  <2>1. mount.spc \in Nat \ {0}
    BY UseFacts
  <2>2. /\ e \div mount.spc \in Nat /\ e % mount.spc \in 0 .. mount.spc - 1
        /\ e = mount.spc * (e \div mount.spc) + (e % mount.spc)
    BY <1>1, <2>1, DivMod
  <2> QED
    BY <2>1, <2>2
<1>5. sector = ReadClusterSec(2 + (e \div mount.spc), e % mount.spc, works)
  BY <1>2, <1>3 DEF RootEntrySector, b
<1> HIDE DEF sector
<1>6. sector # Failed
  BY DEF sector
<1>7. /\ InPartition(sector)
      /\ sector = disk.start + ((e % mount.spc) + (2 + (e \div mount.spc) - 2) * mount.spc
                                  + mount.cluStart)
  BY <1>4, <1>5, <1>6, ClusterRead
<1>8. sector = disk.start + (e + RootStart)
  <2>1. (2 + (e \div mount.spc) - 2) * mount.spc = mount.spc * (e \div mount.spc)
    BY <1>4, UseFacts
  <2> QED
    BY <1>4, <1>7, <2>1, UseFacts
<1>9. sector - disk.start - RootStart = e
  BY <1>1, <1>8, DiskFacts DEF IInv
<1>10. (sector - disk.start - RootStart) * DirEntriesPerSector + (n % DirEntriesPerSector) = n
  BY <1>1, <1>9, Sizes
<1>11. DirEntry(sector, n % DirEntriesPerSector)
         = IF n \in DOMAIN disk.root THEN disk.root[n] ELSE [kind |-> "end"]
  BY <1>10 DEF DirEntry
<1> QED
  BY <1>7, <1>11 DEF sector

-----------------------------------------------------------------------------
(* Initialisation.                                                         *)

LEMMA InvalidType ==
  Invalid \in [valid : BOOLEAN, bootable : BOOLEAN, first : Nat, num : Nat]
BY DEF Invalid

LEMMA MbrType ==
  ASSUME disk \in Disks
  PROVE  MbrInit(disk.table) \in PartitionTable
<1>1. ASSUME NEW p \in Partitions
      PROVE  SetPartitionInfo(disk.table, p)
               \in [valid : BOOLEAN, bootable : BOOLEAN, first : Nat, num : Nat]
  <2>1. disk.table[p] \in [status : {"none", "plain", "boot"}, first : Nat, num : Nat]
    BY <1>1, DiskFacts
  <2> DEFINE second == disk.table[p].status = "boot" /\ BootableBefore(disk.table, p)
  <2>2. second \in BOOLEAN
    OBVIOUS
  <2> HIDE DEF second
  <2>3. [valid |-> ~second, bootable |-> disk.table[p].status = "boot" /\ ~second,
         first |-> disk.table[p].first, num |-> disk.table[p].num]
          \in [valid : BOOLEAN, bootable : BOOLEAN, first : Nat, num : Nat]
    BY <2>1, <2>2
  <2> QED
    BY <2>3, InvalidType DEF SetPartitionInfo, second
<1> QED
  BY <1>1 DEF MbrInit, PartitionTable

LEMMA InitIInv == Init => IInv
<1> SUFFICES ASSUME Init PROVE IInv
  OBVIOUS
<1>1. TypeOK
  <2>1. part \in PartitionTable
    BY InvalidType DEF Init, PartitionTable
  <2>2. call \in Calls
    <3>1. PICK n \in Names, b \in BufSizes : TRUE
      BY CallerAssumption
    <3>2. [name |-> n, size |-> b, load |-> FALSE] \in [name : Names, size : BufSizes, load : {FALSE}]
      BY <3>1
    <3>3. call = CHOOSE c \in [name : Names, size : BufSizes, load : {FALSE}] : TRUE
      BY DEF Init
    <3>4. call \in [name : Names, size : BufSizes, load : {FALSE}]
      BY <3>2, <3>3, Zenon
    <3> QED
      BY <3>4 DEF Calls
  <2>3. /\ mount = [mounted |-> FALSE, pnum |-> 0, spc |-> 0, rootEntries |-> 0,
                    cluStart |-> 0, fatStart |-> 0]
        /\ 0 \in Partitions
    BY DEF Init, Partitions
  <2>4. mount \in [mounted : BOOLEAN, pnum : Partitions, spc : Nat, rootEntries : Nat,
                   cluStart : Nat, fatStart : Nat]
    BY <2>3
  <2>5. VolumeTypeOK
    BY <2>1, <2>4 DEF Init, VolumeTypeOK, PartitionTable
  <2>6. out \in Seq(Bytes)
    BY DEF Init
  <2>7. CallTypeOK
    <3>1. i \in Nat /\ clu \in CluAddr /\ fileSize \in Nat
      BY DEF Init, CluAddr
    <3>2. result \in Nat \cup {Failed} /\ ioFailed \in BOOLEAN /\ found \in Nat \cup {Failed}
      BY DEF Init
    <3> QED
      BY <2>2, <2>6, <3>1, <3>2 DEF CallTypeOK
  <2> QED
    BY <2>5, <2>7 DEF Init, TypeOK
<1>2. Mounted /\ Tables /\ Searching /\ ReadsInPartition /\ FirstTaken
  BY DEF Init, Mounted, Tables, Searching, ReadsInPartition, FirstTaken, InUse
<1> QED
  BY <1>1, <1>2 DEF Init, IInv

LEMMA CallTypeKept ==
  ASSUME TypeOK,
         UNCHANGED <<call, i, clu, fileSize, out, result, ioFailed, found>>
  PROVE  CallTypeOK'
<1>1. CallTypeOK
  BY DEF TypeOK
<1>2. /\ call' = call /\ i' = i /\ clu' = clu /\ fileSize' = fileSize /\ out' = out
      /\ result' = result /\ ioFailed' = ioFailed /\ found' = found
  OBVIOUS
<1>3. /\ call' \in Calls /\ i' \in Nat /\ clu' \in CluAddr /\ fileSize' \in Nat
      /\ out' \in Seq(Bytes)
  BY <1>1, <1>2 DEF CallTypeOK
<1>4. result' \in Nat \cup {Failed} /\ ioFailed' \in BOOLEAN /\ found' \in Nat \cup {Failed}
  BY <1>1, <1>2 DEF CallTypeOK
<1> QED
  BY <1>3, <1>4 DEF CallTypeOK

LEMMA HddInitStep ==
  ASSUME IInv, NEW works \in BOOLEAN, HddInit(works)
  PROVE  IInv'
<1>1. /\ pc = "off" /\ pc' \in {"hdd", "error"}
      /\ part' = part \/ part' = MbrInit(disk.table)
      /\ UNCHANGED <<disk, mount, bufSec, call, i, clu, fileSize, out, result, ioFailed, found>>
  BY DEF HddInit
<1>2. part' \in PartitionTable
  <2>1. part \in PartitionTable
    BY DEF IInv, TypeOK, VolumeTypeOK, PartitionTable
  <2>2. MbrInit(disk.table) \in PartitionTable
    BY MbrType DEF IInv
  <2> QED
    BY <1>1, <2>1, <2>2
<1>3. TypeOK'
  BY <1>1, <1>2, CallTypeKept DEF IInv, TypeOK, VolumeTypeOK, PartitionTable
<1>4. Tables'
  BY <1>1 DEF IInv, Tables
<1>5. Mounted' /\ ReadsInPartition'
  BY <1>1 DEF IInv, Mounted, InUse, ReadsInPartition
<1>6. Searching' /\ FirstTaken'
  BY <1>1 DEF IInv, Searching, FirstTaken, Alike
<1> QED
  BY <1>1, <1>3, <1>4, <1>5, <1>6 DEF IInv

LEMMA MountStep ==
  ASSUME IInv, NEW p \in Partitions, NEW works \in BOOLEAN, Mount(p, works)
  PROVE  IInv'
<1> DEFINE sector == IF works THEN HddSector(part, p, 0) ELSE Failed
<1>1. /\ pc = "hdd"
      /\ part[p].valid => part[p].first = disk.start
      /\ UNCHANGED <<disk, part, call, i, clu, fileSize, out, result, ioFailed, found>>
  BY DEF Mount
<1>2. Searching' /\ FirstTaken' /\ Tables'
  <2>1. pc' \in {"error", "idle"}
    BY DEF Mount
  <2> QED
    BY <1>1, <2>1 DEF IInv, Searching, FirstTaken, Tables, Alike
<1>3. CASE sector = Failed
  <2>1. /\ pc' = "error" /\ mount' = [mount EXCEPT !.pnum = p] /\ UNCHANGED bufSec
    BY <1>3 DEF Mount
  <2>2. TypeOK'
    BY <1>1, <2>1, CallTypeKept DEF IInv, TypeOK, VolumeTypeOK
  <2>3. ~mount'.mounted
    BY <1>1, <2>1 DEF IInv, TypeOK, VolumeTypeOK, Mounted, InUse
  <2>4. Mounted' /\ ReadsInPartition'
    BY <1>1, <2>1, <2>3 DEF IInv, Mounted, InUse, ReadsInPartition
  <2> QED
    BY <1>1, <1>2, <2>2, <2>4 DEF IInv
<1>4. CASE sector # Failed
  <2>1. /\ pc' = "idle" /\ bufSec' = sector
        /\ mount' = [mounted |-> TRUE, pnum |-> p, spc |-> disk.spc,
                     rootEntries |-> disk.rootEntries,
                     cluStart |-> disk.res + disk.nf * disk.spf, fatStart |-> disk.res]
    BY <1>4 DEF Mount
  <2>2. /\ part[p].valid /\ sector \in part[p].first .. part[p].first + part[p].num - 1
        /\ sector \in 0 .. NumSectors - 1
    <3>1. part \in PartitionTable
      BY DEF IInv, TypeOK, VolumeTypeOK, PartitionTable
    <3>2. sector = HddSector(part, p, 0)
      BY <1>4
    <3> HIDE DEF sector
    <3> QED
      BY <1>4, <3>1, <3>2, HddRight
  <2>3. /\ disk.spc \in Nat /\ disk.rootEntries \in Nat /\ disk.res \in Nat
        /\ disk.res + disk.nf * disk.spf \in Nat
        /\ RootStart' = disk.res + disk.nf * disk.spf
    BY <1>1, DiskFacts DEF IInv, RootStart
  <2> HIDE DEF sector
  <2>4. TypeOK'
    <3>1. mount' \in [mounted : BOOLEAN, pnum : Partitions, spc : Nat, rootEntries : Nat,
                      cluStart : Nat, fatStart : Nat]
      BY <2>1, <2>3
    <3> QED
      BY <1>1, <2>1, <2>2, <3>1, CallTypeKept DEF IInv, TypeOK, VolumeTypeOK
  <2>5. Mounted'
    BY <1>1, <2>1, <2>3 DEF Mounted, InUse
  <2>6. ReadsInPartition'
    BY <1>1, <2>1, <2>2 DEF ReadsInPartition
  <2> QED
    BY <1>1, <1>2, <2>4, <2>5, <2>6 DEF IInv
<1> QED
  BY <1>3, <1>4

-----------------------------------------------------------------------------
(* Calls.                                                                  *)

(* What depends on the volume only. *)
LEMMA VolumeKept ==
  ASSUME IInv, InUse, InUse',
         UNCHANGED <<disk, part, mount>>,
         bufSec' = bufSec \/ InPartition(bufSec')
  PROVE  VolumeTypeOK' /\ disk' \in Disks /\ Tables' /\ Mounted' /\ ReadsInPartition'
<1>1. VolumeTypeOK'
  BY DEF IInv, TypeOK, VolumeTypeOK, InPartition
<1>2. disk' \in Disks /\ Tables'
  BY DEF IInv, Tables
<1>3. Mounted'
  BY DEF IInv, Mounted, InUse, RootStart
<1>4. ReadsInPartition'
  BY DEF IInv, ReadsInPartition, InPartition
<1> QED
  BY <1>1, <1>2, <1>3, <1>4

LEMMA CallStep ==
  ASSUME IInv, NEW name \in Names, NEW size \in BufSizes, NEW load \in BOOLEAN,
         Call(name, size, load)
  PROVE  IInv'
<1>1. /\ pc = "idle" /\ pc' = "find"
      /\ call' = [name |-> name, size |-> size, load |-> load]
      /\ i' = 0 /\ clu' = 0 /\ fileSize' = 0 /\ out' = <<>> /\ result' = 0
      /\ ioFailed' = FALSE /\ found' = Failed
      /\ UNCHANGED <<disk, part, mount, bufSec>>
  BY DEF Call
<1>2. VolumeTypeOK' /\ disk' \in Disks /\ Tables' /\ Mounted' /\ ReadsInPartition'
  BY <1>1, VolumeKept DEF InUse
<1>3. CallTypeOK'
  <2>1. call' \in Calls
    BY <1>1 DEF Calls
  <2>2. out' \in Seq(Bytes)
    BY <1>1
  <2>3. i' \in Nat /\ clu' \in CluAddr /\ fileSize' \in Nat
    BY <1>1 DEF CluAddr
  <2>4. result' \in Nat \cup {Failed} /\ ioFailed' \in BOOLEAN /\ found' \in Nat \cup {Failed}
    BY <1>1
  <2> QED
    BY <2>1, <2>2, <2>3, <2>4 DEF CallTypeOK
<1>4. Searching'
  <2>1. \A k \in DOMAIN disk.root : k \in Nat
    BY DiskFacts DEF IInv
  <2>2. \A k \in DOMAIN disk.root : ~(k < 0)
    BY <2>1
  <2> QED
    BY <1>1, <2>2 DEF Searching
<1>5. FirstTaken'
  BY <1>1 DEF FirstTaken
<1> QED
  BY <1>1, <1>2, <1>3, <1>4, <1>5 DEF IInv, TypeOK

LEMMA LoadEndStep == ASSUME IInv, LoadEnd PROVE IInv'
<1>1. /\ pc = "load" /\ pc' = "idle" /\ result' = i
      /\ UNCHANGED <<disk, part, mount, bufSec, call, i, clu, fileSize, out, ioFailed, found>>
  BY DEF LoadEnd, Return
<1>2. VolumeTypeOK' /\ disk' \in Disks /\ Tables' /\ Mounted' /\ ReadsInPartition'
  BY <1>1, VolumeKept DEF InUse
<1>3. CallTypeOK'
  <2>1. CallTypeOK /\ result' \in Nat \cup {Failed}
    BY <1>1 DEF IInv, TypeOK, CallTypeOK
  <2> QED
    BY <1>1, <2>1 DEF CallTypeOK
<1>4. Searching' /\ FirstTaken'
  BY <1>1, SMTT(30) DEF IInv, Searching, FirstTaken, Alike
<1> QED
  BY <1>1, <1>2, <1>3, <1>4 DEF IInv, TypeOK

-----------------------------------------------------------------------------
(* The search.                                                             *)

LEMMA CluInRange ==
  ASSUME NEW n \in Nat
  PROVE  Clu(n) \in CluAddr
BY SMT DEF Clu, CluAddr

LEMMA CluFacts ==
  0 \in CluAddr /\ 65535 \in CluAddr /\ \A c \in CluAddr : c \in Nat
BY DEF CluAddr

LEMMA FindStepStep == ASSUME IInv, NEW works \in BOOLEAN, FindStep(works) PROVE IInv'
<1> DEFINE sector == IF i < mount.rootEntries THEN RootEntrySector(i, works) ELSE Failed
           de == DirEntry(sector, i % DirEntriesPerSector)
<1>1. /\ pc = "find"
      /\ bufSec' = IF sector = Failed THEN bufSec ELSE sector
      /\ ioFailed' = (ioFailed \/ ~works)
      /\ UNCHANGED <<disk, part, mount, call, out>>
  BY DEF FindStep
<1>2. \/ /\ sector = Failed \/ de.kind = "end"
         /\ pc' = "idle" /\ result' = Failed
         /\ UNCHANGED <<i, clu, fileSize, found>>
      \/ /\ sector # Failed /\ de.kind # "end" /\ ~Skipped(de) /\ IsFilename(de, call.name)
         /\ TakeEntry(de)
      \/ /\ sector # Failed /\ de.kind # "end"
         /\ ~(~Skipped(de) /\ IsFilename(de, call.name))
         /\ i' = i + 1
         /\ UNCHANGED <<pc, result, clu, fileSize, found>>
  BY Zenon DEF FindStep, Return
<1>3. i \in Nat /\ InUse /\ found = Failed
  BY <1>1 DEF IInv, TypeOK, CallTypeOK, InUse, Searching
<1>4. ASSUME sector # Failed
      PROVE  /\ InPartition(sector)
             /\ de = IF i \in DOMAIN disk.root THEN disk.root[i] ELSE [kind |-> "end"]
  <2>1. sector = RootEntrySector(i, works) /\ sector # Failed
    BY <1>4
  <2> HIDE DEF sector
  <2> QED
    BY <1>3, <2>1, EntryRead
<1> HIDE DEF sector, de
<1>5. ASSUME sector # Failed, de.kind # "end"
      PROVE  /\ i \in DOMAIN disk.root /\ de = disk.root[i]
             /\ de.kind \in {"unused", "long", "file", "dir", "volume"}
             /\ de.start \in Nat /\ de.size \in Nat
  <2>1. i \in DOMAIN disk.root /\ de = disk.root[i]
    BY <1>4, <1>5
  <2> QED
    BY <2>1, DiskFacts DEF IInv
<1>6. bufSec' = bufSec \/ InPartition(bufSec')
  BY <1>1, <1>4
<1>7. ioFailed' \in BOOLEAN /\ call' \in Calls /\ out' \in Seq(Bytes)
  BY <1>1 DEF IInv, TypeOK, CallTypeOK
<1>8. CASE /\ sector = Failed \/ de.kind = "end"
           /\ pc' = "idle" /\ result' = Failed
           /\ UNCHANGED <<i, clu, fileSize, found>>
  <2>1. VolumeTypeOK' /\ disk' \in Disks /\ Tables' /\ Mounted' /\ ReadsInPartition'
    BY <1>1, <1>3, <1>6, <1>8, VolumeKept DEF InUse
  <2>2. CallTypeOK'
    <3>1. CallTypeOK /\ result' \in Nat \cup {Failed}
      BY <1>8 DEF IInv, TypeOK
    <3> QED
      BY <1>7, <1>8, <3>1 DEF CallTypeOK
  <2>3. Searching' /\ FirstTaken'
    BY <1>3, <1>8 DEF Searching, FirstTaken
  <2> QED
    BY <1>8, <2>1, <2>2, <2>3 DEF IInv, TypeOK
<1>9. CASE /\ sector # Failed /\ de.kind # "end" /\ ~Skipped(de) /\ IsFilename(de, call.name)
           /\ TakeEntry(de)
  <2>1. /\ i \in DOMAIN disk.root /\ de = disk.root[i] /\ Alike(i)
        /\ de.start \in Nat /\ de.size \in Nat
    BY <1>5, <1>9 DEF Alike, Named, Skipped, IsFilename
  <2>2. /\ found' = i /\ clu' = Clu(de.start + RootClusters) /\ fileSize' = de.size
        /\ \/ pc' = "load" /\ i' = 0 /\ UNCHANGED result
           \/ pc' = "idle" /\ result' = de.size /\ UNCHANGED i
    BY <1>9 DEF TakeEntry, Return
  <2>3. VolumeTypeOK' /\ disk' \in Disks /\ Tables' /\ Mounted' /\ ReadsInPartition'
    BY <1>1, <1>3, <1>6, <2>2, VolumeKept DEF InUse
  <2>4. clu' \in CluAddr
    <3>1. RootClusters \in Nat
      BY <1>3, UseFacts
    <3>2. de.start + RootClusters \in Nat
      BY <2>1, <3>1
    <3> QED
      BY <2>2, <3>2, CluInRange
  <2>5. CallTypeOK'
    <3>1. i' \in Nat /\ fileSize' \in Nat
      BY <1>3, <2>1, <2>2
    <3>2. result' \in Nat \cup {Failed} /\ found' \in Nat \cup {Failed}
      BY <1>3, <2>1, <2>2 DEF IInv, TypeOK, CallTypeOK
    <3> QED
      BY <1>7, <2>4, <3>1, <3>2 DEF CallTypeOK
  <2>6. FirstTaken'
    <3>1. \A k \in DOMAIN disk.root : k < i => ~Alike(k)
      BY <1>1 DEF IInv, Searching
    <3>2. \A k \in DOMAIN disk.root : k \in Nat
      BY DiskFacts DEF IInv
    <3>3. \A k \in DOMAIN disk.root : Alike(k) => i <= k
      BY <1>3, <3>1, <3>2
    <3>4. \A k : Alike(k)' <=> Alike(k)
      BY <1>1 DEF Alike
    <3> QED
      BY <1>1, <2>1, <2>2, <3>3, <3>4 DEF FirstTaken
  <2>7. Searching'
    BY <2>2 DEF Searching
  <2> QED
    BY <1>1, <2>2, <2>3, <2>5, <2>6, <2>7 DEF IInv, TypeOK
<1>10. CASE /\ sector # Failed /\ de.kind # "end"
            /\ ~(~Skipped(de) /\ IsFilename(de, call.name))
            /\ i' = i + 1
            /\ UNCHANGED <<pc, result, clu, fileSize, found>>
  <2>1. i \in DOMAIN disk.root /\ ~Alike(i)
    BY <1>5, <1>10 DEF Alike, Named, Skipped, IsFilename
  <2>2. VolumeTypeOK' /\ disk' \in Disks /\ Tables' /\ Mounted' /\ ReadsInPartition'
    BY <1>1, <1>3, <1>6, <1>10, VolumeKept DEF InUse
  <2>3. CallTypeOK'
    <3>1. CallTypeOK /\ i' \in Nat
      BY <1>3, <1>10 DEF IInv, TypeOK
    <3> QED
      BY <1>7, <1>10, <3>1 DEF CallTypeOK
  <2>4. Searching'
    <3>1. \A k \in DOMAIN disk.root : k \in Nat /\ (k < i => ~Alike(k))
      BY <1>1, DiskFacts DEF IInv, Searching
    <3>2. \A k \in DOMAIN disk.root : k < i + 1 => ~Alike(k)
      BY <1>3, <2>1, <3>1
    <3>3. \A k : Alike(k)' <=> Alike(k)
      BY <1>1 DEF Alike
    <3> QED
      BY <1>1, <1>3, <1>10, <3>2, <3>3 DEF Searching
  <2>5. FirstTaken'
    BY <1>3, <1>10 DEF FirstTaken
  <2> QED
    BY <1>1, <1>10, <2>2, <2>3, <2>4, <2>5 DEF IInv, TypeOK
<1> QED
  BY <1>2, <1>8, <1>9, <1>10

-----------------------------------------------------------------------------
(* The copy.                                                               *)

LEMMA ConcatSeq ==
  ASSUME NEW S, NEW s \in Seq(S), NEW n \in Nat, NEW f \in [1 .. n -> S]
  PROVE  s \o f \in Seq(S) /\ Len(f) = n
<1>1. f \in Seq(S) /\ Len(f) = n
  OBVIOUS
<1> QED
  BY <1>1

LEMMA FatRead ==
  ASSUME IInv, InUse, NEW c \in Nat, NEW works \in BOOLEAN, FatSector(c, works) # Failed
  PROVE  InPartition(FatSector(c, works))
<1> DEFINE rsec == (c - RootClusters) \div FatEntriesPerSector + mount.fatStart
<1>1. c >= 2 + RootClusters /\ FatSector(c, works) = ReadSector(rsec, works)
  BY UseFacts DEF FatSector
<1>2. c - RootClusters \in Nat /\ FatEntriesPerSector \in Nat \ {0} /\ mount.fatStart \in Nat
  BY <1>1, UseFacts, Sizes
<1>3. (c - RootClusters) \div FatEntriesPerSector \in Nat
  BY <1>2, DivMod
<1>4. rsec \in Nat
  BY <1>2, <1>3
<1> HIDE DEF rsec
<1> QED
  BY <1>1, <1>4, SectorRead

LEMMA NextCluType ==
  ASSUME IInv, NEW c, NEW sector
  PROVE  NextClu(c, sector) \in Nat
<1>1. ASSUME NEW k PROVE FatWord(sector, k) \in Nat
  <2> DEFINE n == (sector - disk.start - disk.res) * FatEntriesPerSector + k
             at == {j \in DOMAIN disk.chain : disk.chain[j] = n}
  <2>1. CASE at = {} \/ sector - disk.start \notin disk.res .. disk.res + disk.spf - 1
    <3>1. FatWord(sector, k) = 0
      BY <2>1 DEF FatWord
    <3> QED
      BY <3>1
  <2>2. CASE ~(at = {} \/ sector - disk.start \notin disk.res .. disk.res + disk.spf - 1)
    <3> DEFINE j == CHOOSE j \in at : TRUE
    <3>1. j \in DOMAIN disk.chain
      BY <2>2, Zenon
    <3>2. FatWord(sector, k) = IF j = Len(disk.chain) THEN disk.eoc ELSE disk.chain[j + 1]
      BY <2>2 DEF FatWord
    <3>3. disk.chain \in Seq(Nat) /\ disk.eoc \in Nat
      BY DiskFacts DEF IInv
    <3> HIDE DEF j
    <3>4. j \in 1 .. Len(disk.chain) /\ Len(disk.chain) \in Nat
      BY <3>1, <3>3
    <3>5. j # Len(disk.chain) => j + 1 \in 1 .. Len(disk.chain)
      BY <3>4
    <3> QED
      BY <3>2, <3>3, <3>5
  <2> QED
    BY <2>1, <2>2
<1> QED
  BY <1>1 DEF NextClu

LEMMA LoadStepStep ==
  ASSUME IInv, NEW fatWorks \in BOOLEAN, NEW works \in BOOLEAN, LoadStep(fatWorks, works)
  PROVE  IInv'
<1> DEFINE fatSector == IF NewCluster THEN FatSector(clu, fatWorks) ELSE Failed
           next == IF NewCluster THEN NextClu(clu, fatSector) ELSE clu
           stop == NewCluster /\ next \in ChainEnds
           c == IF NewCluster THEN Clu(next + 8) ELSE clu
           sector == IF stop THEN Failed
                     ELSE ReadClusterSec(c, (i \div SectorSize) % mount.spc, works)
<1>1. /\ pc = "load" /\ i < Max
      /\ clu' = IF stop THEN next ELSE c
      /\ bufSec' = IF sector # Failed THEN sector
                   ELSE IF fatSector # Failed THEN fatSector ELSE bufSec
      /\ ioFailed' = (ioFailed \/ ~works \/ (NewCluster /\ ~fatWorks))
      /\ \/ sector = Failed /\ pc' = "idle" /\ result' = Failed /\ UNCHANGED <<i, out>>
         \/ /\ sector # Failed
            /\ out' = out \o Copied(sector) /\ i' = i + Len(Copied(sector))
            /\ UNCHANGED <<pc, result>>
      /\ UNCHANGED <<disk, part, mount, call, fileSize, found>>
  BY DEF LoadStep, Return
<1>2. /\ InUse /\ i \in Nat /\ clu \in CluAddr /\ clu \in Nat /\ fileSize \in Nat
      /\ out \in Seq(Bytes)
  BY <1>1, CluFacts DEF IInv, TypeOK, CallTypeOK, InUse
<1>3. call.size \in Nat /\ Max \in Nat
  <2>1. call \in Calls
    BY DEF IInv, TypeOK, CallTypeOK
  <2>2. call.size \in Nat
    BY <2>1, CallerAssumption DEF Calls
  <2> QED
    BY <1>2, <2>2 DEF Max
<1>4. fatSector # Failed => InPartition(fatSector)
  BY <1>2, FatRead
<1> HIDE DEF fatSector
<1>5. next \in Nat
  BY <1>2, NextCluType
<1>6. c \in CluAddr /\ c \in Nat
  <2>1. next + 8 \in Nat
    BY <1>5
  <2>2. Clu(next + 8) \in CluAddr
    BY <2>1, CluInRange
  <2>3. c \in CluAddr
    BY <1>2, <2>2
  <2> QED
    BY <2>3, CluFacts
<1>7. clu' \in CluAddr
  <2>1. stop => next \in CluAddr
    BY CluFacts DEF ChainEnds
  <2> HIDE DEF stop, next, c
  <2> QED
    BY <1>1, <1>6, <2>1
<1>8. (i \div SectorSize) % mount.spc \in Nat
  <2>1. SectorSize \in Nat \ {0} /\ mount.spc \in Nat \ {0}
    BY <1>2, Sizes, UseFacts
  <2>2. i \div SectorSize \in Nat
    BY <1>2, <2>1, DivMod
  <2>3. (i \div SectorSize) % mount.spc \in 0 .. mount.spc - 1
    BY <2>1, <2>2, DivMod
  <2> QED
    BY <2>1, <2>3
<1> HIDE DEF c, stop, next
<1>9. sector # Failed => InPartition(sector)
  BY <1>2, <1>6, <1>8, ClusterRead
<1> HIDE DEF sector
<1>10. pc' \in {"idle", "load"}
  BY <1>1
<1>11. VolumeTypeOK' /\ disk' \in Disks /\ Tables' /\ Mounted' /\ ReadsInPartition'
  <2>1. bufSec' = bufSec \/ InPartition(bufSec')
    BY <1>1, <1>4, <1>9
  <2> QED
    BY <1>1, <1>2, <1>10, <2>1, VolumeKept DEF InUse
<1>12. i' \in Nat /\ out' \in Seq(Bytes)
  <2>1. CASE sector = Failed
    BY <1>1, <1>2, <2>1
  <2>2. CASE sector # Failed
    <3> DEFINE n == IF Max - i < SectorSize THEN Max - i ELSE SectorSize
               f == [k \in 1 .. n |-> <<sector, k - 1>>]
    <3>1. n \in Nat /\ n <= SectorSize
      BY <1>1, <1>2, <1>3, Sizes
    <3>2. Copied(sector) = f
      BY DEF Copied
    <3>3. sector \in 0 .. NumSectors - 1
      BY <1>9, <2>2 DEF InPartition
    <3> HIDE DEF n
    <3>4. ASSUME NEW k \in 1 .. n PROVE <<sector, k - 1>> \in Bytes
      <4>1. k - 1 \in 0 .. SectorSize - 1
        BY <3>1, Sizes
      <4> QED
        BY <3>3, <4>1 DEF Bytes
    <3>5. f \in [1 .. n -> Bytes]
      BY <3>4
    <3> HIDE DEF f
    <3>6. out \o f \in Seq(Bytes) /\ Len(f) = n
      BY <1>2, <3>1, <3>5, ConcatSeq
    <3>7. out' = out \o f /\ i' = i + Len(f)
      BY <1>1, <2>2, <3>2
    <3> QED
      BY <1>2, <3>1, <3>6, <3>7
  <2> QED
    BY <2>1, <2>2
<1>13. CallTypeOK'
  <2>1. CallTypeOK /\ ioFailed' \in BOOLEAN
    BY <1>1 DEF IInv, TypeOK, CallTypeOK
  <2>2. result' \in Nat \cup {Failed}
    BY <1>1, <2>1 DEF CallTypeOK
  <2> QED
    BY <1>1, <1>7, <1>12, <2>1, <2>2 DEF CallTypeOK
<1>14. Searching' /\ FirstTaken'
  BY <1>1, <1>10 DEF IInv, Searching, FirstTaken, Alike
<1> QED
  BY <1>10, <1>11, <1>13, <1>14 DEF IInv, TypeOK

-----------------------------------------------------------------------------

LEMMA Step == ASSUME IInv, [Next]_vars PROVE IInv'
<1>1. CASE UNCHANGED vars
  <2>1. /\ UNCHANGED <<disk, part, mount, bufSec, pc>>
        /\ UNCHANGED <<call, i, clu, fileSize, out, result, ioFailed, found>>
    BY <1>1 DEF vars
  <2>2. TypeOK'
    BY <2>1, CallTypeKept DEF IInv, TypeOK, VolumeTypeOK
  <2>3. Tables' /\ Mounted' /\ ReadsInPartition'
    BY <2>1 DEF IInv, Tables, Mounted, InUse, RootStart, ReadsInPartition
  <2>4. Searching' /\ FirstTaken'
    BY <2>1 DEF IInv, Searching, Alike, FirstTaken
  <2> QED
    BY <2>1, <2>2, <2>3, <2>4 DEF IInv
<1>2. ASSUME NEW works \in BOOLEAN, HddInit(works) PROVE IInv'
  BY <1>2, HddInitStep
<1>3. ASSUME NEW works \in BOOLEAN, NEW p \in Partitions, Mount(p, works) PROVE IInv'
  BY <1>3, MountStep
<1>4. ASSUME NEW works \in BOOLEAN, FindStep(works) PROVE IInv'
  BY <1>4, FindStepStep
<1>5. ASSUME NEW works \in BOOLEAN, NEW fatWorks \in BOOLEAN, LoadStep(fatWorks, works)
      PROVE  IInv'
  BY <1>5, LoadStepStep
<1>6. ASSUME NEW name \in Names, NEW s \in BufSizes, NEW load \in BOOLEAN, Call(name, s, load)
      PROVE  IInv'
  BY <1>6, CallStep
<1>7. CASE LoadEnd
  BY <1>7, LoadEndStep
<1> QED
  BY <1>1, <1>2, <1>3, <1>4, <1>5, <1>6, <1>7 DEF Next

(* The inductive invariant holds for every drive and all failures of reads.*)
THEOREM Invariance == Spec => []IInv
<1>1. IInv /\ [Next]_vars => IInv'
  BY Step
<1> QED
  BY InitIInv, <1>1, PTL DEF Spec

(* The volume's parameters, the call and what it has copied keep their     *)
(* types; cluster numbers stay in 16 bits.                                 *)
THEOREM TypeCorrect == Spec => []TypeOK
<1>1. IInv => TypeOK
  BY DEF IInv
<1> QED
  BY Invariance, <1>1, PTL

(* Whatever the table says, the only partition that mbr_init takes for     *)
(* bootable is that of its first entry that claims to be.                  *)
THEOREM BootableOnce == Spec => []OneBootable
<1>1. ASSUME IInv PROVE OneBootable
  <2>1. ASSUME NEW t \in Partitions, part[t].bootable
        PROVE  disk.table[t].status = "boot" /\ ~BootableBefore(disk.table, t)
    <3>1. part = MbrInit(disk.table)
      BY <1>1, <2>1 DEF IInv, Tables, Invalid
    <3>2. SetPartitionInfo(disk.table, t).bootable
      BY <2>1, <3>1 DEF MbrInit
    <3>3. CASE disk.table[t] = NoEntry
      <4>1. SetPartitionInfo(disk.table, t) = Invalid
        BY <3>3 DEF SetPartitionInfo
      <4> QED
        BY <3>2, <4>1 DEF Invalid
    <3>4. CASE disk.table[t] # NoEntry
      <4> DEFINE second == disk.table[t].status = "boot" /\ BootableBefore(disk.table, t)
      <4>1. SetPartitionInfo(disk.table, t).bootable
              = (disk.table[t].status = "boot" /\ ~second)
        BY <3>4, Zenon DEF SetPartitionInfo
      <4> QED
        BY <3>2, <4>1, Zenon
    <3> QED
      BY <3>3, <3>4
  <2>2. ASSUME NEW p \in Partitions, NEW q \in Partitions, part[p].bootable, q < p
        PROVE  disk.table[q].status # "boot"
    BY <2>1, <2>2 DEF BootableBefore
  <2>3. ASSUME NEW p \in Partitions, NEW q \in Partitions, part[p].bootable, part[q].bootable
        PROVE  q = p
    <3>1. ~(p < q) /\ ~(q < p)
      BY <2>1, <2>2, <2>3
    <3> QED
      BY <3>1 DEF Partitions
  <2> QED
    BY <2>1, <2>2, <2>3 DEF OneBootable
<1> QED
  BY Invariance, <1>1, PTL

(* Whatever the volume claims, every sector the file system reads lies in  *)
(* its partition.                                                          *)
THEOREM ReadsConfined == Spec => []ReadsInPartition
<1>1. IInv => ReadsInPartition
  BY DEF IInv
<1> QED
  BY Invariance, <1>1, PTL

(* A lookup that succeeds has found the first entry, be it a file's, a     *)
(* subdirectory's or the volume's label, that bears the name asked for     *)
(* where no other entry has nearly the same name, in directories of any    *)
(* length over clusters of any size.                                       *)
THEOREM SearchRight == Spec => []FoundIsFirst
<1>1. ASSUME IInv PROVE FoundIsFirst
  <2>1. SUFFICES ASSUME found # Failed, ToldApart
                 PROVE  /\ found \in DOMAIN disk.root /\ Named(disk.root[found])
                        /\ disk.root[found].name = call.name
                        /\ \A k \in DOMAIN disk.root :
                             Named(disk.root[k]) /\ disk.root[k].name = call.name => found <= k
    BY DEF FoundIsFirst
  <2>2. /\ found \in DOMAIN disk.root /\ Alike(found)
        /\ \A k \in DOMAIN disk.root : Alike(k) => found <= k
    BY <1>1, <2>1 DEF IInv, FirstTaken
  <2> QED
    BY <2>1, <2>2 DEF ToldApart, Alike
<1> QED
  BY Invariance, <1>1, PTL

-----------------------------------------------------------------------------
(* Loading.                                                                *)

(* The place in the file's chain of the byte before the n-th, and of the   *)
(* first when there is none.                                               *)
At(n) == IF n = 0 THEN 1 ELSE ((n - 1) \div ClusterSize) + 1

(* The load does not come to the chain's end, or knows its mark. *)
Closed == disk.eoc = 65535 \/ fileSize <= Len(disk.chain) * ClusterSize

(* The copy so far, and the cluster it has come to. *)
Copying ==
  /\ Closed
  /\ i <= Max /\ (i < Max => i % SectorSize = 0)
  /\ Len(out) = i /\ \A k \in 1 .. i : out[k] = FileByte(k - 1)
  /\ Max > 0 => At(i) \in DOMAIN disk.chain /\ clu = disk.chain[At(i)] + 8

Loading == pc = "load" => call.load /\ (found \in Bearing(call.name) => Copying)

(* Nothing is loaded before a call, or before the search has ended. *)
NotYet == /\ pc \in {"off", "hdd"} => ~call.load
          /\ pc = "find" => out = <<>>

LIInv == IInv /\ NotYet /\ Loading /\ LoadedIsFile

LEMMA ChainFacts ==
  ASSUME Loadable(disk)
  PROVE  /\ \A j \in DOMAIN disk.chain : disk.chain[j] \in Clusters
         /\ \A j, k \in DOMAIN disk.chain : disk.chain[j] = disk.chain[k] => j = k
BY Zenon DEF Loadable, ProperChain

LEMMA RootIsEight ==
  ASSUME IInv, InUse, Loadable(disk)
  PROVE  RootClusters = 8 /\ DataStart = RootStart + 8 * disk.spc
<1>1. /\ mount.spc = disk.spc /\ disk.spc \in Nat \ {0}
      /\ mount.rootEntries = disk.rootEntries /\ RootStart \in Nat
  BY UseFacts, DiskFacts DEF IInv
<1>2. disk.rootEntries * DirEntrySize = 8 * (disk.spc * SectorSize)
  BY DEF Loadable, EightClusters
<1> DEFINE cs == disk.spc * SectorSize
<1>3. cs \in Nat \ {0} /\ ClusterSize = cs
  BY <1>1, Sizes DEF ClusterSize
<1> HIDE DEF cs
<1>4. (cs * 8 + 0) \div cs = 8
  BY <1>3, DivModUnique
<1>5. RootClusters = 8
  <2>1. cs * 8 + 0 = 8 * cs
    BY <1>3
  <2> QED
    BY <1>1, <1>2, <1>3, <1>4, <2>1 DEF RootClusters, cs
<1>6. RootSectors = 8 * disk.spc
  <2>1. 8 * disk.spc \in Int /\ SectorSize - 1 \in 0 .. SectorSize - 1
    BY <1>1, Sizes
  <2>2. (SectorSize * (8 * disk.spc) + (SectorSize - 1)) \div SectorSize = 8 * disk.spc
    BY <2>1, Sizes, DivModUnique
  <2>3. disk.rootEntries * DirEntrySize + SectorSize - 1
          = SectorSize * (8 * disk.spc) + (SectorSize - 1)
    BY <1>1, <1>2, Sizes
  <2> QED
    BY <2>2, <2>3 DEF RootSectors
<1> QED
  BY <1>5, <1>6 DEF DataStart

(* A sector's worth of the file lies in one sector of one cluster. *)
LEMMA FileByteAt ==
  ASSUME IInv, InUse, NEW e \in Nat, NEW n \in Nat, n = SectorSize * e,
         NEW t \in 0 .. SectorSize - 1
  PROVE  /\ n \div SectorSize = e /\ (n + t) \div ClusterSize = e \div mount.spc
         /\ FileByte(n + t)
              = <<disk.start + DataStart + (disk.chain[(e \div mount.spc) + 1] - 2) * mount.spc
                    + (e % mount.spc), t>>
<1>1. /\ SectorSize \in Nat \ {0} /\ mount.spc \in Nat \ {0} /\ mount.spc = disk.spc
      /\ t \in Nat
  BY UseFacts, Sizes
<1>2. /\ (SectorSize * e + t) \div SectorSize = e /\ (SectorSize * e + t) % SectorSize = t
      /\ (SectorSize * e + 0) \div SectorSize = e
  BY <1>1, DivModUnique
<1> DEFINE a == n + t
<1>3. a \in Nat /\ a = SectorSize * e + t /\ n = SectorSize * e + 0
  BY <1>1
<1> HIDE DEF a
<1>4. a \div SectorSize = e /\ a % SectorSize = t /\ n \div SectorSize = e
  BY <1>2, <1>3
<1>5. /\ a \div (SectorSize * mount.spc) = e \div mount.spc
      /\ a % (SectorSize * mount.spc) = SectorSize * (e % mount.spc) + t
  <2>1. /\ (a \div SectorSize) \div mount.spc = a \div (SectorSize * mount.spc)
        /\ a % (SectorSize * mount.spc) = SectorSize * ((a \div SectorSize) % mount.spc) + (a % SectorSize)
    BY <1>1, <1>3, DivDiv
  <2> QED
    BY <1>4, <2>1
<1>6. e % mount.spc \in Nat
  <2>1. e % mount.spc \in 0 .. mount.spc - 1
    BY <1>1, DivMod
  <2> QED
    BY <1>1, <2>1
<1>7. (SectorSize * (e % mount.spc) + t) \div SectorSize = e % mount.spc
  <2> DEFINE s == e % mount.spc
  <2>1. s \in Int
    BY <1>6
  <2> HIDE DEF s
  <2>2. (SectorSize * s + t) \div SectorSize = s
    BY <1>1, <2>1, DivModUnique
  <2> QED
    BY <2>2 DEF s
<1>8. ClusterSize = SectorSize * mount.spc /\ disk.spc * SectorSize = SectorSize * mount.spc
  BY <1>1 DEF ClusterSize
<1>9. FileByte(a)
        = <<disk.start + DataStart + (disk.chain[(e \div mount.spc) + 1] - 2) * disk.spc
              + (e % mount.spc), t>>
  BY <1>4, <1>5, <1>7, <1>8 DEF FileByte
<1> QED
  BY <1>1, <1>4, <1>5, <1>8, <1>9 DEF a

(* The j-th cluster is not the last, or the load knows it for the last.    *)
Onward(j) == j < Len(disk.chain) \/ disk.eoc = 65535

(* _fat_get_next_clu_num on a cluster of the chain gives the next one, or  *)
(* a number at which the copy stops.                                       *)
LEMMA NextInChain ==
  ASSUME IInv, InUse, Loadable(disk), NEW j \in DOMAIN disk.chain, NEW works \in BOOLEAN,
         NEW next, next = NextClu(disk.chain[j] + 8, FatSector(disk.chain[j] + 8, works)),
         next \notin ChainEnds, Onward(j)
  PROVE  j + 1 \in DOMAIN disk.chain /\ next = disk.chain[j + 1]
<1> DEFINE c == disk.chain[j] + 8
           sector == FatSector(c, works)
           m == disk.chain[j]
           q == m \div FatEntriesPerSector
           r == m % FatEntriesPerSector
<1>1. /\ disk.chain \in Seq(Nat) /\ disk.start \in Nat /\ disk.res \in Nat
      /\ FatEntriesPerSector \in Nat \ {0}
  BY DiskFacts, Sizes DEF IInv
<1>2. m \in Nat /\ j \in 1 .. Len(disk.chain) /\ Len(disk.chain) \in Nat
  BY <1>1
<1>3. sector # Failed
  BY DEF NextClu, ChainEnds
<1>4. next = FatWord(sector, (c - RootClusters) % FatEntriesPerSector)
  BY <1>3 DEF NextClu
<1>5. c - RootClusters = m
  BY <1>2, RootIsEight
<1>6. q \in Nat /\ m = FatEntriesPerSector * q + r /\ r \in Nat
  <2> HIDE DEF m
  <2>1. q \in Nat /\ m = FatEntriesPerSector * q + r /\ r \in 0 .. FatEntriesPerSector - 1
    <3>1. m \in Nat /\ FatEntriesPerSector \in Nat \ {0}
      BY <1>1, <1>2
    <3> QED
      BY <3>1, DivMod
  <2> QED
    BY <1>1, <2>1
<1> HIDE DEF m
<1>7. sector = ReadSector(q + mount.fatStart, works)
  BY <1>3, <1>5 DEF FatSector
<1> HIDE DEF sector, c, q, r
<1>8. mount.fatStart = disk.res
  BY UseFacts
<1>9. q + mount.fatStart \in Nat
  BY <1>1, <1>6, <1>8
<1>10. sector = disk.start + (q + disk.res)
  BY <1>3, <1>7, <1>8, <1>9, SectorRead
<1>11. (sector - disk.start - disk.res) * FatEntriesPerSector + r = m
  <2>1. sector - disk.start - disk.res = q
    BY <1>1, <1>6, <1>10
  <2> QED
    BY <1>1, <1>6, <2>1
<1> DEFINE at == {h \in DOMAIN disk.chain : disk.chain[h] = m}
<1>12. at = {j}
  <2>1. \A h \in DOMAIN disk.chain : disk.chain[h] = disk.chain[j] => h = j
    BY ChainFacts
  <2> QED
    BY <2>1 DEF m
<1>13. next = IF j = Len(disk.chain) THEN disk.eoc ELSE disk.chain[j + 1]
  <2> DEFINE n == (sector - disk.start - disk.res) * FatEntriesPerSector + r
             outside == sector - disk.start \notin disk.res .. disk.res + disk.spf - 1
             there == {h \in DOMAIN disk.chain : disk.chain[h] = n}
             pick == CHOOSE h \in there : TRUE
  <2>1. next = FatWord(sector, r)
    BY <1>4, <1>5 DEF r
  <2>2. there = {j} /\ there # {}
    BY <1>11, <1>12
  <2>3. pick = j
    BY <2>2
  <2>4. CASE outside
    <3>1. FatWord(sector, r) = 0
      BY <2>4 DEF FatWord
    <3> QED
      BY <2>1, <3>1 DEF ChainEnds
  <2>5. CASE ~outside
    <3>1. FatWord(sector, r) = IF pick = Len(disk.chain) THEN disk.eoc ELSE disk.chain[pick + 1]
      BY <2>2, <2>5 DEF FatWord
    <3> HIDE DEF pick
    <3> QED
      BY <2>1, <2>3, <3>1
  <2> QED
    BY <2>4, <2>5
<1>14. j # Len(disk.chain) /\ next = disk.chain[j + 1]
  BY <1>2, <1>13 DEF ChainEnds, Onward
<1> QED
  BY <1>1, <1>2, <1>14

(* clu_addr_t is wide enough for a formatter's cluster numbers, counted    *)
(* from the root directory.                                                *)
LEMMA CluNat == ASSUME NEW m \in Clusters PROVE m \in Nat
BY DEF Clusters

LEMMA CluSmall == ASSUME NEW m \in Clusters PROVE m + 8 < 65536
BY DEF Clusters

LEMMA CluMod == ASSUME NEW n \in Nat, n < 65536 PROVE Clu(n) = n
BY DEF Clu

LEMMA CluWide ==
  ASSUME Loadable(disk), NEW j \in DOMAIN disk.chain
  PROVE  disk.chain[j] \in Nat /\ Clu(disk.chain[j] + 8) = disk.chain[j] + 8
<1> DEFINE m == disk.chain[j]
<1>1. m \in Clusters
  BY ChainFacts
<1> HIDE DEF m
<1>2. m \in Nat /\ m + 8 < 65536
  BY <1>1, CluNat, CluSmall
<1>3. m + 8 \in Nat
  BY <1>2
<1>4. Clu(m + 8) = m + 8
  BY <1>2, <1>3, CluMod
<1> QED
  BY <1>2, <1>4 DEF m

(* At the end of a cluster the load still has its number. *)
LEMMA AtBoundary ==
  ASSUME IInv, InUse, NEW a \in Nat \ {0}
  PROVE  At(ClusterSize * a) = a
<1>1. ClusterSize \in Nat \ {0}
  BY UseFacts
<1>2. a - 1 \in Int /\ ClusterSize - 1 \in 0 .. ClusterSize - 1
  BY <1>1
<1>3. /\ ClusterSize * a - 1 = ClusterSize * (a - 1) + (ClusterSize - 1)
      /\ ClusterSize * a # 0
  <2>1. ClusterSize * (a - 1) = ClusterSize * a - ClusterSize
    BY <1>1
  <2>2. ClusterSize * 1 <= ClusterSize * a /\ ClusterSize * a \in Int
    BY <1>1, TimesMonotone
  <2> QED
    BY <1>1, <2>1, <2>2
<1>4. (ClusterSize * (a - 1) + (ClusterSize - 1)) \div ClusterSize = a - 1
  BY <1>1, <1>2, DivModUnique
<1> QED
  BY <1>3, <1>4 DEF At

(* At byte i fat16_load has, or gets from the FAT, the cluster of byte i.  *)
LEMMA ClusterOfByte ==
  ASSUME IInv, InUse, Loadable(disk), Copying, i < Max, NEW works \in BOOLEAN,
         NEW next, next = IF NewCluster THEN NextClu(clu, FatSector(clu, works)) ELSE clu,
         ~(NewCluster /\ next \in ChainEnds),
         NEW at, at = ((i \div SectorSize) \div mount.spc) + 1
  PROVE  /\ at \in DOMAIN disk.chain
         /\ (IF NewCluster THEN Clu(next + 8) ELSE clu) = disk.chain[at] + 8
<1>1. /\ i \in Nat /\ mount.spc \in Nat \ {0} /\ SectorSize \in Nat \ {0}
      /\ ClusterSize \in Nat \ {0} /\ ClusterSize = SectorSize * mount.spc
  BY UseFacts, Sizes DEF IInv, TypeOK, CallTypeOK, ClusterSize
<1>2. At(i) \in DOMAIN disk.chain /\ clu = disk.chain[At(i)] + 8
  <2>1. Max \in Nat
    BY CallerAssumption DEF IInv, TypeOK, CallTypeOK, Calls, Max
  <2> QED
    BY <1>1, <2>1 DEF Copying
<1> DEFINE a == i \div ClusterSize
           r == i % ClusterSize
<1>3. a \in Nat /\ r \in 0 .. ClusterSize - 1 /\ i = ClusterSize * a + r
  BY <1>1, DivMod
<1>4. at = a + 1
  <2>1. (i \div SectorSize) \div mount.spc = i \div (SectorSize * mount.spc)
    BY <1>1, DivDiv
  <2> QED
    BY <1>1, <2>1
<1>5. NewCluster <=> i > 0 /\ r = 0
  BY DEF NewCluster
<1> HIDE DEF a, r
<1>6. CASE i = 0
  <2>1. a = 0
    BY <1>1, <1>3, <1>6, DivModUnique DEF a
  <2> QED
    BY <1>2, <1>4, <1>5, <1>6, <2>1 DEF At
<1>7. CASE i > 0 /\ r # 0
  <2>1. r - 1 \in 0 .. ClusterSize - 1 /\ i - 1 = ClusterSize * a + (r - 1)
    BY <1>1, <1>3, <1>7, SMTT(30)
  <2>2. (ClusterSize * a + (r - 1)) \div ClusterSize = a
    <3>1. ClusterSize \in Nat \ {0} /\ a \in Int
      BY <1>1, <1>3
    <3> QED
      BY <2>1, <3>1, DivModUnique
  <2> QED
    BY <1>2, <1>4, <1>5, <1>7, <2>1, <2>2 DEF At
<1>8. CASE i > 0 /\ r = 0
  <2>1. i = ClusterSize * a
    BY <1>1, <1>3, <1>8
  <2>2. a # 0
    BY <1>1, <1>8, <2>1
  <2>3. At(ClusterSize * a) = a
    BY <1>3, <2>2, AtBoundary
  <2>4. At(i) = a
    BY <2>1, <2>3
  <2>5. a \in DOMAIN disk.chain /\ clu = disk.chain[a] + 8
    BY <1>2, <2>4
  <2>6. /\ next = NextClu(disk.chain[a] + 8, FatSector(disk.chain[a] + 8, works))
        /\ next \notin ChainEnds
    BY <1>5, <1>8, <2>5
  <2>7. Onward(a)
    <3>1. SUFFICES ASSUME fileSize <= Len(disk.chain) * ClusterSize
                   PROVE  a < Len(disk.chain)
      BY DEF Copying, Closed, Onward
    <3>2. /\ Len(disk.chain) \in Nat /\ fileSize \in Nat /\ call.size \in Nat
      <4>1. disk.chain \in Seq(Nat) /\ fileSize \in Nat /\ call \in Calls
        BY DiskFacts DEF IInv, TypeOK, CallTypeOK
      <4>2. call.size \in Nat
        BY <4>1, CallerAssumption DEF Calls
      <4> QED
        BY <4>1, <4>2
    <3>3. i < Len(disk.chain) * ClusterSize
      <4>1. i < fileSize
        <5>1. i < Max
          OBVIOUS
        <5>2. i \in Int /\ fileSize \in Nat /\ call.size \in Nat
          BY <1>1, <3>2
        <5> HIDE DEF NewCluster
        <5> QED
          BY <5>1, <5>2, BelowBoth DEF Max
      <4> QED
        <5> DEFINE all == Len(disk.chain) * ClusterSize
        <5>1. all \in Int /\ fileSize <= all
          BY <1>1, <3>1, <3>2
        <5> HIDE DEF all
        <5>2. i < all
          BY <1>1, <3>2, <4>1, <5>1
        <5> QED
          BY <5>2 DEF all
    <3>4. ASSUME Len(disk.chain) <= a PROVE FALSE
      <4>1. /\ ClusterSize * Len(disk.chain) \in Int
            /\ ClusterSize * Len(disk.chain) <= ClusterSize * a
        <5>1. ClusterSize \in Nat /\ Len(disk.chain) \in Int /\ a \in Int
          BY <1>1, <1>3, <3>2
        <5> QED
          BY <3>4, <5>1, TimesMonotone
      <4>2. Len(disk.chain) * ClusterSize = ClusterSize * Len(disk.chain)
        BY <1>1, <3>2
      <4> QED
        BY <1>1, <2>1, <3>3, <4>1, <4>2
    <3> QED
      BY <1>3, <3>2, <3>4
  <2>8. a + 1 \in DOMAIN disk.chain /\ next = disk.chain[a + 1]
    BY <2>5, <2>6, <2>7, NextInChain
  <2>9. Clu(next + 8) = disk.chain[a + 1] + 8
    BY <2>8, CluWide
  <2> QED
    BY <1>4, <1>5, <1>8, <2>8, <2>9
<1> QED
  BY <1>1, <1>6, <1>7, <1>8

LEMMA PastRoot ==
  ASSUME NEW m \in Int, NEW k \in Int
  PROVE  (m + 6) * k = 8 * k + (m - 2) * k
OBVIOUS

(* One sector more: it is the one with the bytes from i on. *)
LEMMA CopySector ==
  ASSUME IInv, Loadable(disk), Copying, NEW fatWorks \in BOOLEAN, NEW works \in BOOLEAN,
         LoadStep(fatWorks, works), pc' = "load"
  PROVE  Copying'
<1> DEFINE next == IF NewCluster THEN NextClu(clu, FatSector(clu, fatWorks)) ELSE clu
           stop == NewCluster /\ next \in ChainEnds
           c == IF NewCluster THEN Clu(next + 8) ELSE clu
           e == i \div SectorSize
           s == e % mount.spc
           at == (e \div mount.spc) + 1
           sector == ReadClusterSec(c, s, works)
           n == IF Max - i < SectorSize THEN Max - i ELSE SectorSize
<1>1. /\ pc = "load" /\ i < Max /\ ~stop /\ sector # Failed /\ clu' = c
      /\ out' = out \o Copied(sector) /\ i' = i + Len(Copied(sector))
      /\ UNCHANGED <<disk, part, mount, call, fileSize, found>>
  BY DEF LoadStep, Return
<1>2. /\ i \in Nat /\ Max \in Nat /\ out \in Seq(Bytes) /\ InUse
      /\ SectorSize \in Nat \ {0} /\ mount.spc \in Nat \ {0}
      /\ disk.start \in Nat /\ RootStart \in Nat
  BY <1>1, CallerAssumption, Sizes, UseFacts, DiskFacts
     DEF IInv, TypeOK, CallTypeOK, Calls, Max, InUse
<1>3. at \in DOMAIN disk.chain /\ c = disk.chain[at] + 8
  BY <1>1, <1>2, ClusterOfByte
<1>4. disk.chain[at] \in Nat /\ c \in Nat
  BY <1>3, CluWide
<1>5. e \in Nat /\ i = SectorSize * e
  <2>1. i % SectorSize = 0
    BY <1>1 DEF Copying
  <2>2. e \in Nat /\ i = SectorSize * e + (i % SectorSize)
    BY <1>2, DivMod
  <2>3. SectorSize * e \in Nat
    BY <1>2, <2>2
  <2> QED
    BY <2>1, <2>2, <2>3
<1>6. s \in Nat
  <2>1. s \in 0 .. mount.spc - 1
    BY <1>2, <1>5, DivMod
  <2> QED
    BY <1>2, <2>1
<1>7. n \in Nat /\ n > 0 /\ n <= SectorSize /\ i + n <= Max
      /\ (i + n < Max => n = SectorSize)
  BY <1>1, <1>2
<1>8. Copied(sector) = [k \in 1 .. n |-> <<sector, k - 1>>]
  BY DEF Copied
<1> HIDE DEF next, stop, c, n
<1>9. sector = disk.start + (s + (disk.chain[at] + 6) * mount.spc + RootStart)
  <2>1. sector = disk.start + (s + (c - 2) * mount.spc + mount.cluStart)
    BY <1>1, <1>2, <1>4, <1>6, ClusterRead
  <2>2. c - 2 = disk.chain[at] + 6 /\ mount.cluStart = RootStart
    BY <1>2, <1>3, <1>4, UseFacts, SMTT(30)
  <2> QED
    BY <2>1, <2>2
<1> HIDE DEF sector, e, s
<1>10. (e \div mount.spc) + 1 = at /\ e % mount.spc = s
  BY DEF s
<1> HIDE DEF at
<1>11. ASSUME NEW t \in 0 .. SectorSize - 1
       PROVE  (i + t) \div ClusterSize = at - 1 /\ FileByte(i + t) = <<sector, t>>
  <2>1. /\ (i + t) \div ClusterSize = e \div mount.spc
        /\ FileByte(i + t)
             = <<disk.start + DataStart + (disk.chain[at] - 2) * mount.spc + s, t>>
    BY <1>2, <1>5, <1>10, FileByteAt
  <2>2. DataStart = RootStart + 8 * mount.spc
    BY <1>2, RootIsEight, UseFacts
  <2>3. (disk.chain[at] + 6) * mount.spc = 8 * mount.spc + (disk.chain[at] - 2) * mount.spc
    <3>1. disk.chain[at] \in Int /\ mount.spc \in Int
      BY <1>2, <1>4
    <3> QED
      BY <3>1, PastRoot
  <2>4. disk.start + DataStart + (disk.chain[at] - 2) * mount.spc + s = sector
    <3> DEFINE x == (disk.chain[at] - 2) * mount.spc
               y == 8 * mount.spc
    <3>1. x \in Int /\ y \in Int
      BY <1>2, <1>4
    <3>2. sector = disk.start + (s + (y + x) + RootStart) /\ DataStart = RootStart + y
      BY <1>9, <2>2, <2>3
    <3> HIDE DEF x, y
    <3>3. disk.start + DataStart + x + s = sector
      BY <1>2, <1>6, <3>1, <3>2
    <3> QED
      BY <3>3 DEF x
  <2>5. e \div mount.spc \in Nat
    BY <1>2, <1>5, DivMod
  <2> QED
    BY <1>10, <2>1, <2>4, <2>5
<1> DEFINE f == [k \in 1 .. n |-> <<sector, k - 1>>]
<1>12. Len(f) = n /\ out' = out \o f /\ i' = i + n
  <2>1. Len(f) = n
    BY <1>7
  <2> QED
    BY <1>1, <1>8, <2>1
<1>13. Len(out) = i
  BY <1>1 DEF Copying
<1>14. /\ Len(out') = i + n
       /\ \A k \in 1 .. i + n : out'[k] = IF k <= i THEN out[k] ELSE f[k - i]
  <2>1. f \in Seq({sector} \X Nat) /\ Len(f) = n
    BY <1>7, <1>12
  <2> HIDE DEF f
  <2> QED
    BY <1>2, <1>7, <1>12, <1>13, <2>1
<1>15. ASSUME NEW k \in 1 .. i + n PROVE out'[k] = FileByte(k - 1)
  <2>1. CASE k <= i
    <3>1. k \in 1 .. i
      BY <1>2, <2>1
    <3> QED
      BY <1>14, <2>1, <3>1 DEF Copying
  <2>2. CASE k > i
    <3>1. k - i \in 1 .. n /\ k - i - 1 \in 0 .. SectorSize - 1 /\ i + (k - i - 1) = k - 1
      BY <1>2, <1>7, <2>2
    <3>2. out'[k] = <<sector, k - i - 1>>
      <4>1. f[k - i] = <<sector, k - i - 1>>
        BY <3>1
      <4> HIDE DEF f
      <4>2. out'[k] = f[k - i]
        BY <1>2, <1>14, <2>2
      <4> QED
        BY <4>1, <4>2
    <3>3. FileByte(i + (k - i - 1)) = <<sector, k - i - 1>>
      BY <1>11, <3>1
    <3> QED
      BY <3>1, <3>2, <3>3
  <2> QED
    BY <1>2, <2>1, <2>2
<1>16. At(i + n) = at
  <2>1. n - 1 \in 0 .. SectorSize - 1 /\ i + (n - 1) = i + n - 1 /\ i + n # 0
    BY <1>2, <1>7
  <2>2. (i + (n - 1)) \div ClusterSize = at - 1
    BY <1>11, <2>1
  <2>3. at \in Nat
    <3>1. disk.chain \in Seq(Nat)
      BY DiskFacts DEF IInv
    <3> QED
      BY <1>3, <3>1
  <2> QED
    BY <1>2, <1>7, <2>1, <2>2, <2>3 DEF At
<1>17. i + n < Max => (i + n) % SectorSize = 0
  <2>1. SectorSize * (e + 1) + 0 = SectorSize * e + SectorSize /\ e + 1 \in Nat
    BY <1>2, <1>5
  <2>2. (SectorSize * (e + 1) + 0) % SectorSize = 0
    <3>1. e + 1 \in Int /\ 0 \in 0 .. SectorSize - 1 /\ SectorSize \in Nat \ {0}
      BY <1>2, <2>1
    <3> HIDE DEF e
    <3> QED
      BY <3>1, DivModUnique
  <2> QED
    BY <1>5, <1>7, <2>1, <2>2
<1> HIDE DEF f
<1>18. /\ Max' = Max /\ disk' = disk /\ i' = i + n /\ clu' = disk.chain[at] + 8
  BY <1>1, <1>3, <1>12 DEF Max
<1>19. \A k : FileByte(k)' = FileByte(k)
  BY <1>1 DEF FileByte, DataStart, RootStart, RootSectors
<1>20. At(i)' = At(i + n)
  BY <1>1, <1>18 DEF At, ClusterSize
<1>21. i' <= Max' /\ (i' < Max' => i' % SectorSize = 0)
  BY <1>7, <1>17, <1>18
<1>22. Len(out') = i' /\ \A k \in 1 .. i' : out'[k] = FileByte(k - 1)'
  BY <1>14, <1>15, <1>18, <1>19
<1>23. At(i)' \in DOMAIN disk'.chain /\ clu' = disk'.chain[At(i)'] + 8
  BY <1>3, <1>16, <1>18, <1>20
<1>24. Closed'
  <2>1. Closed /\ ClusterSize' = ClusterSize
    BY <1>1 DEF Copying, ClusterSize
  <2> QED
    BY <1>1, <2>1 DEF Closed
<1> QED
  BY <1>21, <1>22, <1>23, <1>24 DEF Copying

(* A search that succeeds ends at the first entry that is alike, and hands *)
(* it to the load.                                                         *)
LEMMA SearchEnds ==
  ASSUME IInv, NEW works \in BOOLEAN, FindStep(works), pc' = "load"
  PROVE  /\ i \in DOMAIN disk.root /\ Alike(i) /\ FirstAlike(disk, i)
         /\ found' = i /\ i' = 0 /\ fileSize' = disk.root[i].size
         /\ clu' = Clu(disk.root[i].start + RootClusters)
         /\ InUse /\ pc = "find" /\ UNCHANGED <<disk, part, mount, call, out>>
<1> DEFINE de == DirEntry(RootEntrySector(i, works), i % DirEntriesPerSector)
<1>1. /\ pc = "find" /\ i < mount.rootEntries /\ RootEntrySector(i, works) # Failed
      /\ de.kind # "end" /\ TakeEntry(de)
      /\ UNCHANGED <<disk, part, mount, call, out>>
  BY DEF FindStep, Return
<1>2. /\ found' = i /\ clu' = Clu(de.start + RootClusters) /\ fileSize' = de.size
      /\ i' = 0
  BY <1>1 DEF TakeEntry, Return
<1>3. i \in Nat /\ InUse
  BY <1>1 DEF IInv, TypeOK, CallTypeOK, InUse
<1>4. i \in DOMAIN disk.root /\ de = disk.root[i]
  <2>1. de = IF i \in DOMAIN disk.root THEN disk.root[i] ELSE [kind |-> "end"]
    BY <1>1, <1>3, EntryRead
  <2> HIDE DEF de
  <2> QED
    BY <1>1, <2>1
<1> HIDE DEF de
<1>5. /\ Alike(i)
      /\ \A k \in DOMAIN disk.root : Alike(k) => i <= k
  <2>1. IInv'
    BY FindStepStep
  <2>2. FirstTaken' /\ found' # Failed
    BY <1>2, <1>3, <2>1 DEF IInv, Failed
  <2> QED
    BY <1>1, <1>2, <2>2 DEF FirstTaken, Alike
<1>6. FirstAlike(disk, i)
  BY <1>5 DEF FirstAlike, Alike
<1> QED
  BY <1>1, <1>2, <1>3, <1>4, <1>5, <1>6

(* The k-th entry is one OwnChain is about. *)
Loads(k) ==
  \/ disk.root[k].size = 0
  \/ /\ disk.chain # <<>> /\ disk.root[k].start = disk.chain[1]
     /\ disk.eoc = 65535 \/ disk.root[k].size <= Len(disk.chain) * (disk.spc * SectorSize)

(* The load begins with the first byte of the chain's first cluster. *)
LEMMA CopyBegins ==
  ASSUME IInv, NotYet, Loadable(disk), NEW works \in BOOLEAN, FindStep(works), pc' = "load",
         Loads(i)
  PROVE  Copying'
<1>1. /\ pc = "find" /\ InUse /\ i \in DOMAIN disk.root
      /\ clu' = Clu(disk.root[i].start + RootClusters) /\ fileSize' = disk.root[i].size
      /\ i' = 0 /\ UNCHANGED <<disk, part, mount, call, out>>
  BY SearchEnds
<1>2. out = <<>> /\ call \in Calls /\ disk.root[i].size \in Nat
  BY <1>1, DiskFacts DEF IInv, TypeOK, CallTypeOK, NotYet
<1>3. Max' \in Nat /\ (Max' > 0 => disk.root[i].size # 0)
  <2>1. call.size \in Nat
    BY <1>2, CallerAssumption DEF Calls
  <2> QED
    BY <1>1, <1>2, <2>1 DEF Max
<1>4. Max' > 0 => 1 \in DOMAIN disk.chain /\ clu' = disk.chain[1] + 8
  <2>1. SUFFICES ASSUME Max' > 0 PROVE 1 \in DOMAIN disk.chain /\ clu' = disk.chain[1] + 8
    OBVIOUS
  <2>2. disk.chain # <<>> /\ disk.root[i].start = disk.chain[1]
    BY <1>3, <2>1 DEF Loads
  <2>3. 1 \in DOMAIN disk.chain
    <3>1. disk.chain \in Seq(Nat)
      BY DiskFacts DEF IInv
    <3> QED
      BY <2>2, <3>1
  <2>4. RootClusters = 8
    BY <1>1, RootIsEight
  <2> QED
    BY <1>1, <2>2, <2>3, <2>4, CluWide
<1>5. At(i)' = 1 /\ disk' = disk
  BY <1>1 DEF At
<1>6. 0 % SectorSize = 0
  <2>1. SectorSize \in Nat \ {0} /\ 0 \in 0 .. SectorSize - 1
    BY Sizes
  <2>2. (SectorSize * 0 + 0) % SectorSize = 0
    BY <2>1, DivModUnique
  <2> QED
    BY <2>1, <2>2
<1>7. Len(out') = 0
  BY <1>1, <1>2
<1>8. Closed'
  <2>1. /\ Len(disk.chain) \in Nat /\ ClusterSize \in Nat /\ mount.spc = disk.spc
    <3>1. disk.chain \in Seq(Nat) /\ ClusterSize \in Nat /\ mount.spc = disk.spc
      BY <1>1, DiskFacts, UseFacts DEF IInv
    <3> QED
      BY <3>1
  <2>2. ClusterSize' = ClusterSize /\ ClusterSize = disk.spc * SectorSize
    BY <1>1, <2>1 DEF ClusterSize
  <2>3. 0 <= Len(disk.chain) * ClusterSize
    BY <2>1
  <2>4. disk.eoc = 65535 \/ disk.root[i].size <= Len(disk.chain) * ClusterSize
    BY <2>2, <2>3 DEF Loads
  <2> QED
    BY <1>1, <2>2, <2>4 DEF Closed
<1> QED
  BY <1>1, <1>3, <1>4, <1>5, <1>6, <1>7, <1>8 DEF Copying

(* The search hands the load the file it has found, from its first byte.   *)
LEMMA FirstCluster ==
  ASSUME IInv, NotYet, Loadable(disk), NEW works \in BOOLEAN, FindStep(works), pc' = "load",
         found' \in Bearing(call.name)'
  PROVE  Copying'
<1>1. /\ i \in DOMAIN disk.root /\ FirstAlike(disk, i) /\ found' = i
      /\ UNCHANGED <<disk, call>>
  BY SearchEnds
<1>2. disk.root[i].kind = "file" /\ disk.root[i].name = call.name /\ call.name \in Names
  BY <1>1 DEF Bearing, IInv, TypeOK, CallTypeOK, Calls
<1>3. Loads(i)
  BY <1>1, <1>2 DEF Loadable, OwnChain, Loads
<1> QED
  BY <1>3, CopyBegins

LEMMA LInit == Init => LIInv
<1> SUFFICES ASSUME Init PROVE LIInv
  OBVIOUS
<1>1. ~call.load /\ pc = "off"
  <2> DEFINE S == [name : Names, size : BufSizes, load : {FALSE}]
  <2>1. PICK c : c \in S
    <3>1. PICK name \in Names, size \in BufSizes : TRUE
      BY CallerAssumption
    <3>2. [name |-> name, size |-> size, load |-> FALSE] \in S
      OBVIOUS
    <3> QED
      BY <3>2
  <2>2. (CHOOSE d \in S : TRUE) \in S
    BY <2>1
  <2> QED
    BY <2>2 DEF Init
<1> QED
  BY <1>1, InitIInv DEF LIInv, NotYet, Loading, LoadedIsFile

LEMMA LStep ==
  ASSUME LIInv, Loadable(disk), [Next]_vars
  PROVE  LIInv'
<1>1. IInv /\ IInv' /\ NotYet /\ Loading /\ LoadedIsFile
  BY Step DEF LIInv
<1>2. CASE UNCHANGED vars
  BY <1>1, <1>2
     DEF vars, LIInv, NotYet, Loading, LoadedIsFile, Copying, Closed, Bearing, Max, At, FileByte,
         DataStart, RootStart, RootSectors, ClusterSize
<1>3. ASSUME NEW works \in BOOLEAN, HddInit(works) PROVE LIInv'
  BY <1>1, <1>3 DEF HddInit, LIInv, NotYet, Loading, LoadedIsFile
<1>4. ASSUME NEW works \in BOOLEAN, NEW p \in Partitions, Mount(p, works) PROVE LIInv'
  BY <1>1, <1>4 DEF Mount, LIInv, NotYet, Loading, LoadedIsFile
<1>5. ASSUME NEW name \in Names, NEW s \in BufSizes, NEW load \in BOOLEAN, Call(name, s, load)
      PROVE  LIInv'
  BY <1>1, <1>5 DEF Call, LIInv, NotYet, Loading, LoadedIsFile
<1>6. ASSUME NEW works \in BOOLEAN, FindStep(works) PROVE LIInv'
  <2>1. /\ pc = "find" /\ UNCHANGED <<call, out>>
        /\ \/ pc' = "find"
           \/ pc' = "load" /\ call.load
           \/ pc' = "idle" /\ (result' = Failed \/ ~call.load)
    BY <1>6 DEF FindStep, TakeEntry, Return
  <2>2. NotYet' /\ LoadedIsFile'
    BY <1>1, <2>1 DEF NotYet, LoadedIsFile
  <2>3. Loading'
    BY <1>1, <1>6, <2>1, FirstCluster DEF Loading
  <2> QED
    BY <1>1, <2>2, <2>3 DEF LIInv
<1>7. ASSUME NEW works \in BOOLEAN, NEW fatWorks \in BOOLEAN, LoadStep(fatWorks, works)
      PROVE  LIInv'
  <2>1. /\ pc = "load" /\ UNCHANGED <<disk, call, found>>
        /\ pc' = "load" \/ (pc' = "idle" /\ result' = Failed)
    BY <1>7 DEF LoadStep, Return
  <2>2. NotYet' /\ LoadedIsFile'
    BY <2>1 DEF NotYet, LoadedIsFile
  <2>3. Loading'
    <3>1. ASSUME pc' = "load", found \in Bearing(call.name) PROVE Copying'
      <4>1. Copying
        BY <1>1, <2>1, <3>1 DEF Loading
      <4> QED
        BY <1>1, <1>7, <3>1, <4>1, CopySector
    <3>2. call'.load /\ Bearing(call.name)' = Bearing(call.name)
      BY <1>1, <2>1 DEF Loading, Bearing
    <3> QED
      BY <2>1, <3>1, <3>2 DEF Loading
  <2> QED
    BY <1>1, <2>2, <2>3 DEF LIInv
<1>8. CASE LoadEnd
  <2>1. /\ pc = "load" /\ pc' = "idle" /\ result' = i /\ i >= Max
        /\ UNCHANGED <<disk, part, mount, call, i, fileSize, out, found>>
    BY <1>8 DEF LoadEnd, Return
  <2>2. NotYet' /\ Loading'
    BY <2>1 DEF NotYet, Loading
  <2>3. LoadedIsFile'
    <3>1. SUFFICES ASSUME found \in Bearing(call.name)
                   PROVE  /\ i = Max /\ Len(out) = i
                          /\ \A k \in 1 .. i : out[k] = FileByte(k - 1)
      BY <2>1 DEF LoadedIsFile, Bearing, Max, FileByte, DataStart, RootStart, RootSectors
    <3>2. Copying
      BY <1>1, <2>1, <3>1 DEF Loading
    <3>3. i \in Nat /\ Max \in Nat
      BY <1>1, CallerAssumption DEF IInv, TypeOK, CallTypeOK, Calls, Max
    <3> QED
      BY <2>1, <3>2, <3>3 DEF Copying
  <2> QED
    BY <1>1, <2>2, <2>3 DEF LIInv
<1> QED
  BY <1>2, <1>3, <1>4, <1>5, <1>6, <1>7, <1>8 DEF Next

(* What fat16_load returns as read is the file, byte for byte, from drives *)
(* whose root directory takes the eight clusters it counts on.             *)
THEOREM LoadRight ==
  ASSUME \A d \in Disks : Loadable(d)
  PROVE  Spec => []LoadedIsFile
<1>1. Init => LIInv
  BY LInit
<1>2. LIInv /\ [Next]_vars => LIInv'
  BY LStep DEF LIInv, IInv
<1>3. LIInv => LoadedIsFile
  BY DEF LIInv
<1> QED
  BY <1>1, <1>2, <1>3, PTL DEF Spec
-----------------------------------------------------------------------------
(* Not giving up.                                                          *)

(* What is mounted is a partition of the table. *)
Served == InUse => part[mount.pnum].valid

(* The load is under way whatever file it was the search came to, and the  *)
(* chain is long enough for it.                                            *)
Started == pc = "load" => Copying /\ fileSize <= Len(disk.chain) * ClusterSize

FInv == IInv /\ NotYet /\ Served /\ Started

LEMMA DivBelow ==
  ASSUME NEW n \in Nat \ {0}, NEW a \in Nat, NEW c \in Nat, a < n * c
  PROVE  a \div n < c
<1> DEFINE q == a \div n
<1>1. q \in Nat /\ a % n \in 0 .. n - 1 /\ a = n * q + (a % n)
  BY DivMod
<1> HIDE DEF q
<1>2. ASSUME c <= q PROVE FALSE
  <2>1. n * c \in Int /\ n * q \in Int /\ n * c <= n * q
    BY <1>1, <1>2, TimesMonotone
  <2> QED
    BY <1>1, <2>1
<1>3. q < c
  BY <1>1, <1>2
<1> QED
  BY <1>3 DEF q

LEMMA CompleteFacts ==
  ASSUME disk \in Disks, Complete(disk)
  PROVE  /\ disk.sectors \in Nat
         /\ disk.start + disk.sectors <= NumSectors
         /\ disk.start + disk.sectors <= 1024 * (Heads * Spt)
         /\ disk.nf > 0 /\ RootStart + 8 * disk.spc <= disk.sectors
         /\ \A k \in DOMAIN disk.root : k < disk.rootEntries /\ 0 .. k \subseteq DOMAIN disk.root
         /\ \A j \in DOMAIN disk.chain :
              /\ disk.chain[j] < disk.spf * FatEntriesPerSector
              /\ RootStart + (disk.chain[j] + 7) * disk.spc <= disk.sectors
         /\ WholeChain(disk)
<1>1. {disk.start, disk.sectors, disk.res, disk.nf, disk.spf, disk.rootEntries} \subseteq Nat
  BY DisksAssumption, Zenon
<1> QED
  BY <1>1, Zenon DEF Complete, Reachable, LaidOut, RootStart

(* The driver reaches every sector of the volume.                          *)
LEMMA SectorReached ==
  ASSUME IInv, InUse, Served, Complete(disk), ~CutShort,
         NEW rsec \in Nat, rsec < disk.sectors
  PROVE  ReadSector(rsec, TRUE) = disk.start + rsec /\ ReadSector(rsec, TRUE) # Failed
<1>1. /\ disk.start \in Nat /\ disk.sectors \in Nat /\ NumSectors \in Nat
      /\ Heads \in Nat \ {0} /\ Spt \in Nat \ {0}
      /\ disk.start + disk.sectors <= NumSectors
      /\ disk.start + disk.sectors <= 1024 * (Heads * Spt)
  BY CompleteFacts, DiskFacts, Sizes DEF IInv
<1>2. /\ mount.pnum \in Partitions /\ part \in PartitionTable
      /\ part[mount.pnum].valid /\ part[mount.pnum].first = disk.start
  BY UseFacts DEF Served
<1>3. part[mount.pnum].num \in Nat
  BY <1>2 DEF PartitionTable
<1>4. rsec < part[mount.pnum].num
  BY <1>1, <1>3 DEF CutShort
<1> DEFINE lba == disk.start + rsec
<1>5. lba \in Nat /\ lba < NumSectors /\ lba < 1024 * (Heads * Spt) /\ lba # Failed
  BY <1>1 DEF Failed
<1>6. Rel2Abs(part, mount.pnum, rsec) = lba
  BY <1>2, <1>3, <1>4 DEF Rel2Abs
<1> HIDE DEF lba
<1>7. Lba2Chs(lba).c \in Nat /\ Lba2Chs(lba).c < 1024
  <2> DEFINE t == Heads * Spt
  <2>1. t \in Nat \ {0}
    BY <1>1
  <2>2. Lba2Chs(lba).c = lba \div t
    BY DEF Lba2Chs
  <2> HIDE DEF t
  <2>3. 1024 * t = t * 1024
    BY <2>1
  <2>4. lba < t * 1024
    BY <1>5, <2>3 DEF t
  <2>5. lba \div t \in Nat
    BY <1>5, <2>1, DivMod
  <2>6. lba \div t < 1024
    <3>1. 1024 \in Nat /\ lba \in Nat
      BY <1>5
    <3> QED
      BY <2>1, <2>4, <3>1, DivBelow
  <2> QED
    BY <2>2, <2>5, <2>6
<1>8. AtaSector(lba) = lba
  <2>1. ~(lba >= NumSectors \/ Lba2Chs(lba).c > 1023)
    BY <1>1, <1>5, <1>7
  <2> QED
    BY <1>5, <2>1, ChsIsLba DEF AtaSector
<1>9. ReadSector(rsec, TRUE) = lba
  BY <1>5, <1>6, <1>8 DEF ReadSector, HddSector
<1> QED
  BY <1>5, <1>9 DEF lba

(* So are the sectors of the root directory,                               *)
LEMMA EntryReached ==
  ASSUME IInv, InUse, Served, Loadable(disk), Complete(disk), ~CutShort,
         NEW n \in Nat, n < disk.rootEntries
  PROVE  RootEntrySector(n, TRUE) # Failed
<1> DEFINE b == n * DirEntrySize
           steps == b \div ClusterSize
           sec == (b \div SectorSize) % mount.spc
<1>1. /\ SectorSize \in Nat \ {0} /\ DirEntrySize \in Nat \ {0} /\ ClusterSize \in Nat \ {0}
      /\ mount.spc \in Nat \ {0} /\ mount.spc = disk.spc /\ disk.rootEntries \in Nat
      /\ mount.cluStart = RootStart /\ RootStart \in Nat /\ disk.sectors \in Nat
      /\ RootStart + 8 * disk.spc <= disk.sectors
  BY UseFacts, Sizes, DiskFacts, CompleteFacts DEF IInv
<1>2. b \in Nat /\ b < ClusterSize * 8
  <2>1. /\ DirEntrySize * (n + 1) \in Int /\ DirEntrySize * disk.rootEntries \in Int
        /\ DirEntrySize * (n + 1) <= DirEntrySize * disk.rootEntries
    BY <1>1, TimesMonotone
  <2>2. DirEntrySize * (n + 1) = b + DirEntrySize /\ b \in Nat
    BY <1>1
  <2>3. DirEntrySize * disk.rootEntries = ClusterSize * 8
    <3>1. disk.rootEntries * DirEntrySize = 8 * (disk.spc * SectorSize)
      BY DEF Loadable, EightClusters
    <3>2. DirEntrySize * disk.rootEntries = disk.rootEntries * DirEntrySize
      BY <1>1
    <3>3. ClusterSize = disk.spc * SectorSize
      BY <1>1 DEF ClusterSize
    <3>4. ClusterSize * 8 = 8 * ClusterSize
      BY <1>1
    <3> QED
      BY <3>1, <3>2, <3>3, <3>4
  <2> HIDE DEF b
  <2> QED
    BY <1>1, <2>1, <2>2, <2>3
<1> HIDE DEF b
<1>3. steps \in Nat /\ steps < 8
  BY <1>1, <1>2, DivBelow, DivMod
<1>4. sec \in 0 .. mount.spc - 1
  <2>1. b \div SectorSize \in Nat
    BY <1>1, <1>2, DivMod
  <2> HIDE DEF b
  <2> QED
    BY <1>1, <2>1, DivMod
<1>5. RootEntrySector(n, TRUE) = ReadClusterSec(2 + steps, sec, TRUE)
  <2>1. RootEntrySector(n, TRUE)
          = IF steps >= RootClusters THEN Failed ELSE ReadClusterSec(2 + steps, sec, TRUE)
    BY Zenon DEF RootEntrySector, b
  <2>2. ~(steps >= RootClusters)
    <3>1. RootClusters = 8
      BY RootIsEight
    <3> HIDE DEF steps
    <3> QED
      BY <1>3, <3>1
  <2> QED
    BY <2>1, <2>2, Zenon
<1> HIDE DEF steps, sec
<1>6. (2 + steps) - 2 = steps /\ ~(2 + steps < 2) /\ ~(sec >= mount.spc) /\ sec \in Nat
  BY <1>1, <1>3, <1>4
<1>7. ReadClusterSec(2 + steps, sec, TRUE) = ReadSector(sec + steps * mount.spc + mount.cluStart, TRUE)
  BY <1>6 DEF ReadClusterSec
<1>8. /\ sec + steps * mount.spc + mount.cluStart \in Nat
      /\ sec + steps * mount.spc + mount.cluStart < disk.sectors
  <2>1. /\ mount.spc * steps \in Int /\ mount.spc * 7 \in Int
        /\ mount.spc * steps <= mount.spc * 7
    BY <1>1, <1>3, TimesMonotone
  <2>2. steps * mount.spc = mount.spc * steps /\ mount.spc * steps \in Nat
    BY <1>1, <1>3
  <2> QED
    BY <1>1, <1>4, <1>6, <2>1, <2>2
<1> QED
  BY <1>5, <1>7, <1>8, SectorReached

(* those of a cluster of the chain, whose number fat16_load counts from    *)
(* the root directory,                                                     *)
LEMMA ClusterReached ==
  ASSUME IInv, InUse, Served, Loadable(disk), Complete(disk), ~CutShort,
         NEW j \in DOMAIN disk.chain, NEW sec \in 0 .. mount.spc - 1
  PROVE  ReadClusterSec(disk.chain[j] + 8, sec, TRUE) # Failed
<1> DEFINE m == disk.chain[j]
<1>1. /\ mount.spc \in Nat \ {0} /\ mount.spc = disk.spc /\ disk.sectors \in Nat
      /\ mount.cluStart = RootStart /\ RootStart \in Nat /\ m \in Nat
      /\ RootStart + (m + 7) * disk.spc <= disk.sectors
  BY UseFacts, DiskFacts, CompleteFacts, CluWide DEF IInv
<1> HIDE DEF m
<1>2. /\ ~(m + 8 < 2) /\ ~(sec >= mount.spc) /\ (m + 8) - 2 = m + 6 /\ sec \in Nat
  BY <1>1
<1>3. ReadClusterSec(m + 8, sec, TRUE) = ReadSector(sec + (m + 6) * mount.spc + mount.cluStart, TRUE)
  BY <1>2 DEF ReadClusterSec
<1>4. (m + 7) * disk.spc = (m + 6) * mount.spc + mount.spc /\ (m + 6) * mount.spc \in Nat
  BY <1>1
<1>5. /\ sec + (m + 6) * mount.spc + mount.cluStart \in Nat
      /\ sec + (m + 6) * mount.spc + mount.cluStart < disk.sectors
  BY <1>1, <1>2, <1>4
<1> QED
  BY <1>3, <1>5, SectorReached DEF m

(* and that with the cluster's entry in the FAT.                           *)
LEMMA FatReached ==
  ASSUME IInv, InUse, Served, Loadable(disk), Complete(disk), ~CutShort,
         NEW j \in DOMAIN disk.chain
  PROVE  /\ FatSector(disk.chain[j] + 8, TRUE) # Failed
         /\ FatSector(disk.chain[j] + 8, TRUE)
              = disk.start + (disk.chain[j] \div FatEntriesPerSector + disk.res)
         /\ disk.chain[j] \div FatEntriesPerSector \in 0 .. disk.spf - 1
<1> DEFINE m == disk.chain[j]
           q == m \div FatEntriesPerSector
<1>1. /\ disk.res \in Nat /\ disk.nf \in Nat /\ disk.spf \in Nat /\ disk.sectors \in Nat
      /\ disk.spc \in Nat \ {0} /\ mount.fatStart = disk.res
      /\ FatEntriesPerSector \in Nat \ {0} /\ m \in Nat /\ m >= 2
      /\ m < disk.spf * FatEntriesPerSector
      /\ disk.nf > 0 /\ disk.res + disk.nf * disk.spf + 8 * disk.spc <= disk.sectors
  <2>1. m \in Clusters /\ m \in Nat
    BY ChainFacts, CluNat
  <2>2. m >= 2
    <3> HIDE DEF m
    <3> QED
      BY <2>1 DEF Clusters
  <2> QED
    BY <2>1, <2>2, UseFacts, DiskFacts, Sizes, CompleteFacts DEF IInv, RootStart
<1> HIDE DEF m
<1>2. q \in Nat /\ q < disk.spf
  <2>1. disk.spf * FatEntriesPerSector = FatEntriesPerSector * disk.spf
    BY <1>1
  <2> QED
    BY <1>1, <2>1, DivBelow, DivMod
<1>3. RootClusters = 8 /\ (m + 8) - 8 = m /\ ~(m + 8 < 2 + 8)
  BY <1>1, RootIsEight
<1>4. FatSector(m + 8, TRUE) = ReadSector(q + disk.res, TRUE)
  BY <1>1, <1>3 DEF FatSector
<1> HIDE DEF q
<1>5. q + disk.res \in Nat /\ q + disk.res < disk.sectors
  <2>1. disk.spf * 1 <= disk.spf * disk.nf /\ disk.spf * disk.nf = disk.nf * disk.spf
    BY <1>1, TimesMonotone
  <2>2. disk.nf * disk.spf \in Nat
    BY <1>1
  <2> QED
    BY <1>1, <1>2, <2>1, <2>2
<1>6. ReadSector(q + disk.res, TRUE) = disk.start + (q + disk.res)
      /\ ReadSector(q + disk.res, TRUE) # Failed
  BY <1>5, SectorReached
<1>7. q \in 0 .. disk.spf - 1
  BY <1>1, <1>2
<1> QED
  BY <1>4, <1>6, <1>7 DEF m, q

LEMMA NoChainEnd == ASSUME NEW m \in Clusters PROVE m \notin ChainEnds
<1>1. m \in Nat /\ 2 <= m /\ m <= 65519
  BY DEF Clusters
<1>2. m # 0 /\ m # 65535
  BY <1>1
<1> QED
  BY <1>2 DEF ChainEnds

(* While the chain goes on, so does _fat_get_next_clu_num.                 *)
LEMMA ChainGoesOn ==
  ASSUME IInv, InUse, Served, Loadable(disk), Complete(disk), ~CutShort,
         NEW j \in DOMAIN disk.chain, j < Len(disk.chain)
  PROVE  NextClu(disk.chain[j] + 8, FatSector(disk.chain[j] + 8, TRUE)) \notin ChainEnds
<1> DEFINE m == disk.chain[j]
           q == m \div FatEntriesPerSector
           r == m % FatEntriesPerSector
           sector == FatSector(m + 8, TRUE)
<1>1. /\ disk.chain \in Seq(Nat) /\ disk.start \in Nat /\ disk.res \in Nat
      /\ disk.spf \in Nat /\ FatEntriesPerSector \in Nat \ {0} /\ m \in Nat
  BY DiskFacts, Sizes, CluWide DEF IInv
<1>2. /\ sector # Failed /\ sector = disk.start + (q + disk.res)
      /\ q \in 0 .. disk.spf - 1
  BY FatReached
<1>3. /\ m = FatEntriesPerSector * q + r /\ r \in Nat
  <2> HIDE DEF m
  <2>1. m = FatEntriesPerSector * q + r /\ r \in 0 .. FatEntriesPerSector - 1
    BY <1>1, DivMod
  <2> QED
    BY <1>1, <2>1
<1>4. NextClu(m + 8, sector) = FatWord(sector, r)
  <2>1. RootClusters = 8 /\ (m + 8) - 8 = m
    BY <1>1, RootIsEight
  <2> HIDE DEF m, sector
  <2> QED
    BY <1>2, <2>1 DEF NextClu
<1> HIDE DEF sector, q, r
<1> DEFINE n == (sector - disk.start - disk.res) * FatEntriesPerSector + r
           there == {h \in DOMAIN disk.chain : disk.chain[h] = n}
           pick == CHOOSE h \in there : TRUE
<1>5. n = m /\ sector - disk.start \in disk.res .. disk.res + disk.spf - 1
  <2> HIDE DEF m
  <2>1. sector - disk.start - disk.res = q
    BY <1>1, <1>2
  <2>2. q * FatEntriesPerSector = FatEntriesPerSector * q
    BY <1>1, <1>2
  <2>3. n = m
    BY <1>1, <1>3, <2>1, <2>2
  <2>4. sector - disk.start = disk.res + q
    BY <1>1, <1>2
  <2>5. sector - disk.start \in disk.res .. disk.res + disk.spf - 1
    <3>1. q \in Int /\ 0 <= q /\ q <= disk.spf - 1 /\ disk.res \in Nat /\ disk.spf \in Nat
      BY <1>1, <1>2
    <3>2. disk.res + q \in disk.res .. disk.res + disk.spf - 1
      BY <3>1
    <3> QED
      BY <2>4, <3>2
  <2> HIDE DEF n
  <2> QED
    BY <2>3, <2>5
<1>6. there = {j}
  <2>1. \A h \in DOMAIN disk.chain : disk.chain[h] = disk.chain[j] => h = j
    BY ChainFacts
  <2> HIDE DEF n
  <2> QED
    BY <1>5, <2>1
<1>7. pick = j
  BY <1>6
<1>8. FatWord(sector, r) = IF pick = Len(disk.chain) THEN disk.eoc ELSE disk.chain[pick + 1]
  <2>1. there # {}
    BY <1>6
  <2> QED
    BY <1>5, <2>1 DEF FatWord
<1> HIDE DEF pick
<1>9. j + 1 \in DOMAIN disk.chain /\ j # Len(disk.chain)
  <2>1. DOMAIN disk.chain = 1 .. Len(disk.chain) /\ Len(disk.chain) \in Nat
    BY <1>1
  <2> QED
    BY <2>1
<1>10. FatWord(sector, r) = disk.chain[j + 1]
  BY <1>7, <1>8, <1>9
<1>11. disk.chain[j + 1] \in Clusters
  BY <1>9, ChainFacts
<1> QED
  BY <1>4, <1>10, <1>11, NoChainEnd DEF sector, m

(* A file that a caller's name is taken for has a chain that is long       *)
(* enough, and the load begins at its beginning.                           *)
LEMMA LoadBegins ==
  ASSUME IInv, NotYet, Loadable(disk), Complete(disk),
         NEW works \in BOOLEAN, FindStep(works), pc' = "load"
  PROVE  Copying' /\ (fileSize <= Len(disk.chain) * ClusterSize)'
<1>1. /\ i \in DOMAIN disk.root /\ Alike(i) /\ FirstAlike(disk, i) /\ InUse
      /\ fileSize' = disk.root[i].size /\ UNCHANGED <<disk, mount>>
  BY SearchEnds
<1>2. EndsSearch(disk, i)
  <2>1. call.name \in Names
    BY DEF IInv, TypeOK, CallTypeOK, Calls
  <2> QED
    BY <1>1, <2>1 DEF EndsSearch, Alike
<1>3. \/ disk.root[i].size = 0
      \/ /\ disk.chain # <<>> /\ disk.root[i].start = disk.chain[1]
         /\ disk.root[i].size <= Len(disk.chain) * (disk.spc * SectorSize)
  BY <1>1, <1>2 DEF Complete, WholeChain
<1>4. Copying'
  BY <1>3, CopyBegins DEF Loads
<1>5. Len(disk.chain) * ClusterSize \in Nat /\ ClusterSize = disk.spc * SectorSize
  <2>1. disk.chain \in Seq(Nat) /\ ClusterSize \in Nat /\ mount.spc = disk.spc
    BY <1>1, DiskFacts, UseFacts DEF IInv
  <2>2. Len(disk.chain) \in Nat
    BY <2>1
  <2> QED
    BY <2>1, <2>2 DEF ClusterSize
<1>6. disk.root[i].size <= Len(disk.chain) * ClusterSize
  BY <1>3, <1>5
<1>7. (Len(disk.chain) * ClusterSize)' = Len(disk.chain) * ClusterSize
  BY <1>1 DEF ClusterSize
<1> QED
  BY <1>1, <1>4, <1>6, <1>7

LEMMA FStep ==
  ASSUME FInv, Loadable(disk), Complete(disk), [Next]_vars
  PROVE  FInv'
<1>1. IInv /\ IInv' /\ NotYet /\ Served /\ Started
  BY Step DEF FInv
<1>2. CASE UNCHANGED vars
  BY <1>1, <1>2
     DEF vars, FInv, NotYet, Served, Started, InUse, Copying, Closed, Max, At, FileByte, DataStart,
         RootStart, RootSectors, ClusterSize
<1>3. ASSUME NEW works \in BOOLEAN, HddInit(works) PROVE FInv'
  BY <1>1, <1>3 DEF HddInit, FInv, NotYet, Served, Started, InUse
<1>4. ASSUME NEW works \in BOOLEAN, NEW p \in Partitions, Mount(p, works) PROVE FInv'
  <2>1. /\ pc = "hdd" /\ pc' \in {"idle", "error"} /\ UNCHANGED <<part, call, out>>
    BY <1>4 DEF Mount
  <2>2. NotYet' /\ Started'
    BY <2>1 DEF NotYet, Started
  <2>3. Served'
    <3>1. SUFFICES ASSUME pc' = "idle" PROVE part'[mount'.pnum].valid
      BY <2>1 DEF Served, InUse
    <3>2. mount'.mounted /\ bufSec' # Failed
      <4> DEFINE sector == IF works THEN HddSector(part, p, 0) ELSE Failed
      <4>1. sector # Failed
        BY <1>4, <3>1 DEF Mount
      <4>2. /\ bufSec' = sector
            /\ mount' = [mounted |-> TRUE, pnum |-> p, spc |-> disk.spc,
                         rootEntries |-> disk.rootEntries,
                         cluStart |-> disk.res + disk.nf * disk.spf, fatStart |-> disk.res]
        BY <1>4, <4>1 DEF Mount
      <4> HIDE DEF sector
      <4> QED
        BY <4>1, <4>2
    <3> QED
      BY <1>1, <3>2 DEF IInv, ReadsInPartition
  <2> QED
    BY <1>1, <2>2, <2>3 DEF FInv
<1>5. ASSUME NEW name \in Names, NEW s \in BufSizes, NEW load \in BOOLEAN, Call(name, s, load)
      PROVE  FInv'
  BY <1>1, <1>5 DEF Call, FInv, NotYet, Served, Started, InUse
<1>6. ASSUME NEW works \in BOOLEAN, FindStep(works) PROVE FInv'
  <2>1. /\ pc = "find" /\ pc' \in {"find", "load", "idle"}
        /\ UNCHANGED <<part, mount, call, out>>
    BY <1>6 DEF FindStep, TakeEntry, Return
  <2>2. NotYet' /\ Served'
    BY <1>1, <2>1 DEF NotYet, Served, InUse
  <2>3. Started'
    BY <1>1, <1>6, LoadBegins DEF Started
  <2> QED
    BY <1>1, <2>2, <2>3 DEF FInv
<1>7. ASSUME NEW works \in BOOLEAN, NEW fatWorks \in BOOLEAN, LoadStep(fatWorks, works)
      PROVE  FInv'
  <2>1. /\ pc = "load" /\ pc' \in {"load", "idle"}
        /\ UNCHANGED <<disk, part, mount, call, fileSize>>
    BY <1>7 DEF LoadStep, Return
  <2>2. NotYet' /\ Served'
    BY <1>1, <2>1 DEF NotYet, Served, InUse
  <2>3. Started'
    <3>1. Copying /\ fileSize <= Len(disk.chain) * ClusterSize
      BY <1>1, <2>1 DEF Started
    <3>2. pc' = "load" => Copying'
      BY <1>1, <1>7, <3>1, CopySector
    <3>3. (Len(disk.chain) * ClusterSize)' = Len(disk.chain) * ClusterSize
      BY <2>1 DEF ClusterSize
    <3> QED
      BY <2>1, <3>1, <3>2, <3>3 DEF Started
  <2> QED
    BY <1>1, <2>2, <2>3 DEF FInv
<1>8. CASE LoadEnd
  <2>1. pc = "load" /\ pc' = "idle" /\ UNCHANGED <<part, mount>>
    BY <1>8 DEF LoadEnd, Return
  <2>2. NotYet' /\ Served' /\ Started'
    BY <1>1, <2>1 DEF NotYet, Served, InUse, Started
  <2> QED
    BY <1>1, <2>2 DEF FInv
<1> QED
  BY <1>2, <1>3, <1>4, <1>5, <1>6, <1>7, <1>8 DEF Next

(* A search ends without success only where no entry bears the name.       *)
LEMMA SearchGoesOn ==
  ASSUME FInv, Loadable(disk), Complete(disk), ~CutShort, Bearing(call.name) # {},
         FindStep(TRUE)
  PROVE  result' # Failed \/ pc' # "idle"
<1> DEFINE sector == IF i < mount.rootEntries THEN RootEntrySector(i, TRUE) ELSE Failed
           de == DirEntry(sector, i % DirEntriesPerSector)
<1>1. /\ IInv /\ Served /\ pc = "find" /\ InUse /\ i \in Nat
  BY DEF FInv, IInv, TypeOK, CallTypeOK, FindStep, InUse
<1>2. i \in DOMAIN disk.root /\ i < disk.rootEntries
  <2>1. PICK b \in DOMAIN disk.root : Alike(b)
    BY DEF Bearing, Named, Alike
  <2>2. b \in Nat /\ i <= b
    BY <1>1, <2>1, DiskFacts DEF IInv, Searching
  <2>3. 0 .. b \subseteq DOMAIN disk.root
    BY <1>1, CompleteFacts DEF IInv
  <2>4. i \in DOMAIN disk.root
    BY <1>1, <2>2, <2>3
  <2> QED
    BY <1>1, <2>4, CompleteFacts DEF IInv
<1>3. sector = RootEntrySector(i, TRUE) /\ sector # Failed
  BY <1>1, <1>2, EntryReached, UseFacts
<1> HIDE DEF sector
<1>4. de = disk.root[i]
  BY <1>1, <1>2, <1>3, EntryRead
<1>5. de.kind # "end" /\ de.size \in Nat
  BY <1>1, <1>2, <1>4, DiskFacts DEF IInv
<1> HIDE DEF de
<1>6. \/ /\ sector = Failed \/ de.kind = "end"
         /\ pc' = "idle" /\ result' = Failed
      \/ TakeEntry(de)
      \/ UNCHANGED pc
  BY Zenon DEF FindStep, Return, sector, de
<1>7. CASE TakeEntry(de)
  <2>1. pc' = "load" \/ result' = de.size
    BY <1>7 DEF TakeEntry, Return
  <2>2. de.size # Failed
    BY <1>5 DEF Failed
  <2> QED
    BY <2>1, <2>2
<1>8. CASE UNCHANGED pc
  BY <1>1, <1>8
<1> QED
  BY <1>3, <1>5, <1>6, <1>7, <1>8

(* At the end of a cluster that is not the file's last, its number is that *)
(* of a cluster of the chain with another one behind it.                   *)
LEMMA ChainIsLeft ==
  ASSUME FInv, pc = "load", i < Max, NewCluster
  PROVE  \E j \in DOMAIN disk.chain : j < Len(disk.chain) /\ clu = disk.chain[j] + 8
<1>1. /\ IInv /\ Copying /\ fileSize <= Len(disk.chain) * ClusterSize /\ InUse
      /\ i > 0 /\ i % ClusterSize = 0
  BY DEF FInv, Started, InUse, NewCluster
<1>2. /\ ClusterSize \in Nat \ {0} /\ i \in Nat /\ fileSize \in Nat /\ call.size \in Nat
      /\ disk.chain \in Seq(Nat)
  BY <1>1, UseFacts, DiskFacts, CallerAssumption DEF IInv, TypeOK, CallTypeOK, Calls
<1>3. Max \in Nat /\ i < fileSize /\ Len(disk.chain) \in Nat
  BY <1>2 DEF Max
<1> DEFINE a == i \div ClusterSize
<1>4. a \in Nat /\ i = ClusterSize * a + (i % ClusterSize)
  BY <1>2, DivMod
<1> HIDE DEF a
<1>5. i = ClusterSize * a
  BY <1>1, <1>2, <1>4
<1>6. a # 0
  BY <1>1, <1>2, <1>5
<1>7. a < Len(disk.chain)
  <2>1. ASSUME Len(disk.chain) <= a PROVE FALSE
    <3>1. /\ ClusterSize * Len(disk.chain) \in Int /\ ClusterSize * a \in Int
          /\ ClusterSize * Len(disk.chain) <= ClusterSize * a
      <4>1. ClusterSize \in Nat /\ Len(disk.chain) \in Int /\ a \in Int
        BY <1>2, <1>3, <1>4
      <4> QED
        BY <2>1, <4>1, TimesMonotone
    <3>2. Len(disk.chain) * ClusterSize = ClusterSize * Len(disk.chain)
      BY <1>2, <1>3
    <3> QED
      BY <1>1, <1>2, <1>3, <1>5, <3>1, <3>2
  <2> QED
    BY <1>3, <1>4, <2>1
<1>8. At(i) = a
  BY <1>1, <1>4, <1>5, <1>6, AtBoundary
<1>9. a \in DOMAIN disk.chain /\ clu = disk.chain[a] + 8
  BY <1>1, <1>3, <1>8 DEF Copying
<1> QED
  BY <1>7, <1>9

(* The walk along the FAT comes to every cluster the copy needs. *)
LEMMA LoadGoesOn ==
  ASSUME FInv, Loadable(disk), Complete(disk), ~CutShort,
         NEW fatWorks \in BOOLEAN, NewCluster => fatWorks, LoadStep(fatWorks, TRUE)
  PROVE  pc' # "idle"
<1> DEFINE fat == IF NewCluster THEN FatSector(clu, fatWorks) ELSE Failed
           next == IF NewCluster THEN NextClu(clu, fat) ELSE clu
           stop == NewCluster /\ next \in ChainEnds
           c == IF NewCluster THEN Clu(next + 8) ELSE clu
           sec == (i \div SectorSize) % mount.spc
           at == ((i \div SectorSize) \div mount.spc) + 1
           sector == IF stop THEN Failed ELSE ReadClusterSec(c, sec, TRUE)
<1>1. /\ pc = "load" /\ i < Max /\ InUse
      /\ \/ sector = Failed
         \/ UNCHANGED pc
  BY Zenon DEF LoadStep, Return, InUse
<1>2. IInv /\ Served /\ Copying
  BY <1>1 DEF FInv, Started
<1>3. ~stop
  <2>1. SUFFICES ASSUME NewCluster PROVE next \notin ChainEnds
    OBVIOUS
  <2>2. PICK j \in DOMAIN disk.chain : j < Len(disk.chain) /\ clu = disk.chain[j] + 8
    BY <1>1, <2>1, ChainIsLeft
  <2>3. fatWorks = TRUE /\ next = NextClu(clu, FatSector(clu, fatWorks))
    BY <2>1
  <2>4. next = NextClu(disk.chain[j] + 8, FatSector(disk.chain[j] + 8, TRUE))
    BY <2>2, <2>3
  <2> HIDE DEF next
  <2> QED
    BY <1>1, <1>2, <2>2, <2>4, ChainGoesOn
<1>4. next = IF NewCluster THEN NextClu(clu, FatSector(clu, fatWorks)) ELSE clu
  OBVIOUS
<1>5. sector = ReadClusterSec(c, sec, TRUE)
  BY <1>3
<1>6. at \in DOMAIN disk.chain /\ c = disk.chain[at] + 8
  <2> HIDE DEF next, at
  <2>1. at = ((i \div SectorSize) \div mount.spc) + 1
    BY DEF at
  <2> QED
    BY <1>1, <1>2, <1>3, <1>4, <2>1, ClusterOfByte
<1>7. sec \in 0 .. mount.spc - 1
  <2>1. i \in Nat /\ SectorSize \in Nat \ {0} /\ mount.spc \in Nat \ {0}
    BY <1>1, <1>2, UseFacts, Sizes DEF IInv, TypeOK, CallTypeOK
  <2>2. i \div SectorSize \in Nat
    BY <2>1, DivMod
  <2> QED
    BY <2>1, <2>2, DivMod
<1> HIDE DEF sector, c, at, sec
<1>8. sector # Failed
  BY <1>1, <1>2, <1>5, <1>6, <1>7, ClusterReached
<1> QED
  BY <1>1, <1>8

(* A file that is there is found and loaded: fat16_load and                *)
(* fat16_get_file_size fail only when a read fails or the partition is     *)
(* smaller than the volume in it, for files and directories of any length  *)
(* on drives that hold what their parameters say.                          *)
THEOREM LoadSucceeds ==
  ASSUME \A d \in Disks : Loadable(d) /\ Complete(d)
  PROVE  Spec => FoundAndLoaded
<1>1. Init => FInv
  <2>1. Init => pc = "off"
    BY DEF Init
  <2> QED
    BY <2>1, LInit DEF FInv, LIInv, Served, InUse, Started
<1>2. FInv => Loadable(disk) /\ Complete(disk)
  BY DEF FInv, IInv
<1>3. FInv /\ [Next]_vars => FInv'
  BY <1>2, FStep
<1>4. FInv /\ [Next]_vars
        => [GivesUp => ioFailed' \/ Bearing(call.name) = {} \/ CutShort]_vars
  <2>1. SUFFICES ASSUME FInv, Next, GivesUp, ~ioFailed', Bearing(call.name) # {}, ~CutShort
                 PROVE  FALSE
    BY Zenon
  <2>2. pc \in {"find", "load"} /\ pc' = "idle" /\ result' = Failed
    BY <2>1 DEF GivesUp
  <2>3. ASSUME NEW works \in BOOLEAN, HddInit(works) PROVE FALSE
    BY <2>2, <2>3 DEF HddInit
  <2>4. ASSUME NEW works \in BOOLEAN, NEW p \in Partitions, Mount(p, works) PROVE FALSE
    BY <2>2, <2>4 DEF Mount
  <2>5. ASSUME NEW works \in BOOLEAN, FindStep(works) PROVE FALSE
    <3>1. works = TRUE
      BY <2>1, <2>5 DEF FindStep
    <3> QED
      BY <1>2, <2>1, <2>2, <2>5, <3>1, SearchGoesOn
  <2>6. ASSUME NEW works \in BOOLEAN, NEW fatWorks \in BOOLEAN, LoadStep(fatWorks, works)
        PROVE  FALSE
    <3>1. works = TRUE /\ (NewCluster => fatWorks)
      BY <2>1, <2>6 DEF LoadStep
    <3> QED
      BY <1>2, <2>1, <2>2, <2>6, <3>1, LoadGoesOn
  <2>7. ASSUME NEW name \in Names, NEW s \in BufSizes, NEW load \in BOOLEAN,
               Call(name, s, load)
        PROVE  FALSE
    BY <2>2, <2>7 DEF Call
  <2>8. CASE LoadEnd
    <3>1. result' = i /\ i \in Nat
      BY <2>1, <2>8 DEF LoadEnd, Return, FInv, IInv, TypeOK, CallTypeOK
    <3> QED
      BY <2>2, <3>1 DEF Failed
  <2> QED
    BY <2>1, <2>3, <2>4, <2>5, <2>6, <2>7, <2>8 DEF Next
<1> QED
  BY <1>1, <1>3, <1>4, PTL DEF Spec, FoundAndLoaded
=============================================================================
