------------------------------- MODULE Fat16 -------------------------------
(***************************************************************************)
(* drivers/fat16.c on top of Hdd: mounting a volume, looking a file up in  *)
(* the root directory and loading it, one sector read at a time.  Every    *)
(* read goes through the one buffer _buf_sec and any read may fail.        *)
(*                                                                         *)
(* The volume is the one a FAT16 formatter lays out.  Sizes are scaled     *)
(* down by constants; what the code computes from them is unchanged.       *)
(* A byte is named by the place it has on the drive.                       *)
(***************************************************************************)
EXTENDS Hdd, FiniteSets

CONSTANTS SectorSize,    \* sizeof(ata_sector_t)
          DirEntrySize,  \* sizeof(dir_entry_t)
          FatEntrySize,  \* sizeof(fat_entry_t)
          Names,         \* file names a caller asks for
          BufSizes,      \* buffer sizes a caller gives
          Disks          \* the drives the loader may find

ASSUME SizeAssumption == /\ SectorSize \in Nat \ {0}
                         /\ DirEntrySize \in 1 .. SectorSize
                         /\ SectorSize % DirEntrySize = 0
                         /\ FatEntrySize \in 1 .. SectorSize

ASSUME CallerAssumption == /\ Names # {} /\ BufSizes # {}
                           /\ BufSizes \subseteq Nat

(* The words that mark the end of a chain. *)
EndMarks == 65528 .. 65535

ASSUME DisksAssumption == \A d \in Disks :
  /\ {d.start, d.sectors, d.res, d.nf, d.spf, d.rootEntries} \subseteq Nat
  /\ d.spc \in Nat \ {0}
  /\ d.table \in [Partitions -> [status : {"none", "plain", "boot"}, first : Nat, num : Nat]]
  /\ d.chain \in Seq(Nat) /\ d.eoc \in EndMarks
  /\ DOMAIN d.root \subseteq Nat
  /\ \A k \in DOMAIN d.root : /\ d.root[k].kind \in {"unused", "long", "file", "dir", "volume"}
                              /\ d.root[k].start \in Nat /\ d.root[k].size \in Nat

VARIABLES
  disk,     \* the drive: its boot record and one FAT16 volume
  part,     \* mbr.c: _partition_entry
  mount,    \* fat16.c: _ and _vid, with the field mounted
  bufSec,   \* the drive sector _buf_sec holds
  pc,       \* where the caller is
  call,     \* the running call: its name and size, and whether it loads
  i,        \* the index of _rootdir_find_entry, then of fat16_load
  clu,      \* clu_num of fat16_load
  fileSize, \* file_size of the entry found
  out,      \* what fat16_load has copied to buf
  result,   \* what the last call returned
  \* history variables
  ioFailed, \* whether a read failed since the call began
  found     \* the entry number _rootdir_find_entry found

vars == <<disk, part, mount, bufSec, pc, call, i, clu, fileSize, out, result,
          ioFailed, found>>

FatEntriesPerSector == SectorSize \div FatEntrySize
DirEntriesPerSector == SectorSize \div DirEntrySize

-----------------------------------------------------------------------------
(* The drive: what a FAT16 formatter writes.                               *)

RootStart == disk.res + disk.nf * disk.spf
RootSectors ==
  (disk.rootEntries * DirEntrySize + SectorSize - 1) \div SectorSize
DataStart == RootStart + RootSectors

(* The file's bytes in order, by drive sector and offset. *)
FileByte(k) ==
  LET clusterSize == disk.spc * SectorSize
      cluster == disk.chain[k \div clusterSize + 1]
  IN  <<disk.start + DataStart + (cluster - 2) * disk.spc
          + (k % clusterSize) \div SectorSize,
        k % SectorSize>>

(* The 16-bit word at place k of a sector: the entry of the FAT's next     *)
(* cluster or the mark that ends the chain, or zero elsewhere on the       *)
(* drive.                                                                  *)
FatWord(sector, k) ==
  LET n == (sector - disk.start - disk.res) * FatEntriesPerSector + k
      at == {j \in DOMAIN disk.chain : disk.chain[j] = n}
  IN  IF sector - disk.start \notin disk.res .. disk.res + disk.spf - 1
         \/ at = {}
      THEN 0
      ELSE LET j == CHOOSE j \in at : TRUE
           IN  IF j = Len(disk.chain) THEN disk.eoc ELSE disk.chain[j + 1]

(* The directory entry at place k of a sector. *)
DirEntry(sector, k) ==
  LET n == (sector - disk.start - RootStart) * DirEntriesPerSector + k
  IN  IF n \in DOMAIN disk.root THEN disk.root[n] ELSE [kind |-> "end"]

-----------------------------------------------------------------------------
(* fat16.c's arithmetic over what _init_vid read.                          *)

ClusterSize  == mount.spc * SectorSize
RootClusters == (mount.rootEntries * DirEntrySize) \div ClusterSize

(* clu_addr_t has 16 bits. *)
Clu(n) == n % 65536

(* hdd_read_sector with a drive that works, or not. *)
ReadSector(rsec, works) ==
  IF works THEN HddSector(part, mount.pnum, rsec) ELSE Failed

(* _read_cluster_sec and _clu2rsec. *)
ReadClusterSec(c, sec, works) ==
  IF c < 2 \/ sec >= mount.spc THEN Failed
  ELSE ReadSector(sec + (c - 2) * mount.spc + mount.cluStart, works)

(* _rootdir_get_entry_num: the sector that holds root entry n. *)
RootEntrySector(n, works) ==
  LET steps == (n * DirEntrySize) \div ClusterSize
  IN  IF steps >= RootClusters THEN Failed
      ELSE ReadClusterSec(2 + steps,
                          ((n * DirEntrySize) \div SectorSize) % mount.spc,
                          works)

(* Mutant: the FAT is taken to count the root directory's clusters.        *)
FatSectorUnshifted(c, works) ==
  IF c < 2 + RootClusters THEN Failed
  ELSE ReadSector(c \div FatEntriesPerSector + mount.fatStart, works)

(* _fat_get_next_clu_num: the FAT sector it reads, or Failed. *)
FatSector(c, works) ==
  IF c < 2 + RootClusters THEN Failed
  ELSE ReadSector((c - RootClusters) \div FatEntriesPerSector + mount.fatStart,
                  works)

(* 0xFFFF is also what an error returns; the other marks are taken for     *)
(* numbers of clusters.                                                    *)
ChainEnds == {0, 65535}

NextClu(c, sector) ==
  IF sector = Failed THEN 65535
  ELSE FatWord(sector, (c - RootClusters) % FatEntriesPerSector)

(* Mutant: a deleted entry is read like any other. *)
SkippedLongOnly(de) == de.kind = "long"

(* _dir_entry_is_unused and _dir_entry_has_long_name.  Subdirectories and  *)
(* the volume's label are not skipped.                                     *)
Skipped(de) == de.kind \in {"unused", "long"}

(* _dir_entry_is_filename.  strncmp(a, b, n) returns zero when the first   *)
(* n - 1 characters agree, so it sees the stem of an 8.3 name: all but its *)
(* eighth character and the third of its extension.                        *)
IsFilename(de, name) == de.name.stem = name.stem

-----------------------------------------------------------------------------
(* A byte of the drive. *)
Bytes == (0 .. NumSectors - 1) \X (0 .. SectorSize - 1)

VolumeTypeOK ==
  /\ part \in [Partitions -> [valid : BOOLEAN, bootable : BOOLEAN, first : Nat, num : Nat]]
  /\ mount \in [mounted : BOOLEAN, pnum : Partitions, spc : Nat, rootEntries : Nat,
                cluStart : Nat, fatStart : Nat]
  /\ bufSec \in 0 .. NumSectors - 1 \cup {Failed}

CluAddr == 0 .. 65535    \* clu_addr_t

Calls == [name : Names, size : BufSizes, load : BOOLEAN]

CallTypeOK ==
  /\ call \in Calls
  /\ i \in Nat
  /\ clu \in CluAddr
  /\ fileSize \in Nat
  /\ out \in Seq(Bytes)
  /\ result \in Nat \cup {Failed}
  /\ ioFailed \in BOOLEAN
  /\ found \in Nat \cup {Failed}

TypeOK == /\ pc \in {"off", "hdd", "idle", "find", "load", "error"}
          /\ VolumeTypeOK /\ CallTypeOK

Init == /\ disk \in Disks
        /\ part = [p \in Partitions |-> Invalid]
        /\ mount = [mounted |-> FALSE, pnum |-> 0, spc |-> 0,
                    rootEntries |-> 0, cluStart |-> 0, fatStart |-> 0]
        /\ bufSec = Failed
        /\ pc = "off"
        /\ call = CHOOSE c \in [name : Names, size : BufSizes,
                                load : {FALSE}] : TRUE
        /\ i = 0
        /\ clu = 0
        /\ fileSize = 0
        /\ out = <<>>
        /\ result = 0
        /\ ioFailed = FALSE
        /\ found = Failed

(* hdd_init; ata_init, or the read of the boot record, may fail.           *)
HddInit(works) == /\ pc = "off"
                  /\ part' = IF works THEN MbrInit(disk.table) ELSE part
                  /\ pc' = IF works THEN "hdd" ELSE "error"
                  /\ UNCHANGED <<disk, mount, bufSec, call, i, clu, fileSize,
                                 out, result, ioFailed, found>>

(* fat16_init and _init_vid.  The caller names the partition of the volume *)
(* or one that mbr_init left invalid: the code takes any other sector for  *)
(* a volume identifier as well.                                            *)
Mount(p, works) ==
  /\ pc = "hdd"
  /\ part[p].valid => part[p].first = disk.start
  /\ LET sector == IF works THEN HddSector(part, p, 0) ELSE Failed
     IN  IF sector = Failed
         THEN /\ pc' = "error"
              /\ mount' = [mount EXCEPT !.pnum = p]
              /\ UNCHANGED bufSec
         ELSE /\ pc' = "idle"
              /\ bufSec' = sector
              /\ mount' = [mounted |-> TRUE, pnum |-> p, spc |-> disk.spc,
                           rootEntries |-> disk.rootEntries,
                           cluStart |-> disk.res + disk.nf * disk.spf,
                           fatStart |-> disk.res]
  /\ UNCHANGED <<disk, part, call, i, clu, fileSize, out, result, ioFailed, found>>

(* fat16_get_file_size and fat16_load begin with _rootdir_find_entry.      *)
Call(name, bufSize, load) ==
  /\ pc = "idle"
  /\ call' = [name |-> name, size |-> bufSize, load |-> load]
  /\ pc' = "find"
  /\ i' = 0
  /\ clu' = 0
  /\ fileSize' = 0
  /\ out' = <<>>
  /\ result' = 0
  /\ ioFailed' = FALSE
  /\ found' = Failed
  /\ UNCHANGED <<disk, part, mount, bufSec>>

Return(r) == /\ pc' = "idle"
             /\ result' = r

(* What the caller does with the entry found, while it is in the buffer.   *)
TakeEntry(de) ==
  /\ found' = i
  /\ clu' = Clu(de.start + RootClusters)
  /\ fileSize' = de.size
  /\ IF call.load THEN /\ pc' = "load"
                       /\ i' = 0
                       /\ UNCHANGED result
     ELSE Return(de.size) /\ UNCHANGED i

(* One iteration of _rootdir_find_entry. *)
FindStep(works) ==
  /\ pc = "find"
  /\ LET sector == IF i < mount.rootEntries THEN RootEntrySector(i, works)
                   ELSE Failed
         de == DirEntry(sector, i % DirEntriesPerSector)
     IN  /\ bufSec' = IF sector = Failed THEN bufSec ELSE sector
         /\ ioFailed' = (ioFailed \/ ~works)
         /\ IF sector = Failed \/ de.kind = "end"
            THEN Return(Failed) /\ UNCHANGED <<i, clu, fileSize, found>>
            ELSE IF ~Skipped(de) /\ IsFilename(de, call.name)
            THEN TakeEntry(de)
            ELSE i' = i + 1 /\ UNCHANGED <<pc, result, clu, fileSize, found>>
  /\ UNCHANGED <<disk, part, mount, call, out>>

(* The lowest of the file's size and the buffer's. *)
Max == IF fileSize < call.size THEN fileSize ELSE call.size

(* The cluster of byte i: at a cluster's first byte the FAT is read into   *)
(* _buf_sec, unless it is the file's first.                                *)
NewCluster == i > 0 /\ i % ClusterSize = 0

(* Mutant: a whole sector is copied whatever is left to read. *)
CopiedWhole(sector) == [k \in 1 .. SectorSize |-> <<sector, k - 1>>]

(* Bytes i on, to the end of the sector or of what is to be read. *)
Copied(sector) ==
  LET n == IF Max - i < SectorSize THEN Max - i ELSE SectorSize
  IN  [k \in 1 .. n |-> <<sector, k - 1>>]

(* One sector of the loop of fat16_load.  The next cluster number counts   *)
(* from the root directory, which the code takes to be 8 clusters long.    *)
LoadStep(fatWorks, works) ==
  /\ pc = "load"
  /\ i < Max
  /\ LET fatSector == IF NewCluster THEN FatSector(clu, fatWorks) ELSE Failed
         next == IF NewCluster THEN NextClu(clu, fatSector) ELSE clu
         stop == NewCluster /\ next \in ChainEnds
         c == IF NewCluster THEN Clu(next + 8) ELSE clu
         sector == IF stop THEN Failed
                   ELSE ReadClusterSec(c, (i \div SectorSize) % mount.spc, works)
     IN  /\ clu' = IF stop THEN next ELSE c
         /\ bufSec' = IF sector # Failed THEN sector
                      ELSE IF fatSector # Failed THEN fatSector ELSE bufSec
         /\ ioFailed' = (ioFailed \/ ~works \/ (NewCluster /\ ~fatWorks))
         /\ IF sector = Failed
            THEN Return(Failed) /\ UNCHANGED <<i, out>>
            ELSE /\ out' = out \o Copied(sector)
                 /\ i' = i + Len(Copied(sector))
                 /\ UNCHANGED <<pc, result>>
  /\ UNCHANGED <<disk, part, mount, call, fileSize, found>>

LoadEnd == /\ pc = "load"
           /\ i >= Max
           /\ Return(i)
           /\ UNCHANGED <<disk, part, mount, bufSec, call, i, clu, fileSize, out,
                          ioFailed, found>>

Next == \/ \E works \in BOOLEAN : \/ HddInit(works)
                                  \/ \E p \in Partitions : Mount(p, works)
                                  \/ FindStep(works)
                                  \/ \E fatWorks \in BOOLEAN :
                                       LoadStep(fatWorks, works)
        \/ \E name \in Names, s \in BufSizes, load \in BOOLEAN :
             Call(name, s, load)
        \/ LoadEnd

Spec == Init /\ [][Next]_vars

-----------------------------------------------------------------------------
(* Properties.                                                             *)

(* The entry of the root directory that bears the name exactly.            *)
Bearing(name) == {k \in DOMAIN disk.root : /\ disk.root[k].kind = "file"
                                           /\ disk.root[k].name = name}

(* fat16_load: "returns number of bytes read".  They are the first bytes   *)
(* of the file whose entry was found, as far as the buffer holds them,     *)
(* each in its place.                                                      *)
LoadedIsFile ==
  pc = "idle" /\ call.load /\ result # Failed /\ found \in Bearing(call.name) =>
    /\ result = Max
    /\ Len(out) = result
    /\ \A k \in 1 .. result : out[k] = FileByte(k - 1)

(* The drives for which fat16_load is right: the root directory takes      *)
(* eight clusters, cluster numbers are a formatter's and none is twice in  *)
(* the chain, which is that of the file that is found.                     *)
EightClusters(d) == d.rootEntries * DirEntrySize = 8 * (d.spc * SectorSize)

Clusters == 2 .. 65519

ProperChain(d) == /\ \A j \in DOMAIN d.chain : d.chain[j] \in Clusters
                  /\ \A j, k \in DOMAIN d.chain : d.chain[j] = d.chain[k] => j = k

(* The entries whose names a search looks at, and the first of a stem.     *)
Named(de) == de.kind \in {"file", "dir", "volume"}

FirstAlike(d, k) == \A j \in DOMAIN d.root :
  Named(d.root[j]) /\ d.root[j].name.stem = d.root[k].name.stem => k <= j

(* The load does not come to a chain's end, or the mark is the one it      *)
(* knows.                                                                  *)
OwnChain(d) == \A k \in DOMAIN d.root :
  d.root[k].kind = "file" /\ d.root[k].name \in Names /\ FirstAlike(d, k) =>
    \/ d.root[k].size = 0
    \/ /\ d.chain # <<>> /\ d.root[k].start = d.chain[1]
       /\ d.eoc = 65535 \/ d.root[k].size <= Len(d.chain) * (d.spc * SectorSize)

Loadable(d) == EightClusters(d) /\ ProperChain(d) /\ OwnChain(d)

(* What a search and a load need to come to their end: the volume is on    *)
(* cylinders the driver reaches and holds what it describes, its root      *)
(* directory has no gap before its end, and where a search ends are        *)
(* clusters enough for the entry's size.                                   *)
Reachable(d) == /\ d.start + d.sectors <= NumSectors
                /\ d.start + d.sectors <= 1024 * (Heads * Spt)

LaidOut(d) ==
  /\ d.nf > 0 /\ d.res + d.nf * d.spf + 8 * d.spc <= d.sectors
  /\ \A k \in DOMAIN d.root : k < d.rootEntries /\ 0 .. k \subseteq DOMAIN d.root
  /\ \A j \in DOMAIN d.chain :
       /\ d.chain[j] < d.spf * FatEntriesPerSector
       /\ d.res + d.nf * d.spf + (d.chain[j] + 7) * d.spc <= d.sectors

EndsSearch(d, k) == /\ Named(d.root[k]) /\ FirstAlike(d, k)
                    /\ \E name \in Names : name.stem = d.root[k].name.stem

WholeChain(d) == \A k \in DOMAIN d.root :
  EndsSearch(d, k) =>
    \/ d.root[k].size = 0
    \/ /\ d.chain # <<>> /\ d.root[k].start = d.chain[1]
       /\ d.root[k].size <= Len(d.chain) * (d.spc * SectorSize)

Complete(d) == Reachable(d) /\ LaidOut(d) /\ WholeChain(d)

(* A file that is there is loaded: unless a read fails or the partition    *)
(* cuts the volume short, neither the search nor the walk along the FAT    *)
(* gives up early.                                                         *)
GivesUp == pc \in {"find", "load"} /\ pc' = "idle" /\ result' = Failed
CutShort == part[mount.pnum].num < disk.sectors
FoundAndLoaded ==
  [][GivesUp => ioFailed' \/ Bearing(call.name) = {} \/ CutShort]_vars

(* hdd_read_sector confines the file system to its partition.              *)
ReadsInPartition ==
  mount.mounted /\ bufSec # Failed =>
    LET p == part[mount.pnum]
    IN  p.valid /\ bufSec \in p.first .. p.first + p.num - 1

(* mbr.c: "at most one partition should be bootable", and it is the first  *)
(* such entry of the table.                                                *)
OneBootable ==
  \A p \in Partitions : part[p].bootable =>
    /\ disk.table[p].status = "boot"
    /\ \A q \in Partitions : /\ q < p => disk.table[q].status # "boot"
                             /\ part[q].bootable => q = p

(* A search that finds something has found the first entry that bears the  *)
(* name asked for, among those that are neither deleted nor parts of long  *)
(* names: a file's, but as well a subdirectory's or the volume's label.    *)
(* Promised is this where no other entry has nearly the same name:         *)
(* strncmp's "all n characters were compared" (string.c:60) is not what it *)
(* does, and of names it does not tell apart the search takes the first.   *)
ToldApart == \A k \in DOMAIN disk.root :
  Named(disk.root[k]) /\ disk.root[k].name.stem = call.name.stem
    => disk.root[k].name = call.name

FoundIsFirst ==
  found # Failed /\ ToldApart =>
    LET bearing == {k \in DOMAIN disk.root : /\ Named(disk.root[k])
                                             /\ disk.root[k].name = call.name}
    IN  found \in bearing /\ \A k \in bearing : found <= k
=============================================================================
