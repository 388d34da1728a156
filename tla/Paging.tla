------------------------------- MODULE Paging -------------------------------
(***************************************************************************)
(* mm/paging.c with page_dir.c and page_tables.c, and the part of main.c   *)
(* that sets paging up: a page directory whose last entry points at itself *)
(* and a fixed array of page tables, few of which exist.  The processor    *)
(* walks these tables and may keep a translation it found; paging_map and  *)
(* paging_unmap write an entry and then reload CR3 to make it forget.      *)
(*                                                                         *)
(* Sizes are parameters.  In the code a page is 4096 bytes, a directory or *)
(* table has 1024 entries, there are tables for the first 4 entries and    *)
(* for entry 768, and _is_addr_page_aligned asks for multiples of 1024     *)
(* (mm_common.h), which is AlignUnit here.  A frame is what is left of an  *)
(* address after >> 12.                                                    *)
(*                                                                         *)
(* The client does not map or unmap the pages of the loader itself: the    *)
(* tables are written through them.                                        *)
(***************************************************************************)
EXTENDS Integers

CONSTANTS PageSize, AlignUnit, Entries,
          LowTables,     \* NUM_PAGE_TABLES - 1
          HighTable,     \* 768
          PaddrMax,      \* PADDR_MAX
          DirFrame,      \* where page_dir.c: _ lies
          FirstTable,    \* where page_tables.c: _ lies
          ClientVaddrs,  \* what a client passes to paging_map and _unmap
          ClientPaddrs,
          None           \* an entry whose present bit is clear

AddressSpace == PageSize * Entries * Entries
Address == 0 .. AddressSpace - 1
Index   == 0 .. Entries - 1
Self    == Entries - 1
Frame   == 0 .. Entries * Entries - 1
Entry   == [frame : Frame, write : BOOLEAN]
Page    == Index \X Index

ASSUME SizeAssumption ==
  /\ {PageSize, AlignUnit, Entries, LowTables} \subseteq Nat \ {0}
  /\ AlignUnit > 1
  /\ PageSize % AlignUnit = 0
  /\ HighTable \in LowTables .. Entries - 2
ASSUME MemoryAssumption ==
  /\ PaddrMax \in Nat
  /\ PaddrMax < PageSize * Entries * LowTables
  /\ FirstTable \in Nat \ {0}
  /\ FirstTable + LowTables \in Frame
  /\ DirFrame \in Frame \ (FirstTable .. FirstTable + LowTables)
ASSUME ClientAssumption ==
  /\ ClientVaddrs \subseteq Address
  /\ ClientPaddrs \subseteq Address
ASSUME NoneAssumption ==
  /\ None \notin Entry
  /\ None \notin [page : Page, entry : Entry \cup {None}]
  /\ None \notin [pd : Index, pt : Index, entry : Entry \cup {None}]

VARIABLES
  dir,     \* page_dir.c: _
  tables,  \* page_tables.c: _
  tlb,     \* one translation the processor keeps, or None
  call,    \* where paging_map or paging_unmap is
  op,      \* the entry it is to write, and what to
  ret,     \* what they returned last
  boot,    \* where paging_init and main are
  addr     \* addr in _setup_identity

memory == <<dir, tables>>
calls  == <<call, op, ret>>
vars   == <<memory, tlb, calls, boot, addr>>

TypeOK ==
  /\ dir \in [Index -> Entry \cup {None}]
  /\ tables \in [0 .. LowTables -> [Index -> Entry \cup {None}]]
  /\ tlb \in [page : Page, entry : Entry] \cup {None}
  /\ call \in {"idle", "set", "clear", "flush"}
  /\ IF call \in {"set", "clear"}
     THEN op \in [pd : Index, pt : Index, entry : Entry \cup {None}]
     ELSE op = None
  /\ ret \in {0, 1}
  /\ boot \in {"off", "identity", "unmap_null", "enable", "on", "failed"}
  /\ addr \in Nat

-----------------------------------------------------------------------------
(* Addresses.                                                              *)

FrameOf(a) == a \div PageSize
PdIdx(v)   == FrameOf(v) \div Entries

PtIdx(v) == FrameOf(v) % Entries

Aligned(a) == a % AlignUnit = 0

Implemented(i) == i < LowTables \/ i = HighTable

(* Mutant: the high table is taken for the last low one. *)
ArrayIdxShort(i) == IF i < LowTables THEN i ELSE LowTables - 1

ArrayIdx(i) == IF i < LowTables THEN i ELSE LowTables

(* For a table that does not exist the code returns 1 and not 0; it is     *)
(* page_dir_set_entry that refuses the 1, as an address that is not        *)
(* aligned.                                                                *)
TablePaddr(i) == IF Implemented(i) THEN (FirstTable + ArrayIdx(i)) * PageSize
                                   ELSE 1

(* Mutant: any physical address will do. *)
OutOfMemoryNever(p) == FALSE

OutOfMemory(p) == (p + PageSize - 1) % AddressSpace > PaddrMax

-----------------------------------------------------------------------------
(* The processor.                                                          *)

(* The directory or table that lies in frame f. *)
TableIn(f) == IF f = DirFrame THEN dir ELSE tables[f - FirstTable]

Walk(p) == IF dir[p[1]] = None THEN None ELSE TableIn(dir[p[1]].frame)[p[2]]

Translate(p) == IF tlb # None /\ tlb.page = p THEN tlb.entry ELSE Walk(p)

PageOf(v) == <<PdIdx(v), PtIdx(v)>>

(* The physical address behind v, and 0 if there is none. *)
Physical(v) == LET e == Translate(PageOf(v))
               IN  IF e = None THEN 0 ELSE e.frame * PageSize + (v % PageSize)

(* With paging on, the processor may keep the translation of any page.     *)
(* One entry stands for all: a stale one is stale by itself.               *)
Fill(p) == /\ boot = "on"
           /\ Walk(p) # None
           /\ tlb' = [page |-> p, entry |-> Walk(p)]
           /\ UNCHANGED <<memory, calls, boot, addr>>

(* paging_vaddr2paddr reads the directory and the tables through the last  *)
(* directory entry: word i of page p, for a page that holds a table.       *)
Word(p, i) == TableIn(Translate(p).frame)[i]
Vaddr2Paddr(v) ==
  IF Word(<<Self, Self>>, PdIdx(v)) = None \/ Word(<<Self, PdIdx(v)>>, PtIdx(v)) = None
  THEN 0
  ELSE Word(<<Self, PdIdx(v)>>, PtIdx(v)).frame * PageSize + (v % PageSize)

-----------------------------------------------------------------------------
(* paging_map and paging_unmap.                                            *)

Return(r) == /\ call' = "idle"
             /\ op' = None
             /\ ret' = r
             /\ UNCHANGED memory

Write(pc, v, e) == /\ call' = pc
                   /\ op' = [pd |-> PdIdx(v), pt |-> PtIdx(v), entry |-> e]
                   /\ UNCHANGED <<tables, ret>>

Refused(v, p) == ~Aligned(v) \/ ~Aligned(p) \/ OutOfMemory(p)

(* The checks, and a table for the directory if it has none yet. *)
StartMap(v, p, w) ==
  /\ call = "idle"
  /\ LET e     == [frame |-> FrameOf(p), write |-> w]
         table == TablePaddr(PdIdx(v))
     IN  \/ /\ Refused(v, p)
            /\ Return(1)
         \/ /\ ~Refused(v, p)
            /\ dir[PdIdx(v)] # None
            /\ Write("set", v, e)
            /\ UNCHANGED dir
         \/ /\ ~Refused(v, p)
            /\ dir[PdIdx(v)] = None
            /\ IF table = 0 \/ ~Aligned(table)
               THEN Return(1)
               ELSE /\ Write("set", v, e)
                    /\ dir' = [dir EXCEPT ![PdIdx(v)] =
                                 [frame |-> FrameOf(table), write |-> TRUE]]
  /\ UNCHANGED tlb

StartUnmap(v) ==
  /\ call = "idle"
  /\ \/ ~Aligned(v) /\ Return(1)
     \/ Aligned(v) /\ dir[PdIdx(v)] = None /\ Return(0)
     \/ Aligned(v) /\ dir[PdIdx(v)] # None
        /\ Write("clear", v, None) /\ UNCHANGED dir
  /\ UNCHANGED tlb

(* page_tables_set_entry and _clear_entry *)
WriteEntry ==
  /\ IF Implemented(op.pd)
     THEN /\ tables' = [tables EXCEPT ![ArrayIdx(op.pd)][op.pt] = op.entry]
          /\ call' = "flush"
          /\ op' = None
          /\ UNCHANGED <<dir, ret>>
     ELSE Return(1)
  /\ UNCHANGED <<tlb, boot, addr>>

SetEntry   == call = "set" /\ WriteEntry
ClearEntry == call = "clear" /\ WriteEntry

(* Mutant: the call returns without a reload of CR3. *)
FlushNothing == /\ call = "flush"
                /\ Return(0)
                /\ UNCHANGED <<tlb, boot, addr>>

(* _reset_mmu_cache *)
Flush == /\ call = "flush"
         /\ tlb' = None
         /\ Return(0)
         /\ UNCHANGED <<boot, addr>>

CallStep == SetEntry \/ ClearEntry \/ Flush

-----------------------------------------------------------------------------
(* paging_init and main: everything cleared, memory mapped to itself, the  *)
(* directory into its last entry, the null page unmapped, paging on.       *)

(* Mutant: only the directory is cleared. *)
InitDirectory ==
  /\ boot = "off"
  /\ boot' = "identity"
  /\ dir' = [i \in Index |-> None]
  /\ UNCHANGED <<tables, tlb, calls, addr>>

InitTables ==
  /\ boot = "off"
  /\ boot' = "identity"
  /\ dir' = [i \in Index |-> None]
  /\ tables' = [t \in 0 .. LowTables |-> [i \in Index |-> None]]
  /\ UNCHANGED <<tlb, calls, addr>>

(* One iteration of the loop: what the last call returned, and the next. *)
Identity ==
  /\ boot = "identity" /\ call = "idle"
  /\ addr + PageSize - 1 <= PaddrMax
  /\ IF ret # 0
     THEN boot' = "failed" /\ UNCHANGED <<memory, tlb, calls, addr>>
     ELSE /\ StartMap(addr, addr, TRUE)
          /\ addr' = addr + PageSize
          /\ UNCHANGED boot

Automap ==
  /\ boot = "identity" /\ call = "idle"
  /\ addr + PageSize - 1 > PaddrMax
  /\ IF ret # 0
     THEN boot' = "failed" /\ UNCHANGED dir
     ELSE /\ boot' = "unmap_null"
          /\ dir' = [dir EXCEPT ![Self] = [frame |-> DirFrame, write |-> TRUE]]
  /\ UNCHANGED <<tables, tlb, calls, addr>>

UnmapNull == /\ boot = "unmap_null"
             /\ StartUnmap(0)
             /\ boot' = "enable"
             /\ UNCHANGED addr

Enable == /\ boot = "enable" /\ call = "idle"
          /\ boot' = IF ret # 0 THEN "failed" ELSE "on"
          /\ UNCHANGED <<memory, tlb, calls, addr>>

Boot == InitTables \/ Identity \/ Automap \/ UnmapNull \/ Enable

(* The memory the directory and the tables lie in holds anything at first. *)
Init ==
  /\ \E e \in {None, [frame |-> 0, write |-> FALSE]} :
       /\ dir = [i \in Index |-> e]
       /\ tables = [t \in 0 .. LowTables |-> [i \in Index |-> e]]
  /\ tlb = None
  /\ call = "idle"
  /\ op = None
  /\ ret = 0
  /\ boot = "off"
  /\ addr = 0

Client == /\ boot = "on"
          /\ \/ \E v \in ClientVaddrs, p \in ClientPaddrs, w \in BOOLEAN :
                  StartMap(v, p, w)
             \/ \E v \in ClientVaddrs : StartUnmap(v)
          /\ UNCHANGED <<boot, addr>>

Next == Boot \/ CallStep \/ Client \/ \E p \in Page : Fill(p)

Spec == Init /\ [][Next]_vars

-----------------------------------------------------------------------------
(* Properties.                                                             *)

(* What the processor keeps is what the tables say, but between the write  *)
(* of an entry and the reload of CR3: no call of paging_map or             *)
(* paging_unmap returns while an old translation may still be used.        *)
TlbFresh == call # "flush" /\ tlb # None => tlb.entry = Walk(tlb.page)

(* paging_vaddr2paddr, which finds the tables through the directory's last *)
(* entry, answers for every address what the processor would use.          *)
LookupAgrees == boot = "on" /\ call = "idle" =>
                  \A v \in Address : Vaddr2Paddr(v) = Physical(v)

(* No table maps a page to memory above PADDR_MAX ("out of                 *)
(* for-use-available physical memory").  An address in the last page of    *)
(* the address space that _is_addr_page_aligned lets pass wraps around in  *)
(* the test; the client is taken not to ask for one.                       *)
NoWrap == \A p \in ClientPaddrs : p + PageSize <= AddressSpace
FramesInRange ==
  NoWrap /\ boot # "off" =>
    \A t \in 0 .. LowTables, i \in Index :
      tables[t][i] # None => tables[t][i].frame * PageSize <= PaddrMax

(* Seen through the tables, paging is a map from pages to frames in which  *)
(* a call changes the page it was asked for, once, and nothing else; a     *)
(* refused call changes nothing.                                           *)
MappablePage == {p \in Page : Implemented(p[1])}
Mapped  == [p \in MappablePage |-> IF boot = "off" THEN None ELSE Walk(p)]
Pending == IF call \in {"set", "clear"} /\ Implemented(op.pd)
           THEN [page |-> <<op.pd, op.pt>>, entry |-> op.entry]
           ELSE None
Abstract == INSTANCE PageMap WITH Pages <- MappablePage,
                                  map <- Mapped, asked <- Pending
ImplementsPageMap == Abstract!Spec
=============================================================================
