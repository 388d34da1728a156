---------------------------- MODULE MappingProofs ---------------------------
(***************************************************************************)
(* Theorems about Paging, and about ElfMap which runs on it.               *)
(*                                                                         *)
(* For every size of pages and tables, every place of the tables in memory *)
(* and every client of Paging: type correctness, that no call returns      *)
(* while the processor may use an old translation, that only existing      *)
(* memory is mapped, that paging_vaddr2paddr agrees with the processor,    *)
(* and that the directory and its tables implement PageMap.                *)
(*                                                                         *)
(* For every size of pages and memory and every file of ElfMap, whose      *)
(* segments lie in the kernel's part of memory and not over the file:      *)
(* paging is set up without an error, and however elf32_map ends, memory   *)
(* that the file does not ask for stays mapped to itself and nothing but   *)
(* the segments' memory is written; when main jumps, the image is in place.*)
(***************************************************************************)
EXTENDS ElfMap, NumberFacts, TLAPS

-----------------------------------------------------------------------------
(* Paging.                                                                 *)

(* Where directory entries point. *)
DirRight == boot # "off" =>
  \A i \in Index : dir[i] # None =>
    IF i = Self THEN dir[i].frame = DirFrame
    ELSE Implemented(i) /\ dir[i].frame = FirstTable + ArrayIdx(i)

SelfMapped == boot \in {"unmap_null", "enable", "on"} => dir[Self] # None

(* A table is still empty when the directory gets to point at it, so       *)
(* pointing at it maps nothing. *)
Untouched == boot # "off" =>
  \A i, j \in Index : Implemented(i) /\ dir[i] = None =>
    tables[ArrayIdx(i)][j] = None

(* What a call has established when it comes to write. *)
Calling == /\ call # "idle" => boot # "off"
           /\ call \in {"set", "clear"} => dir[op.pd] # None
           /\ call = "set" => op.entry \in Entry
           /\ call = "clear" => op.entry = None
           /\ NoWrap /\ call = "set" => op.entry.frame * PageSize <= PaddrMax

PagingOff == boot # "on" => tlb = None

IInv == /\ TypeOK
        /\ DirRight
        /\ SelfMapped
        /\ Untouched
        /\ Calling
        /\ PagingOff
        /\ TlbFresh
        /\ FramesInRange

-----------------------------------------------------------------------------

(* Division by the size of a part gives the part's number. *)
LEMMA DivBound ==
  ASSUME NEW n \in Nat \ {0}, NEW m \in Nat, NEW a \in Nat, a < n * m
  PROVE  a \div n \in 0 .. m - 1
<1>1. /\ a \div n \in Int
      /\ a = n * (a \div n) + (a % n)
      /\ a % n \in 0 .. n - 1
  BY SMT
<1> DEFINE q == a \div n
<1>2. q >= 0
  <2>1. SUFFICES ASSUME q <= -1 PROVE FALSE
    BY <1>1
  <2>2. n * q <= n * (-1)
    BY <1>1, <2>1
  <2> QED
    BY <1>1, <2>2
<1>3. q < m
  <2>1. SUFFICES ASSUME m <= q PROVE FALSE
    BY <1>1
  <2> HIDE DEF q
  <2>2. n * m <= n * q
    BY <1>1, <2>1 DEF q
  <2> QED
    BY <1>1, <2>2 DEF q
<1> QED
  BY <1>1, <1>2, <1>3

LEMMA DivTimes ==
  ASSUME NEW n \in Nat \ {0}, NEW f \in Nat
  PROVE  (f * n) \div n = f
  BY SMT

LEMMA ModTimes ==
  ASSUME NEW u \in Nat \ {0}, NEW n \in Nat, n % u = 0, NEW f \in Nat
  PROVE  (f * n) % u = 0
<1>1. PICK k \in Nat : n = u * k
  <2>1. n = u * (n \div u) /\ n \div u \in Nat
    BY SMT
  <2> QED
    BY <2>1
<1>2. f * n = u * (f * k) /\ f * k \in Nat
  BY <1>1
<1>3. ASSUME NEW j \in Nat PROVE (u * j) % u = 0
  BY SMT
<1> QED
  BY <1>2, <1>3

-----------------------------------------------------------------------------

(* The parts of an address are a directory index, a table index and, before*)
(* those, a frame. *)
LEMMA AddressParts ==
  ASSUME NEW a \in Address
  PROVE  /\ FrameOf(a) \in Frame
         /\ PdIdx(a) \in Index
         /\ PtIdx(a) \in Index
<1>1. /\ a \in Nat /\ a < PageSize * (Entries * Entries)
      /\ Entries * Entries \in Nat
      /\ PageSize \in Nat \ {0} /\ Entries \in Nat \ {0}
  BY SizeAssumption DEF Address, AddressSpace
<1>2. FrameOf(a) \in Frame
  BY <1>1, DivBound DEF FrameOf, Frame
<1>3. FrameOf(a) \in Nat /\ FrameOf(a) < Entries * Entries
  BY <1>1, <1>2 DEF Frame
<1>4. PdIdx(a) \in Index
  BY <1>1, <1>3, DivBound DEF PdIdx, Index
<1>5. PtIdx(a) \in Index
  BY <1>1, <1>3 DEF PtIdx, Index
<1> QED
  BY <1>2, <1>4, <1>5

(* page_tables_get_paddr: where the table is, or an address that           *)
(* page_dir_set_entry refuses. *)
LEMMA TableFacts ==
  ASSUME NEW i \in Index
  PROVE  /\ Implemented(i) => /\ TablePaddr(i) # 0
                              /\ Aligned(TablePaddr(i))
                              /\ FrameOf(TablePaddr(i)) = FirstTable + ArrayIdx(i)
                              /\ FirstTable + ArrayIdx(i) \in Frame
                              /\ FirstTable + ArrayIdx(i) # DirFrame
                              /\ ArrayIdx(i) \in 0 .. LowTables
                              /\ i # Self
         /\ ~Implemented(i) => ~Aligned(TablePaddr(i))
<1>1. CASE Implemented(i)
  <2>1. /\ ArrayIdx(i) \in 0 .. LowTables
        /\ FirstTable + ArrayIdx(i) \in Frame \ {0, DirFrame}
        /\ i # Self
    BY <1>1, SizeAssumption, MemoryAssumption
    DEF ArrayIdx, Frame, Index, Implemented, Self
  <2>2. FirstTable + ArrayIdx(i) \in Nat \ {0}
    BY <2>1 DEF Frame
  <2>3. FrameOf(TablePaddr(i)) = FirstTable + ArrayIdx(i)
    BY <1>1, <2>2, SizeAssumption, DivTimes DEF FrameOf, TablePaddr
  <2>4. Aligned(TablePaddr(i))
    BY <1>1, <2>2, SizeAssumption, ModTimes DEF Aligned, TablePaddr
  <2>5. TablePaddr(i) # 0
    BY <1>1, <2>2, SizeAssumption DEF TablePaddr
  <2> QED
    BY <1>1, <2>1, <2>3, <2>4, <2>5
<1>2. CASE ~Implemented(i)
  BY <1>2, SizeAssumption DEF Aligned, TablePaddr
<1> QED
  BY <1>1, <1>2

(* A frame that is not refused is in memory, unless the sum wraps around. *)
LEMMA NotRefused ==
  ASSUME NEW v \in Address, NEW p \in Address, ~Refused(v, p),
         p + PageSize <= AddressSpace
  PROVE  FrameOf(p) * PageSize <= PaddrMax
<1>1. p \in Nat /\ PageSize \in Nat \ {0} /\ AddressSpace \in Nat
  BY SizeAssumption DEF Address, AddressSpace
<1>2. ~((p + PageSize - 1) % AddressSpace > PaddrMax)
  BY DEF Refused, OutOfMemory
<1>3. (p + PageSize - 1) % AddressSpace = p + PageSize - 1
  BY <1>1
<1>4. p <= PaddrMax
  BY <1>1, <1>2, <1>3, MemoryAssumption
<1>5. FrameOf(p) * PageSize <= p
  <2>1. p = PageSize * (p \div PageSize) + (p % PageSize) /\ p % PageSize >= 0
    BY <1>1
  <2>2. p \div PageSize \in Int
    BY <1>1
  <2> QED
    BY <1>1, <2>1, <2>2 DEF FrameOf
<1>6. FrameOf(p) * PageSize \in Int
  BY <1>1 DEF FrameOf
<1> QED
  BY <1>1, <1>4, <1>5, <1>6, MemoryAssumption

(* What identity mapping asks for. *)
LEMMA LowAddress ==
  ASSUME NEW a \in Nat, a + PageSize - 1 <= PaddrMax
  PROVE  a \in Address /\ a + PageSize <= AddressSpace
<1>1. PaddrMax < PageSize * Entries * LowTables
  BY MemoryAssumption
<1>2. LowTables < Entries /\ LowTables \in Nat /\ Entries \in Nat /\ PageSize \in Nat \ {0}
  BY SizeAssumption
<1>3. (PageSize * Entries) * LowTables <= (PageSize * Entries) * Entries
  BY <1>2
<1> QED
  BY <1>1, <1>2, <1>3, MemoryAssumption DEF Address, AddressSpace

-----------------------------------------------------------------------------

(* What the processor finds is an entry, and for the pages of a table that *)
(* exists it is the entry of that table. *)
LEMMA WalkFacts ==
  ASSUME IInv, boot # "off", NEW p \in Page
  PROVE  /\ Walk(p) \in Entry \cup {None}
         /\ Implemented(p[1]) =>
              Walk(p) = IF dir[p[1]] = None THEN None
                        ELSE tables[ArrayIdx(p[1])][p[2]]
<1>1. p[1] \in Index /\ p[2] \in Index
  BY DEF Page
<1>2. CASE dir[p[1]] = None
  BY <1>2 DEF Walk
<1>3. CASE dir[p[1]] # None /\ p[1] = Self
  <2>1. dir[p[1]].frame = DirFrame
    BY <1>1, <1>3 DEF IInv, DirRight
  <2>2. Walk(p) = dir[p[2]]
    BY <1>3, <2>1 DEF Walk, TableIn
  <2>3. ~Implemented(p[1])
    BY <1>1, <1>3, TableFacts
  <2> QED
    BY <1>1, <2>2, <2>3 DEF IInv, TypeOK
<1>4. CASE dir[p[1]] # None /\ p[1] # Self
  <2>1. Implemented(p[1]) /\ dir[p[1]].frame = FirstTable + ArrayIdx(p[1])
    BY <1>1, <1>4 DEF IInv, DirRight
  <2>2. /\ FirstTable + ArrayIdx(p[1]) # DirFrame
        /\ ArrayIdx(p[1]) \in 0 .. LowTables
    BY <1>1, <2>1, TableFacts
  <2>3. (FirstTable + ArrayIdx(p[1])) - FirstTable = ArrayIdx(p[1])
    BY <2>2, SizeAssumption, MemoryAssumption
  <2>4. Walk(p) = tables[ArrayIdx(p[1])][p[2]]
    BY <1>4, <2>1, <2>2, <2>3 DEF Walk, TableIn
  <2> QED
    BY <1>1, <1>4, <2>2, <2>4 DEF IInv, TypeOK
<1> QED
  BY <1>2, <1>3, <1>4

(* Tables of different directory entries are different. *)
LEMMA ArrayIdxOne ==
  ASSUME NEW i \in Index, NEW j \in Index, Implemented(i), Implemented(j),
         ArrayIdx(i) = ArrayIdx(j)
  PROVE  i = j
BY SizeAssumption DEF Implemented, ArrayIdx, Index

-----------------------------------------------------------------------------

(* The first step of paging_map.  boot may change only where it does not   *)
(* matter. *)
LEMMA StartMapStep ==
  ASSUME IInv, boot \notin {"off", "unmap_null"}, UNCHANGED boot,
         addr' \in Nat,
         NEW v \in Address, NEW p \in Address, NEW w \in BOOLEAN,
         NoWrap => p + PageSize <= AddressSpace,
         StartMap(v, p, w)
  PROVE  IInv'
<1> DEFINE e == [frame |-> FrameOf(p), write |-> w]
           i == PdIdx(v)
           d == [frame |-> FrameOf(TablePaddr(i)), write |-> TRUE]
<1>1. /\ e \in Entry /\ i \in Index /\ PtIdx(v) \in Index
      /\ None \notin Entry
  BY AddressParts, NoneAssumption DEF Entry
<1>2. call = "idle" /\ tlb' = tlb
  BY DEF StartMap
<1>3. \/ /\ call' = "idle" /\ op' = None /\ ret' = 1
         /\ UNCHANGED memory
      \/ /\ call' = "set" /\ op' = [pd |-> i, pt |-> PtIdx(v), entry |-> e]
         /\ UNCHANGED <<memory, ret>>
         /\ dir[i] # None /\ ~Refused(v, p)
      \/ /\ call' = "set" /\ op' = [pd |-> i, pt |-> PtIdx(v), entry |-> e]
         /\ UNCHANGED <<tables, ret>>
         /\ dir[i] = None /\ ~Refused(v, p) /\ Aligned(TablePaddr(i))
         /\ dir' = [dir EXCEPT ![i] = d]
  BY DEF StartMap, Return, Write, memory
<1>4. CASE /\ call' = "idle" /\ op' = None /\ ret' = 1
           /\ UNCHANGED memory
  <2>1. \A q \in Page : Walk(q)' = Walk(q)
    BY <1>4 DEF Walk, TableIn, memory
  <2>2. TlbFresh'
    BY <1>2, <1>4, <2>1 DEF IInv, TlbFresh, TypeOK
  <2> QED
    BY <1>2, <1>4, <2>2
    DEF IInv, TypeOK, DirRight, SelfMapped, Untouched, Calling, PagingOff,
        FramesInRange, NoWrap, memory
<1>5. CASE /\ call' = "set" /\ op' = [pd |-> i, pt |-> PtIdx(v), entry |-> e]
           /\ UNCHANGED <<memory, ret>>
           /\ dir[i] # None /\ ~Refused(v, p)
  <2>1. \A q \in Page : Walk(q)' = Walk(q)
    BY <1>5 DEF Walk, TableIn, memory
  <2>2. TlbFresh'
    BY <1>2, <1>5, <2>1 DEF IInv, TlbFresh, TypeOK
  <2>3. NoWrap => FrameOf(p) * PageSize <= PaddrMax
    BY <1>5, NotRefused
  <2>4. TypeOK'
    BY <1>1, <1>2, <1>5 DEF IInv, TypeOK, memory
  <2>5. Calling'
    BY <1>1, <1>5, <2>3 DEF Calling, NoWrap, memory
  <2> QED
    BY <1>2, <1>5, <2>2, <2>4, <2>5
    DEF IInv, DirRight, SelfMapped, Untouched, PagingOff, FramesInRange,
        NoWrap, memory
<1>6. CASE /\ call' = "set" /\ op' = [pd |-> i, pt |-> PtIdx(v), entry |-> e]
           /\ UNCHANGED <<tables, ret>>
           /\ dir[i] = None /\ ~Refused(v, p) /\ Aligned(TablePaddr(i))
           /\ dir' = [dir EXCEPT ![i] = d]
  <2>1. /\ Implemented(i) /\ i # Self
        /\ d.frame = FirstTable + ArrayIdx(i) /\ d \in Entry
    BY <1>1, <1>6, TableFacts DEF Entry
  <2>2. NoWrap => FrameOf(p) * PageSize <= PaddrMax
    BY <1>6, NotRefused
  <2>3. TypeOK'
    BY <1>1, <1>2, <1>6, <2>1 DEF IInv, TypeOK
  <2>4. Calling'
    BY <1>1, <1>6, <2>1, <2>2 DEF Calling, NoWrap, IInv, TypeOK
  <2>5. DirRight'
    BY <1>1, <1>6, <2>1 DEF IInv, DirRight, TypeOK
  <2>6. SelfMapped' /\ Untouched'
    BY <1>1, <1>6, <2>1 DEF IInv, SelfMapped, Untouched, TypeOK
  <2>7. \A q \in Page : Walk(q) # None => Walk(q)' = Walk(q)
    <3> SUFFICES ASSUME NEW q \in Page, Walk(q) # None
                 PROVE  Walk(q)' = Walk(q)
      OBVIOUS
    <3>1. q[1] \in Index /\ q[2] \in Index /\ dir[q[1]] # None
      BY DEF Page, Walk
    <3>2. dir'[q[1]] = dir[q[1]]
      BY <1>6, <3>1 DEF IInv, TypeOK
    <3>3. CASE dir[q[1]].frame = DirFrame
      <4>1. dir[q[2]] # None
        BY <3>1, <3>3 DEF Walk, TableIn
      <4>2. dir'[q[2]] = dir[q[2]]
        BY <1>6, <3>1, <4>1 DEF IInv, TypeOK
      <4> QED
        BY <3>1, <3>2, <3>3, <4>2 DEF Walk, TableIn
    <3>4. CASE dir[q[1]].frame # DirFrame
      BY <1>6, <3>1, <3>2, <3>4 DEF Walk, TableIn
    <3> QED
      BY <3>3, <3>4
  <2>8. TlbFresh'
    BY <1>1, <1>2, <2>7 DEF IInv, TlbFresh, TypeOK
  <2> QED
    BY <1>2, <1>6, <2>3, <2>4, <2>5, <2>6, <2>8
    DEF IInv, PagingOff, FramesInRange, NoWrap
<1> QED
  BY <1>3, <1>4, <1>5, <1>6

(* The first step of paging_unmap. *)
LEMMA StartUnmapStep ==
  ASSUME IInv, boot # "off", addr' \in Nat,
         boot' = boot \/ (boot = "unmap_null" /\ boot' = "enable"),
         NEW v \in Address, StartUnmap(v)
  PROVE  IInv'
<1>1. PdIdx(v) \in Index /\ PtIdx(v) \in Index
  BY AddressParts
<1>2. /\ tlb' = tlb /\ dir' = dir /\ tables' = tables /\ call = "idle"
      /\ \/ call' = "idle" /\ op' = None /\ ret' \in {0, 1}
         \/ /\ call' = "clear" /\ dir[PdIdx(v)] # None /\ ret' = ret
            /\ op' = [pd |-> PdIdx(v), pt |-> PtIdx(v), entry |-> None]
  BY DEF StartUnmap, Return, Write, memory
<1>3. \A q \in Page : Walk(q)' = Walk(q)
  BY <1>2 DEF Walk, TableIn
<1>4. TlbFresh'
  BY <1>2, <1>3 DEF IInv, TlbFresh, TypeOK
<1>5. TypeOK'
  BY <1>1, <1>2 DEF IInv, TypeOK
<1>6. Calling'
  BY <1>2 DEF Calling
<1> QED
  BY <1>2, <1>4, <1>5, <1>6
  DEF IInv, DirRight, SelfMapped, Untouched, PagingOff, FramesInRange, NoWrap

(* The write of the entry. *)
LEMMA WriteStep ==
  ASSUME IInv, SetEntry \/ ClearEntry
  PROVE  IInv'
<1> DEFINE t == ArrayIdx(op.pd)
<1>1. /\ op \in [pd : Index, pt : Index, entry : Entry \cup {None}]
      /\ op.pd \in Index /\ op.pt \in Index /\ op.entry \in Entry \cup {None}
      /\ dir[op.pd] # None /\ boot # "off"
  BY DEF SetEntry, ClearEntry, IInv, TypeOK, Calling
<1>2. tlb' = tlb /\ boot' = boot /\ addr' = addr /\ dir' = dir
  BY DEF SetEntry, ClearEntry, WriteEntry, Return, memory
<1>3. CASE ~Implemented(op.pd)
  <2>1. call' = "idle" /\ op' = None /\ ret' = 1 /\ tables' = tables
    BY <1>3 DEF SetEntry, ClearEntry, WriteEntry, Return, memory
  <2>2. \A q \in Page : Walk(q)' = Walk(q)
    BY <1>2, <2>1 DEF Walk, TableIn
  <2>3. TlbFresh'
    BY <1>2, <2>1, <2>2 DEF IInv, TlbFresh, TypeOK, SetEntry, ClearEntry
  <2> QED
    BY <1>2, <2>1, <2>3
    DEF IInv, TypeOK, DirRight, SelfMapped, Untouched, Calling, PagingOff,
        FramesInRange, NoWrap
<1>4. CASE Implemented(op.pd)
  <2>1. /\ call' = "flush" /\ op' = None /\ ret' = ret
        /\ tables' = [tables EXCEPT ![t][op.pt] = op.entry]
        /\ t \in 0 .. LowTables
    BY <1>1, <1>4, TableFacts DEF SetEntry, ClearEntry, WriteEntry
  <2>2. TypeOK'
    BY <1>1, <1>2, <2>1 DEF IInv, TypeOK
  <2>3. Untouched'
    <3> SUFFICES ASSUME NEW i \in Index, NEW j \in Index, Implemented(i),
                        dir[i] = None
                 PROVE  tables'[ArrayIdx(i)][j] = None
      BY <1>2 DEF Untouched
    <3>1. i # op.pd
      BY <1>1
    <3>2. ArrayIdx(i) # t /\ ArrayIdx(i) \in 0 .. LowTables
      BY <1>1, <1>4, <3>1, ArrayIdxOne, TableFacts
    <3>3. tables[ArrayIdx(i)][j] = None
      BY <1>1 DEF IInv, Untouched
    <3> QED
      BY <2>1, <3>2, <3>3 DEF IInv, TypeOK
  <2>4. FramesInRange'
    <3>1. NoWrap /\ op.entry # None => op.entry.frame * PageSize <= PaddrMax
      BY DEF IInv, Calling, SetEntry, ClearEntry
    <3> QED
      BY <1>1, <1>2, <2>1, <3>1 DEF IInv, FramesInRange, NoWrap, TypeOK
  <2> QED
    BY <1>1, <1>2, <2>1, <2>2, <2>3, <2>4
    DEF IInv, DirRight, SelfMapped, Calling, PagingOff, TlbFresh
<1> QED
  BY <1>3, <1>4

(* CR3 is reloaded: nothing old is kept. *)
LEMMA FlushStep == ASSUME IInv, Flush PROVE IInv'
BY DEF Flush, Return, memory, IInv, TypeOK, DirRight, SelfMapped, Untouched,
       Calling, PagingOff, TlbFresh, FramesInRange, NoWrap

(* The processor keeps what it finds in the tables. *)
LEMMA FillStep == ASSUME IInv, NEW p \in Page, Fill(p) PROVE IInv'
<1>1. /\ boot = "on" /\ Walk(p) # None
      /\ tlb' = [page |-> p, entry |-> Walk(p)]
      /\ UNCHANGED <<dir, tables, call, op, ret, boot, addr>>
  BY DEF Fill, memory, calls
<1>2. Walk(p) \in Entry
  BY <1>1, WalkFacts
<1>3. Walk(p)' = Walk(p)
  BY <1>1 DEF Walk, TableIn
<1> QED
  BY <1>1, <1>2, <1>3
  DEF IInv, TypeOK, DirRight, SelfMapped, Untouched, Calling, PagingOff,
      TlbFresh, FramesInRange, NoWrap

LEMMA InitTablesStep == ASSUME IInv, InitTables PROVE IInv'
BY TableFacts, SizeAssumption
   DEF InitTables, calls, IInv, TypeOK, DirRight, SelfMapped, Untouched,
       Calling, PagingOff, TlbFresh, FramesInRange, NoWrap

LEMMA IdentityStep == ASSUME IInv, Identity PROVE IInv'
<1>1. /\ boot = "identity" /\ call = "idle"
      /\ addr \in Nat /\ addr + PageSize - 1 <= PaddrMax
  BY DEF Identity, IInv, TypeOK
<1>2. CASE ret # 0
  BY <1>1, <1>2
  DEF Identity, memory, calls, IInv, TypeOK, DirRight, SelfMapped, Untouched,
      Calling, PagingOff, TlbFresh, FramesInRange, NoWrap, Walk, TableIn
<1>3. CASE ret = 0
  <2>1. addr \in Address /\ addr + PageSize <= AddressSpace
    BY <1>1, LowAddress
  <2>2. addr + PageSize \in Nat
    BY <1>1, SizeAssumption
  <2> QED
    BY <1>1, <1>3, <2>1, <2>2, StartMapStep DEF Identity
<1> QED
  BY <1>2, <1>3

(* The directory's last entry gets the directory; no table has that entry, *)
(* and with paging off the processor keeps nothing. *)
LEMMA AutomapStep == ASSUME IInv, Automap PROVE IInv'
<1> DEFINE d == [frame |-> DirFrame, write |-> TRUE]
<1>1. /\ Self \in Index /\ d \in Entry /\ d # None /\ ~Implemented(Self)
  <2>1. Self \in Index /\ ~Implemented(Self)
    BY SizeAssumption DEF Self, Index, Implemented
  <2>2. d \in Entry
    BY MemoryAssumption DEF Entry
  <2> QED
    BY <2>1, <2>2, NoneAssumption
<1>2. /\ boot = "identity" /\ call = "idle"
      /\ UNCHANGED <<tables, tlb, call, op, ret, addr>>
      /\ \/ boot' = "failed" /\ dir' = dir
         \/ boot' = "unmap_null" /\ dir' = [dir EXCEPT ![Self] = d]
  BY DEF Automap, calls
<1>3. tlb = None
  BY <1>2 DEF IInv, PagingOff
<1>4. TypeOK'
  BY <1>1, <1>2 DEF IInv, TypeOK
<1>5. DirRight' /\ SelfMapped' /\ Untouched'
  BY <1>1, <1>2 DEF IInv, TypeOK, DirRight, SelfMapped, Untouched
<1> QED
  BY <1>2, <1>3, <1>4, <1>5
  DEF IInv, Calling, PagingOff, TlbFresh, FramesInRange, NoWrap

LEMMA EnableStep == ASSUME IInv, Enable PROVE IInv'
BY DEF Enable, memory, calls, IInv, TypeOK, DirRight, SelfMapped, Untouched,
       Calling, PagingOff, TlbFresh, FramesInRange, NoWrap, Walk, TableIn

LEMMA UnmapNullStep == ASSUME IInv, UnmapNull PROVE IInv'
<1>1. 0 \in Address
  BY MemoryAssumption, LowAddress, SizeAssumption DEF Address, AddressSpace
<1> QED
  BY <1>1, StartUnmapStep DEF UnmapNull, IInv, TypeOK

LEMMA ClientStep == ASSUME IInv, Client PROVE IInv'
<1>1. ASSUME NEW v \in ClientVaddrs, NEW p \in ClientPaddrs,
             NEW w \in BOOLEAN, StartMap(v, p, w)
      PROVE  IInv'
  BY <1>1, ClientAssumption, StartMapStep DEF Client, NoWrap, IInv, TypeOK
<1>2. ASSUME NEW v \in ClientVaddrs, StartUnmap(v)
      PROVE  IInv'
  BY <1>2, ClientAssumption, StartUnmapStep DEF Client, IInv, TypeOK
<1> QED
  BY <1>1, <1>2 DEF Client

LEMMA InitStep == Init => IInv
<1> SUFFICES ASSUME Init PROVE IInv
  OBVIOUS
<1>1. 0 \in Frame
  BY MemoryAssumption, SizeAssumption DEF Frame
<1>2. [frame |-> 0, write |-> FALSE] \in Entry
  BY <1>1 DEF Entry
<1>3. TypeOK
  <2>1. PICK e \in Entry \cup {None} :
           /\ dir = [i \in Index |-> e]
           /\ tables = [t \in 0 .. LowTables |-> [i \in Index |-> e]]
    BY <1>2, ZenonT(60) DEF Init
  <2> QED
    BY <2>1 DEF Init, TypeOK
<1> QED
  BY <1>3
  DEF Init, IInv, DirRight, SelfMapped, Untouched, Calling, PagingOff,
      TlbFresh, FramesInRange, NoWrap

LEMMA IndStep == IInv /\ [Next]_vars => IInv'
<1> SUFFICES ASSUME IInv, [Next]_vars PROVE IInv'
  OBVIOUS
<1>1. CASE Boot
  BY <1>1, InitTablesStep, IdentityStep, AutomapStep, UnmapNullStep, EnableStep
  DEF Boot
<1>2. CASE CallStep
  BY <1>2, WriteStep, FlushStep DEF CallStep
<1>3. CASE Client
  BY <1>3, ClientStep
<1>4. ASSUME NEW p \in Page, Fill(p) PROVE IInv'
  BY <1>4, FillStep
<1>5. CASE UNCHANGED vars
  BY <1>5
  DEF vars, memory, calls, IInv, TypeOK, DirRight, SelfMapped, Untouched,
      Calling, PagingOff, TlbFresh, FramesInRange, NoWrap, Walk, TableIn
<1> QED
  BY <1>1, <1>2, <1>3, <1>4, <1>5 DEF Next

LEMMA Invariance == Spec => []IInv
<1> QED
  BY InitStep, IndStep, PTL DEF Spec

(* Every state of the directory, the tables, the processor's copy and the  *)
(* calls is of its type. *)
THEOREM TypeCorrect == Spec => []TypeOK
<1>1. IInv => TypeOK
  BY DEF IInv
<1> QED
  BY <1>1, Invariance, PTL

(* No call of paging_map or paging_unmap leaves an old translation with    *)
(* the processor. *)
THEOREM TlbSafe == Spec => []TlbFresh
<1>1. IInv => TlbFresh
  BY DEF IInv
<1> QED
  BY <1>1, Invariance, PTL

(* Nothing above PADDR_MAX is mapped, for clients whose addresses do not   *)
(* make the test wrap around. *)
THEOREM FramesSafe == Spec => []FramesInRange
<1>1. IInv => FramesInRange
  BY DEF IInv
<1> QED
  BY <1>1, Invariance, PTL

(* paging_vaddr2paddr agrees with the processor about every address. *)
THEOREM LookupRight == Spec => []LookupAgrees
<1>1. ASSUME IInv PROVE LookupAgrees
  <2> SUFFICES ASSUME boot = "on", call = "idle", NEW v \in Address
               PROVE  Vaddr2Paddr(v) = Physical(v)
    BY DEF LookupAgrees
  <2> DEFINE i == PdIdx(v)
             j == PtIdx(v)
  <2>1. /\ i \in Index /\ j \in Index /\ Self \in Index
        /\ <<Self, Self>> \in Page /\ <<Self, i>> \in Page
        /\ PageOf(v) \in Page
    BY AddressParts, SizeAssumption DEF Self, Index, Page, PageOf
  <2>2. ASSUME NEW q \in Page PROVE Translate(q) = Walk(q)
    BY <1>1 DEF Translate, IInv, TlbFresh
  <2>3. dir[Self] # None /\ dir[Self].frame = DirFrame
    BY <1>1, <2>1 DEF IInv, SelfMapped, DirRight
  <2>4. Walk(<<Self, Self>>) = dir[Self] /\ Walk(<<Self, i>>) = dir[i]
    BY <2>3 DEF Walk, TableIn
  <2>5. Word(<<Self, Self>>, i) = dir[i]
    BY <2>1, <2>2, <2>3, <2>4 DEF Word, TableIn
  <2>6. Word(<<Self, i>>, j) = TableIn(dir[i].frame)[j]
    BY <2>1, <2>2, <2>4 DEF Word
  <2>7. Translate(PageOf(v)) = IF dir[i] = None THEN None
                               ELSE TableIn(dir[i].frame)[j]
    BY <2>1, <2>2 DEF Walk, PageOf
  <2> QED
    BY <2>5, <2>6, <2>7 DEF Vaddr2Paddr, Physical
<1> QED
  BY <1>1, Invariance, PTL

-----------------------------------------------------------------------------

(* What PageMap sees, without the processor's walk. *)
TableMap == [p \in MappablePage |->
               IF boot = "off" \/ dir[p[1]] = None THEN None
               ELSE tables[ArrayIdx(p[1])][p[2]]]

MappedThere == Mapped = TableMap

LEMMA MappedIs == IInv => MappedThere
<1> SUFFICES ASSUME IInv PROVE MappedThere
  OBVIOUS
<1>1. ASSUME NEW p \in MappablePage, boot # "off"
      PROVE  Walk(p) = IF dir[p[1]] = None THEN None
                       ELSE tables[ArrayIdx(p[1])][p[2]]
  BY <1>1, WalkFacts DEF MappablePage
<1> QED
  BY <1>1 DEF MappedThere, Mapped, TableMap

LEMMA MappedIsNext == IInv' => MappedThere'
BY MappedIs, PTL

(* The first step of a call asks for the page and the entry, unless there  *)
(* is no table for them, and maps nothing. *)
LEMMA StartMapRefines ==
  ASSUME IInv, boot # "off", UNCHANGED boot,
         NEW v \in Address, NEW p \in Address, NEW w \in BOOLEAN,
         StartMap(v, p, w)
  PROVE  /\ TableMap' = TableMap
         /\ \/ UNCHANGED Pending
            \/ \E q \in MappablePage, e \in Entry \cup {None} :
                 Pending = None /\ Pending' = [page |-> q, entry |-> e]
<1> DEFINE e == [frame |-> FrameOf(p), write |-> w]
           i == PdIdx(v)
<1>1. e \in Entry /\ i \in Index /\ PtIdx(v) \in Index
  BY AddressParts DEF Entry
<1>2. call = "idle" /\ Pending = None /\ tables' = tables
  BY DEF StartMap, Pending, Return, Write, memory
<1>3. TableMap' = TableMap
  <2>1. CASE dir' = dir
    BY <1>2, <2>1 DEF TableMap
  <2>2. CASE dir' # dir
    <3>1. /\ dir[i] = None
          /\ dir' = [dir EXCEPT ![i] = [frame |-> FrameOf(TablePaddr(i)),
                                        write |-> TRUE]]
      BY <2>2 DEF StartMap, Return, Write, memory
    <3>2. ASSUME NEW q \in MappablePage
          PROVE  (IF dir'[q[1]] = None THEN None ELSE tables[ArrayIdx(q[1])][q[2]])
               = (IF dir[q[1]] = None THEN None ELSE tables[ArrayIdx(q[1])][q[2]])
      <4>1. q[1] \in Index /\ q[2] \in Index /\ Implemented(q[1])
        BY DEF MappablePage, Page
      <4>2. CASE q[1] = i
        BY <3>1, <4>1, <4>2 DEF IInv, Untouched
      <4>3. CASE q[1] # i
        BY <3>1, <4>1, <4>3 DEF IInv, TypeOK
      <4> QED
        BY <4>2, <4>3
    <3> QED
      BY <1>2, <3>2 DEF TableMap
  <2> QED
    BY <2>1, <2>2
<1>4. \/ call' = "idle"
      \/ call' = "set" /\ op' = [pd |-> i, pt |-> PtIdx(v), entry |-> e]
  BY DEF StartMap, Return, Write
<1>5. CASE call' = "idle"
  BY <1>2, <1>3, <1>5 DEF Pending
<1>6. CASE call' = "set" /\ op' = [pd |-> i, pt |-> PtIdx(v), entry |-> e]
  <2>1. CASE Implemented(i)
    <3>1. <<i, PtIdx(v)>> \in MappablePage
      BY <1>1, <2>1 DEF MappablePage, Page
    <3>2. Pending' = [page |-> <<i, PtIdx(v)>>, entry |-> e]
      BY <1>6, <2>1 DEF Pending
    <3> QED
      BY <1>1, <1>2, <1>3, <3>1, <3>2
  <2>2. CASE ~Implemented(i)
    BY <1>2, <1>3, <1>6, <2>2 DEF Pending
  <2> QED
    BY <2>1, <2>2
<1> QED
  BY <1>4, <1>5, <1>6

LEMMA StartUnmapRefines ==
  ASSUME IInv, boot # "off", boot' # "off", NEW v \in Address, StartUnmap(v)
  PROVE  /\ TableMap' = TableMap
         /\ \/ UNCHANGED Pending
            \/ \E q \in MappablePage, e \in Entry \cup {None} :
                 Pending = None /\ Pending' = [page |-> q, entry |-> e]
<1> DEFINE i == PdIdx(v)
<1>1. i \in Index /\ PtIdx(v) \in Index
  BY AddressParts
<1>2. /\ call = "idle" /\ Pending = None /\ tables' = tables /\ dir' = dir
      /\ \/ call' = "idle"
         \/ call' = "clear" /\ op' = [pd |-> i, pt |-> PtIdx(v), entry |-> None]
  BY DEF StartUnmap, Pending, Return, Write, memory
<1>3. TableMap' = TableMap
  BY <1>2 DEF TableMap
<1>4. CASE call' = "idle" \/ ~Implemented(i)
  BY <1>2, <1>3, <1>4 DEF Pending
<1>5. CASE call' # "idle" /\ Implemented(i)
  <2>1. <<i, PtIdx(v)>> \in MappablePage
    BY <1>1, <1>5 DEF MappablePage, Page
  <2>2. Pending' = [page |-> <<i, PtIdx(v)>>, entry |-> None]
    BY <1>2, <1>5 DEF Pending
  <2> QED
    BY <1>2, <1>3, <2>1, <2>2
<1> QED
  BY <1>4, <1>5

(* The write of the entry is the change that was asked for. *)
LEMMA WriteRefines ==
  ASSUME IInv, SetEntry \/ ClearEntry
  PROVE  \/ TableMap' = TableMap /\ Pending' = Pending
         \/ /\ Pending # None /\ Pending' = None
            /\ TableMap' = [TableMap EXCEPT ![Pending.page] = Pending.entry]
<1>1. /\ call \in {"set", "clear"} /\ boot # "off" /\ boot' = boot
      /\ op.pd \in Index /\ op.pt \in Index /\ op.entry \in Entry \cup {None}
      /\ dir[op.pd] # None /\ dir' = dir
  BY DEF SetEntry, ClearEntry, WriteEntry, Return, memory, IInv, TypeOK, Calling
<1>2. CASE ~Implemented(op.pd)
  <2>1. call' = "idle" /\ tables' = tables
    BY <1>2 DEF SetEntry, ClearEntry, WriteEntry, Return, memory
  <2> QED
    BY <1>1, <1>2, <2>1 DEF TableMap, Pending
<1>3. CASE Implemented(op.pd)
  <2> DEFINE q == <<op.pd, op.pt>>
  <2>1. /\ call' = "flush"
        /\ tables' = [tables EXCEPT ![ArrayIdx(op.pd)][op.pt] = op.entry]
        /\ ArrayIdx(op.pd) \in 0 .. LowTables
    BY <1>1, <1>3, TableFacts DEF SetEntry, ClearEntry, WriteEntry
  <2>2. Pending = [page |-> q, entry |-> op.entry] /\ Pending' = None
    BY <1>1, <1>3, <2>1 DEF Pending
  <2>3. q \in MappablePage
    BY <1>1, <1>3 DEF MappablePage, Page
  <2>4. Pending # None
    BY <1>1, <2>2, <2>3, NoneAssumption DEF MappablePage
  <2>5. ASSUME NEW r \in MappablePage
        PROVE  TableMap'[r] = IF r = q THEN op.entry ELSE TableMap[r]
    <3>1. /\ r[1] \in Index /\ r[2] \in Index /\ Implemented(r[1])
          /\ r = <<r[1], r[2]>>
          /\ ArrayIdx(r[1]) \in 0 .. LowTables
      BY TableFacts DEF MappablePage, Page
    <3>2. CASE r = q
      BY <1>1, <2>1, <3>1, <3>2 DEF TableMap, IInv, TypeOK
    <3>3. CASE r[1] = op.pd /\ r[2] # op.pt
      BY <1>1, <2>1, <3>1, <3>3 DEF TableMap, IInv, TypeOK
    <3>4. CASE r[1] # op.pd
      <4>1. ArrayIdx(r[1]) # ArrayIdx(op.pd)
        BY <1>1, <1>3, <3>1, <3>4, ArrayIdxOne
      <4> QED
        BY <1>1, <2>1, <3>1, <3>4, <4>1 DEF TableMap, IInv, TypeOK
    <3> QED
      BY <3>1, <3>2, <3>3, <3>4
  <2>6. TableMap' = [TableMap EXCEPT ![q] = op.entry]
    BY <2>3, <2>5 DEF TableMap
  <2> QED
    BY <2>2, <2>4, <2>6
<1> QED
  BY <1>2, <1>3

(* Every step asks, changes the page that was asked for, or does nothing   *)
(* that PageMap sees. *)
LEMMA RefinementStep ==
  IInv /\ IInv' /\ [Next]_vars => [Abstract!Next]_<<Mapped, Pending>>
<1> SUFFICES ASSUME IInv, IInv', [Next]_vars
             PROVE  [Abstract!Next]_<<Mapped, Pending>>
  OBVIOUS
<1> DEFINE Seen == /\ TableMap' = TableMap
                   /\ \/ UNCHANGED Pending
                      \/ \E q \in MappablePage, e \in Entry \cup {None} :
                           Pending = None /\ Pending' = [page |-> q, entry |-> e]
           Changed == /\ Pending # None /\ Pending' = None
                      /\ TableMap' = [TableMap EXCEPT ![Pending.page] = Pending.entry]
<1>1. Mapped = TableMap /\ Mapped' = TableMap'
  BY MappedIs, MappedIsNext DEF MappedThere
<1>2. ASSUME Seen PROVE [Abstract!Next]_<<Mapped, Pending>>
  BY <1>1, <1>2 DEF Abstract!Next, Abstract!Ask
<1>3. ASSUME Changed PROVE [Abstract!Next]_<<Mapped, Pending>>
  BY <1>1, <1>3 DEF Abstract!Next, Abstract!Change
<1> HIDE DEF Seen, Changed
<1>4. CASE InitTables
  <2>1. dir' = [i \in Index |-> None] /\ boot = "off" /\ UNCHANGED calls
    BY <1>4 DEF InitTables
  <2>2. TableMap' = TableMap
    BY <2>1 DEF TableMap, MappablePage, Page
  <2> QED
    BY <1>2, <2>1, <2>2 DEF Seen, Pending, calls
<1>5. CASE Identity
  <2>1. CASE UNCHANGED <<memory, calls>> /\ boot' # "off"
    BY <1>2, <1>5, <2>1 DEF Identity, Seen, TableMap, Pending, memory, calls
  <2>2. CASE StartMap(addr, addr, TRUE) /\ UNCHANGED boot
    <3>1. addr \in Address
      BY <1>5, LowAddress DEF Identity, IInv, TypeOK
    <3> QED
      BY <1>2, <1>5, <2>2, <3>1, StartMapRefines DEF Identity, Seen
  <2> QED
    BY <1>5, <2>1, <2>2 DEF Identity, calls
<1>6. CASE Automap
  <2>1. /\ boot # "off" /\ boot' # "off" /\ UNCHANGED <<tables, calls>>
        /\ \A i \in Index : i # Self => dir'[i] = dir[i]
    BY <1>6 DEF Automap, IInv, TypeOK
  <2>2. ASSUME NEW q \in MappablePage PROVE q[1] \in Index /\ q[1] # Self
    BY SizeAssumption DEF MappablePage, Page, Implemented, Self, Index
  <2>3. TableMap' = TableMap
    BY <2>1, <2>2 DEF TableMap
  <2> QED
    BY <1>2, <2>1, <2>3 DEF Seen, Pending, calls
<1>7. CASE UnmapNull
  <2>1. 0 \in Address
    BY MemoryAssumption, LowAddress, SizeAssumption, SMTT(30) DEF Address, AddressSpace
  <2> QED
    BY <1>2, <1>7, <2>1, StartUnmapRefines DEF UnmapNull, Seen
<1>8. CASE Enable
  BY <1>2, <1>8 DEF Enable, Seen, TableMap, Pending, memory, calls
<1>9. CASE SetEntry \/ ClearEntry
  BY <1>2, <1>3, <1>9, WriteRefines DEF Seen, Changed
<1>10. CASE Flush
  BY <1>2, <1>10 DEF Flush, Return, Seen, TableMap, Pending, memory
<1>11. CASE Client
  <2>1. ASSUME NEW v \in ClientVaddrs, NEW p \in ClientPaddrs,
               NEW w \in BOOLEAN, StartMap(v, p, w)
        PROVE  Seen
    BY <1>11, <2>1, ClientAssumption, StartMapRefines DEF Client, Seen
  <2>2. ASSUME NEW v \in ClientVaddrs, StartUnmap(v) PROVE Seen
    BY <1>11, <2>2, ClientAssumption, StartUnmapRefines DEF Client, Seen
  <2> QED
    BY <1>2, <1>11, <2>1, <2>2 DEF Client
<1>12. CASE (\E p \in Page : Fill(p)) \/ UNCHANGED vars
  <2>1. UNCHANGED <<memory, calls, boot>>
    BY <1>12 DEF Fill, vars
  <2> QED
    BY <1>2, <2>1 DEF Seen, TableMap, Pending, memory, calls
<1> QED
  BY <1>4, <1>5, <1>6, <1>7, <1>8, <1>9, <1>10, <1>11, <1>12
  DEF Next, Boot, CallStep

(* Seen through its tables, paging changes the page it was asked to map or *)
(* unmap and no other, for any number and size of tables.                  *)
THEOREM Refinement == Spec => ImplementsPageMap
<1>1. Init => Abstract!Init
  BY DEF Init, Abstract!Init, Mapped, Pending
<1> QED
  BY <1>1, RefinementStep, Invariance, PTL
  DEF Spec, Abstract!Spec, ImplementsPageMap

-----------------------------------------------------------------------------
(* The ELF loader.                                                         *)

(* PADDR_MAX is the last byte of a page. *)
WholePages == (PaddrMax + 1) % PageSize = 0

-----------------------------------------------------------------------------
(* Setting paging up.                                                      *)

(* Where the entry of frame n's own page is. *)
Place(n) == <<n \div Entries, n % Entries>>

(* The entry a low page has, or is about to get from the call that runs.   *)
Due(p) == IF call \in {"set", "clear"} /\ op.pd = p[1] /\ op.pt = p[2]
          THEN op.entry ELSE tables[p[1]][p[2]]

(* No call is refused on the way. *)
NoFail == /\ boot # "failed"
          /\ boot \in {"off", "identity", "unmap_null", "enable"} => ret = 0

(* The loop has come to a page, and past memory when it is left. *)
Looping == /\ addr \in Nat /\ addr % PageSize = 0
           /\ boot = "off" => addr = 0
           /\ addr <= PaddrMax + 1
           /\ boot \in {"unmap_null", "enable", "on"} => addr + PageSize - 1 > PaddrMax

(* Until paging is on only low pages are mapped, and then only those the   *)
(* image asks for.                                                         *)
CallPlace == /\ boot \in {"off", "unmap_null"} => call = "idle"
             /\ boot \in {"identity", "enable"} /\ call \in {"set", "clear"} =>
                  op.pd < LowTables
             /\ boot = "on" /\ call \in {"set", "clear"} => <<op.pd, op.pt>> \in Claimed

(* What the processor keeps of a low page that the image does not ask for  *)
(* is the table's, also during a call.                                     *)
LowFresh == tlb # None /\ tlb.page[1] < LowTables /\ tlb.page \notin Claimed =>
              tlb.entry = tables[tlb.page[1]][tlb.page[2]]

(* The pages before addr that the image does not ask for are mapped to     *)
(* themselves, but for the null page once it is unmapped.                  *)
Kept(n) == /\ n > 0 \/ boot \in {"identity", "unmap_null"}
           /\ Place(n) \notin Claimed

Ident ==
  boot \in {"identity", "unmap_null", "enable", "on"} =>
    \A n \in Nat : PageSize * n < addr /\ Kept(n) =>
      /\ dir[n \div Entries] # None
      /\ Due(Place(n)) = [frame |-> n, write |-> TRUE]

NullGone == boot \in {"enable", "on"} => Due(<<0, 0>>) = None

BInv == IInv /\ NoFail /\ Looping /\ CallPlace /\ LowFresh /\ Ident /\ NullGone

-----------------------------------------------------------------------------
(* Places.                                                                 *)

LEMMA SizesAre ==
  /\ PageSize \in Nat \ {0} /\ Entries \in Nat \ {0} /\ LowTables \in Nat \ {0}
  /\ AlignUnit \in Nat \ {0} /\ PageSize % AlignUnit = 0 /\ PaddrMax \in Nat
  /\ LowTables < Entries - 1 /\ LowTables - 1 \in Index /\ 0 \in Index
BY SizeAssumption, MemoryAssumption DEF Index

LEMMA PlaceLow ==
  ASSUME NEW n \in Nat, PageSize * n <= PaddrMax
  PROVE  /\ n \div Entries \in Index /\ n \div Entries < LowTables
         /\ n % Entries \in Index /\ n = Entries * (n \div Entries) + (n % Entries)
<1>1. /\ n \div Entries \in Nat /\ n % Entries \in 0 .. Entries - 1
      /\ n = Entries * (n \div Entries) + (n % Entries)
  BY SizesAre, DivMod
<1>2. n < Entries * LowTables
  <2>1. SUFFICES ASSUME Entries * LowTables <= n PROVE FALSE
    BY SizesAre
  <2>2. PageSize * (Entries * LowTables) <= PageSize * n
    BY <2>1, SizesAre, TimesMonotone
  <2>3. PageSize * (Entries * LowTables) = PageSize * Entries * LowTables
    BY SizesAre
  <2>4. PageSize * n \in Int /\ PageSize * Entries * LowTables \in Int
    BY SizesAre
  <2> QED
    BY <2>2, <2>3, <2>4, MemoryAssumption
<1>3. n \div Entries \in 0 .. LowTables - 1
  BY <1>2, SizesAre, DivBound
<1> QED
  BY <1>1, <1>3, SizesAre DEF Index

LEMMA PlaceOne ==
  ASSUME NEW n \in Nat, NEW m \in Nat, PageSize * n <= PaddrMax, PageSize * m <= PaddrMax,
         n \div Entries = m \div Entries, n % Entries = m % Entries
  PROVE  n = m
BY PlaceLow

LEMMA LowPlace ==
  ASSUME NEW i \in Index, i < LowTables
  PROVE  Implemented(i) /\ ArrayIdx(i) = i /\ i # Self
BY SizeAssumption DEF Implemented, ArrayIdx, Self, Index

(* The page of an address and its place in it. *)
LEMMA PagePlace ==
  ASSUME NEW a \in Nat
  PROVE  /\ FrameOf(a) \in Nat /\ a % PageSize \in 0 .. PageSize - 1
         /\ a = PageSize * FrameOf(a) + (a % PageSize)
         /\ PageOf(a) = Place(FrameOf(a))
<1>1. /\ FrameOf(a) \in Nat /\ a % PageSize \in 0 .. PageSize - 1
      /\ a = PageSize * FrameOf(a) + (a % PageSize)
  BY SizesAre, DivMod DEF FrameOf
<1> QED
  BY <1>1 DEF PageOf, Place, PdIdx, PtIdx

LEMMA RamAddress ==
  ASSUME NEW a \in Ram
  PROVE  a \in Address /\ a + PageSize <= AddressSpace
<1>1. a \in Nat /\ a < PageSize * Entries * LowTables
  <2>1. PaddrMax < PageSize * Entries * LowTables
    BY MemoryAssumption
  <2>2. PageSize * Entries * LowTables \in Int
    BY SizesAre
  <2> QED
    BY <2>1, <2>2, SizesAre DEF Ram
<1>2. LowTables + 1 <= Entries
  BY SizesAre
<1> DEFINE pe == PageSize * Entries
<1>3. pe \in Nat /\ PageSize <= pe
  <2>1. PageSize * 1 <= PageSize * Entries
    BY SizesAre, TimesMonotone
  <2> QED
    BY <2>1, SizesAre
<1>4. pe * (LowTables + 1) <= pe * Entries
  BY <1>2, <1>3, SizesAre, TimesMonotone
<1>5. AddressSpace = pe * Entries
  BY DEF AddressSpace
<1>6. a < pe * LowTables
  BY <1>1
<1> HIDE DEF pe
<1>7. pe * (LowTables + 1) = pe * LowTables + pe /\ pe * LowTables \in Int /\ pe * Entries \in Int
  BY <1>3, SizesAre
<1> QED
  BY <1>1, <1>3, <1>4, <1>5, <1>6, <1>7, SizesAre DEF Address

(* A page's first address is not refused while it is in memory. *)
LEMMA PageAccepted ==
  ASSUME NEW a \in Nat, a % PageSize = 0, a + PageSize - 1 <= PaddrMax
  PROVE  /\ ~Refused(a, a) /\ a \in Address /\ PageSize * FrameOf(a) = a
         /\ PdIdx(a) < LowTables /\ PdIdx(a) \in Index /\ PtIdx(a) \in Index
<1>1. a \in Address /\ a + PageSize <= AddressSpace
  BY LowAddress
<1>2. FrameOf(a) \in Nat /\ PageSize * FrameOf(a) = a
  <2>1. FrameOf(a) \in Nat /\ a = PageSize * FrameOf(a) + 0
    BY PagePlace
  <2>2. PageSize * FrameOf(a) \in Int
    BY <2>1, SizesAre
  <2> QED
    BY <2>1, <2>2
<1>3. a <= PaddrMax
  BY SizesAre
<1>4. Aligned(a)
  <2>1. (FrameOf(a) * PageSize) % AlignUnit = 0
    BY <1>2, SizesAre, ModTimes
  <2>2. FrameOf(a) * PageSize = a
    BY <1>2, SizesAre
  <2> QED
    BY <2>1, <2>2 DEF Aligned
<1>5. ~OutOfMemory(a)
  <2>1. a + PageSize - 1 \in 0 .. AddressSpace - 1 /\ AddressSpace \in Nat \ {0}
    <3>1. AddressSpace \in Nat
      BY SizesAre DEF AddressSpace
    <3>2. a + PageSize \in Nat /\ a + PageSize > 0
      BY SizesAre
    <3> QED
      BY <1>1, <3>1, <3>2, SizesAre
  <2>2. (AddressSpace * 0 + (a + PageSize - 1)) % AddressSpace = a + PageSize - 1
    BY <2>1, DivModUnique
  <2>3. (a + PageSize - 1) % AddressSpace = a + PageSize - 1
    BY <2>1, <2>2
  <2> QED
    BY <2>3, SizesAre DEF OutOfMemory
<1>6. PdIdx(a) < LowTables /\ PdIdx(a) \in Index /\ PtIdx(a) \in Index
  BY <1>2, <1>3, PlaceLow DEF PdIdx, PtIdx
<1> QED
  BY <1>1, <1>2, <1>4, <1>5, <1>6 DEF Refused

-----------------------------------------------------------------------------
(* The pages the image asks for.                                           *)

(* A page has one place in the tables. *)
LEMMA PlaceOnce ==
  ASSUME NEW a \in Nat, NEW b \in Nat, PdIdx(a) = PdIdx(b), PtIdx(a) = PtIdx(b)
  PROVE  FrameOf(a) = FrameOf(b)
<1>1. FrameOf(a) \in Nat /\ FrameOf(b) \in Nat
  BY PagePlace
<1>2. /\ FrameOf(a) = Entries * PdIdx(a) + PtIdx(a)
      /\ FrameOf(b) = Entries * PdIdx(b) + PtIdx(b)
  BY <1>1, SizesAre, DivMod DEF PdIdx, PtIdx
<1> QED
  BY <1>2

LEMMA SegmentFacts ==
  ASSUME image \in Images, NEW i \in Loadable(image)
  PROVE  LET s == image.segments[i]
         IN  /\ i \in Nat \ {0} /\ i <= Len(image.segments) /\ s.load
             /\ {s.vaddr, s.paddr, s.offset, s.filesz, s.memsz} \subseteq Nat
             /\ s.write \in BOOLEAN
             /\ s.filesz <= s.memsz /\ s.offset + s.filesz <= ImageSize
             /\ s.vaddr >= VaddrMin
             /\ s.paddr + s.memsz < AddressSpace /\ s.vaddr + s.memsz < AddressSpace
<1> DEFINE S == [load : BOOLEAN, write : BOOLEAN, offset : Nat,
                 vaddr : Nat, paddr : Nat, filesz : Nat, memsz : Nat]
           s == image.segments[i]
<1>1. image.segments \in Seq(S)
  BY FileAssumption
<1>2. i \in DOMAIN image.segments /\ s.load
  BY DEF Loadable
<1>3. i \in Nat \ {0} /\ i <= Len(image.segments) /\ s \in S
  <2> DEFINE q == image.segments
  <2>1. q \in Seq(S) /\ i \in DOMAIN q
    BY <1>1, <1>2
  <2> HIDE DEF S, q
  <2>2. i \in 1 .. Len(q) /\ Len(q) \in Nat /\ q[i] \in S
    BY <2>1
  <2> QED
    BY <2>2 DEF q
<1>4. /\ s.filesz <= s.memsz /\ s.offset + s.filesz <= ImageSize
      /\ s.vaddr >= VaddrMin
      /\ s.paddr + s.memsz < AddressSpace /\ s.vaddr + s.memsz < AddressSpace
  BY <1>2, ImageAssumption
<1> QED
  BY <1>2, <1>3, <1>4

LEMMA ClaimedSame == ASSUME image' = image PROVE Claimed' = Claimed
BY DEF Claimed, Loadable

LEMMA Claims ==
  ASSUME NEW i \in Loadable(image), NEW k \in Bytes(image.segments[i])
  PROVE  PageOf(image.segments[i].vaddr + k) \in Claimed
BY DEF Claimed

(* The loader's own pages are none of them. *)
LEMMA NotClaimed ==
  ASSUME image \in Images, NEW a \in Nat, a < VaddrMin
  PROVE  PageOf(a) \notin Claimed
<1>1. SUFFICES ASSUME NEW i \in Loadable(image), NEW k \in Bytes(image.segments[i]),
                      PageOf(a) = PageOf(image.segments[i].vaddr + k)
               PROVE  FALSE
  BY DEF Claimed
<1> DEFINE v == image.segments[i].vaddr + k
           m == FrameOf(VaddrMin)
           p == FrameOf(a)
           q == FrameOf(v)
<1>2. v \in Nat /\ v >= VaddrMin /\ VaddrMin \in Nat /\ VaddrMin % PageSize = 0
  <2>1. image.segments[i].memsz \in Nat /\ image.segments[i].vaddr \in Nat
        /\ image.segments[i].vaddr >= VaddrMin
    BY SegmentFacts
  <2>2. k \in Nat /\ VaddrMin \in Nat /\ VaddrMin % PageSize = 0
    BY <2>1, FileAssumption DEF Bytes
  <2> QED
    BY <2>1, <2>2
<1> HIDE DEF v
<1>3. p = q
  <2>1. PdIdx(a) = PdIdx(v) /\ PtIdx(a) = PtIdx(v)
    BY <1>1 DEF PageOf, v
  <2> QED
    BY <1>2, <2>1, PlaceOnce
<1>4. /\ m \in Nat /\ VaddrMin = PageSize * m + 0
      /\ p \in Nat /\ a = PageSize * p + (a % PageSize) /\ a % PageSize \in 0 .. PageSize - 1
      /\ q \in Nat /\ v = PageSize * q + (v % PageSize) /\ v % PageSize \in 0 .. PageSize - 1
  BY <1>2, PagePlace
<1> HIDE DEF m, p, q
<1>5. PageSize * m \in Int /\ PageSize * p \in Int /\ PageSize * q \in Int
  BY <1>4, SizesAre
<1>6. ~(m <= p)
  <2>1. m <= p => PageSize * m <= PageSize * p
    BY <1>4, SizesAre, TimesMonotone
  <2> QED
    BY <1>4, <1>5, <2>1
<1>7. q + 1 <= m
  BY <1>3, <1>4, <1>6
<1>8. PageSize * (q + 1) <= PageSize * m
  BY <1>4, <1>7, SizesAre, TimesMonotone
<1>9. PageSize * (q + 1) = PageSize * q + PageSize
  BY <1>4, SizesAre
<1> QED
  BY <1>2, <1>4, <1>5, <1>8, <1>9, SizesAre

LEMMA ZeroPlace == PdIdx(0) = 0 /\ PtIdx(0) = 0 /\ Aligned(0)
<1>1. ASSUME NEW n \in Nat \ {0} PROVE 0 \div n = 0 /\ 0 % n = 0
  <2>1. 0 \in 0 .. n - 1
    OBVIOUS
  <2>2. (n * 0 + 0) \div n = 0 /\ (n * 0 + 0) % n = 0
    BY <2>1, DivModUnique
  <2> QED
    BY <2>2
<1> QED
  BY <1>1, SizesAre DEF PdIdx, PtIdx, FrameOf, Aligned

LEMMA NullNotClaimed == ASSUME image \in Images PROVE <<0, 0>> \notin Claimed
<1>1. 0 < VaddrMin
  BY FileAssumption, SizesAre
<1>2. PageOf(0) = <<0, 0>>
  BY ZeroPlace DEF PageOf
<1> QED
  BY <1>1, <1>2, NotClaimed

-----------------------------------------------------------------------------
(* The steps of paging_init and main, and of the calls.                    *)

LEMMA CallTypes ==
  ASSUME BInv
  PROVE  /\ call \in {"set", "clear"} => op.pd \in Index /\ op.pt \in Index
         /\ dir \in [Index -> Entry \cup {None}]
         /\ tables \in [0 .. LowTables -> [Index -> Entry \cup {None}]]
BY DEF BInv, IInv, TypeOK

LEMMA LowerAddr ==
  ASSUME BInv, NEW n \in Nat, PageSize * n < addr
  PROVE  PageSize * n <= PaddrMax /\ PageSize * n \in Nat
BY SizesAre DEF BInv, Looping

LEMMA BInit == Init => BInv
<1> SUFFICES ASSUME Init PROVE BInv
  OBVIOUS
<1>1. 0 % PageSize = 0
  <2>1. (0 * PageSize) % PageSize = 0
    BY SizesAre, ModTimes
  <2> QED
    BY <2>1, SizesAre
<1>2. IInv
  BY InitStep
<1> QED
  BY <1>1, <1>2, SizesAre
     DEF Init, BInv, NoFail, Looping, CallPlace, LowFresh, Ident, NullGone

LEMMA BInitTables == ASSUME BInv, image' = image, InitTables PROVE BInv'
<1>1. IInv' /\ call = "idle"
  BY InitTablesStep DEF BInv, InitTables, CallPlace
<1>2. /\ boot = "off" /\ boot' = "identity" /\ addr = 0 /\ tlb = None
      /\ UNCHANGED <<tlb, call, op, ret, addr>>
  BY DEF InitTables, calls, BInv, IInv, PagingOff, Looping
<1>3. Ident'
  <2>1. \A n \in Nat : ~(PageSize * n < 0)
    BY SizesAre
  <2> QED
    BY <1>2, <2>1 DEF Ident
<1> QED
  BY <1>1, <1>2, <1>3 DEF BInv, NoFail, Looping, CallPlace, LowFresh, NullGone

LEMMA BIdentity == ASSUME BInv, image' = image, Identity PROVE BInv'
<1> DEFINE k == FrameOf(addr)
           e == [frame |-> k, write |-> TRUE]
<1>1. /\ boot = "identity" /\ boot' = "identity" /\ call = "idle" /\ ret = 0
      /\ addr + PageSize - 1 <= PaddrMax /\ addr' = addr + PageSize
      /\ StartMap(addr, addr, TRUE) /\ tlb = None
  BY DEF Identity, BInv, NoFail, IInv, PagingOff
<1>2. /\ addr \in Nat /\ addr % PageSize = 0 /\ ~Refused(addr, addr)
      /\ PageSize * k = addr /\ PdIdx(addr) < LowTables
      /\ PdIdx(addr) \in Index /\ PtIdx(addr) \in Index
  BY <1>1, PageAccepted DEF BInv, Looping
<1>3. /\ Implemented(PdIdx(addr))
      /\ TablePaddr(PdIdx(addr)) # 0 /\ Aligned(TablePaddr(PdIdx(addr)))
  BY <1>2, LowPlace, TableFacts
<1>4. /\ call' = "set" /\ op' = [pd |-> PdIdx(addr), pt |-> PtIdx(addr), entry |-> e]
      /\ UNCHANGED <<tables, ret, tlb>>
      /\ \A i \in Index : dir[i] # None => dir'[i] = dir[i]
      /\ dir'[PdIdx(addr)] # None
  <2> DEFINE d == [frame |-> FrameOf(TablePaddr(PdIdx(addr))), write |-> TRUE]
  <2>1. /\ call' = "set" /\ op' = [pd |-> PdIdx(addr), pt |-> PtIdx(addr), entry |-> e]
        /\ UNCHANGED <<tables, ret, tlb>>
        /\ \/ dir[PdIdx(addr)] # None /\ dir' = dir
           \/ dir[PdIdx(addr)] = None /\ dir' = [dir EXCEPT ![PdIdx(addr)] = d]
    BY <1>1, <1>2, <1>3 DEF StartMap, Write, Return
  <2>2. d # None
    <3>1. d \in Entry
      BY <1>2, <1>3, TableFacts DEF Entry
    <3> QED
      BY <3>1, NoneAssumption
  <2> HIDE DEF d
  <2> QED
    BY <1>2, <2>1, <2>2, CallTypes
<1>5. Ident'
  <2> SUFFICES ASSUME NEW n \in Nat, PageSize * n < addr + PageSize, Place(n) \notin Claimed
               PROVE  dir'[n \div Entries] # None /\ Due(Place(n))' = [frame |-> n, write |-> TRUE]
    BY <1>1, ClaimedSame DEF Ident, Kept
  <2>1. CASE n = k
    <3>1. n \div Entries = PdIdx(addr) /\ n % Entries = PtIdx(addr)
      BY <2>1 DEF PdIdx, PtIdx
    <3> QED
      BY <1>4, <2>1, <3>1 DEF Due, Place
  <2>2. CASE n # k
    <3>1. k \in Nat /\ PageSize * k \in Nat /\ PageSize * n \in Nat
      <4>1. k \in Nat
        BY <1>2, PagePlace
      <4>2. PageSize * n \in Nat
        BY SizesAre
      <4> QED
        BY <1>2, <4>1, <4>2
    <3>2. PageSize * n < addr
      <4>1. SUFFICES ASSUME ~(n < k) PROVE FALSE
        <5>1. n < k => PageSize * n < PageSize * k
          BY <3>1, SizesAre
        <5> QED
          BY <1>2, <5>1
      <4>2. k + 1 <= n
        BY <2>2, <3>1, <4>1
      <4>3. PageSize * (k + 1) <= PageSize * n
        BY <3>1, <4>2, SizesAre, TimesMonotone
      <4>4. PageSize * (k + 1) = PageSize * k + PageSize
        BY <3>1, SizesAre
      <4> QED
        BY <1>2, <3>1, <4>3, <4>4, SizesAre
    <3>3. dir[n \div Entries] # None /\ tables[n \div Entries][n % Entries] = [frame |-> n, write |-> TRUE]
      BY <1>1, <3>2 DEF BInv, Ident, Kept, Due, Place
    <3>4. /\ n \div Entries \in Index
          /\ ~(PdIdx(addr) = n \div Entries /\ PtIdx(addr) = n % Entries)
      <4>1. PageSize * n <= PaddrMax /\ PageSize * k <= PaddrMax
        BY <1>1, <1>2, <3>2, LowerAddr, SizesAre
      <4> QED
        BY <2>2, <3>1, <4>1, PlaceLow, PlaceOne DEF PdIdx, PtIdx
    <3> QED
      BY <1>4, <3>3, <3>4 DEF Due, Place
  <2> QED
    BY <2>1, <2>2
<1>6. Looping'
  <2>1. addr' \in Nat /\ addr' <= PaddrMax + 1
    BY <1>1, <1>2, SizesAre
  <2>2. addr' % PageSize = 0
    <3>1. k \in Nat /\ (k + 1) * PageSize = addr + PageSize
      <4>1. k \in Nat
        BY <1>2, PagePlace
      <4> HIDE DEF k
      <4>2. (k + 1) * PageSize = PageSize * k + PageSize
        BY <4>1, SizesAre
      <4> QED
        BY <1>2, <4>1, <4>2
    <3>2. ((k + 1) * PageSize) % PageSize = 0
      <4>1. PageSize % PageSize = 0
        BY SizesAre
      <4> QED
        BY <3>1, <4>1, SizesAre, ModTimes
    <3> QED
      BY <1>1, <3>1, <3>2
  <2> QED
    BY <1>1, <2>1, <2>2 DEF Looping
<1>7. IInv'
  BY IdentityStep DEF BInv
<1> QED
  BY <1>1, <1>2, <1>4, <1>5, <1>6, <1>7
     DEF BInv, NoFail, CallPlace, LowFresh, NullGone

LEMMA BAutomap == ASSUME BInv, image' = image, Automap PROVE BInv'
<1> DEFINE d == [frame |-> DirFrame, write |-> TRUE]
<1>1. /\ boot = "identity" /\ call = "idle" /\ ret = 0 /\ addr + PageSize - 1 > PaddrMax
      /\ boot' = "unmap_null" /\ dir' = [dir EXCEPT ![Self] = d]
      /\ UNCHANGED <<tables, tlb, call, op, ret, addr>> /\ tlb = None
  BY DEF Automap, calls, BInv, NoFail, IInv, PagingOff
<1>2. Ident'
  <2> SUFFICES ASSUME NEW n \in Nat, PageSize * n < addr, Place(n) \notin Claimed
               PROVE  dir'[n \div Entries] # None /\ Due(Place(n))' = [frame |-> n, write |-> TRUE]
    BY <1>1, ClaimedSame DEF Ident, Kept
  <2>1. n \div Entries \in Index /\ n \div Entries # Self
    BY LowerAddr, PlaceLow, LowPlace
  <2>2. dir[n \div Entries] # None /\ Due(Place(n)) = [frame |-> n, write |-> TRUE]
    BY <1>1 DEF BInv, Ident, Kept
  <2>3. dir'[n \div Entries] = dir[n \div Entries]
    BY <1>1, <2>1, CallTypes
  <2> QED
    BY <1>1, <2>2, <2>3 DEF Due
<1>3. IInv'
  BY AutomapStep DEF BInv
<1> QED
  BY <1>1, <1>2, <1>3 DEF BInv, NoFail, Looping, CallPlace, LowFresh, NullGone

LEMMA BUnmapNull == ASSUME BInv, image' = image, UnmapNull PROVE BInv'
<1>1. /\ boot = "unmap_null" /\ boot' = "enable" /\ StartUnmap(0)
      /\ call = "idle" /\ ret = 0 /\ addr' = addr /\ tlb' = tlb /\ tlb = None
  BY DEF UnmapNull, StartUnmap, BInv, NoFail, CallPlace, IInv, PagingOff
<1>2. /\ UNCHANGED <<dir, tables>> /\ ret' = 0
      /\ \/ dir[0] = None /\ call' = "idle"
         \/ /\ call' = "clear"
            /\ op' = [pd |-> 0, pt |-> 0, entry |-> None]
  BY <1>1, ZeroPlace DEF StartUnmap, Return, Write, memory
<1>3. NullGone'
  <2>1. CASE dir[0] = None /\ call' = "idle"
    <3>1. Implemented(0) /\ ArrayIdx(0) = 0 /\ 0 \in Index
      BY SizesAre, LowPlace
    <3>2. tables[0][0] = None
      BY <1>1, <2>1, <3>1 DEF BInv, IInv, Untouched
    <3> QED
      BY <1>2, <2>1, <3>2 DEF NullGone, Due
  <2>2. CASE call' = "clear" /\ op' = [pd |-> 0, pt |-> 0, entry |-> None]
    BY <2>2 DEF NullGone, Due
  <2> QED
    BY <1>2, <2>1, <2>2
<1>4. Ident'
  <2> SUFFICES ASSUME NEW n \in Nat, PageSize * n < addr, n > 0, Place(n) \notin Claimed
               PROVE  dir'[n \div Entries] # None /\ Due(Place(n))' = [frame |-> n, write |-> TRUE]
    BY <1>1, ClaimedSame DEF Ident, Kept
  <2>1. dir[n \div Entries] # None /\ tables[n \div Entries][n % Entries] = [frame |-> n, write |-> TRUE]
    BY <1>1 DEF BInv, Ident, Kept, Due, Place
  <2>2. ~(n \div Entries = 0 /\ n % Entries = 0)
    BY LowerAddr, PlaceLow, SizesAre
  <2> QED
    BY <1>2, <2>1, <2>2 DEF Due, Place
<1>5. IInv'
  BY UnmapNullStep DEF BInv
<1> QED
  BY <1>1, <1>2, <1>3, <1>4, <1>5, SizesAre
     DEF BInv, NoFail, Looping, CallPlace, LowFresh

LEMMA BEnable == ASSUME BInv, image' = image, Enable PROVE BInv'
<1>1. /\ boot = "enable" /\ boot' = "on" /\ call = "idle" /\ tlb = None
      /\ UNCHANGED <<dir, tables, tlb, call, op, ret, addr>>
  BY DEF Enable, memory, calls, BInv, NoFail, IInv, PagingOff
<1>2. IInv'
  BY EnableStep DEF BInv
<1> QED
  BY <1>1, <1>2, ClaimedSame
     DEF BInv, NoFail, Looping, CallPlace, LowFresh, Ident, Kept, NullGone, Due

LEMMA BWrite == ASSUME BInv, image' = image, SetEntry \/ ClearEntry PROVE BInv'
<1>1. /\ call \in {"set", "clear"} /\ WriteEntry
      /\ op.pd \in Index /\ op.pt \in Index /\ boot # "off" /\ boot # "failed"
      /\ UNCHANGED <<tlb, boot, addr, dir>>
      /\ boot \in {"identity", "unmap_null", "enable", "on"}
  BY CallTypes DEF SetEntry, ClearEntry, WriteEntry, Return, memory, BInv, IInv, TypeOK, NoFail, Calling
<1>2. /\ boot \in {"identity", "enable"} => op.pd < LowTables
      /\ boot = "on" => <<op.pd, op.pt>> \in Claimed
      /\ boot # "unmap_null"
  BY <1>1 DEF BInv, CallPlace
<1>3. /\ ret' = IF Implemented(op.pd) THEN ret ELSE 1
      /\ call' = IF Implemented(op.pd) THEN "flush" ELSE "idle"
      /\ tables' = IF Implemented(op.pd)
                   THEN [tables EXCEPT ![ArrayIdx(op.pd)][op.pt] = op.entry] ELSE tables
  BY <1>1 DEF WriteEntry, Return, memory
<1>4. Implemented(op.pd) => ArrayIdx(op.pd) \in 0 .. LowTables
  BY <1>1, TableFacts
<1>5. ASSUME NEW i \in Index, NEW j \in Index, i < LowTables
      PROVE  tables'[i][j] = IF op.pd = i /\ op.pt = j THEN op.entry ELSE tables[i][j]
  <2>1. Implemented(i) /\ ArrayIdx(i) = i /\ i \in 0 .. LowTables
    BY <1>5, LowPlace, TableFacts
  <2>2. CASE ~Implemented(op.pd)
    BY <1>3, <2>1, <2>2
  <2>3. CASE Implemented(op.pd)
    <3>1. ArrayIdx(op.pd) = i <=> op.pd = i
      BY <1>1, <2>1, <2>3, ArrayIdxOne
    <3> QED
      BY <1>1, <1>3, <1>4, <2>1, <2>3, <3>1, CallTypes
  <2> QED
    BY <2>2, <2>3
<1>6. ASSUME NEW i \in Index, NEW j \in Index, i < LowTables
      PROVE  Due(<<i, j>>)' = Due(<<i, j>>)
  BY <1>1, <1>3, <1>5, <1>6 DEF Due
<1>7. Ident'
  <2> SUFFICES ASSUME NEW n \in Nat, PageSize * n < addr, n > 0 \/ boot = "identity",
                      Place(n) \notin Claimed
               PROVE  dir[n \div Entries] # None /\ Due(Place(n))' = [frame |-> n, write |-> TRUE]
    BY <1>1, <1>2, ClaimedSame DEF Ident, Kept
  <2>1. dir[n \div Entries] # None /\ Due(Place(n)) = [frame |-> n, write |-> TRUE]
    BY <1>1 DEF BInv, Ident, Kept
  <2>2. n \div Entries \in Index /\ n % Entries \in Index /\ n \div Entries < LowTables
    BY LowerAddr, PlaceLow
  <2> QED
    BY <1>6, <2>1, <2>2 DEF Place
<1>8. NullGone'
  <2>1. 0 \in Index /\ 0 < LowTables
    BY SizesAre
  <2> QED
    BY <1>1, <1>6, <2>1 DEF BInv, NullGone
<1>9. LowFresh'
  <2>1. SUFFICES ASSUME tlb # None, tlb.page[1] < LowTables, tlb.page \notin Claimed
                 PROVE  tlb.entry = tables'[tlb.page[1]][tlb.page[2]]
    BY <1>1, ClaimedSame DEF LowFresh
  <2>2. boot = "on" /\ tlb.page \in Page
    BY <2>1 DEF BInv, IInv, PagingOff, TypeOK
  <2>3. /\ tlb.page[1] \in Index /\ tlb.page[2] \in Index
        /\ tlb.page = <<tlb.page[1], tlb.page[2]>>
    BY <2>2 DEF Page
  <2>4. ~(op.pd = tlb.page[1] /\ op.pt = tlb.page[2])
    BY <1>2, <2>1, <2>2, <2>3
  <2> QED
    BY <1>5, <2>1, <2>3, <2>4 DEF BInv, LowFresh
<1>10. boot \in {"identity", "enable"} => Implemented(op.pd)
  BY <1>1, <1>2, LowPlace
<1>11. IInv'
  BY WriteStep DEF BInv
<1>12. NoFail' /\ CallPlace' /\ Looping'
  BY <1>1, <1>2, <1>3, <1>10 DEF BInv, NoFail, CallPlace, Looping
<1> QED
  BY <1>7, <1>8, <1>9, <1>11, <1>12 DEF BInv

LEMMA BFlush == ASSUME BInv, image' = image, Flush PROVE BInv'
<1>1. /\ call = "flush" /\ call' = "idle" /\ ret' = 0 /\ tlb' = None
      /\ UNCHANGED <<dir, tables, boot, addr>>
  BY DEF Flush, Return, memory
<1>2. IInv'
  BY FlushStep DEF BInv
<1> QED
  BY <1>1, <1>2, ClaimedSame
     DEF BInv, NoFail, Looping, CallPlace, LowFresh, Ident, Kept, NullGone, Due

LEMMA BFill == ASSUME BInv, image' = image, NEW p \in Page, Fill(p) PROVE BInv'
<1>1. /\ boot = "on" /\ Walk(p) # None /\ tlb' = [page |-> p, entry |-> Walk(p)]
      /\ UNCHANGED <<dir, tables, call, op, ret, boot, addr>>
  BY DEF Fill, memory, calls
<1>2. IInv'
  BY FillStep DEF BInv
<1>3. LowFresh'
  <2>1. SUFFICES ASSUME p[1] < LowTables PROVE Walk(p) = tables[p[1]][p[2]]
    BY <1>1 DEF LowFresh
  <2>2. p[1] \in Index
    BY DEF Page
  <2> QED
    BY <1>1, <2>1, <2>2, LowPlace, WalkFacts DEF BInv
<1> QED
  BY <1>1, <1>2, <1>3, ClaimedSame
     DEF BInv, NoFail, Looping, CallPlace, Ident, Kept, NullGone, Due

(* A call for a page that the image asks for leaves the others alone. *)
LEMMA BMapClaimed ==
  ASSUME BInv, boot = "on", UNCHANGED <<boot, addr, image>>, image \in Images,
         NEW v \in Address, NEW p \in Address, NEW w \in BOOLEAN,
         p + PageSize <= AddressSpace, PageOf(v) \in Claimed, StartMap(v, p, w)
  PROVE  BInv'
<1>1. /\ call = "idle" /\ UNCHANGED <<tables, tlb, boot, addr>>
      /\ \/ call' = "idle"
         \/ /\ call' = "set"
            /\ op' = [pd |-> PdIdx(v), pt |-> PtIdx(v),
                      entry |-> [frame |-> FrameOf(p), write |-> w]]
      /\ \A i \in Index : dir[i] # None => dir'[i] = dir[i]
  <2> DEFINE d == [frame |-> FrameOf(TablePaddr(PdIdx(v))), write |-> TRUE]
             q == [pd |-> PdIdx(v), pt |-> PtIdx(v),
                   entry |-> [frame |-> FrameOf(p), write |-> w]]
  <2>1. /\ call = "idle" /\ UNCHANGED <<tables, tlb>>
        /\ call' = "idle" \/ (call' = "set" /\ op' = q)
        /\ dir' = dir \/ (dir[PdIdx(v)] = None /\ dir' = [dir EXCEPT ![PdIdx(v)] = d])
    BY DEF StartMap, Write, Return, memory
  <2> HIDE DEF d, q
  <2>2. ASSUME NEW i \in Index, dir[i] # None PROVE dir'[i] = dir[i]
    BY <2>1, <2>2, CallTypes
  <2> QED
    BY <2>1, <2>2 DEF q
<1>2. IInv'
  <2>1. addr' \in Nat
    BY DEF BInv, Looping
  <2> QED
    BY <2>1, StartMapStep DEF BInv
<1>3. ASSUME NEW i, NEW j, <<i, j>> \notin Claimed
      PROVE  Due(<<i, j>>)' = Due(<<i, j>>)
  BY <1>1, <1>3 DEF Due, PageOf
<1>4. Ident'
  <2> SUFFICES ASSUME NEW n \in Nat, PageSize * n < addr, n > 0, Place(n) \notin Claimed
               PROVE  dir'[n \div Entries] # None /\ Due(Place(n))' = [frame |-> n, write |-> TRUE]
    BY <1>1, ClaimedSame DEF Ident, Kept
  <2>1. dir[n \div Entries] # None /\ Due(Place(n)) = [frame |-> n, write |-> TRUE]
    BY <1>1 DEF BInv, Ident, Kept
  <2>2. n \div Entries \in Index /\ n % Entries \in Index /\ n \div Entries < LowTables
    BY LowerAddr, PlaceLow
  <2> QED
    BY <1>1, <1>3, <2>1, <2>2 DEF Place
<1>5. NullGone'
  BY <1>1, <1>3, NullNotClaimed DEF BInv, NullGone
<1>6. CallPlace'
  BY <1>1, ClaimedSame DEF CallPlace, PageOf
<1> QED
  BY <1>1, <1>2, <1>4, <1>5, <1>6, ClaimedSame DEF BInv, NoFail, Looping, LowFresh

(* What the processor uses for a low page is the table's entry. *)
LEMMA LowTranslate ==
  ASSUME BInv, boot = "on", NEW p \in Page, p[1] < LowTables, p \notin Claimed
  PROVE  Translate(p) = IF dir[p[1]] = None THEN None ELSE Due(p)
<1>1. p[1] \in Index /\ p[2] \in Index
  BY DEF Page
<1>2. Walk(p) = IF dir[p[1]] = None THEN None ELSE tables[p[1]][p[2]]
  BY <1>1, LowPlace, WalkFacts DEF BInv
<1>3. Due(p) = tables[p[1]][p[2]]
  <2>1. p = <<p[1], p[2]>>
    BY DEF Page
  <2> QED
    BY <2>1 DEF Due, BInv, CallPlace
<1>4. dir[p[1]] = None => tables[p[1]][p[2]] = None
  BY <1>1, LowPlace DEF BInv, IInv, Untouched
<1>5. tlb # None /\ tlb.page = p => tlb.entry = tables[p[1]][p[2]]
  BY DEF BInv, LowFresh
<1> QED
  BY <1>2, <1>3, <1>4, <1>5 DEF Translate

LEMMA IdentityHere == ASSUME BInv, image \in Images, WholePages PROVE IdentityKept
<1>1. SUFFICES ASSUME boot = "on"
               PROVE  /\ ~Present(0)
                      /\ \A a \in Ram : a >= PageSize /\ PageOf(a) \notin Claimed => Physical(a) = a
  <2>1. \A a \in Ram : a < VaddrMin => PageOf(a) \notin Claimed
    BY NotClaimed, SizesAre DEF Ram
  <2> QED
    BY <2>1 DEF IdentityKept, BInv, NoFail
<1>2. ~Present(0)
  <2>1. PageOf(0) = <<0, 0>> /\ <<0, 0>> \in Page
    BY ZeroPlace, SizesAre DEF PageOf, Page
  <2>2. Due(<<0, 0>>) = None
    BY <1>1 DEF BInv, NullGone
  <2> QED
    BY <1>1, <2>1, <2>2, LowTranslate, NullNotClaimed, SizesAre DEF Present
<1>3. ASSUME NEW a \in Ram, a >= PageSize, PageOf(a) \notin Claimed PROVE Physical(a) = a
  <2> DEFINE n == FrameOf(a)
             r == a % PageSize
  <2>1. a \in Nat /\ a <= PaddrMax
    BY SizesAre DEF Ram
  <2>2. n \in Nat /\ r \in 0 .. PageSize - 1 /\ a = PageSize * n + r /\ PageOf(a) = Place(n)
    BY <2>1, PagePlace
  <2>3. PageSize * n \in Int
    BY <2>2, SizesAre
  <2>4. n > 0
    <3>1. SUFFICES ASSUME n = 0 PROVE FALSE
      BY <2>2
    <3>2. PageSize * n = 0
      BY <3>1, SizesAre
    <3> QED
      BY <1>3, <2>2, <3>2, SizesAre
  <2>5. PageSize * n < addr
    <3>1. addr >= PaddrMax + 1
      <4> DEFINE q == FrameOf(addr)
                 m == FrameOf(PaddrMax + 1)
      <4>1. addr \in Nat /\ addr % PageSize = 0 /\ addr + PageSize - 1 > PaddrMax
        BY <1>1 DEF BInv, Looping
      <4>2. q \in Nat /\ addr = PageSize * q + 0
        BY <4>1, PagePlace
      <4>3. m \in Nat /\ PaddrMax + 1 = PageSize * m + 0
        <5>1. PaddrMax + 1 \in Nat
          BY SizesAre
        <5>2. m \in Nat /\ PaddrMax + 1 = PageSize * m + ((PaddrMax + 1) % PageSize)
          BY <5>1, PagePlace
        <5> QED
          BY <5>2 DEF WholePages
      <4> HIDE DEF q, m
      <4>4. PageSize * q \in Int /\ PageSize * m \in Int
        BY <4>2, <4>3, SizesAre
      <4>5. SUFFICES ASSUME q + 1 <= m PROVE FALSE
        <5>1. m <= q => PageSize * m <= PageSize * q
          BY <4>2, <4>3, SizesAre, TimesMonotone
        <5> QED
          BY <4>2, <4>3, <4>4, <4>5, <5>1
      <4>6. PageSize * (q + 1) <= PageSize * m
        BY <4>2, <4>3, <4>5, SizesAre, TimesMonotone
      <4>7. PageSize * (q + 1) = PageSize * q + PageSize
        BY <4>2, SizesAre
      <4> QED
        BY <4>1, <4>2, <4>3, <4>4, <4>6, <4>7, SizesAre
    <3> QED
      BY <2>1, <2>2, <2>3, <3>1, SizesAre DEF BInv, Looping
  <2> HIDE DEF n, r
  <2>6. /\ n \div Entries \in Index /\ n % Entries \in Index /\ n \div Entries < LowTables
    BY <2>2, <2>5, LowerAddr, PlaceLow
  <2>7. dir[n \div Entries] # None /\ Due(Place(n)) = [frame |-> n, write |-> TRUE]
    BY <1>1, <1>3, <2>2, <2>4, <2>5 DEF BInv, Ident, Kept
  <2>8. Translate(Place(n)) = [frame |-> n, write |-> TRUE]
    BY <1>1, <1>3, <2>2, <2>6, <2>7, LowTranslate DEF Place, Page
  <2>9. [frame |-> n, write |-> TRUE] # None
    <3>1. n \in Frame
      BY RamAddress, AddressParts DEF n
    <3>2. [frame |-> n, write |-> TRUE] \in Entry
      BY <3>1 DEF Entry
    <3> QED
      BY <3>2, NoneAssumption
  <2>10. Physical(a) = n * PageSize + r
    BY <2>2, <2>8, <2>9 DEF Physical, r
  <2>11. n * PageSize = PageSize * n
    BY <2>2, SizesAre
  <2> QED
    BY <2>2, <2>10, <2>11
<1> QED
  BY <1>2, <1>3

-----------------------------------------------------------------------------
(* elf32_map.                                                              *)

(* While a segment is mapped it is one that was accepted, and a call is    *)
(* running only when elf32_map waits for it.                               *)
Working ==
  /\ image \in Images /\ seg \in Nat \ {0}
  /\ st # "boot" => boot = "on"
  /\ boot = "on" /\ call # "idle" => st = "mapping"
  /\ st \in {"byte", "mapping", "copy"} =>
       /\ seg \in Loadable(image) /\ ValidProgseg(Segment)
       /\ done \in Nat /\ done <= Segment.memsz
  /\ st \in {"mapping", "copy"} => done < Segment.memsz

(* Where the byte goes that is due. *)
To == Segment.paddr + done

(* The byte that is due is one of a page that the image asks for. *)
LEMMA DstFacts ==
  ASSUME Working, st \in {"byte", "mapping", "copy"}, done < Segment.memsz
  PROVE  /\ Segment.vaddr \in Nat /\ Segment.paddr \in Nat /\ Segment.memsz \in Nat
         /\ Dst = Segment.vaddr + done /\ Dst \in Address /\ Dst \in Nat
         /\ PageOf(Dst) \in Claimed /\ PdIdx(Dst) \in Index /\ PtIdx(Dst) \in Index
         /\ To \in Ram /\ To \in Nat /\ Segment.write \in BOOLEAN
<1>1. /\ Segment.vaddr \in Nat /\ Segment.paddr \in Nat /\ Segment.memsz \in Nat
      /\ done \in Nat /\ Segment.write \in BOOLEAN
      /\ Segment.paddr + Segment.memsz < AddressSpace
      /\ Segment.vaddr + Segment.memsz < AddressSpace
  BY SegmentFacts DEF Working, Segment
<1>2. AddressSpace \in Nat \ {0}
  BY <1>1, SizesAre DEF AddressSpace
<1>3. ASSUME NEW a \in Nat, a < AddressSpace PROVE a % AddressSpace = a /\ a \in Address
  <2>1. a \in 0 .. AddressSpace - 1
    BY <1>2, <1>3
  <2>2. (AddressSpace * 0 + a) % AddressSpace = a
    BY <1>2, <2>1, DivModUnique
  <2> QED
    BY <1>2, <2>1, <2>2 DEF Address
<1> DEFINE v == Segment.vaddr + done
<1>4. v \in Nat /\ v < AddressSpace
  BY <1>1, <1>2
<1>5. Dst = v /\ v \in Address
  BY <1>3, <1>4 DEF Dst
<1> HIDE DEF v
<1>6. PageOf(v) \in Claimed
  <2>1. seg \in Loadable(image) /\ done \in Bytes(image.segments[seg])
    BY <1>1 DEF Working, Bytes, Segment
  <2> QED
    BY <2>1, Claims DEF v, Segment
<1>7. To \in Nat /\ To <= PaddrMax
  <2>1. Ends(Segment.paddr, Segment.memsz, PaddrMax)
    BY DEF Working, ValidProgseg
  <2>2. Segment.paddr + Segment.memsz <= PaddrMax
    BY <1>1, <1>3, <2>1 DEF Ends
  <2> QED
    BY <1>1, <2>2, SizesAre DEF To
<1>8. PdIdx(v) \in Index /\ PtIdx(v) \in Index
  BY <1>5, AddressParts
<1>9. To \in Ram
  BY <1>7, SizesAre DEF Ram
<1> QED
  BY <1>1, <1>4, <1>5, <1>6, <1>7, <1>8, <1>9 DEF v

LEMMA BootStep == ASSUME BInv, Working, Boot, UNCHANGED elf PROVE BInv' /\ Working'
<1>1. BInv'
  BY BInitTables, BIdentity, BAutomap, BUnmapNull, BEnable DEF Boot, elf
<1>2. boot # "on" /\ (boot' = "on" => call' = "idle")
  BY DEF Boot, InitTables, Identity, Automap, UnmapNull, Enable, calls
<1>3. st = "boot" /\ UNCHANGED <<st, image, phys, seg, done>>
  BY <1>2 DEF Working, elf
<1> QED
  BY <1>1, <1>2, <1>3 DEF Working

LEMMA CallsStep == ASSUME BInv, Working, CallStep, UNCHANGED elf PROVE BInv' /\ Working'
<1>1. BInv'
  BY BWrite, BFlush DEF CallStep, elf
<1>2. UNCHANGED boot /\ call # "idle" /\ UNCHANGED <<st, image, phys, seg, done>>
  BY DEF CallStep, SetEntry, ClearEntry, Flush, WriteEntry, elf
<1> QED
  BY <1>1, <1>2 DEF Working, Segment

LEMMA MapPageStep == ASSUME BInv, Working, MapPage PROVE BInv' /\ Working'
<1>1. /\ st = "byte" /\ done < Segment.memsz /\ st' = "mapping"
      /\ StartMap(Dst, To, Segment.write)
      /\ UNCHANGED <<image, phys, seg, done, boot, addr>>
  BY DEF MapPage, More, Goto, To
<1>2. /\ Dst \in Address /\ To \in Address /\ To + PageSize <= AddressSpace
      /\ PageOf(Dst) \in Claimed /\ Segment.write \in BOOLEAN
  BY <1>1, DstFacts, RamAddress
<1>3. BInv'
  BY <1>1, <1>2, BMapClaimed DEF Working
<1> QED
  BY <1>1, <1>3 DEF Working, Segment

LEMMA UnchangedB == ASSUME BInv, image' = image, UNCHANGED vars PROVE BInv'
<1>1. IInv'
  BY IndStep DEF BInv
<1> QED
  BY <1>1, ClaimedSame
     DEF vars, memory, calls, BInv, NoFail, Looping, CallPlace, LowFresh, Ident, Kept, NullGone, Due

LEMMA WorkStep ==
  ASSUME BInv, Working,
         Load \/ LoadFails \/ Check \/ Finish \/ Skip \/ Begin \/ PageMapped \/ Copy \/ NextSegment
  PROVE  BInv' /\ Working'
<1>1. UNCHANGED vars /\ UNCHANGED image
  BY DEF Load, LoadFails, Check, Finish, Skip, Begin, PageMapped, Copy, NextSegment, Goto
<1>2. BInv'
  BY <1>1, UnchangedB
<1>3. UNCHANGED <<boot, call>>
  BY <1>1 DEF vars, calls
<1>4. CASE Load \/ LoadFails \/ Check \/ Finish
  BY <1>2, <1>3, <1>4 DEF Load, LoadFails, Check, Finish, Goto, Working
<1>5. CASE Skip \/ NextSegment
  BY <1>2, <1>3, <1>5 DEF Skip, NextSegment, Working
<1>6. CASE Begin
  <2>1. /\ st = "segment" /\ seg <= Len(image.segments) /\ Segment.load
        /\ st' = (IF ValidProgseg(Segment) THEN "byte" ELSE "error")
        /\ done' = 0 /\ UNCHANGED <<image, seg>>
    BY <1>6 DEF Begin
  <2>2. seg \in Loadable(image)
    <3>1. image.segments \in Seq([load : BOOLEAN, write : BOOLEAN, offset : Nat,
                                  vaddr : Nat, paddr : Nat, filesz : Nat, memsz : Nat])
      BY FileAssumption DEF Working
    <3> QED
      BY <2>1, <3>1, SMTT(30) DEF Working, Loadable, Segment
  <2>3. Segment.memsz \in Nat
    BY <2>2, SegmentFacts DEF Working, Segment
  <2> QED
    BY <1>2, <1>3, <2>1, <2>2, <2>3 DEF Working, Segment
<1>7. CASE PageMapped
  BY <1>2, <1>3, <1>7 DEF PageMapped, Goto, Working, Segment
<1>8. CASE Copy
  <2>1. /\ st \in {"copy", "byte"} /\ done < Segment.memsz /\ UNCHANGED seg
        /\ st' = "fault" \/ (st' = "byte" /\ done' = done + 1)
    BY <1>8 DEF Copy, More, Working
  <2>2. Segment.memsz \in Nat
    BY <2>1, SegmentFacts DEF Working, Segment
  <2> QED
    BY <1>1, <1>2, <1>3, <2>1, <2>2 DEF Working, Segment
<1> QED
  BY <1>4, <1>5, <1>6, <1>7, <1>8

LEMMA ElfStep == ASSUME BInv, Working, [ElfNext]_<<vars, elf>> PROVE BInv' /\ Working'
<1>1. CASE PagingStep
  BY <1>1, BootStep, CallsStep DEF PagingStep
<1>2. CASE Load \/ LoadFails \/ Elf32Map
  BY <1>2, WorkStep, MapPageStep DEF Elf32Map
<1>3. CASE Processor
  <2>1. PICK p \in Page : Fill(p) /\ UNCHANGED elf
    BY <1>3 DEF Processor
  <2>2. UNCHANGED <<boot, call>> /\ UNCHANGED <<st, image, phys, seg, done>>
    BY <2>1 DEF Fill, calls, elf
  <2> QED
    BY <2>1, <2>2, BFill DEF elf, Working, Segment
<1>4. CASE UNCHANGED <<vars, elf>>
  <2>1. UNCHANGED <<boot, call>> /\ UNCHANGED <<st, image, phys, seg, done>> /\ UNCHANGED vars
    BY <1>4 DEF vars, calls, elf
  <2> QED
    BY <2>1, UnchangedB DEF Working, Segment
<1> QED
  BY <1>1, <1>2, <1>3, <1>4 DEF ElfNext

LEMMA ElfStart == ElfInit => BInv /\ Working
BY BInit DEF ElfInit, Init, Working

(* Setting paging up never fails, and from then on the loader's memory,    *)
(* and all other memory that the file's segments do not ask for, is mapped *)
(* to itself and the null page is not: for every file that keeps to        *)
(* ImageAssumption, also if elf32_map refuses it or faults half-way.       *)
THEOREM IdentitySafe == ASSUME WholePages PROVE ElfSpec => []IdentityKept
<1>1. BInv /\ Working /\ [ElfNext]_<<vars, elf>> => (BInv /\ Working)'
  BY ElfStep
<1>2. BInv /\ Working => IdentityKept
  BY IdentityHere DEF Working
<1> QED
  BY ElfStart, <1>1, <1>2, PTL DEF ElfSpec

-----------------------------------------------------------------------------
(* The image.                                                              *)

(* The tables have the page of v at the frame of p. *)
MappedTo(v, p, w) ==
  /\ Implemented(PdIdx(v)) /\ dir[PdIdx(v)] # None
  /\ tables[ArrayIdx(PdIdx(v))][PtIdx(v)] = [frame |-> FrameOf(p), write |-> w]

Content(s, k) == IF k < s.filesz THEN s.offset + k + 1 ELSE 0

(* The first n bytes of segment i are mapped and copied. *)
InPlace(i, n) ==
  LET s == image.segments[i]
  IN  \A k \in 0 .. n - 1 : /\ MappedTo(s.vaddr + k, s.paddr + k, s.write)
                            /\ phys[s.paddr + k] = Content(s, k)

(* The call that maps the page of the byte that is due. *)
Asking ==
  st = "mapping" =>
    /\ Dst % PageSize = 0
    /\ call # "clear"
    /\ call = "set" => op = [pd |-> PdIdx(Dst), pt |-> PtIdx(Dst),
                             entry |-> [frame |-> FrameOf(To), write |-> Segment.write]]
    /\ call = "flush" \/ (call = "idle" /\ ret = 0) => MappedTo(Dst, To, Segment.write)

(* Within a page, its mapping is there. *)
Within ==
  st = "copy" \/ (st = "byte" /\ done < Segment.memsz /\ Dst % PageSize # 0) =>
    MappedTo(Dst, To, Segment.write)

(* Earlier segments are in place, and the bytes before the one due.        *)
Copied ==
  /\ st \in {"boot", "check"} => seg = 1
  /\ st \in {"segment", "byte", "mapping", "copy", "jump"} =>
       \A i \in Loadable(image) : i < seg => InPlace(i, image.segments[i].memsz)
  /\ st \in {"byte", "mapping", "copy"} => InPlace(seg, done)
  /\ st = "jump" => seg > Len(image.segments)

Progress == phys \in [Ram -> Int] /\ Asking /\ Within /\ Copied /\ OthersKept

CInv == BInv /\ Working /\ (WellLinked => Progress)

(* Addresses in one page differ in their place in it only. *)
LEMMA FrameSame ==
  ASSUME NEW a \in Nat, (a + 1) % PageSize # 0
  PROVE  FrameOf(a + 1) = FrameOf(a)
<1> DEFINE q == FrameOf(a)
           r == a % PageSize
<1>1. q \in Nat /\ r \in 0 .. PageSize - 1 /\ a = PageSize * q + r
  BY PagePlace
<1> HIDE DEF q, r
<1>2. PageSize * q \in Int
  BY <1>1, SizesAre
<1>3. CASE r = PageSize - 1
  <2>1. PageSize * (q + 1) + 0 = PageSize * q + PageSize /\ 0 \in 0 .. PageSize - 1
    BY <1>1, SizesAre
  <2>2. (PageSize * (q + 1) + 0) % PageSize = 0
    BY <1>1, <2>1, SizesAre, DivModUnique
  <2>3. a + 1 = PageSize * (q + 1) + 0
    BY <1>1, <1>2, <1>3, <2>1, SizesAre
  <2> QED
    BY <2>2, <2>3
<1>4. CASE r # PageSize - 1
  <2>1. r + 1 \in 0 .. PageSize - 1 /\ a + 1 = PageSize * q + (r + 1)
    BY <1>1, <1>2, <1>4, SizesAre
  <2>2. (PageSize * q + (r + 1)) \div PageSize = q
    BY <1>1, <2>1, SizesAre, DivModUnique
  <2> QED
    BY <2>1, <2>2 DEF FrameOf, q
<1> QED
  BY <1>3, <1>4

LEMMA FromPage ==
  ASSUME NEW a \in Nat, NEW d \in Nat, a % PageSize = 0
  PROVE  (a + d) % PageSize = d % PageSize
<1> DEFINE q == FrameOf(a)
           n == FrameOf(d)
           r == d % PageSize
<1>1. /\ q \in Nat /\ a = PageSize * q + 0
      /\ n \in Nat /\ r \in 0 .. PageSize - 1 /\ d = PageSize * n + r
  BY PagePlace
<1> HIDE DEF q, n, r
<1>2. PageSize * (q + n) = PageSize * q + PageSize * n /\ PageSize * q \in Int /\ PageSize * n \in Int
  BY <1>1, SizesAre
<1>3. a + d = PageSize * (q + n) + r
  BY <1>1, <1>2
<1>4. q + n \in Int
  BY <1>1
<1>5. (PageSize * (q + n) + r) % PageSize = r
  BY <1>1, <1>4, SizesAre, DivModUnique
<1> QED
  BY <1>3, <1>5 DEF r

LEMMA Rounded ==
  ASSUME NEW a \in Nat, NEW b \in Nat, FrameOf(a) = FrameOf(b)
  PROVE  PageRound(a) = PageRound(b)
<1> DEFINE m == PageSize * FrameOf(a)
<1>1. /\ FrameOf(a) \in Nat /\ a = m + (a % PageSize) /\ b = m + (b % PageSize)
      /\ a % PageSize \in 0 .. PageSize - 1 /\ b % PageSize \in 0 .. PageSize - 1
  BY PagePlace
<1>2. m \in Int
  BY <1>1, SizesAre
<1> HIDE DEF m
<1> QED
  BY <1>1, <1>2 DEF PageRound

(* Bytes of different segments, in memory or in the address space, are in  *)
(* different pages.                                                        *)
LEMMA Apart ==
  ASSUME image \in Images, WellLinked, NEW i \in Loadable(image), NEW j \in Loadable(image), i # j,
         NEW k \in Nat, NEW l \in Nat,
         k < image.segments[i].memsz, l < image.segments[j].memsz
  PROVE  /\ FrameOf(image.segments[i].vaddr + k) # FrameOf(image.segments[j].vaddr + l)
         /\ FrameOf(image.segments[i].paddr + k) # FrameOf(image.segments[j].paddr + l)
<1> DEFINE s == image.segments[i]
           t == image.segments[j]
<1>1. /\ s.vaddr \in Nat /\ s.paddr \in Nat /\ s.memsz \in Nat
      /\ t.vaddr \in Nat /\ t.paddr \in Nat /\ t.memsz \in Nat
  BY SegmentFacts
<1>2. /\ Pages(s.vaddr, s.memsz) \cap Pages(t.vaddr, t.memsz) = {}
      /\ Pages(s.paddr, s.memsz) \cap Pages(t.paddr, t.memsz) = {}
  BY DEF WellLinked
<1>3. ASSUME NEW a \in Nat, NEW b \in Nat, Pages(a, s.memsz) \cap Pages(b, t.memsz) = {}
      PROVE  FrameOf(a + k) # FrameOf(b + l)
  <2>1. a + k \in a .. a + s.memsz - 1 /\ b + l \in b .. b + t.memsz - 1
    BY <1>1
  <2>2. PageRound(a + k) \in Pages(a, s.memsz) /\ PageRound(b + l) \in Pages(b, t.memsz)
    BY <2>1 DEF Pages
  <2>3. PageRound(a + k) # PageRound(b + l)
    BY <1>3, <2>2
  <2> QED
    BY <2>3, Rounded
<1> QED
  BY <1>1, <1>2, <1>3

(* With no call running the processor goes by the tables. *)
LEMMA Seen ==
  ASSUME BInv, boot = "on", call = "idle", NEW v \in Address, NEW p \in Address,
         NEW w \in BOOLEAN, MappedTo(v, p, w), v % PageSize = p % PageSize
  PROVE  /\ Present(v) /\ Physical(v) = p /\ Translate(PageOf(v)).write = w
<1> DEFINE e == [frame |-> FrameOf(p), write |-> w]
<1>1. PageOf(v) \in Page /\ PdIdx(v) \in Index /\ PtIdx(v) \in Index
  BY AddressParts DEF PageOf, Page
<1>2. Walk(PageOf(v)) = e
  BY <1>1, WalkFacts DEF BInv, MappedTo, PageOf
<1>3. e # None
  <2>1. e \in Entry
    BY AddressParts DEF Entry
  <2> QED
    BY <2>1, NoneAssumption
<1>4. Translate(PageOf(v)) = e
  BY <1>2 DEF Translate, BInv, IInv, TlbFresh
<1>5. Physical(v) = FrameOf(p) * PageSize + (v % PageSize)
  BY <1>3, <1>4 DEF Physical
<1>6. FrameOf(p) * PageSize + (p % PageSize) = p
  <2>1. p \in Nat
    BY DEF Address
  <2>2. /\ FrameOf(p) \in Nat /\ p % PageSize \in 0 .. PageSize - 1
        /\ p = PageSize * FrameOf(p) + (p % PageSize)
    BY <2>1, PagePlace
  <2>3. FrameOf(p) * PageSize = PageSize * FrameOf(p)
    BY <2>2, SizesAre
  <2> QED
    BY <2>2, <2>3
<1> QED
  BY <1>3, <1>4, <1>5, <1>6 DEF Present

(* A segment's addresses. *)
LEMMA ByteFacts ==
  ASSUME image \in Images, NEW i \in Loadable(image), NEW k \in Nat, k < image.segments[i].memsz
  PROVE  LET s == image.segments[i]
         IN  /\ s.vaddr \in Nat /\ s.paddr \in Nat /\ s.memsz \in Nat /\ s.write \in BOOLEAN
             /\ s.vaddr + k \in Address /\ s.paddr + k \in Address
             /\ s.vaddr + k \in Nat /\ s.paddr + k \in Nat
             /\ PdIdx(s.vaddr + k) \in Index /\ PtIdx(s.vaddr + k) \in Index
<1> DEFINE s == image.segments[i]
<1>1. /\ s.vaddr \in Nat /\ s.paddr \in Nat /\ s.memsz \in Nat /\ s.write \in BOOLEAN
      /\ s.paddr + s.memsz < AddressSpace /\ s.vaddr + s.memsz < AddressSpace
  BY SegmentFacts
<1>2. AddressSpace \in Int
  BY SizesAre DEF AddressSpace
<1>3. s.vaddr + k \in Address /\ s.paddr + k \in Address
  BY <1>1, <1>2 DEF Address
<1> QED
  BY <1>1, <1>3, AddressParts

(* What is in place depends on the tables and on memory only.              *)
LEMMA SameTables ==
  ASSUME UNCHANGED <<dir, tables, image, phys>>, NEW i, NEW n, InPlace(i, n)
  PROVE  InPlace(i, n)'
BY DEF InPlace, MappedTo, Content

(* A call for a page keeps what is mapped: entries of the directory are    *)
(* only added.                                                             *)
LEMMA DirGrows ==
  ASSUME BInv, NEW v \in Address, NEW p, NEW w, StartMap(v, p, w),
         NEW i \in Index, dir[i] # None
  PROVE  dir'[i] = dir[i] /\ tables' = tables
<1> DEFINE d == [frame |-> FrameOf(TablePaddr(PdIdx(v))), write |-> TRUE]
<1>1. /\ tables' = tables
      /\ dir' = dir \/ (dir[PdIdx(v)] = None /\ dir' = [dir EXCEPT ![PdIdx(v)] = d])
  BY DEF StartMap, Write, Return, memory
<1> HIDE DEF d
<1> QED
  BY <1>1, CallTypes

LEMMA CMapPage == ASSUME CInv, WellLinked, MapPage PROVE Progress'
<1>1. /\ st = "byte" /\ done < Segment.memsz /\ st' = "mapping" /\ Dst % PageSize = 0
      /\ StartMap(Dst, To, Segment.write)
      /\ UNCHANGED <<image, phys, seg, done, boot, addr>>
  BY DEF MapPage, More, Goto, To
<1>2. /\ Progress /\ BInv /\ Working
      /\ UNCHANGED <<Dst, To, Segment>>
  BY <1>1 DEF CInv, Dst, To, Segment
<1>3. Dst \in Address /\ call = "idle" /\ boot = "on" /\ image \in Images /\ seg \in Loadable(image)
  BY <1>1, <1>2, DstFacts DEF Working
<1>4. \/ call' = "idle" /\ ret' = 1
      \/ call' = "set" /\ op' = [pd |-> PdIdx(Dst), pt |-> PtIdx(Dst),
                                 entry |-> [frame |-> FrameOf(To), write |-> Segment.write]]
  BY <1>1 DEF StartMap, Write, Return
<1>5. ASSUME NEW i \in Loadable(image), NEW n \in Nat, n <= image.segments[i].memsz, InPlace(i, n)
      PROVE  InPlace(i, n)'
  <2> DEFINE s == image.segments[i]
  <2> SUFFICES ASSUME NEW k \in 0 .. n - 1
               PROVE  MappedTo(s.vaddr + k, s.paddr + k, s.write)' /\ phys'[s.paddr + k] = Content(s, k)
    BY <1>1 DEF InPlace, Content
  <2>1. MappedTo(s.vaddr + k, s.paddr + k, s.write) /\ phys[s.paddr + k] = Content(s, k)
    BY <1>5 DEF InPlace
  <2>2. k \in Nat /\ k < s.memsz
    BY <1>3, <1>5, SegmentFacts
  <2>3. PdIdx(s.vaddr + k) \in Index /\ dir[PdIdx(s.vaddr + k)] # None
    BY <1>3, <2>1, <2>2, ByteFacts DEF MappedTo
  <2>4. dir'[PdIdx(s.vaddr + k)] = dir[PdIdx(s.vaddr + k)] /\ tables' = tables
    BY <1>1, <1>2, <1>3, <2>3, DirGrows
  <2> QED
    BY <1>1, <2>1, <2>4 DEF MappedTo
<1>6. Asking' /\ Within'
  BY <1>1, <1>2, <1>4 DEF Asking, Within
<1>7. Copied'
  <2>1. \A i \in Loadable(image) : i < seg => InPlace(i, image.segments[i].memsz)
    BY <1>1, <1>2 DEF Progress, Copied
  <2>2. InPlace(seg, done) /\ done \in Nat /\ done <= image.segments[seg].memsz
    BY <1>1, <1>2 DEF Progress, Copied, Working, Segment
  <2>3. \A i \in Loadable(image) : i < seg => InPlace(i, image.segments[i].memsz)'
    <3> SUFFICES ASSUME NEW i \in Loadable(image), i < seg
                 PROVE  InPlace(i, image.segments[i].memsz)'
      OBVIOUS
    <3>1. image.segments[i].memsz \in Nat
      BY <1>3, SegmentFacts
    <3>2. InPlace(i, image.segments[i].memsz)
      BY <2>1
    <3> QED
      BY <1>1, <1>5, <3>1, <3>2
  <2>4. InPlace(seg, done)'
    BY <1>1, <1>3, <1>5, <2>2
  <2> QED
    BY <1>1, <2>3, <2>4 DEF Copied
<1>8. OthersKept' /\ phys' \in [Ram -> Int]
  BY <1>1, <1>2 DEF Progress, OthersKept, WellLinked
<1> QED
  BY <1>6, <1>7, <1>8 DEF Progress

(* What is in place stays so while tables and memory do. *)
LEMMA CStays ==
  ASSUME UNCHANGED <<dir, tables, image, phys>>
  PROVE  /\ \A i \in Loadable(image) :
              InPlace(i, image.segments[i].memsz) => InPlace(i, image.segments[i].memsz)'
         /\ \A i, n : InPlace(i, n) => InPlace(i, n)'
         /\ \A v, p, w : MappedTo(v, p, w) => MappedTo(v, p, w)'
BY SameTables DEF MappedTo

LEMMA CBoot == ASSUME CInv, WellLinked, st = "boot", UNCHANGED elf PROVE Progress'
BY DEF CInv, Progress, Asking, Within, Copied, OthersKept, elf

LEMMA CStill ==
  ASSUME CInv, WellLinked, UNCHANGED elf, Flush \/ UNCHANGED <<dir, tables, call, op, ret>>
  PROVE  Progress'
<1>1. /\ UNCHANGED <<st, image, phys, seg, done, dir, tables>>
      /\ Progress /\ UNCHANGED <<Dst, To, Segment>>
  BY DEF CInv, Flush, Return, memory, elf, Dst, To, Segment
<1>2. Asking'
  <2>1. (call = "flush" /\ call' = "idle") \/ UNCHANGED <<call, op, ret>>
    BY DEF Flush, Return
  <2> QED
    BY <1>1, <2>1, CStays DEF Progress, Asking
<1>3. Within' /\ Copied'
  BY <1>1, CStays DEF Progress, Within, Copied, Segment
<1> QED
  BY <1>1, <1>2, <1>3 DEF Progress, OthersKept, WellLinked

(* The steps of elf32_map that write neither tables nor memory. *)
LEMMA CLoad == ASSUME CInv, WellLinked, Load \/ LoadFails \/ Check \/ Finish PROVE Progress'
<1>1. /\ UNCHANGED <<image, seg, done, dir, tables>>
      /\ Progress /\ image \in Images
  BY DEF CInv, Working, Load, LoadFails, Check, Finish, Goto, vars, memory
<1>2. CASE Load
  <2>1. st = "boot" /\ st' = "check" /\ phys' = Loaded
    BY <1>2 DEF Load
  <2>2. Loaded \in [Ram -> Int]
    BY FileAssumption, SizesAre DEF Loaded, Part, Ram, Junk
  <2> QED
    BY <1>1, <2>1, <2>2 DEF Progress, Asking, Within, Copied, OthersKept
<1>4. CASE LoadFails
  <2>1. st' = "error" /\ \E n \in 0 .. ImageSize : phys' = Part(n)
    BY <1>4 DEF LoadFails
  <2>2. PICK n \in 0 .. ImageSize : phys' = Part(n)
    BY <2>1
  <2>3. Part(n) \in [Ram -> Int]
    BY FileAssumption, SizesAre DEF Part, Ram, Junk
  <2>4. \A a \in Ram : Part(n)[a] = Loaded[a] \/ Part(n)[a] = Junk
    BY FileAssumption, SizesAre DEF Loaded, Part, Ram
  <2> QED
    BY <1>1, <2>1, <2>2, <2>3, <2>4 DEF Progress, Asking, Within, Copied, OthersKept
<1>3. CASE Check \/ Finish
  <2>1. phys' = phys /\ st \in {"check", "segment"}
    BY <1>3 DEF Check, Finish, Goto
  <2>2. OthersKept' /\ phys' \in [Ram -> Int]
    BY <1>1, <2>1 DEF Progress, OthersKept, WellLinked
  <2>3. st' \in {"segment", "error", "jump"} /\ (st' = "jump" => seg > Len(image.segments))
    BY <1>3 DEF Check, Finish, Goto
  <2>4. Copied'
    <3>1. ASSUME NEW i \in Loadable(image), i < seg, st' # "error"
          PROVE  InPlace(i, image.segments[i].memsz)'
      <4>1. CASE st = "check"
        BY <1>1, <3>1, <4>1, SegmentFacts DEF Progress, Copied
      <4>2. CASE st = "segment"
        BY <1>1, <2>1, <3>1, <4>2, CStays DEF Progress, Copied
      <4> QED
        BY <2>1, <4>1, <4>2
    <3> QED
      BY <1>1, <2>3, <3>1 DEF Copied
  <2> QED
    BY <2>2, <2>3, <2>4 DEF Progress, Asking, Within
<1> QED
  BY <1>2, <1>3, <1>4

LEMMA CSegment == ASSUME CInv, WellLinked, Skip \/ NextSegment PROVE Progress'
<1>1. /\ UNCHANGED <<image, phys, done, dir, tables>> /\ seg' = seg + 1 /\ st' = "segment"
      /\ Progress /\ Working /\ image \in Images /\ seg \in Nat \ {0}
  BY DEF CInv, Working, Skip, NextSegment, vars, memory
<1>2. OthersKept' /\ phys' \in [Ram -> Int] /\ Asking' /\ Within'
  <2>1. st \notin {"boot", "error"}
    BY DEF Skip, NextSegment
  <2> QED
    BY <1>1, <2>1 DEF Progress, OthersKept, WellLinked, Asking, Within
<1>3. ASSUME NEW i \in Loadable(image), i < seg + 1
      PROVE  InPlace(i, image.segments[i].memsz)
  <2>1. i \in Nat
    BY <1>1, SegmentFacts
  <2>2. CASE i = seg
    <3>1. NextSegment
      BY <2>2 DEF Skip, Segment, Loadable
    <3>2. done = Segment.memsz /\ st = "byte"
      BY <3>1 DEF NextSegment
    <3> QED
      BY <1>1, <2>2, <3>2 DEF Progress, Copied, Segment
  <2>3. CASE i # seg
    <3>1. i < seg /\ st \in {"segment", "byte"}
      BY <1>1, <1>3, <2>1, <2>3 DEF Skip, NextSegment
    <3> QED
      BY <1>1, <3>1 DEF Progress, Copied
  <2> QED
    BY <2>2, <2>3
<1>4. Copied'
  BY <1>1, <1>3, CStays DEF Copied
<1> QED
  BY <1>2, <1>4 DEF Progress

LEMMA Unwrapped == ASSUME NEW a \in Address PROVE a % AddressSpace = a
<1>1. AddressSpace \in Nat
  BY SizesAre DEF AddressSpace
<1>2. AddressSpace \in Nat \ {0} /\ a \in 0 .. AddressSpace - 1
  BY <1>1 DEF Address
<1>3. (AddressSpace * 0 + a) % AddressSpace = a
  BY <1>2, DivModUnique
<1> QED
  BY <1>2, <1>3

LEMMA CBegin == ASSUME CInv, WellLinked, Begin PROVE Progress'
<1>1. /\ UNCHANGED <<image, phys, seg, dir, tables>> /\ done' = 0
      /\ st = "segment" /\ st' \in {"byte", "error"}
      /\ Progress /\ BInv /\ Working /\ image \in Images /\ Segment' = Segment
  BY DEF CInv, Working, Begin, vars, memory, Segment
<1>2. OthersKept' /\ phys' \in [Ram -> Int] /\ Asking'
  BY <1>1 DEF Progress, OthersKept, WellLinked, Asking
<1>3. Copied'
  <2>1. InPlace(seg, done)'
    BY <1>1 DEF InPlace
  <2>2. \A i \in Loadable(image) : i < seg => InPlace(i, image.segments[i].memsz)'
    BY <1>1, CStays DEF Progress, Copied
  <2> QED
    BY <1>1, <2>1, <2>2 DEF Copied
<1>4. Within'
  <2>1. SUFFICES ASSUME st' = "byte", 0 < Segment.memsz, Dst' % PageSize # 0 PROVE FALSE
    BY <1>1 DEF Within
  <2>2. (BInv /\ Working)'
    BY <1>1, WorkStep
  <2>3. seg \in Loadable(image)
    BY <1>1, <2>1, <2>2 DEF Working, Loadable
  <2>4. Segment.vaddr \in Address /\ Segment.vaddr \in Nat /\ Segment.vaddr % PageSize = 0
    <3>1. Segment.vaddr + 0 \in Address /\ Segment.vaddr \in Nat
      BY <1>1, <2>1, <2>3, ByteFacts DEF Segment
    <3> QED
      BY <2>3, <3>1 DEF WellLinked, Segment
  <2>5. Dst' = Segment.vaddr
    <3>1. Dst' = (Segment.vaddr + 0) % AddressSpace
      BY <1>1 DEF Dst
    <3> QED
      BY <2>4, <3>1, Unwrapped
  <2> QED
    BY <2>1, <2>4, <2>5
<1> QED
  BY <1>2, <1>3, <1>4 DEF Progress

LEMMA CPageMapped == ASSUME CInv, WellLinked, PageMapped PROVE Progress'
<1>1. /\ UNCHANGED <<image, phys, seg, done, dir, tables, Dst, To, Segment>>
      /\ st = "mapping" /\ call = "idle" /\ st' = (IF ret = 0 THEN "copy" ELSE "error")
      /\ Progress
  BY DEF CInv, PageMapped, Goto, vars, memory, Dst, To, Segment
<1>2. OthersKept' /\ phys' \in [Ram -> Int] /\ Asking'
  BY <1>1 DEF Progress, OthersKept, WellLinked, Asking
<1>3. Copied'
  BY <1>1, CStays DEF Progress, Copied
<1>4. Within'
  BY <1>1, CStays DEF Progress, Asking, Within
<1> QED
  BY <1>2, <1>3, <1>4 DEF Progress

(* The other bytes of the image, those in place among them, are neither in *)
(* the page that is mapped next nor the byte that is written next.         *)
LEMMA Elsewhere ==
  ASSUME Working, WellLinked, st \in {"byte", "mapping", "copy"}, done < Segment.memsz,
         NEW i \in Loadable(image), NEW k \in Nat, k < image.segments[i].memsz,
         i # seg \/ k < done
  PROVE  /\ image.segments[i].paddr + k # To
         /\ Dst % PageSize = 0 => FrameOf(image.segments[i].vaddr + k) # FrameOf(Dst)
<1> DEFINE s == image.segments[i]
<1>1. /\ image \in Images /\ seg \in Loadable(image) /\ done \in Nat
      /\ Dst = Segment.vaddr + done /\ Dst \in Nat /\ To = Segment.paddr + done
      /\ Segment.vaddr \in Nat /\ Segment.paddr \in Nat
  BY DstFacts DEF Working, To
<1>2. CASE i # seg
  <2>1. /\ FrameOf(s.vaddr + k) # FrameOf(Segment.vaddr + done)
        /\ FrameOf(s.paddr + k) # FrameOf(Segment.paddr + done)
    BY <1>1, <1>2, Apart DEF Segment
  <2> QED
    BY <1>1, <2>1
<1>3. CASE i = seg /\ k < done
  <2>1. s = Segment
    BY <1>3 DEF Segment
  <2>2. ASSUME Dst % PageSize = 0, FrameOf(Segment.vaddr + k) = FrameOf(Dst) PROVE FALSE
    <3> DEFINE m == PageSize * FrameOf(Dst)
    <3>1. FrameOf(Dst) \in Nat /\ Dst = m + 0
      BY <1>1, <2>2, PagePlace
    <3>2. /\ Segment.vaddr + k = m + ((Segment.vaddr + k) % PageSize)
          /\ (Segment.vaddr + k) % PageSize \in 0 .. PageSize - 1
      <4>1. Segment.vaddr + k \in Nat
        BY <1>1
      <4> QED
        BY <2>2, <4>1, PagePlace
    <3>3. m \in Int
      BY <3>1, SizesAre
    <3> HIDE DEF m
    <3> QED
      BY <1>1, <1>3, <3>1, <3>2, <3>3, SizesAre
  <2>3. Segment.paddr + k # To
    BY <1>1, <1>3
  <2> QED
    BY <2>1, <2>2, <2>3
<1> QED
  BY <1>2, <1>3

LEMMA CWrite ==
  ASSUME CInv, WellLinked, boot = "on", SetEntry \/ ClearEntry, UNCHANGED elf
  PROVE  Progress'
<1> DEFINE e == [frame |-> FrameOf(To), write |-> Segment.write]
<1>1. /\ UNCHANGED <<st, image, phys, seg, done, dir, boot, Dst, To, Segment>>
      /\ BInv /\ Working /\ Progress /\ WriteEntry /\ call \in {"set", "clear"}
  BY DEF CInv, SetEntry, ClearEntry, WriteEntry, Return, memory, elf, Dst, To, Segment
<1>2. /\ st = "mapping" /\ call = "set" /\ done < Segment.memsz /\ Dst % PageSize = 0
      /\ op = [pd |-> PdIdx(Dst), pt |-> PtIdx(Dst), entry |-> e]
  <2>1. st = "mapping"
    BY <1>1 DEF Working
  <2>2. Asking
    BY <1>1 DEF Progress
  <2> QED
    BY <1>1, <2>1, <2>2 DEF Working, Asking
<1>3. /\ image \in Images /\ seg \in Loadable(image) /\ done \in Nat /\ Dst \in Nat
      /\ PdIdx(Dst) \in Index /\ PtIdx(Dst) \in Index
  BY <1>1, <1>2, DstFacts DEF Working
<1>4. dir[PdIdx(Dst)] # None
  <2>1. Calling
    BY <1>1 DEF BInv, IInv
  <2> QED
    BY <1>2, <2>1 DEF Calling
<1> HIDE DEF e
<1>5. /\ Implemented(PdIdx(Dst)) =>
           call' = "flush" /\ tables' = [tables EXCEPT ![ArrayIdx(PdIdx(Dst))][PtIdx(Dst)] = e]
      /\ ~Implemented(PdIdx(Dst)) => call' = "idle" /\ ret' = 1 /\ tables' = tables
  BY <1>1, <1>2 DEF WriteEntry, Return, memory
<1>6. tables \in [0 .. LowTables -> [Index -> Entry \cup {None}]]
  BY <1>1, CallTypes
<1>7. Asking' /\ Within'
  <2>1. Implemented(PdIdx(Dst)) => MappedTo(Dst, To, Segment.write)'
    <3>1. SUFFICES ASSUME Implemented(PdIdx(Dst))
                   PROVE  tables'[ArrayIdx(PdIdx(Dst))][PtIdx(Dst)] = e
      BY <1>1, <1>4 DEF MappedTo, e
    <3>2. ArrayIdx(PdIdx(Dst)) \in 0 .. LowTables
      BY <1>3, <3>1, TableFacts
    <3> QED
      BY <1>3, <1>5, <1>6, <3>1, <3>2
  <2> QED
    BY <1>1, <1>2, <1>5, <2>1 DEF Asking, Within
<1>8. ASSUME NEW i \in Loadable(image), NEW k \in Nat, k < image.segments[i].memsz,
             i # seg \/ k < done,
             MappedTo(image.segments[i].vaddr + k, image.segments[i].paddr + k, image.segments[i].write)
      PROVE  MappedTo(image.segments[i].vaddr + k, image.segments[i].paddr + k,
                      image.segments[i].write)'
  <2> DEFINE v == image.segments[i].vaddr + k
             p == image.segments[i].paddr + k
  <2>1. v \in Nat /\ PdIdx(v) \in Index /\ PtIdx(v) \in Index
    BY <1>3, <1>8, ByteFacts
  <2>2. Implemented(PdIdx(v)) /\ dir[PdIdx(v)] # None
    BY <1>8 DEF MappedTo
  <2>3. FrameOf(v) # FrameOf(Dst)
    BY <1>1, <1>2, <1>8, Elsewhere
  <2>4. ~(PdIdx(v) = PdIdx(Dst) /\ PtIdx(v) = PtIdx(Dst))
    <3> HIDE DEF v
    <3> QED
      BY <1>3, <2>1, <2>3, PlaceOnce
  <2>5. tables'[ArrayIdx(PdIdx(v))][PtIdx(v)] = tables[ArrayIdx(PdIdx(v))][PtIdx(v)]
    <3> HIDE DEF v
    <3>1. CASE Implemented(PdIdx(Dst))
      <4>1. ArrayIdx(PdIdx(v)) = ArrayIdx(PdIdx(Dst)) => PdIdx(v) = PdIdx(Dst)
        BY <1>3, <2>1, <2>2, <3>1, ArrayIdxOne
      <4>2. ArrayIdx(PdIdx(v)) \in 0 .. LowTables /\ ArrayIdx(PdIdx(Dst)) \in 0 .. LowTables
        BY <1>3, <2>1, <2>2, <3>1, TableFacts
      <4> QED
        BY <1>3, <1>5, <1>6, <2>1, <2>4, <3>1, <4>1, <4>2
    <3>2. CASE ~Implemented(PdIdx(Dst))
      BY <1>5, <3>2
    <3> QED
      BY <3>1, <3>2
  <2> QED
    BY <1>1, <1>8, <2>2, <2>5 DEF MappedTo
<1>9. ASSUME NEW i \in Loadable(image), NEW n \in Nat, n <= image.segments[i].memsz,
             i # seg \/ n <= done, InPlace(i, n)
      PROVE  InPlace(i, n)'
  <2> DEFINE s == image.segments[i]
  <2> SUFFICES ASSUME NEW k \in 0 .. n - 1
               PROVE  MappedTo(s.vaddr + k, s.paddr + k, s.write)' /\ phys'[s.paddr + k] = Content(s, k)
    BY <1>1 DEF InPlace, Content
  <2>1. MappedTo(s.vaddr + k, s.paddr + k, s.write) /\ phys[s.paddr + k] = Content(s, k)
    BY <1>9 DEF InPlace
  <2>2. k \in Nat /\ k < s.memsz /\ (i # seg \/ k < done)
    BY <1>3, <1>9, SegmentFacts
  <2> QED
    BY <1>1, <1>8, <2>1, <2>2
<1>10. Copied'
  <2>1. \A i \in Loadable(image) : i < seg => InPlace(i, image.segments[i].memsz)
    BY <1>1, <1>2 DEF Progress, Copied
  <2>2. InPlace(seg, done) /\ done <= image.segments[seg].memsz
    BY <1>1, <1>2 DEF Progress, Copied, Working, Segment
  <2>3. \A i \in Loadable(image) : i < seg => InPlace(i, image.segments[i].memsz)'
    <3> SUFFICES ASSUME NEW i \in Loadable(image), i < seg
                 PROVE  InPlace(i, image.segments[i].memsz)'
      OBVIOUS
    <3>1. image.segments[i].memsz \in Nat /\ i \in Nat /\ seg \in Nat
      BY <1>3, SegmentFacts
    <3>2. InPlace(i, image.segments[i].memsz) /\ i # seg
      BY <2>1, <3>1
    <3> QED
      BY <1>1, <1>9, <3>1, <3>2
  <2>4. InPlace(seg, done)'
    BY <1>1, <1>3, <1>9, <2>2
  <2> QED
    BY <1>1, <1>2, <2>3, <2>4 DEF Copied
<1>11. OthersKept' /\ phys' \in [Ram -> Int]
  BY <1>1 DEF Progress, OthersKept, WellLinked
<1> QED
  BY <1>7, <1>10, <1>11 DEF Progress

(* No byte of the file is in a page of a segment. *)
LEMMA FileApart ==
  ASSUME image \in Images, NEW a \in ImageAt .. ImageAt + ImageSize - 1,
         NEW i \in Loadable(image), NEW k \in Nat, k < image.segments[i].memsz
  PROVE  /\ image.segments[i].paddr + k # a
         /\ PageOf(image.segments[i].vaddr + k) # PageOf(a)
<1> DEFINE s == image.segments[i]
<1>1. s.vaddr \in Nat /\ s.paddr \in Nat /\ s.memsz \in Nat /\ a \in Nat
  BY SegmentFacts, FileAssumption
<1>2. \A b \in {s.paddr, s.vaddr} : Pages(b, s.memsz) \cap Pages(ImageAt, ImageSize) = {}
  <2>1. i \in DOMAIN image.segments
    BY DEF Loadable
  <2> QED
    BY <2>1, ImageAssumption
<1>3. ASSUME NEW b \in {s.paddr, s.vaddr}
      PROVE  FrameOf(b + k) # FrameOf(a)
  <2>1. b + k \in b .. b + s.memsz - 1 /\ b + k \in Nat
    BY <1>1
  <2>2. PageRound(b + k) \in Pages(b, s.memsz) /\ PageRound(a) \in Pages(ImageAt, ImageSize)
    BY <2>1 DEF Pages
  <2>3. PageRound(b + k) # PageRound(a)
    BY <1>2, <2>2
  <2> QED
    BY <1>1, <2>1, <2>3, Rounded
<1>4. PageOf(s.vaddr + k) = PageOf(a) => FrameOf(s.vaddr + k) = FrameOf(a)
  <2>1. s.vaddr + k \in Nat
    BY <1>1
  <2> HIDE DEF s
  <2> QED
    BY <1>1, <2>1, PlaceOnce DEF PageOf
<1> QED
  BY <1>3, <1>4

(* The byte that is read is the file's: the file lies where no segment     *)
(* goes, in memory that is mapped to itself.                               *)
LEMMA Source ==
  ASSUME CInv, WellLinked, WholePages, st \in {"byte", "copy"}, done < Segment.memsz,
         done < Segment.filesz
  PROVE  phys[Physical(ImageAt + Segment.offset + done)] = Segment.offset + done + 1
<1> DEFINE src == ImageAt + Segment.offset + done
<1>1. BInv /\ Working /\ Progress /\ boot = "on" /\ image \in Images /\ seg \in Loadable(image)
      /\ done \in Nat
  BY DEF CInv, Working
<1>2. /\ Segment.offset \in Nat /\ Segment.filesz \in Nat
      /\ Segment.offset + Segment.filesz <= ImageSize
  BY <1>1, SegmentFacts DEF Segment
<1>3. /\ ImageAt \in Nat /\ ImageSize \in Nat /\ ImageAt >= PageSize
      /\ ImageAt + ImageSize <= PaddrMax + 1
  BY FileAssumption
<1>4. src \in Ram /\ src >= PageSize /\ src \in ImageAt .. ImageAt + ImageSize - 1
  BY <1>1, <1>2, <1>3, SizesAre DEF Ram
<1>5. Physical(src) = src
  <2>1. PageOf(src) \notin Claimed
    <3>1. SUFFICES ASSUME NEW i \in Loadable(image), NEW k \in Bytes(image.segments[i]),
                          PageOf(src) = PageOf(image.segments[i].vaddr + k)
                   PROVE  FALSE
      BY DEF Claimed
    <3>2. k \in Nat /\ k < image.segments[i].memsz
      BY <1>1, SegmentFacts DEF Bytes
    <3> HIDE DEF src
    <3> QED
      BY <1>1, <1>4, <3>1, <3>2, FileApart
  <2> QED
    BY <1>1, <1>4, <2>1, IdentityHere DEF IdentityKept
<1>6. phys[src] = Loaded[src]
  <2>1. ASSUME NEW i \in Loadable(image),
               src \in image.segments[i].paddr .. image.segments[i].paddr + image.segments[i].memsz - 1
        PROVE  FALSE
    <3>1. image.segments[i].paddr \in Nat /\ image.segments[i].memsz \in Nat
      BY <1>1, SegmentFacts
    <3> DEFINE k == src - image.segments[i].paddr
    <3>2. src \in Nat
      BY <1>3, <1>4
    <3> HIDE DEF src
    <3>3. k \in Nat /\ k < image.segments[i].memsz /\ image.segments[i].paddr + k = src
      BY <2>1, <3>1, <3>2
    <3> HIDE DEF k
    <3> QED
      BY <1>1, <1>4, <3>3, FileApart
  <2>2. OthersKept
    BY <1>1 DEF Progress
  <2> QED
    BY <1>4, <2>1, <2>2 DEF OthersKept
<1>7. Loaded[src] = src - ImageAt + 1
  BY <1>4 DEF Loaded, Part
<1> QED
  BY <1>1, <1>2, <1>3, <1>5, <1>6, <1>7

LEMMA CCopy == ASSUME CInv, WellLinked, WholePages, Copy PROVE Progress'
<1>1. /\ UNCHANGED <<image, seg, dir, tables, boot, Segment>>
      /\ st \in {"byte", "copy"} /\ done < Segment.memsz
      /\ BInv /\ Working /\ Progress
      /\ st = "copy" \/ Dst % PageSize # 0
  BY DEF CInv, Working, Copy, More, vars, memory, Segment
<1>2. /\ image \in Images /\ seg \in Loadable(image) /\ done \in Nat
      /\ boot = "on" /\ call = "idle"
      /\ Segment.vaddr \in Nat /\ Segment.paddr \in Nat /\ Segment.memsz \in Nat
      /\ Dst = Segment.vaddr + done /\ Dst \in Nat /\ Dst \in Address
      /\ To = Segment.paddr + done /\ To \in Nat /\ To \in Ram /\ To \in Address
      /\ Segment.write \in BOOLEAN
  BY <1>1, DstFacts, RamAddress DEF Working, To
<1>3. Segment.vaddr % PageSize = 0 /\ Segment.paddr % PageSize = 0
  BY <1>2 DEF WellLinked, Segment
<1>4. MappedTo(Dst, To, Segment.write)
  BY <1>1 DEF Progress, Within
<1>5. Physical(Dst) = To
  <2>1. Dst % PageSize = To % PageSize
    BY <1>2, <1>3, FromPage
  <2> QED
    BY <1>1, <1>2, <1>4, <2>1, Seen
<1>6. CASE st' = "fault" /\ UNCHANGED <<phys, done>>
  BY <1>1, <1>6 DEF Progress, Asking, Within, Copied, OthersKept, WellLinked
<1>7. CASE /\ st' = "byte" /\ done' = done + 1
           /\ phys' = [phys EXCEPT ![Physical(Dst)] =
                         IF done < Segment.filesz
                         THEN phys[Physical(ImageAt + Segment.offset + done)] ELSE 0]
  <2>1. phys' = [phys EXCEPT ![To] = Content(Segment, done)]
    BY <1>1, <1>5, <1>7, Source DEF Content
  <2>2. phys \in [Ram -> Int] /\ Content(Segment, done) \in Int
    <3>1. Segment.offset \in Nat
      BY <1>2, SegmentFacts DEF Segment
    <3> QED
      BY <1>1, <1>2, <3>1 DEF Progress, Content
  <2>3. phys' \in [Ram -> Int] /\ phys'[To] = Content(Segment, done)
        /\ \A a : a # To => phys'[a] = phys[a]
    BY <1>2, <2>1, <2>2
  <2>4. OthersKept'
    <3> SUFFICES ASSUME NEW a \in Ram
                 PROVE  \/ phys'[a] = Loaded[a]
                        \/ st' = "error" /\ phys'[a] = Junk
                        \/ \E i \in Loadable(image) :
                             a \in image.segments[i].paddr ..
                                     image.segments[i].paddr + image.segments[i].memsz - 1
      BY <1>1 DEF OthersKept
    <3>1. CASE a = To
      <4>1. a \in Segment.paddr .. Segment.paddr + Segment.memsz - 1
        BY <1>1, <1>2, <3>1
      <4> QED
        BY <1>2, <4>1 DEF Segment
    <3>2. CASE a # To
      BY <1>1, <2>3, <3>2 DEF Progress, OthersKept
    <3> QED
      BY <3>1, <3>2
  <2>5. Within'
    <3>1. SUFFICES ASSUME done + 1 < Segment.memsz, Dst' % PageSize # 0
                   PROVE  MappedTo(Dst', To', Segment.write)
      BY <1>1, <1>7 DEF Within, MappedTo
    <3>2. Dst' = Dst + 1 /\ To' = To + 1
      <4>1. Segment.vaddr + (done + 1) \in Address
        BY <1>2, <3>1, ByteFacts DEF Segment
      <4>2. Dst' = (Segment.vaddr + (done + 1)) % AddressSpace
        BY <1>1, <1>7 DEF Dst
      <4>3. Dst' = Segment.vaddr + (done + 1)
        BY <4>1, <4>2, Unwrapped
      <4>4. To' = Segment.paddr + (done + 1)
        BY <1>1, <1>7 DEF To
      <4> QED
        BY <1>2, <4>3, <4>4
    <3>3. (Dst + 1) % PageSize # 0 /\ (To + 1) % PageSize # 0
      <4>1. Dst + 1 = Segment.vaddr + (done + 1) /\ To + 1 = Segment.paddr + (done + 1)
        BY <1>2
      <4>2. (Dst + 1) % PageSize = (To + 1) % PageSize
        BY <1>2, <1>3, <4>1, FromPage
      <4> QED
        BY <3>1, <3>2, <4>2
    <3>4. FrameOf(Dst + 1) = FrameOf(Dst) /\ FrameOf(To + 1) = FrameOf(To)
      BY <1>2, <3>3, FrameSame
    <3> QED
      BY <1>4, <3>2, <3>4 DEF MappedTo, PdIdx, PtIdx
  <2>6. ASSUME NEW i \in Loadable(image), NEW k \in Nat, k < image.segments[i].memsz,
               i # seg \/ k < done
        PROVE  phys'[image.segments[i].paddr + k] = phys[image.segments[i].paddr + k]
    BY <1>1, <2>3, <2>6, Elsewhere
  <2>7. ASSUME NEW i \in Loadable(image), i < seg PROVE InPlace(i, image.segments[i].memsz)'
    <3> DEFINE s == image.segments[i]
    <3>1. s.memsz \in Nat /\ i # seg
      BY <1>2, <2>7, SegmentFacts
    <3>2. InPlace(i, s.memsz)
      BY <1>1, <2>7 DEF Progress, Copied
    <3> SUFFICES ASSUME NEW k \in 0 .. s.memsz - 1
                 PROVE  MappedTo(s.vaddr + k, s.paddr + k, s.write)' /\ phys'[s.paddr + k] = Content(s, k)
      BY <1>1 DEF InPlace, Content
    <3>3. MappedTo(s.vaddr + k, s.paddr + k, s.write) /\ phys[s.paddr + k] = Content(s, k)
      BY <3>2 DEF InPlace
    <3>4. phys'[s.paddr + k] = phys[s.paddr + k]
      BY <2>6, <3>1
    <3> QED
      BY <1>1, <3>3, <3>4 DEF MappedTo
  <2>8. InPlace(seg, done)'
    <3> SUFFICES ASSUME NEW k \in 0 .. done
                 PROVE  /\ MappedTo(Segment.vaddr + k, Segment.paddr + k, Segment.write)'
                        /\ phys'[Segment.paddr + k] = Content(Segment, k)
      <4>1. 0 .. done' - 1 = 0 .. done
        BY <1>2, <1>7
      <4> QED
        BY <1>1, <4>1 DEF InPlace, Content, Segment
    <3>1. CASE k = done
      BY <1>1, <1>2, <1>4, <2>3, <3>1 DEF MappedTo
    <3>2. CASE k < done
      <4>1. InPlace(seg, done)
        BY <1>1 DEF Progress, Copied
      <4>2. /\ MappedTo(Segment.vaddr + k, Segment.paddr + k, Segment.write)
            /\ phys[Segment.paddr + k] = Content(Segment, k)
        BY <1>2, <3>2, <4>1 DEF InPlace, Segment
      <4>3. phys'[Segment.paddr + k] = phys[Segment.paddr + k]
        <5>1. k \in Nat /\ k < image.segments[seg].memsz
          BY <1>1, <1>2, <3>2 DEF Segment
        <5> QED
          BY <1>2, <2>6, <3>2, <5>1 DEF Segment
      <4> QED
        BY <1>1, <4>2, <4>3 DEF MappedTo
    <3> QED
      BY <1>2, <3>1, <3>2
  <2>9. Copied' /\ Asking'
    BY <1>1, <1>7, <2>7, <2>8 DEF Copied, Asking
  <2> QED
    BY <2>3, <2>4, <2>5, <2>9 DEF Progress
<1> QED
  BY <1>6, <1>7 DEF Copy

LEMMA CStart == ElfInit => CInv
BY ElfStart, FileAssumption, SizesAre
   DEF ElfInit, CInv, Progress, Asking, Within, Copied, OthersKept, Ram, Junk

LEMMA CStep == ASSUME WholePages, CInv, [ElfNext]_<<vars, elf>> PROVE CInv'
<1>1. (BInv /\ Working)'
  BY ElfStep DEF CInv
<1>2. image' = image
  BY DEF ElfNext, PagingStep, Load, LoadFails, Elf32Map, Check, Finish, Skip, Begin, MapPage, PageMapped,
         Copy, NextSegment, Processor, Goto, elf
<1>3. SUFFICES ASSUME WellLinked PROVE Progress'
  <2>1. WellLinked' <=> WellLinked
    BY <1>2 DEF WellLinked, Loadable
  <2> QED
    BY <1>1, <1>3, <2>1 DEF CInv
<1>4. CASE PagingStep
  <2>1. UNCHANGED elf /\ (Boot \/ CallStep)
    BY <1>4 DEF PagingStep
  <2>2. CASE boot # "on"
    <3>1. st = "boot"
      BY <2>2 DEF CInv, Working
    <3> QED
      BY <1>3, <2>1, <3>1, CBoot
  <2>3. CASE boot = "on"
    <3>1. CallStep
      BY <2>1, <2>3 DEF Boot, InitTables, Identity, Automap, UnmapNull, Enable
    <3> QED
      BY <1>3, <2>1, <2>3, <3>1, CWrite, CStill DEF CallStep
  <2> QED
    BY <2>2, <2>3
<1>5. CASE Load \/ LoadFails \/ Elf32Map
  BY <1>3, <1>5, CLoad, CSegment, CBegin, CMapPage, CPageMapped, CCopy DEF Elf32Map
<1>6. CASE Processor \/ UNCHANGED <<vars, elf>>
  <2>1. UNCHANGED elf /\ UNCHANGED <<dir, tables, call, op, ret>>
    BY <1>6 DEF Processor, Fill, memory, calls, vars, elf
  <2> QED
    BY <1>3, <2>1, CStill
<1> QED
  BY <1>4, <1>5, <1>6 DEF ElfNext

(* elf32_map writes to the memory of the image's segments only, however it *)
(* ends.                                                                   *)
THEOREM OthersSafe == ASSUME WholePages PROVE ElfSpec => []OthersKept
<1>1. CInv /\ [ElfNext]_<<vars, elf>> => CInv'
  BY CStep
<1>2. CInv => OthersKept
  BY DEF CInv, Progress, OthersKept
<1> QED
  BY CStart, <1>1, <1>2, PTL DEF ElfSpec

(* When main jumps to the kernel every byte of it is in place, seen at its *)
(* virtual address and writable only where its segment is.                 *)
THEOREM ImageSafe == ASSUME WholePages PROVE ElfSpec => []ImageInPlace
<1>1. CInv /\ [ElfNext]_<<vars, elf>> => CInv'
  BY CStep
<1>2. ASSUME CInv PROVE ImageInPlace
  <2> SUFFICES ASSUME st = "jump", WellLinked, NEW i \in Loadable(image),
                      NEW k \in Bytes(image.segments[i])
               PROVE  LET s == image.segments[i]
                      IN  /\ Present(s.vaddr + k)
                          /\ Physical(s.vaddr + k) = s.paddr + k
                          /\ Translate(PageOf(s.vaddr + k)).write = s.write
                          /\ phys[s.paddr + k] = IF k < s.filesz THEN s.offset + k + 1 ELSE 0
    BY DEF ImageInPlace
  <2> DEFINE s == image.segments[i]
  <2>1. BInv /\ Working /\ Progress /\ image \in Images /\ boot = "on" /\ call = "idle"
    BY <1>2 DEF CInv, Working
  <2>2. /\ i \in Nat /\ i <= Len(image.segments) /\ s.memsz \in Nat
        /\ k \in Nat /\ k < s.memsz
    BY <2>1, SegmentFacts DEF Bytes
  <2>3. InPlace(i, s.memsz)
    <3>1. Copied
      BY <2>1 DEF Progress
    <3>2. seg > Len(image.segments) /\ seg \in Nat /\ Len(image.segments) \in Nat
      <4>1. seg > Len(image.segments) /\ seg \in Nat
        BY <2>1, <3>1 DEF Copied, Working
      <4>2. image.segments \in Seq([load : BOOLEAN, write : BOOLEAN, offset : Nat,
                                    vaddr : Nat, paddr : Nat, filesz : Nat, memsz : Nat])
        BY <2>1, FileAssumption
      <4> QED
        BY <4>1, <4>2
    <3>3. i < seg
      BY <2>2, <3>2
    <3> QED
      BY <3>1, <3>3 DEF Copied
  <2>4. MappedTo(s.vaddr + k, s.paddr + k, s.write) /\ phys[s.paddr + k] = Content(s, k)
    <3>1. k \in 0 .. s.memsz - 1
      BY <2>2
    <3> QED
      BY <2>3, <3>1 DEF InPlace
  <2>5. /\ s.vaddr + k \in Address /\ s.paddr + k \in Address /\ s.write \in BOOLEAN
        /\ s.vaddr \in Nat /\ s.paddr \in Nat
    BY <2>1, <2>2, ByteFacts
  <2>6. (s.vaddr + k) % PageSize = (s.paddr + k) % PageSize
    <3>1. s.vaddr % PageSize = 0 /\ s.paddr % PageSize = 0
      BY DEF WellLinked
    <3> QED
      BY <2>2, <2>5, <3>1, FromPage, SMTT(30)
  <2> HIDE DEF s
  <2>7. /\ Present(s.vaddr + k) /\ Physical(s.vaddr + k) = s.paddr + k
        /\ Translate(PageOf(s.vaddr + k)).write = s.write
    BY <2>1, <2>4, <2>5, <2>6, Seen
  <2> QED
    BY <2>4, <2>7 DEF Content, s
<1> QED
  BY CStart, <1>1, <1>2, PTL DEF ElfSpec
=============================================================================
