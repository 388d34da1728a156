------------------------------- MODULE ElfMap -------------------------------
(***************************************************************************)
(* lib/elf32.c on top of Paging, in the order main.c uses them: paging is  *)
(* set up, the kernel's file is loaded at ImageAt, and elf32_map maps and  *)
(* copies its segments a byte at a time, writing through the very pages it *)
(* maps on the way.                                                        *)
(*                                                                         *)
(* A byte of memory is a number: k + 1 is byte k of the file, 0 a zero,    *)
(* and Junk what was there before.  The fields of the ELF header that      *)
(* elf32_is_supported looks at are one boolean.                            *)
(*                                                                         *)
(* elf32_map goes on reading the file's headers while it copies; a segment *)
(* laid over the file itself could change them, and is left out.           *)
(***************************************************************************)
EXTENDS Paging, Sequences, FiniteSetsExt

CONSTANTS ImageAt,     \* _mem_load_addr
          ImageSize,   \* bytes of the file's segments
          KernelAt,    \* KERNEL_PADDR_MIN, where kernel.ld puts the kernel
          MemszMax,    \* KERNEL_MEMSZ_MAX
          VaddrMin,    \* KERNEL_VADDR_MIN
          VaddrMax,    \* KERNEL_VADDR_MAX
          Images       \* the files that may be on the disk

ASSUME FileAssumption ==
  /\ {ImageAt, ImageSize, KernelAt, MemszMax, VaddrMin, VaddrMax} \subseteq Nat
  /\ ImageAt >= PageSize /\ ImageAt + ImageSize <= PaddrMax + 1
  /\ VaddrMin >= PageSize /\ VaddrMin % PageSize = 0
  /\ \A f \in {DirFrame, FirstTable + LowTables}, a \in {ImageAt, KernelAt, VaddrMin} :
       PageSize * (f + 1) <= a
  /\ \A f \in Images :
       f.segments \in Seq([load : BOOLEAN, write : BOOLEAN, offset : Nat,
                           vaddr : Nat, paddr : Nat, filesz : Nat, memsz : Nat])

PageRound(a) == a - (a % PageSize)
Pages(a, n)  == {PageRound(b) : b \in a .. a + n - 1}

(* What any linker keeps to, and that a segment lies in the kernel's part  *)
(* of memory and of the address space (KERNEL_PADDR_MIN, KERNEL_VADDR_MIN) *)
(* and not over the file.  elf32_map checks the upper ends only.           *)
ASSUME ImageAssumption ==
  \A f \in Images : \A i \in DOMAIN f.segments :
    LET s == f.segments[i]
    IN  /\ s.filesz <= s.memsz
        /\ s.offset + s.filesz <= ImageSize
        /\ s.paddr >= KernelAt /\ s.paddr + s.memsz < AddressSpace
        /\ s.vaddr >= VaddrMin /\ s.vaddr + s.memsz < AddressSpace
        /\ \A a \in {s.paddr, s.vaddr} :
             Pages(a, s.memsz) \cap Pages(ImageAt, ImageSize) = {}

VARIABLES
  st,      \* where main and elf32_map are
  image,   \* the file that was loaded
  phys,    \* physical memory
  seg,     \* i in elf32_map
  done     \* bytes of the segment that are in place

elf == <<st, image, phys, seg, done>>

Ram    == 0 .. PaddrMax
Junk   == -1

(* Memory with the first n bytes of the file in their place. *)
Part(n) == [a \in Ram |-> IF a \in ImageAt .. ImageAt + n - 1
                          THEN a - ImageAt + 1 ELSE Junk]
Loaded  == Part(ImageSize)

ElfTypeOK ==
  /\ TypeOK
  /\ st \in {"boot", "check", "segment", "byte", "mapping", "copy",
             "jump", "error", "fault"}
  /\ image \in Images
  /\ phys \in [Ram -> Junk .. ImageSize]
  /\ seg \in 1 .. Len(image.segments) + 1
  /\ done \in Nat

Segment == image.segments[seg]
Goto(b) == st' = b /\ UNCHANGED <<image, phys, seg, done>>

-----------------------------------------------------------------------------
(* The checks.                                                             *)

Loadable(i) == {j \in DOMAIN i.segments : i.segments[j].load}

TotalMemsz(i) ==
  MapThenSumSet(LAMBDA j : i.segments[j].memsz, Loadable(i)) % AddressSpace

Ends(a, size, max) == (a + size) % AddressSpace <= max

ValidProgseg(s) == /\ Aligned(s.paddr)
                   /\ Aligned(s.vaddr)
                   /\ Ends(s.paddr, s.memsz, PaddrMax)
                   /\ Ends(s.vaddr, s.memsz, VaddrMax)

(* fat16_load has put the file where main wants it. *)
Load == /\ boot = "on"
        /\ st = "boot"
        /\ st' = "check"
        /\ phys' = Loaded
        /\ UNCHANGED <<vars, image, seg, done>>

(* hdd_init, fat16_init or fat16_load fails; the latter may be half-way. *)
LoadFails == /\ boot = "on"
             /\ st = "boot"
             /\ st' = "error"
             /\ \E n \in 0 .. ImageSize : phys' = Part(n)
             /\ UNCHANGED <<vars, image, seg, done>>

Check == /\ st = "check"
         /\ Goto(IF image.supported /\ TotalMemsz(image) <= MemszMax
                 THEN "segment" ELSE "error")
         /\ UNCHANGED vars

-----------------------------------------------------------------------------
(* The loop over the segments and the two loops of _map_progseg.           *)

(* All segments are mapped.  An entry point of zero reads as a failure. *)
Finish == /\ st = "segment"
          /\ seg > Len(image.segments)
          /\ Goto(IF image.entry = 0 THEN "error" ELSE "jump")
          /\ UNCHANGED vars

Skip == /\ st = "segment"
        /\ seg <= Len(image.segments)
        /\ ~Segment.load
        /\ seg' = seg + 1
        /\ UNCHANGED <<vars, st, image, phys, done>>

Begin == /\ st = "segment"
         /\ seg <= Len(image.segments)
         /\ Segment.load
         /\ st' = IF ValidProgseg(Segment) THEN "byte" ELSE "error"
         /\ done' = 0
         /\ UNCHANGED <<vars, image, phys, seg>>

Dst  == (Segment.vaddr + done) % AddressSpace

(* Mutant: one byte more. *)
OneMore == st = "byte" /\ done <= Segment.memsz

More == st = "byte" /\ done < Segment.memsz

(* Mutant: every page of a segment to the segment's first frame. *)
MapPageSame == /\ More
               /\ Dst % PageSize = 0
               /\ StartMap(Dst, Segment.paddr, Segment.write)
               /\ Goto("mapping")
               /\ UNCHANGED <<boot, addr>>

(* Mutant: only the segment's first page is mapped. *)
MapPageOnce == /\ More
               /\ done = 0
               /\ StartMap(Dst, Segment.paddr, Segment.write)
               /\ Goto("mapping")
               /\ UNCHANGED <<boot, addr>>

(* A page is mapped when its first byte is due. *)
MapPage == /\ More
           /\ Dst % PageSize = 0
           /\ StartMap(Dst, Segment.paddr + done, Segment.write)
           /\ Goto("mapping")
           /\ UNCHANGED <<boot, addr>>

PageMapped == /\ st = "mapping"
              /\ call = "idle"
              /\ Goto(IF ret = 0 THEN "copy" ELSE "error")
              /\ UNCHANGED vars

Present(v) == Translate(PageOf(v)) # None

(* The file's bytes come first and zeros after them; both ends go through  *)
(* the processor's translation.                                            *)
Copy == /\ st = "copy" \/ (More /\ Dst % PageSize # 0)
        /\ LET inFile == done < Segment.filesz
               src    == ImageAt + Segment.offset + done
           IN  IF ~Present(Dst) \/ (inFile /\ ~Present(src))
               THEN st' = "fault" /\ UNCHANGED <<phys, done>>
               ELSE /\ st' = "byte"
                    /\ phys' = [phys EXCEPT ![Physical(Dst)] =
                                  IF inFile THEN phys[Physical(src)] ELSE 0]
                    /\ done' = done + 1
        /\ UNCHANGED <<vars, image, seg>>

NextSegment == /\ st = "byte"
               /\ done = Segment.memsz
               /\ st' = "segment"
               /\ seg' = seg + 1
               /\ UNCHANGED <<vars, image, phys, done>>

-----------------------------------------------------------------------------

ElfInit == /\ Init
           /\ st = "boot"
           /\ image \in Images
           /\ phys = [a \in Ram |-> Junk]
           /\ seg = 1
           /\ done = 0

(* paging_init and the calls of paging_map, with elf32_map at rest. *)
PagingStep == (Boot \/ CallStep) /\ UNCHANGED elf

Elf32Map == \/ Check \/ Finish \/ Skip \/ Begin
            \/ MapPage \/ PageMapped \/ Copy \/ NextSegment

Processor == (\E p \in Page : Fill(p)) /\ UNCHANGED elf

ElfNext == PagingStep \/ Load \/ LoadFails \/ Elf32Map \/ Processor

ElfSpec == /\ ElfInit /\ [][ElfNext]_<<vars, elf>>
           /\ WF_<<vars, elf>>(PagingStep \/ Load \/ LoadFails \/ Elf32Map)

-----------------------------------------------------------------------------
(* Properties.                                                             *)

Bytes(s) == 0 .. s.memsz - 1

(* The pages the image asks for. *)
Claimed == UNION {{PageOf(image.segments[i].vaddr + k) :
                     k \in Bytes(image.segments[i])} : i \in Loadable(image)}

(* Page-aligned segments that share no page, as kernel.ld (ALIGN(0x1000))  *)
(* makes them.                                                             *)
WellLinked ==
  /\ \A i \in Loadable(image) :
       LET s == image.segments[i]
       IN  s.vaddr % PageSize = 0 /\ s.paddr % PageSize = 0
  /\ \A i, j \in Loadable(image) : i # j =>
       LET s == image.segments[i]
           t == image.segments[j]
       IN  /\ Pages(s.vaddr, s.memsz) \cap Pages(t.vaddr, t.memsz) = {}
           /\ Pages(s.paddr, s.memsz) \cap Pages(t.paddr, t.memsz) = {}

(* When main jumps to the kernel, every byte of every loadable segment is  *)
(* found at its virtual address, lies at its physical address, is the      *)
(* file's or zero, and can be written to only if the segment says so.      *)
ImageInPlace ==
  st = "jump" /\ WellLinked =>
    \A i \in Loadable(image) :
      LET s == image.segments[i]
      IN  \A k \in Bytes(s) :
            /\ Present(s.vaddr + k)
            /\ Physical(s.vaddr + k) = s.paddr + k
            /\ Translate(PageOf(s.vaddr + k)).write = s.write
            /\ phys[s.paddr + k] = IF k < s.filesz THEN s.offset + k + 1 ELSE 0

(* elf32_map writes where a segment belongs and nowhere else, also when it *)
(* gives up half-way: main goes on to print the error with its own code.   *)
(* Of the file itself all is there, unless main gave up loading it.        *)
OthersKept ==
  st # "boot" /\ WellLinked =>
    \A a \in Ram :
      \/ phys[a] = Loaded[a]
      \/ st = "error" /\ phys[a] = Junk
      \/ \E i \in Loadable(image) :
           LET s == image.segments[i] IN a \in s.paddr .. s.paddr + s.memsz - 1

(* From the moment paging is on and however elf32_map ends, memory is      *)
(* mapped to itself but for the pages the image asks for, and the null     *)
(* page is not mapped ("first page of the address space will not be        *)
(* mapped").  The loader's own memory, below KERNEL_VADDR_MIN, stays       *)
(* whatever the image asks for.                                            *)
IdentityKept ==
  /\ boot # "failed"
  /\ boot = "on" =>
       /\ ~Present(0)
       /\ \A a \in Ram :
            a >= PageSize /\ (a < VaddrMin \/ PageOf(a) \notin Claimed) => Physical(a) = a

(* elf32_map returns, and does not fault, for every well-linked image. *)
Answered == (boot = "off" /\ WellLinked) ~> (st \in {"jump", "error"})
=============================================================================
