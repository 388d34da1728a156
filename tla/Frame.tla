------------------------------- MODULE Frame -------------------------------
(***************************************************************************)
(* kernel/lib/frame.c: a bitmap with a bit for each frame of the memory    *)
(* that begins at PADDR_MIN.  Sizes are constants; AlignUnit is 0x3ff + 1, *)
(* which in the code is a quarter of a page.                               *)
(***************************************************************************)
EXTENDS Integers

CONSTANTS WordBits,     \* bits of a uint32_t
          Length,       \* LEN
          PageSize,     \* PAGE_SIZE
          AlignUnit,    \* 0x3ff + 1
          PaddrMin,     \* PADDR_MIN
          AddressSpace  \* 2^32

ASSUME SizeAssumption ==
  /\ {WordBits, Length, PageSize, AlignUnit, PaddrMin, AddressSpace} \subseteq Nat \ {0}
  /\ PaddrMin + PageSize * (WordBits * Length) <= AddressSpace
  /\ PaddrMin % AlignUnit = 0 /\ PageSize % AlignUnit = 0

VARIABLES bitmap,   \* per word, the bits that are set
          result    \* what the last call returned

vars == <<bitmap, result>>

Words   == 0 .. Length - 1
Bits    == 0 .. WordBits - 1
Address == 0 .. AddressSpace - 1

TypeOK == /\ bitmap \in [Words -> SUBSET Bits]
          /\ result \in Address

Init == /\ bitmap = [i \in Words |-> {}]
        /\ result = 0

-----------------------------------------------------------------------------

Idx2Paddr(i, j) == PaddrMin + PageSize * (WordBits * i + j)

(* page_num; below PADDR_MIN the subtraction wraps around. *)
PageNum(paddr) == ((paddr - PaddrMin) % AddressSpace) \div PageSize

HasFreeFrame(i) == bitmap[i] # Bits

GetClearBitNum(i, j) == j \in Bits \ bitmap[i] /\ \A k \in Bits : k < j => k \in bitmap[i]

(* The bit at hand is set, and the caller gets the frame's address. *)
Take(i, j) == /\ bitmap' = [bitmap EXCEPT ![i] = @ \cup {j}]
              /\ result' = Idx2Paddr(i, j)

(* The loop of frame_alloc ends at the first word with a clear bit. *)
FrameAlloc ==
  \/ \E i \in Words, j \in Bits : /\ \A h \in Words : h < i => ~HasFreeFrame(h)
                                  /\ GetClearBitNum(i, j)
                                  /\ Take(i, j)
  \/ /\ \A i \in Words : ~HasFreeFrame(i)
     /\ result' = 0
     /\ UNCHANGED bitmap

(* Mutant: the number of the page is not checked against the bitmap's end, *)
(* and falls on one of its words.                                          *)
HoldsWrapped(paddr) == /\ paddr % AlignUnit = 0
                       /\ PageNum(paddr) % WordBits
                            \in bitmap[(PageNum(paddr) \div WordBits) % Length]

(* What frame_dealloc asks before it clears the bit. *)
Holds(paddr) == /\ paddr % AlignUnit = 0
                /\ PageNum(paddr) \div WordBits < Length
                /\ PageNum(paddr) % WordBits \in bitmap[PageNum(paddr) \div WordBits]

FrameDealloc(paddr) ==
  IF Holds(paddr)
  THEN /\ bitmap' = [bitmap EXCEPT ![PageNum(paddr) \div WordBits] =
                       @ \ {PageNum(paddr) % WordBits}]
       /\ result' = 0
  ELSE result' = 1 /\ UNCHANGED bitmap

Next == FrameAlloc \/ \E paddr \in Address : FrameDealloc(paddr)

Spec == Init /\ [][Next]_vars

-----------------------------------------------------------------------------
(* Properties.                                                             *)

Frames == {Idx2Paddr(i, j) : i \in Words, j \in Bits}

Used == {f \in Frames : \E i \in Words, j \in Bits : f = Idx2Paddr(i, j) /\ j \in bitmap[i]}

(* The frame that an address lies in. *)
Owner == [a \in Address |-> {f \in Frames : f <= a /\ a < f + PageSize}]

Set == INSTANCE FrameSet WITH Frames <- Frames, Addresses <- Address,
                              Owner <- Owner, used <- Used

(* frame_alloc and frame_dealloc implement the set of frames that are      *)
(* handed out: no frame is given to two callers, none is refused while     *)
(* one is free, each can be given back and nothing else goes with it, and  *)
(* an address in no frame, or in one that is not handed out, is refused.   *)
(* Of an address inside a frame but not at its start nothing more is said: *)
(* the comment at frame.c:101 has it refused ("page-aligned address?"),    *)
(* the mask 0x3ff lets three of them in a page pass for the frame.         *)
ImplementsFrameSet == Set!Spec
=============================================================================
