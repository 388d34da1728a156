---------------------------- MODULE FrameProofs ----------------------------
(***************************************************************************)
(* Theorems about Frame for every size of the bitmap, of its words and of  *)
(* pages: type correctness, and that the bitmap implements FrameSet.       *)
(***************************************************************************)
EXTENDS Frame, NumberFacts, TLAPS

LEMMA Sizes ==
  /\ WordBits \in Nat \ {0} /\ Length \in Nat \ {0} /\ PageSize \in Nat \ {0}
  /\ AlignUnit \in Nat \ {0} /\ PaddrMin \in Nat \ {0} /\ AddressSpace \in Nat \ {0}
  /\ PaddrMin + PageSize * (WordBits * Length) <= AddressSpace
BY SizeAssumption

(* A number just below zero wraps around. *)
LEMMA ModBelowZero ==
  ASSUME NEW n \in Nat \ {0}, NEW a \in Int, a + n \in 0 .. n - 1
  PROVE  a % n = a + n
<1> DEFINE q == -1
           r == a + n
<1>1. q \in Int /\ r \in 0 .. n - 1 /\ n * q + r = a
  BY SMT
<1> HIDE DEF q, r
<1>2. (n * q + r) % n = r
  BY <1>1, DivModUnique
<1> QED
  BY <1>1, <1>2 DEF r

-----------------------------------------------------------------------------

(* The number of a bit lies in the bitmap, and its frame in memory. *)
LEMMA IdxRange ==
  ASSUME NEW i \in Words, NEW j \in Bits
  PROVE  /\ WordBits * i + j \in 0 .. WordBits * Length - 1
         /\ Idx2Paddr(i, j) \in Nat
         /\ PaddrMin <= Idx2Paddr(i, j)
         /\ Idx2Paddr(i, j) + PageSize <= AddressSpace
         /\ Idx2Paddr(i, j) \in Address
<1> DEFINE b == WordBits * i + j
<1>1. i \in Nat /\ i + 1 <= Length /\ j \in Nat /\ j < WordBits
  BY Sizes DEF Words, Bits
<1>2. WordBits * (i + 1) <= WordBits * Length
  BY <1>1, Sizes, TimesMonotone
<1>3. b \in Nat /\ b + 1 <= WordBits * Length /\ WordBits * Length \in Nat
  BY <1>1, <1>2, Sizes
<1>4. PageSize * (b + 1) <= PageSize * (WordBits * Length)
  BY <1>3, Sizes, TimesMonotone
<1>5. PageSize * b \in Nat /\ PageSize * (b + 1) = PageSize * b + PageSize
  BY <1>3, Sizes
<1> HIDE DEF b
<1>6. Idx2Paddr(i, j) = PaddrMin + PageSize * b
  BY DEF Idx2Paddr, b
<1>7. b \in 0 .. WordBits * Length - 1
  BY <1>3
<1>8. PageSize * (WordBits * Length) \in Int
  BY Sizes
<1>9. /\ Idx2Paddr(i, j) \in Nat /\ PaddrMin <= Idx2Paddr(i, j)
      /\ Idx2Paddr(i, j) + PageSize <= AddressSpace
  BY <1>4, <1>5, <1>6, <1>8, Sizes
<1>10. Idx2Paddr(i, j) \in Address
  BY <1>9, Sizes DEF Address
<1> QED
  BY <1>7, <1>9, <1>10 DEF b

LEMMA IdxOne ==
  ASSUME NEW i \in Words, NEW j \in Bits, NEW k \in Words, NEW l \in Bits,
         WordBits * i + j = WordBits * k + l
  PROVE  i = k /\ j = l
<1>1. /\ i \in Int /\ k \in Int /\ j \in 0 .. WordBits - 1 /\ l \in 0 .. WordBits - 1
  BY DEF Words, Bits
<1>2. /\ (WordBits * i + j) \div WordBits = i
      /\ (WordBits * i + j) % WordBits = j
      /\ (WordBits * k + l) \div WordBits = k
      /\ (WordBits * k + l) % WordBits = l
  BY <1>1, Sizes, DivModUnique
<1> QED
  BY <1>2

(* An address lies in the frame of a bit just when _paddr2idx finds the    *)
(* bit for it.                                                             *)
LEMMA InFrame ==
  ASSUME NEW a \in Address, NEW i \in Words, NEW j \in Bits
  PROVE  Idx2Paddr(i, j) <= a /\ a < Idx2Paddr(i, j) + PageSize
           <=> PageNum(a) = WordBits * i + j
<1> DEFINE b == WordBits * i + j
           d == (a - PaddrMin) % AddressSpace
<1>1. /\ b \in Nat /\ b + 1 <= WordBits * Length
      /\ PageSize * b \in Nat
      /\ WordBits * Length \in Nat /\ PageSize * (WordBits * Length) \in Nat
  BY IdxRange, Sizes
<1>2. a \in Nat /\ a < AddressSpace
  BY Sizes DEF Address
<1>3. CASE PaddrMin <= a
  <2>1. a - PaddrMin \in 0 .. AddressSpace - 1
    BY <1>2, <1>3, Sizes
  <2>2. d = a - PaddrMin
    BY <2>1, Sizes, DivModUnique, AddressSpace * 0 + (a - PaddrMin) = a - PaddrMin
  <2>3. d \in Nat
    BY <2>1, <2>2
  <2>4. /\ d \div PageSize \in Nat /\ d % PageSize \in 0 .. PageSize - 1
        /\ d = PageSize * (d \div PageSize) + (d % PageSize)
    BY <2>3, Sizes, DivMod
  <2>5. ASSUME d \div PageSize = b
        PROVE  Idx2Paddr(i, j) <= a /\ a < Idx2Paddr(i, j) + PageSize
    <3> HIDE DEF b, d
    <3>1. d = PageSize * b + (d % PageSize) /\ d % PageSize \in 0 .. PageSize - 1
      BY <2>4, <2>5
    <3>2. PageSize * b <= d /\ d < PageSize * b + PageSize
      <4> DEFINE r == d % PageSize
      <4> HIDE DEF r
      <4> QED
        BY <1>1, <3>1, Sizes DEF r
    <3> QED
      BY <1>1, <1>2, <2>2, <3>2, Sizes DEF Idx2Paddr, b
  <2>6. ASSUME Idx2Paddr(i, j) <= a, a < Idx2Paddr(i, j) + PageSize
        PROVE  d \div PageSize = b
    <3>1. d - PageSize * b \in 0 .. PageSize - 1
      <4> HIDE DEF b, d
      <4>1. PaddrMin + PageSize * b <= a /\ a < PaddrMin + PageSize * b + PageSize
        BY <2>6 DEF Idx2Paddr, b
      <4> QED
        BY <1>1, <1>2, <2>2, <4>1, Sizes
    <3>2. PageSize * b + (d - PageSize * b) = d
      BY <1>1, <2>3
    <3> HIDE DEF b, d
    <3>3. (PageSize * b + (d - PageSize * b)) \div PageSize = b
      BY <1>1, <3>1, Sizes, DivModUnique
    <3> QED
      BY <3>2, <3>3
  <2> QED
    BY <2>5, <2>6 DEF PageNum
<1>4. CASE a < PaddrMin
  <2>1. a - PaddrMin + AddressSpace \in 0 .. AddressSpace - 1
    BY <1>1, <1>2, <1>4, Sizes
  <2>2. d = a - PaddrMin + AddressSpace
    <3>1. a - PaddrMin \in Int
      BY <1>2, Sizes
    <3> QED
      BY <2>1, <3>1, Sizes, ModBelowZero
  <2>3. d >= PageSize * (WordBits * Length) /\ d \in Nat
    BY <1>1, <1>2, <2>1, <2>2, Sizes
  <2>4. /\ d \div PageSize \in Nat /\ d % PageSize \in 0 .. PageSize - 1
        /\ d = PageSize * (d \div PageSize) + (d % PageSize)
    BY <2>3, Sizes, DivMod
  <2>5. d \div PageSize # b
    <3>1. PageSize * (b + 1) <= PageSize * (WordBits * Length)
      BY <1>1, Sizes, TimesMonotone
    <3>2. PageSize * (b + 1) = PageSize * b + PageSize
      BY <1>1, Sizes
    <3> HIDE DEF b, d
    <3> QED
      BY <1>1, <2>3, <2>4, <3>1, <3>2, Sizes
  <2>6. ~(Idx2Paddr(i, j) <= a)
    BY <1>2, <1>4, IdxRange, Sizes
  <2> QED
    BY <2>5, <2>6 DEF PageNum
<1> QED
  BY <1>2, <1>3, <1>4, Sizes

-----------------------------------------------------------------------------

(* No two bits have one frame. *)
LEMMA FrameOne ==
  ASSUME NEW i \in Words, NEW j \in Bits, NEW k \in Words, NEW l \in Bits,
         Idx2Paddr(i, j) = Idx2Paddr(k, l)
  PROVE  i = k /\ j = l
<1> DEFINE a == Idx2Paddr(i, j)
<1>1. a \in Address /\ a \in Nat
  BY IdxRange
<1>2. a <= a /\ a < a + PageSize
  BY <1>1, Sizes
<1>3. PageNum(a) = WordBits * i + j /\ PageNum(a) = WordBits * k + l
  BY <1>1, <1>2, InFrame
<1> QED
  BY <1>3, IdxOne

(* A frame begins at an address that frame_dealloc takes. *)
LEMMA FrameAligned ==
  ASSUME NEW i \in Words, NEW j \in Bits
  PROVE  Idx2Paddr(i, j) % AlignUnit = 0
<1> DEFINE b == WordBits * i + j
           p == PaddrMin \div AlignUnit
           q == PageSize \div AlignUnit
<1>1. b \in Nat
  BY IdxRange, Sizes
<1>2. p \in Nat /\ q \in Nat /\ PaddrMin = AlignUnit * p /\ PageSize = AlignUnit * q
  <2>1. /\ p \in Nat /\ PaddrMin = AlignUnit * p + (PaddrMin % AlignUnit)
        /\ q \in Nat /\ PageSize = AlignUnit * q + (PageSize % AlignUnit)
    BY Sizes, DivMod
  <2> HIDE DEF p, q
  <2>2. AlignUnit * p \in Nat /\ AlignUnit * q \in Nat
    BY <2>1, Sizes
  <2> QED
    BY <2>1, <2>2, SizeAssumption
<1> HIDE DEF b, p, q
<1>3. p + q * b \in Int /\ AlignUnit * (p + q * b) + 0 = PaddrMin + PageSize * b
  <2>1. AlignUnit * (p + q * b) = AlignUnit * p + (AlignUnit * q) * b
    BY <1>1, <1>2, Sizes
  <2>2. AlignUnit * (p + q * b) \in Int /\ p + q * b \in Int
    BY <1>1, <1>2, Sizes
  <2> QED
    BY <1>2, <2>1, <2>2
<1>4. (AlignUnit * (p + q * b) + 0) % AlignUnit = 0
  <2> DEFINE t == p + q * b
  <2>1. t \in Int /\ 0 \in 0 .. AlignUnit - 1
    BY <1>3, Sizes
  <2> HIDE DEF t
  <2>2. (AlignUnit * t + 0) % AlignUnit = 0
    BY <2>1, Sizes, DivModUnique
  <2> QED
    BY <2>2 DEF t
<1> QED
  BY <1>3, <1>4 DEF Idx2Paddr, b

LEMMA BitOfFrame ==
  ASSUME NEW S, NEW k \in Words, NEW l \in Bits
  PROVE  (\E i \in Words, j \in Bits : Idx2Paddr(k, l) = Idx2Paddr(i, j) /\ j \in S[i])
           <=> l \in S[k]
BY FrameOne

(* Where _paddr2idx leads. *)
LEMMA BitOfAddress ==
  ASSUME NEW a \in Address
  PROVE  /\ PageNum(a) \div WordBits \in Nat
         /\ PageNum(a) % WordBits \in Bits
         /\ PageNum(a) = WordBits * (PageNum(a) \div WordBits) + (PageNum(a) % WordBits)
<1>1. (a - PaddrMin) % AddressSpace \in Nat
  <2>1. a - PaddrMin \in Int
    BY Sizes DEF Address
  <2> QED
    BY <2>1, Sizes
<1>2. PageNum(a) \in Nat
  BY <1>1, Sizes, DivMod DEF PageNum
<1> QED
  BY <1>2, Sizes, DivMod DEF Bits

-----------------------------------------------------------------------------

LEMMA InitType == Init => TypeOK
<1>1. 0 \in Address
  BY Sizes DEF Address
<1> QED
  BY <1>1 DEF Init, TypeOK

LEMMA TypeStep == TypeOK /\ [Next]_vars => TypeOK'
<1> SUFFICES ASSUME TypeOK, [Next]_vars PROVE TypeOK'
  OBVIOUS
<1>1. 0 \in Address /\ 1 \in Address
  <2>1. 2 <= AddressSpace
    <3>1. 0 \in Words /\ 0 \in Bits
      BY Sizes DEF Words, Bits
    <3> QED
      BY <3>1, IdxRange, Sizes
  <2> QED
    BY <2>1, Sizes DEF Address
<1>2. CASE FrameAlloc
  <2>1. CASE \E i \in Words, j \in Bits : Take(i, j)
    <3>1. PICK i \in Words, j \in Bits : Take(i, j)
      BY <2>1
    <3> QED
      BY <3>1, IdxRange DEF TypeOK, Take
  <2>2. CASE result' = 0 /\ UNCHANGED bitmap
    BY <1>1, <2>2 DEF TypeOK
  <2> QED
    BY <1>2, <2>1, <2>2 DEF FrameAlloc
<1>3. ASSUME NEW a \in Address, FrameDealloc(a) PROVE TypeOK'
  <2>1. CASE Holds(a)
    BY <1>1, <1>3, <2>1 DEF TypeOK, FrameDealloc
  <2>2. CASE ~Holds(a)
    BY <1>1, <1>3, <2>2 DEF TypeOK, FrameDealloc
  <2> QED
    BY <2>1, <2>2
<1>4. CASE UNCHANGED vars
  BY <1>4 DEF TypeOK, vars
<1> QED
  BY <1>2, <1>3, <1>4 DEF Next

(* The bitmap keeps its type, and frame_alloc returns an address of the    *)
(* address space whatever the sizes are.                                   *)
THEOREM TypeCorrect == Spec => []TypeOK
<1> QED
  BY InitType, TypeStep, PTL DEF Spec

-----------------------------------------------------------------------------

LEMMA UsedFrame ==
  ASSUME NEW i \in Words, NEW j \in Bits
  PROVE  /\ Idx2Paddr(i, j) \in Frames
         /\ Idx2Paddr(i, j) \in Used <=> j \in bitmap[i]
<1>1. Idx2Paddr(i, j) \in Frames
  BY DEF Frames
<1> QED
  BY <1>1, BitOfFrame DEF Used

LEMMA UsedFrameNext ==
  ASSUME NEW i \in Words, NEW j \in Bits
  PROVE  Idx2Paddr(i, j) \in Used' <=> j \in bitmap'[i]
<1>1. Idx2Paddr(i, j) \in Frames
  BY DEF Frames
<1> QED
  BY <1>1, BitOfFrame DEF Used

(* What frame_alloc hands out was free, and nothing else changes. *)
LEMMA TakeRefines ==
  ASSUME TypeOK, NEW i \in Words, NEW j \in Bits, j \notin bitmap[i], Take(i, j)
  PROVE  Set!Alloc
<1> DEFINE f == Idx2Paddr(i, j)
<1>1. f \in Frames \ Used /\ result' = f
  BY UsedFrame DEF Take
<1>2. ASSUME NEW g \in Frames PROVE g \in Used' <=> g \in Used \cup {f}
  <2>1. PICK k \in Words, l \in Bits : g = Idx2Paddr(k, l)
    BY DEF Frames
  <2>2. l \in bitmap'[k] <=> l \in bitmap[k] \/ <<k, l>> = <<i, j>>
    BY DEF Take, TypeOK
  <2>3. g = f <=> <<k, l>> = <<i, j>>
    BY <2>1, FrameOne
  <2> QED
    BY <2>1, <2>2, <2>3, UsedFrame, UsedFrameNext
<1>3. Used \subseteq Frames /\ Used' \subseteq Frames
  BY DEF Used, Frames
<1>4. Used' = Used \cup {f}
  BY <1>1, <1>2, <1>3
<1> QED
  BY <1>1, <1>3, <1>4 DEF Set!Alloc

(* It refuses only when every frame is taken. *)
LEMMA AllTaken ==
  ASSUME TypeOK, \A i \in Words : ~HasFreeFrame(i)
  PROVE  Used = Frames
<1>1. ASSUME NEW f \in Frames PROVE f \in Used
  <2>1. PICK i \in Words, j \in Bits : f = Idx2Paddr(i, j)
    BY DEF Frames
  <2>2. j \in bitmap[i]
    BY <2>1 DEF HasFreeFrame
  <2> QED
    BY <2>1, <2>2, UsedFrame
<1> QED
  BY <1>1 DEF Used

(* The address passed lies in the frame whose bit is cleared, and in no    *)
(* other.                                                                  *)
LEMMA DeallocRefines ==
  ASSUME TypeOK, NEW a \in Address, FrameDealloc(a)
  PROVE  Set!Dealloc(a)
<1> DEFINE i == PageNum(a) \div WordBits
           j == PageNum(a) % WordBits
           f == Idx2Paddr(i, j)
<1>1. i \in Nat /\ j \in Bits /\ PageNum(a) = WordBits * i + j
  BY BitOfAddress
<1> HIDE DEF i, j
<1>2. CASE Holds(a)
  <2>1. /\ i < Length /\ j \in bitmap[i]
        /\ bitmap' = [bitmap EXCEPT ![i] = @ \ {j}] /\ result' = 0
    BY <1>2 DEF FrameDealloc, Holds, i, j
  <2>2. i \in Words
    BY <1>1, <2>1, Sizes DEF Words
  <2>3. f \in Used
    BY <1>1, <2>1, <2>2, UsedFrame
  <2>4. ASSUME NEW g \in Frames
        PROVE  g \in Owner[a] <=> g = f
    <3>1. PICK k \in Words, l \in Bits : g = Idx2Paddr(k, l)
      BY DEF Frames
    <3>2. g \in Owner[a] <=> PageNum(a) = WordBits * k + l
      BY <2>1, <3>1, InFrame DEF Owner
    <3>3. PageNum(a) = WordBits * k + l <=> g = f
      BY <1>1, <2>2, <3>1, IdxOne, FrameOne
    <3> QED
      BY <3>2, <3>3
  <2>5. Owner[a] \subseteq Frames /\ Used \subseteq Frames /\ Used' \subseteq Frames
    BY DEF Owner, Used
  <2>6. Owner[a] = {f}
    BY <2>3, <2>4, <2>5
  <2>7. ASSUME NEW g \in Frames PROVE g \in Used' <=> g \in Used \ {f}
    <3>1. PICK k \in Words, l \in Bits : g = Idx2Paddr(k, l)
      BY DEF Frames
    <3>2. l \in bitmap'[k] <=> l \in bitmap[k] /\ <<k, l>> # <<i, j>>
      BY <2>1, <2>2 DEF TypeOK
    <3>3. g = f <=> <<k, l>> = <<i, j>>
      BY <1>1, <2>2, <3>1, FrameOne
    <3> QED
      BY <3>1, <3>2, <3>3, UsedFrame, UsedFrameNext
  <2>8. Used' = Used \ {f}
    BY <2>5, <2>7
  <2> QED
    BY <2>1, <2>3, <2>6, <2>8 DEF Set!Dealloc
<1>3. CASE ~Holds(a)
  <2>1. result' = 1 /\ UNCHANGED bitmap
    BY <1>3 DEF FrameDealloc
  <2>2. ASSUME a \in Used PROVE FALSE
    <3>1. PICK k \in Words, l \in Bits : a = Idx2Paddr(k, l) /\ l \in bitmap[k]
      BY <2>2 DEF Used
    <3>2. a % AlignUnit = 0 /\ a <= a /\ a < a + PageSize
      BY <3>1, FrameAligned, IdxRange, Sizes
    <3>3. PageNum(a) = WordBits * k + l
      BY <3>1, <3>2, InFrame
    <3>4. k \in Int /\ l \in 0 .. WordBits - 1 /\ k < Length
      BY Sizes DEF Words, Bits
    <3>5. i = k /\ j = l
      BY <3>3, <3>4, Sizes, DivModUnique DEF i, j
    <3> QED
      BY <1>3, <3>1, <3>2, <3>4, <3>5 DEF Holds, i, j
  <2>3. Used' = Used
    BY <2>1 DEF Used
  <2> QED
    BY <2>1, <2>2, <2>3 DEF Set!Dealloc
<1> QED
  BY <1>2, <1>3

LEMMA InitRefines == Init => Set!Init
BY DEF Init, Set!Init, Used

LEMMA StepRefines == TypeOK /\ [Next]_vars => [Set!Next]_(Set!vars)
<1> SUFFICES ASSUME TypeOK, [Next]_vars PROVE [Set!Next]_(Set!vars)
  OBVIOUS
<1>1. CASE FrameAlloc
  <2>1. CASE \E i \in Words, j \in Bits : GetClearBitNum(i, j) /\ Take(i, j)
    BY <2>1, TakeRefines DEF GetClearBitNum, Set!Next
  <2>2. CASE /\ \A i \in Words : ~HasFreeFrame(i)
             /\ result' = 0
             /\ UNCHANGED bitmap
    <3>1. Used = Frames /\ Used' = Used
      BY <2>2, AllTaken DEF Used
    <3> QED
      BY <2>2, <3>1 DEF Set!Next, Set!Alloc
  <2> QED
    BY <1>1, <2>1, <2>2 DEF FrameAlloc
<1>2. ASSUME NEW a \in Address, FrameDealloc(a) PROVE Set!Next
  BY <1>2, DeallocRefines DEF Set!Next
<1>3. CASE UNCHANGED vars
  BY <1>3 DEF vars, Set!vars, Used
<1> QED
  BY <1>1, <1>2, <1>3 DEF Next

(* The bitmap implements the set of frames handed out, for every size of   *)
(* memory, of pages and of a word, and for every address that is given to  *)
(* frame_dealloc, those below PADDR_MIN and behind the last frame included.*)
THEOREM Refinement == Spec => ImplementsFrameSet
<1> QED
  BY InitRefines, StepRefines, TypeCorrect, PTL DEF Spec, ImplementsFrameSet, Set!Spec
=============================================================================
