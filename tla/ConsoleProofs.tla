--------------------------- MODULE ConsoleProofs ---------------------------
(***************************************************************************)
(* Theorems about Console for a line buffer, a keyboard queue and a screen *)
(* of any size and for any set of keys: types and bounds, which interrupts *)
(* are let through, the hand-over of a line, and that the screen shows the *)
(* line as it is edited.  The last rests on an invariant of its own, Quiet *)
(* and Drawn; what a string of characters does to the screen is proved     *)
(* from the fold that writes it, by induction over its length.             *)
(*                                                                         *)
(* The lemmas about the screen serve the theorems about Printf as well,    *)
(* which follow: for every format, argument and size of the screen, the    *)
(* scan stays in its format (PrintfInv), the screen shows what was written *)
(* (Showing), and a field is the one its directive asks for                *)
(* (FollowsAsked).                                                         *)
(***************************************************************************)
EXTENDS Console, Printf, NumberFacts, SequenceTheorems, FiniteSetTheorems, TLAPS

(* A request that is latched has a key behind it. *)
Latched == requested => pending # <<>>

(* Where IF is clear: in the loader, until kmain is ready, and from        *)
(* get_line's look at the line to the next prompt.                         *)
ShutOut == /\ ~Kernel => ~intr
           /\ pc \in BootPC => ~intr
           /\ pc \in {"test", "open", "take", "reset", "echo"} => ~intr

(* What the two programs come through. *)
Booting == /\ pc \in {"pit", "load"} => ~Kernel
           /\ pc = "sti" => Kernel

(* The kernel's lines: the timer stays masked, the keyboard has its gate. *)
Connected ==
  /\ Kernel /\ pc \notin {"idt", "pic"} => PIT_IRQ_NUM \in imr
  /\ Kernel /\ pc \in {"sti"} \cup ShellPC
       => gate[KEYBOARD_IRQ_NUM] = Isr[KEYBOARD_IRQ_NUM]

(* get_line takes a line that is completed. *)
Fetching == pc \in {"take", "reset"} => completed

Types == InterruptsTypeOK /\ EditorTypeOK

Control == Latched /\ ShutOut /\ Booting /\ Connected

HandOver == Fetching /\ NothingDropped /\ LineAsEntered

IInv == Types /\ Control /\ HandOver

-----------------------------------------------------------------------------
(* Sequences.                                                              *)

LEMMA AppendSeq ==
  ASSUME NEW S, NEW s \in Seq(S), NEW c \in S
  PROVE  /\ Append(s, c) \in Seq(S) /\ Append(s, c) # <<>>
         /\ Len(s) \in Nat /\ Len(Append(s, c)) = Len(s) + 1
OBVIOUS

LEMMA TailSeq ==
  ASSUME NEW S, NEW s \in Seq(S), s # <<>>
  PROVE  /\ Head(s) \in S /\ Tail(s) \in Seq(S)
         /\ Len(s) \in Nat \ {0} /\ Len(Tail(s)) = Len(s) - 1
OBVIOUS

LEMMA NotEmpty == ASSUME NEW S, NEW s \in Seq(S), Len(s) > 0 PROVE s # <<>>
BY EmptySeq

LEMMA TailMore ==
  ASSUME NEW S, NEW s \in Seq(S), Len(s) > 1
  PROVE  Tail(s) # <<>>
<1>1. Tail(s) \in Seq(S) /\ Len(Tail(s)) > 0
  BY NotEmpty, TailSeq
<1> QED
  BY <1>1, NotEmpty

LEMMA StartSeq ==
  ASSUME NEW S, NEW s \in Seq(S), NEW n \in 0 .. Len(s)
  PROVE  SubSeq(s, 1, n) \in Seq(S) /\ Len(SubSeq(s, 1, n)) = n
OBVIOUS

LEMMA FrontSeq ==
  ASSUME NEW S, NEW s \in Seq(S), s # <<>>
  PROVE  Front(s) \in Seq(S) /\ Len(s) \in Nat /\ Len(Front(s)) = Len(s) - 1
<1>1. Len(s) - 1 \in 0 .. Len(s) /\ Len(s) \in Nat
  BY TailSeq
<1> QED
  BY <1>1, StartSeq DEF Front

LEMMA PrefixSelf ==
  ASSUME NEW S, NEW s \in Seq(S) PROVE IsPrefix(s, s)
BY DEF IsPrefix

LEMMA PrefixAppend ==
  ASSUME NEW S, NEW s \in Seq(S), NEW t \in Seq(S), NEW c \in S, IsPrefix(s, t)
  PROVE  IsPrefix(s, Append(t, c))
BY DEF IsPrefix

LEMMA Sizes == IbufSize \in Nat \ {0} /\ KeysAhead \in Nat \ {0}
BY SizesAssumption

LEMMA LinesFacts ==
  /\ Lines = {0, 1} /\ PIT_IRQ_NUM = 0 /\ KEYBOARD_IRQ_NUM = 1
  /\ Isr \in [Lines -> {"absent", "isr32", "isr33", "dummy_isr", "pit_isr", "keyboard_isr"}]
  /\ LoaderIdt \in [Lines -> {"absent", "isr32", "isr33", "dummy_isr", "pit_isr", "keyboard_isr"}]
  /\ KernelIdt \in [Lines -> {"absent", "isr32", "isr33", "dummy_isr", "pit_isr", "keyboard_isr"}]
BY DEF Lines, PIT_IRQ_NUM, KEYBOARD_IRQ_NUM, Isr, LoaderIdt, KernelIdt, ForLines

-----------------------------------------------------------------------------
(* The screen.                                                             *)

(* The cursor as a number of cells from the top left one on; rows that     *)
(* wrapped below the first are negative.                                   *)
Row(y) == IF y < Rows THEN y * Cols ELSE (y - CursRange) * Cols
Place(s) == Row(s.y) + s.x

(* The cells of the screen, and of the rows it does not show. *)
Area  == Rows * Cols
Above == (CursRange - Rows) * Cols

ScreensOf(G) == {s \in [cell : Seq(G), x : 0 .. Cols - 1, y : 0 .. CursRange - 1] :
              Len(s.cell) = Area}

(* What t has kept of s when its contents moved up by d cells. *)
Lifted(s, t, d) ==
  \A i \in 1 .. Area : t.cell[i] = IF i + d > Area THEN Blank ELSE s.cell[i + d]

LEMMA ScreenSizes ==
  /\ Rows \in Nat \ {0} /\ Cols \in Nat \ {0} /\ CursRange \in Nat /\ CursRange > Rows
  /\ TabWidth \in Nat \ {0}
  /\ Area \in Nat /\ Area >= Cols /\ Above \in Nat
<1>1. /\ Rows \in Nat \ {0} /\ Cols \in Nat \ {0} /\ CursRange \in Nat /\ CursRange > Rows
      /\ TabWidth \in Nat \ {0}
  BY ScreenAssumption
<1>2. /\ Cols * 1 <= Cols * Rows /\ Cols * Rows \in Int
      /\ Cols * 0 <= Cols * (CursRange - Rows) /\ Cols * (CursRange - Rows) \in Int
  BY <1>1, TimesMonotone
<1>3. /\ Cols * 1 = Cols /\ Cols * 0 = 0 /\ Area = Cols * Rows
      /\ Above = Cols * (CursRange - Rows)
  BY <1>1 DEF Area, Above
<1> QED
  BY <1>1, <1>2, <1>3

(* The rows of the screen lie in the area, the others before it. *)
LEMMA RowFacts ==
  /\ \A y \in 0 .. CursRange - 1 :
       /\ Row(y) \in Int
       /\ y < Rows => Row(y) >= 0 /\ Row(y) + Cols <= Area
       /\ y >= Rows => Row(y) + Cols <= 0 /\ Row(y) >= - Above
       /\ y # Rows - 1 /\ y + 1 < CursRange => Row(y + 1) = Row(y) + Cols
       /\ y # Rows /\ y > 0 => Row(y - 1) = Row(y) - Cols
  /\ Row(0) = 0
  /\ Row(Rows - 1) = Area - Cols
  /\ Row(Rows) = - Above
  /\ Row(CursRange - 1) = - Cols
<1>1. /\ Rows \in Nat \ {0} /\ Cols \in Nat \ {0} /\ CursRange \in Nat /\ CursRange > Rows
  BY ScreenSizes
<1>2. ASSUME NEW y \in 0 .. CursRange - 1
      PROVE  /\ Row(y) \in Int
             /\ y < Rows => Row(y) >= 0 /\ Row(y) + Cols <= Area
             /\ y >= Rows => Row(y) + Cols <= 0 /\ Row(y) >= - Above
  <2>1. /\ Cols * y \in Int /\ Cols * (y - CursRange) \in Int
        /\ y * Cols = Cols * y /\ (y - CursRange) * Cols = Cols * (y - CursRange)
        /\ Area = Cols * Rows
    BY <1>1 DEF Area
  <2>2. y < Rows => Cols * 0 <= Cols * y /\ Cols * (y + 1) <= Cols * Rows
    BY <1>1, TimesMonotone
  <2>3. y >= Rows => /\ Cols * (y - CursRange) <= Cols * (-1)
                     /\ Cols * (Rows - CursRange) <= Cols * (y - CursRange)
    BY <1>1, TimesMonotone
  <2>4. /\ Cols * (y + 1) = Cols * y + Cols
        /\ Cols * 0 = 0 /\ Cols * (-1) = - Cols
        /\ Cols * (Rows - CursRange) = - Above
    BY <1>1 DEF Above
  <2> QED
    BY <1>1, <2>1, <2>2, <2>3, <2>4 DEF Row
<1>3. ASSUME NEW y \in 0 .. CursRange - 1
      PROVE  /\ y # Rows - 1 /\ y + 1 < CursRange => Row(y + 1) = Row(y) + Cols
             /\ y # Rows /\ y > 0 => Row(y - 1) = Row(y) - Cols
  BY <1>1 DEF Row
<1>4. /\ Row(0) = 0 /\ Row(Rows - 1) = Area - Cols /\ Row(Rows) = - Above
      /\ Row(CursRange - 1) = - Cols
  BY <1>1 DEF Row, Area, Above
<1> QED
  BY <1>2, <1>3, <1>4

LEMMA ScreenOf ==
  ASSUME NEW G, Blank \in G, NEW s \in ScreensOf(G)
  PROVE  /\ s.y \in 0 .. CursRange - 1 /\ s.x \in 0 .. Cols - 1
         /\ s.cell \in Seq(G) /\ Len(s.cell) = Area
         /\ s = [cell |-> s.cell, x |-> s.x, y |-> s.y]
         /\ Row(s.y) \in Int /\ Place(s) = Row(s.y) + s.x
         /\ Place(s) < Area /\ Place(s) >= - Above
         /\ OnScreen(s) <=> Place(s) >= 0
         /\ OnScreen(s) <=> s.y < Rows
<1>1. /\ s.y \in 0 .. CursRange - 1 /\ s.x \in 0 .. Cols - 1
      /\ s.cell \in Seq(G) /\ Len(s.cell) = Area
      /\ s = [cell |-> s.cell, x |-> s.x, y |-> s.y]
  BY DEF ScreensOf
<1>2. /\ Row(s.y) \in Int
      /\ s.y < Rows => Row(s.y) >= 0 /\ Row(s.y) + Cols <= Area
      /\ s.y >= Rows => Row(s.y) + Cols <= 0 /\ Row(s.y) >= - Above
  BY <1>1, RowFacts
<1>3. Place(s) = Row(s.y) + s.x /\ (OnScreen(s) <=> s.y < Rows)
  BY DEF Place, OnScreen
<1> QED
  BY <1>1, <1>2, <1>3, ScreenSizes, SMTT(30)

LEMMA ClearScreenOf ==
  ASSUME NEW G, Blank \in G
  PROVE  /\ ClearScreen \in ScreensOf(G) /\ Place(ClearScreen) = 0
         /\ \A i \in 1 .. Area : ClearScreen.cell[i] = Blank
<1>1. Blanks(Area) \in Seq(G) /\ Len(Blanks(Area)) = Area
      /\ \A i \in 1 .. Area : Blanks(Area)[i] = Blank
  BY ScreenSizes DEF Blanks
<1>2. ClearScreen = [cell |-> Blanks(Area), x |-> 0, y |-> 0]
  BY DEF ClearScreen, Area
<1> HIDE DEF ClearScreen
<1>3. ClearScreen \in ScreensOf(G)
  BY <1>1, <1>2, ScreenSizes DEF ScreensOf
<1>4. Place(ClearScreen) = 0
  BY <1>2, RowFacts DEF Place
<1> QED
  BY <1>1, <1>2, <1>3, <1>4

LEMMA ScrollDownOf ==
  ASSUME NEW G, Blank \in G, NEW s \in ScreensOf(G)
  PROVE  /\ ScrollDown(s.cell) \in Seq(G) /\ Len(ScrollDown(s.cell)) = Area
         /\ \A i \in 1 .. Area :
              ScrollDown(s.cell)[i] = IF i + Cols > Area THEN Blank ELSE s.cell[i + Cols]
<1> DEFINE a == SubSeq(s.cell, Cols + 1, Area)
           b == Blanks(Cols)
<1>1. s.cell \in Seq(G) /\ Len(s.cell) = Area
  BY DEF ScreensOf
<1>2. a \in Seq(G) /\ Len(a) = Area - Cols
      /\ \A i \in 1 .. Area - Cols : a[i] = s.cell[i + Cols]
  <2>1. \A i \in Cols + 1 .. Area : s.cell[i] \in G
    BY <1>1, ScreenSizes
  <2>2. /\ a \in Seq(G)
        /\ Len(a) = IF Cols + 1 <= Area THEN Area - (Cols + 1) + 1 ELSE 0
        /\ \A i \in 1 .. Area - (Cols + 1) + 1 : a[i] = s.cell[Cols + 1 + i - 1]
    BY <2>1, ScreenSizes, SubSeqProperties
  <2> HIDE DEF a
  <2>4. Area - (Cols + 1) + 1 = Area - Cols
        /\ \A i \in 1 .. Area - Cols : Cols + 1 + i - 1 = i + Cols
    BY ScreenSizes
  <2>5. \A i \in 1 .. Area - Cols : a[i] = s.cell[i + Cols]
    BY <2>2, <2>4
  <2>6. Len(a) = Area - Cols
    BY <2>2, ScreenSizes
  <2> QED
    BY <2>2, <2>5, <2>6
<1>3. b \in Seq(G) /\ Len(b) = Cols /\ \A i \in 1 .. Cols : b[i] = Blank
  BY ScreenSizes DEF Blanks
<1>4. ScrollDown(s.cell) = a \o b
  BY DEF ScrollDown, Area
<1> HIDE DEF a, b
<1>5. /\ a \o b \in Seq(G) /\ Len(a \o b) = Len(a) + Len(b)
      /\ \A i \in 1 .. Len(a) + Len(b) :
           (a \o b)[i] = IF i <= Len(a) THEN a[i] ELSE b[i - Len(a)]
  BY <1>2, <1>3, ConcatProperties
<1>6. ASSUME NEW i \in 1 .. Area
      PROVE  (a \o b)[i] = IF i + Cols > Area THEN Blank ELSE s.cell[i + Cols]
  BY <1>2, <1>3, <1>5, ScreenSizes
<1>7. Len(a \o b) = Area
  BY <1>2, <1>3, <1>5, ScreenSizes
<1> QED
  BY <1>4, <1>5, <1>6, <1>7

(* A line feed moves the cursor to the next row's beginning, or, from the  *)
(* last row, the contents up.                                              *)
LEMMA LineFeedOf ==
  ASSUME NEW G, Blank \in G, NEW s \in ScreensOf(G)
  PROVE  /\ LineFeed(s) \in ScreensOf(G)
         /\ \E d \in {0, Cols} :
              /\ Place(LineFeed(s)) = Place(s) - s.x + Cols - d
              /\ Lifted(s, LineFeed(s), d)
              /\ d = Cols => Place(LineFeed(s)) = Area - Cols
              /\ d = 0 => Place(s) - s.x + Cols < Area
<1> DEFINE t == LineFeed(s)
           y == (s.y + 1) % CursRange
<1>1. /\ s.y \in 0 .. CursRange - 1 /\ s.x \in 0 .. Cols - 1
      /\ s.cell \in Seq(G) /\ Len(s.cell) = Area
      /\ s = [cell |-> s.cell, x |-> s.x, y |-> s.y]
      /\ Row(s.y) \in Int /\ Place(s) = Row(s.y) + s.x
  BY ScreenOf
<1>2. y = IF s.y = CursRange - 1 THEN 0 ELSE s.y + 1
  <2>1. CASE s.y = CursRange - 1
    <3>1. (CursRange * 1 + 0) % CursRange = 0 /\ CursRange * 1 + 0 = s.y + 1
      BY <2>1, ScreenSizes, DivModUnique
    <3> QED
      BY <2>1, <3>1
  <2>2. CASE s.y # CursRange - 1
    <3>1. s.y + 1 \in 0 .. CursRange - 1
      BY <1>1, <2>2, ScreenSizes, SMTT(30)
    <3>2. (CursRange * 0 + (s.y + 1)) % CursRange = s.y + 1
      <4>1. \A q \in Int, r \in 0 .. CursRange - 1 : (CursRange * q + r) % CursRange = r
        BY ScreenSizes, CursRange \in Nat \ {0}, DivModUnique, Zenon
      <4> QED
        BY <3>1, <4>1
    <3>3. CursRange * 0 + (s.y + 1) = s.y + 1
      BY <1>1, ScreenSizes
    <3> QED
      BY <2>2, <3>2, <3>3
  <2> QED
    BY <2>1, <2>2
<1> HIDE DEF y
<1>3. CASE s.y = Rows - 1
  <2>1. t = [cell |-> ScrollDown(s.cell), x |-> 0, y |-> Rows - 1]
    <3>1. y = Rows
      BY <1>2, <1>3, ScreenSizes
    <3> QED
      BY <3>1 DEF LineFeed, y
  <2> HIDE DEF t
  <2>2. t \in ScreensOf(G)
    BY <2>1, ScrollDownOf, ScreenSizes DEF ScreensOf
  <2>3. Place(t) = Area - Cols /\ Row(s.y) = Area - Cols
    BY <1>3, <2>1, RowFacts, ScreenSizes DEF Place
  <2>4. Lifted(s, t, Cols)
    BY <2>1, ScrollDownOf DEF Lifted
  <2> QED
    BY <1>1, <2>2, <2>3, <2>4, ScreenSizes DEF t
<1>4. CASE s.y # Rows - 1
  <2>1. t = [cell |-> s.cell, x |-> 0, y |-> y] /\ y \in 0 .. CursRange - 1
    <3>1. y # Rows /\ y \in 0 .. CursRange - 1
      <4>1. CASE s.y = CursRange - 1
        BY <1>2, <4>1, ScreenSizes
      <4>2. CASE s.y # CursRange - 1
        <5>1. y = s.y + 1
          BY <1>2, <4>2
        <5>2. s.y \in Int /\ Rows \in Int /\ CursRange \in Int
          BY <1>1, ScreenSizes
        <5>3. s.y + 1 # Rows
          BY <1>4, <5>2
        <5>4. s.y + 1 \in 0 .. CursRange - 1
          BY <1>1, <4>2, <5>2
        <5> QED
          BY <5>1, <5>3, <5>4
      <4> QED
        BY <4>1, <4>2
    <3>2. t = [s EXCEPT !.x = 0, !.y = y]
      BY <3>1 DEF LineFeed, y
    <3> QED
      BY <1>1, <3>1, <3>2
  <2> HIDE DEF t
  <2>2. t \in ScreensOf(G)
    BY <1>1, <2>1, ScreenSizes DEF ScreensOf
  <2>3. Row(y) = Row(s.y) + Cols /\ Row(s.y) + Cols < Area
    <3>1. CASE s.y < CursRange - 1
      <4>1. Row(s.y + 1) = Row(s.y) + Cols
        BY <1>1, <1>4, <3>1, RowFacts, ScreenSizes, SMTT(30)
      <4>2. Row(s.y + 1) + Cols <= Area
        <5>1. s.y + 1 \in 0 .. CursRange - 1
          BY <1>1, <3>1, ScreenSizes
        <5>2. /\ Row(s.y + 1) \in Int
              /\ s.y + 1 < Rows => Row(s.y + 1) + Cols <= Area
              /\ s.y + 1 >= Rows => Row(s.y + 1) + Cols <= 0
          BY <5>1, RowFacts
        <5> QED
          BY <5>1, <5>2, ScreenSizes
      <4> QED
        BY <1>1, <1>2, <3>1, <4>1, <4>2, ScreenSizes, SMTT(30)
    <3>2. CASE s.y = CursRange - 1
      <4>1. Row(s.y) = - Cols /\ Row(y) = 0
        BY <1>2, <3>2, RowFacts, Zenon
      <4> QED
        BY <1>1, <4>1, ScreenSizes
    <3> QED
      BY <1>1, <3>1, <3>2, ScreenSizes
  <2>4. Lifted(s, t, 0)
    BY <1>1, <2>1, ScreenSizes, SMTT(30) DEF Lifted
  <2>5. Place(t) = Place(s) - s.x + Cols
    BY <1>1, <2>1, <2>3, ScreenSizes DEF Place
  <2> QED
    BY <1>1, <2>2, <2>3, <2>4, <2>5, ScreenSizes DEF t
<1> QED
  BY <1>1, <1>3, <1>4, ScreenSizes

(* A character takes the cursor's cell, if that is on the screen. *)
LEMMA WriteCOf ==
  ASSUME NEW G, Blank \in G, NEW s \in ScreensOf(G), NEW c \in G
  PROVE  LET t == WriteC(s, c)
         IN  /\ t \in ScreensOf(G) /\ t.x = s.x /\ t.y = s.y /\ Place(t) = Place(s)
             /\ \A i \in 1 .. Area : t.cell[i] = IF i = Place(s) + 1 THEN c ELSE s.cell[i]
<1> DEFINE t == WriteC(s, c)
           idx == s.y * Cols + s.x
<1>1. /\ s.y \in 0 .. CursRange - 1 /\ s.x \in 0 .. Cols - 1
      /\ s.cell \in Seq(G) /\ Len(s.cell) = Area
      /\ s = [cell |-> s.cell, x |-> s.x, y |-> s.y]
      /\ Place(s) \in Int /\ Place(s) < Area
      /\ OnScreen(s) <=> Place(s) >= 0
  BY ScreenOf, ScreenSizes
<1>2. t = [s EXCEPT !.cell = IF idx < Area THEN ReplaceAt(@, idx + 1, c) ELSE @]
  BY DEF WriteC, Area
<1>3. IF OnScreen(s) THEN idx = Place(s) ELSE idx >= Area
  <2>1. CASE OnScreen(s)
    BY <2>1 DEF Place, Row, OnScreen
  <2>2. CASE ~OnScreen(s)
    <3>1. Cols * Rows <= Cols * s.y /\ Cols * s.y \in Int
      BY <1>1, <2>2, ScreenSizes, TimesMonotone DEF OnScreen
    <3>2. Cols * Rows = Area /\ Cols * s.y = s.y * Cols
      BY <1>1, ScreenSizes DEF Area
    <3> QED
      BY <1>1, <2>2, <3>1, <3>2, ScreenSizes, SMTT(30)
  <2> QED
    BY <2>1, <2>2
<1>4. CASE OnScreen(s)
  <2>1. idx = Place(s) /\ idx \in 0 .. Area - 1 /\ idx + 1 \in 1 .. Len(s.cell)
    BY <1>1, <1>3, <1>4, ScreenSizes, SMTT(30)
  <2> HIDE DEF idx
  <2>2. t = [cell |-> [s.cell EXCEPT ![idx + 1] = c], x |-> s.x, y |-> s.y]
    <3>0. idx < Rows * Cols
      BY <2>1, ScreenSizes DEF Area
    <3>1. t = [s EXCEPT !.cell = [s.cell EXCEPT ![idx + 1] = c]]
      BY <3>0, Zenon DEF WriteC, ReplaceAt, idx
    <3> HIDE DEF t
    <3> QED
      BY <1>1, <3>1
  <2> HIDE DEF t
  <2>3. /\ t.cell \in Seq(G) /\ Len(t.cell) = Area
        /\ \A i \in 1 .. Area : t.cell[i] = IF i = idx + 1 THEN c ELSE s.cell[i]
    BY <1>1, <2>1, <2>2, ExceptSeq
  <2>4. t \in ScreensOf(G)
    BY <1>1, <2>2, <2>3 DEF ScreensOf
  <2>5. Place(t) = Place(s)
    BY <2>2 DEF Place
  <2> QED
    BY <2>1, <2>2, <2>3, <2>4, <2>5 DEF t
<1>5. CASE ~OnScreen(s)
  <2>1. ~(idx < Area)
    BY <1>1, <1>3, <1>5, ScreenSizes
  <2>2. t = s
    <3>1. t = [s EXCEPT !.cell = s.cell]
      BY <1>2, <2>1
    <3> HIDE DEF t
    <3> QED
      BY <1>1, <3>1
  <2> HIDE DEF t, idx
  <2>3. \A i \in 1 .. Area : i # Place(s) + 1
    BY <1>1, <1>5, ScreenSizes
  <2> QED
    BY <2>2, <2>3 DEF t
<1> QED
  BY <1>4, <1>5

(* A character is put and the cursor goes on, with a line feed behind the  *)
(* last column.                                                            *)
LEMMA PutcAttrOf ==
  ASSUME NEW G, Blank \in G, NEW s \in ScreensOf(G), NEW c \in G
  PROVE  /\ PutcAttr(s, c) \in ScreensOf(G)
         /\ \E d \in {0, Cols} :
              /\ Place(PutcAttr(s, c)) = Place(s) + 1 - d
              /\ d = Cols => Place(s) + 1 = Area
              /\ d = 0 => Place(s) + 1 < Area
              /\ \A i \in 1 .. Area :
                   PutcAttr(s, c).cell[i] = IF i + d > Area THEN Blank
                                            ELSE IF i + d = Place(s) + 1 THEN c
                                            ELSE s.cell[i + d]
<1> DEFINE w == WriteC(s, c)
           t == PutcAttr(s, c)
<1>1. /\ w \in ScreensOf(G) /\ w.x = s.x /\ w.y = s.y /\ Place(w) = Place(s)
      /\ \A i \in 1 .. Area : w.cell[i] = IF i = Place(s) + 1 THEN c ELSE s.cell[i]
  BY WriteCOf
<1>2. /\ Cols \in Nat \ {0} /\ Area \in Nat /\ Place(s) \in Int
      /\ w.x \in 0 .. Cols - 1 /\ w.y \in 0 .. CursRange - 1
      /\ w = [cell |-> w.cell, x |-> w.x, y |-> w.y]
      /\ w.cell \in Seq(G) /\ Len(w.cell) = Area
      /\ Row(w.y) \in Int /\ Place(w) = Row(w.y) + w.x
      /\ Place(w) < Area
  BY <1>1, ScreenOf, ScreenSizes
<1>3. t = IF w.x + 1 = Cols THEN LineFeed(w) ELSE [w EXCEPT !.x = @ + 1]
  BY DEF PutcAttr, CursForward
<1> HIDE DEF w
<1>4. CASE w.x + 1 = Cols
  <2>1. t = LineFeed(w)
    BY <1>3, <1>4
  <2> HIDE DEF t
  <2>2. t \in ScreensOf(G)
    BY <1>1, <2>1, LineFeedOf
  <2>3. PICK d \in {0, Cols} : /\ Place(t) = Place(w) - w.x + Cols - d
                               /\ Lifted(w, t, d)
                               /\ d = Cols => Place(t) = Area - Cols
                               /\ d = 0 => Place(w) - w.x + Cols < Area
    BY <1>1, <2>1, LineFeedOf
  <2>4. d \in Nat /\ Place(t) = Place(s) + 1 - d
    BY <1>1, <1>2, <1>4, <2>3, SMTT(30)
  <2>5. ASSUME NEW i \in 1 .. Area
        PROVE  t.cell[i] = IF i + d > Area THEN Blank
                           ELSE IF i + d = Place(s) + 1 THEN c ELSE s.cell[i + d]
    <3>1. t.cell[i] = IF i + d > Area THEN Blank ELSE w.cell[i + d]
      BY <2>3 DEF Lifted
    <3>2. CASE i + d > Area
      BY <3>1, <3>2
    <3>3. CASE ~(i + d > Area)
      <4>1. i + d \in 1 .. Area
        BY <1>2, <2>4, <3>3
      <4> QED
        BY <1>1, <3>1, <3>3, <4>1
    <3> QED
      BY <3>2, <3>3
  <2>6. (d = Cols => Place(s) + 1 = Area) /\ (d = 0 => Place(s) + 1 < Area)
    BY <1>1, <1>2, <1>4, <2>3, <2>4
  <2> QED
    BY <2>2, <2>4, <2>5, <2>6 DEF t
<1>5. CASE w.x + 1 # Cols
  <2>1. t = [cell |-> w.cell, x |-> w.x + 1, y |-> w.y]
    <3>1. t = [w EXCEPT !.x = @ + 1]
      BY <1>3, <1>5
    <3> HIDE DEF t
    <3> QED
      BY <1>2, <3>1
  <2> HIDE DEF t
  <2>2. w.x + 1 \in 0 .. Cols - 1
    BY <1>2, <1>5
  <2>3. t \in ScreensOf(G)
    BY <1>2, <2>1, <2>2 DEF ScreensOf
  <2>4. Place(t) = Place(s) + 1 - 0
    BY <1>1, <1>2, <2>1 DEF Place
  <2>5. \A i \in 1 .. Area :
          t.cell[i] = IF i + 0 > Area THEN Blank
                      ELSE IF i + 0 = Place(s) + 1 THEN c ELSE s.cell[i + 0]
    BY <1>1, <1>2, <2>1
  <2>6. Place(s) + 1 < Area /\ 0 # Cols
    <3>1. Place(t) < Area
      BY <2>3, ScreenOf
    <3> QED
      BY <1>2, <2>4, <3>1
  <2> QED
    BY <2>3, <2>4, <2>5, <2>6 DEF t
<1> QED
  BY <1>4, <1>5

(* A string is put character by character. *)
PutcStays(S, C) == \A t \in S, c \in C : Putc(t, c) \in S

LEMMA PutsOf ==
  ASSUME NEW S, NEW s \in S, NEW C, NEW str \in Seq(C), PutcStays(S, C)
  PROVE  \E f \in [0 .. Len(str) -> S] :
           /\ f[0] = s /\ f[Len(str)] = Puts(s, str)
           /\ \A k \in 0 .. Len(str) - 1 : f[k + 1] = Putc(f[k], str[k + 1])
<1> DEFINE n == Len(str)
           I == 1 .. n
           Is(it) == it = [x \in SUBSET I |->
                           IF x = {} THEN s
                           ELSE Putc(it[x \ {Greatest(x)}], str[Greatest(x)])]
           G == [k \in I |-> [t \in S |-> Putc(t, str[k])]]
           iter == CHOOSE it : Is(it)
<1>1. n \in Nat /\ DOMAIN str = I /\ \A k \in I : str[k] \in C
  BY ElementOfSeq
<1>2. G \in [I -> [S -> S]]
  <2> HIDE DEF I
  <2> QED
    BY <1>1 DEF PutcStays
<1>3. \E it : Is(it)
  <2>1. PICK it \in [SUBSET I -> S] : FoldsBy(it, n, s, G)
    <3> HIDE DEF G
    <3> QED
      BY <1>1, <1>2, FoldExists
  <2>2. ASSUME NEW x \in SUBSET I
        PROVE  it[x] = IF x = {} THEN s ELSE Putc(it[x \ {Greatest(x)}], str[Greatest(x)])
    <3>1. it[x] = IF x = {} THEN s ELSE G[Greatest(x)][it[x \ {Greatest(x)}]]
      <4> HIDE DEF G
      <4> QED
        BY <2>1 DEF FoldsBy
    <3>2. x # {} => Greatest(x) \in I /\ it[x \ {Greatest(x)}] \in S
      BY <1>1, GreatestIs
    <3> QED
      BY <3>1, <3>2
  <2>3. Is(it)
    BY <2>1, <2>2
  <2> QED
    BY <2>3
<1>4. Puts(s, str) = iter[I]
  BY <1>1 DEF Puts, FoldLeft, MapThenFoldSet, Max, Greatest
<1>5. Is(iter)
  BY <1>3
<1> HIDE DEF iter
<1>6. iter[{}] = s /\ \A x \in SUBSET I : x # {} =>
                        iter[x] = Putc(iter[x \ {Greatest(x)}], str[Greatest(x)])
  BY <1>5
<1>7. ASSUME NEW x \in SUBSET I, x # {}, iter[x \ {Greatest(x)}] \in S
      PROVE  iter[x] = G[Greatest(x)][iter[x \ {Greatest(x)}]]
  <2>1. Greatest(x) \in I
    BY <1>1, <1>7, GreatestIs
  <2> QED
    BY <1>6, <1>7, <2>1
<1> HIDE DEF G
<1>8. PICK f \in [0 .. n -> S] : FoldValues(f, n, s, iter[1 .. n], G)
  <2>1. FoldsIn(iter, n, s, S, G)
    BY <1>6, <1>7 DEF FoldsIn
  <2> QED
    BY <1>1, <1>2, <2>1, FoldIs
<1>9. ASSUME NEW k \in 0 .. n - 1 PROVE f[k + 1] = Putc(f[k], str[k + 1])
  <2>1. k + 1 \in I /\ f[k] \in S /\ f[k + 1] = G[k + 1][f[k]]
    BY <1>1, <1>8 DEF FoldValues
  <2> QED
    BY <2>1 DEF G
<1> QED
  BY <1>4, <1>8, <1>9 DEF FoldValues

(* And so are the blanks of a tab. *)
PutAll(s, str) == FoldLeft(PutcAttr, s, str)

PutcAttrStays(S, C) == \A t \in S, c \in C : PutcAttr(t, c) \in S

LEMMA PutcAttrsOf ==
  ASSUME NEW S, NEW s \in S, NEW C, NEW str \in Seq(C), PutcAttrStays(S, C)
  PROVE  \E f \in [0 .. Len(str) -> S] :
           /\ f[0] = s /\ f[Len(str)] = PutAll(s, str)
           /\ \A k \in 0 .. Len(str) - 1 : f[k + 1] = PutcAttr(f[k], str[k + 1])
<1> DEFINE n == Len(str)
           I == 1 .. n
           Is(it) == it = [x \in SUBSET I |->
                           IF x = {} THEN s
                           ELSE PutcAttr(it[x \ {Greatest(x)}], str[Greatest(x)])]
           G == [k \in I |-> [t \in S |-> PutcAttr(t, str[k])]]
           iter == CHOOSE it : Is(it)
<1>1. n \in Nat /\ DOMAIN str = I /\ \A k \in I : str[k] \in C
  BY ElementOfSeq
<1>2. G \in [I -> [S -> S]]
  <2> HIDE DEF I
  <2> QED
    BY <1>1 DEF PutcAttrStays
<1>3. \E it : Is(it)
  <2>1. PICK it \in [SUBSET I -> S] : FoldsBy(it, n, s, G)
    <3> HIDE DEF G
    <3> QED
      BY <1>1, <1>2, FoldExists
  <2>2. ASSUME NEW x \in SUBSET I
        PROVE  it[x] = IF x = {} THEN s ELSE PutcAttr(it[x \ {Greatest(x)}], str[Greatest(x)])
    <3>1. it[x] = IF x = {} THEN s ELSE G[Greatest(x)][it[x \ {Greatest(x)}]]
      <4> HIDE DEF G
      <4> QED
        BY <2>1 DEF FoldsBy
    <3>2. x # {} => Greatest(x) \in I /\ it[x \ {Greatest(x)}] \in S
      BY <1>1, GreatestIs
    <3> QED
      BY <3>1, <3>2
  <2>3. Is(it)
    BY <2>1, <2>2
  <2> QED
    BY <2>3
<1>4. PutAll(s, str) = iter[I]
  BY <1>1 DEF PutAll, FoldLeft, MapThenFoldSet, Max, Greatest
<1>5. Is(iter)
  BY <1>3
<1> HIDE DEF iter
<1>6. iter[{}] = s /\ \A x \in SUBSET I : x # {} =>
                        iter[x] = PutcAttr(iter[x \ {Greatest(x)}], str[Greatest(x)])
  BY <1>5
<1>7. ASSUME NEW x \in SUBSET I, x # {}, iter[x \ {Greatest(x)}] \in S
      PROVE  iter[x] = G[Greatest(x)][iter[x \ {Greatest(x)}]]
  <2>1. Greatest(x) \in I
    BY <1>1, <1>7, GreatestIs
  <2> QED
    BY <1>6, <1>7, <2>1
<1> HIDE DEF G
<1>8. PICK f \in [0 .. n -> S] : FoldValues(f, n, s, iter[1 .. n], G)
  <2>1. FoldsIn(iter, n, s, S, G)
    BY <1>6, <1>7 DEF FoldsIn
  <2> QED
    BY <1>1, <1>2, <2>1, FoldIs
<1>9. ASSUME NEW k \in 0 .. n - 1 PROVE f[k + 1] = PutcAttr(f[k], str[k + 1])
  <2>1. k + 1 \in I /\ f[k] \in S /\ f[k + 1] = G[k + 1][f[k]]
    BY <1>1, <1>8 DEF FoldValues
  <2> QED
    BY <2>1 DEF G
<1> QED
  BY <1>4, <1>8, <1>9 DEF FoldValues

-----------------------------------------------------------------------------
(* The console's screen.                                                   *)

Screens == ScreensOf(Glyphs)

LEMMA SizesFacts ==
  /\ Rows \in Nat \ {0} /\ Cols \in Nat \ {0} /\ CursRange \in Nat /\ CursRange > Rows
  /\ IbufSize \in Nat \ {0} /\ KeysAhead \in Nat \ {0}
  /\ Area \in Nat /\ Area >= Cols /\ Above \in Nat
  /\ IbufSize + 1 <= Area - Cols /\ IbufSize <= Above
<1>1. /\ IbufSize \in Nat \ {0} /\ KeysAhead \in Nat \ {0}
      /\ IbufSize + 1 <= (Rows - 1) * Cols
      /\ IbufSize <= (CursRange - Rows) * Cols
  BY ScreenAssumption, SizesAssumption
<1>2. (Rows - 1) * Cols = Area - Cols /\ Above = (CursRange - Rows) * Cols
  BY ScreenSizes DEF Area, Above
<1> QED
  BY <1>1, <1>2, ScreenSizes

LEMMA GlyphBlank == Blank \in Glyphs
BY DEF Glyphs

LEMMA ScreenFacts ==
  ASSUME NEW s \in Screens
  PROVE  /\ s.y \in 0 .. CursRange - 1 /\ s.x \in 0 .. Cols - 1
         /\ s.cell \in Seq(Glyphs) /\ Len(s.cell) = Area
         /\ s = [cell |-> s.cell, x |-> s.x, y |-> s.y]
         /\ Row(s.y) \in Int /\ Place(s) = Row(s.y) + s.x
         /\ Place(s) < Area /\ Place(s) >= - Above
         /\ OnScreen(s) <=> Place(s) >= 0
         /\ OnScreen(s) <=> s.y < Rows
BY GlyphBlank, ScreenOf DEF Screens

LEMMA ClearScreenIs ==
  /\ ClearScreen \in Screens /\ Place(ClearScreen) = 0
  /\ \A i \in 1 .. Area : ClearScreen.cell[i] = Blank
BY GlyphBlank, ClearScreenOf DEF Screens

LEMMA LineFeedDoes ==
  ASSUME NEW s \in Screens
  PROVE  /\ LineFeed(s) \in Screens
         /\ \E d \in {0, Cols} :
              /\ Place(LineFeed(s)) = Place(s) - s.x + Cols - d
              /\ Lifted(s, LineFeed(s), d)
              /\ d = Cols => Place(LineFeed(s)) = Area - Cols
              /\ d = 0 => Place(s) - s.x + Cols < Area
BY GlyphBlank, LineFeedOf DEF Screens

LEMMA PutcAttrDoes ==
  ASSUME NEW s \in Screens, NEW c \in Glyphs
  PROVE  /\ PutcAttr(s, c) \in Screens
         /\ \E d \in {0, Cols} :
              /\ Place(PutcAttr(s, c)) = Place(s) + 1 - d
              /\ d = Cols => Place(s) + 1 = Area
              /\ d = 0 => Place(s) + 1 < Area
              /\ \A i \in 1 .. Area :
                   PutcAttr(s, c).cell[i] = IF i + d > Area THEN Blank
                                            ELSE IF i + d = Place(s) + 1 THEN c
                                            ELSE s.cell[i + d]
BY GlyphBlank, PutcAttrOf DEF Screens

(* The cursor goes back by one cell, and erasing a character blanks the    *)
(* one it goes back to, unless it comes to the last row from behind.       *)
LEMMA CursBackwardDoes ==
  ASSUME NEW s \in Screens, Place(s) > - Above
  PROVE  LET t == CursBackward(s)
         IN  t \in Screens /\ t.cell = s.cell /\ Place(t) = Place(s) - 1
<1> DEFINE t == CursBackward(s)
           y == (s.y + CursRange - 1) % CursRange
<1>1. /\ s.y \in 0 .. CursRange - 1 /\ s.x \in 0 .. Cols - 1
      /\ s.cell \in Seq(Glyphs) /\ Len(s.cell) = Area
      /\ s = [cell |-> s.cell, x |-> s.x, y |-> s.y]
      /\ Row(s.y) \in Int /\ Place(s) = Row(s.y) + s.x
      /\ Cols \in Nat \ {0} /\ CursRange \in Nat \ {0} /\ Rows \in Nat
  BY ScreenFacts, SizesFacts
<1>2. CASE s.x = 0
  <2>1. /\ y \in 0 .. CursRange - 1 /\ Row(y) = Row(s.y) - Cols
    <3>1. CASE s.y = 0
      <4>0. CursRange - 1 \in 0 .. CursRange - 1
        BY <1>1
      <4>1. (CursRange * 0 + (CursRange - 1)) % CursRange = CursRange - 1
        BY <4>0, SizesFacts, DivModUnique
      <4>2. y = CursRange - 1
        <5>1. s.y + CursRange - 1 = CursRange * 0 + (CursRange - 1)
          BY <1>1, <3>1
        <5> QED
          BY <4>1, <5>1
      <4> HIDE DEF y
      <4>3. Row(y) = - Cols /\ Row(s.y) = 0
        BY <3>1, <4>2, RowFacts, Zenon
      <4> QED
        BY <1>1, <4>2, <4>3
    <3>2. CASE s.y # 0
      <4>1. s.y - 1 \in 0 .. CursRange - 1 /\ s.y > 0
        BY <1>1, <3>2
      <4>2. (CursRange * 1 + (s.y - 1)) % CursRange = s.y - 1
        <5>1. \A q \in Int, r \in 0 .. CursRange - 1 : (CursRange * q + r) % CursRange = r
          BY <1>1, DivModUnique, Zenon
        <5> QED
          BY <4>1, <5>1
      <4>3. y = s.y - 1
        <5>1. s.y + CursRange - 1 = CursRange * 1 + (s.y - 1)
          BY <1>1
        <5> QED
          BY <4>2, <5>1
      <4> HIDE DEF y
      <4>4. s.y # Rows
        <5>1. Row(Rows) = - Above
          BY RowFacts
        <5> QED
          BY <1>1, <1>2, <5>1
      <4>5. Row(s.y - 1) = Row(s.y) - Cols
        BY <1>1, <4>1, <4>4, RowFacts
      <4> QED
        BY <4>1, <4>3, <4>5
    <3> QED
      BY <3>1, <3>2
  <2>2. t = [cell |-> s.cell, x |-> Cols - 1, y |-> y]
    <3>1. t = [s EXCEPT !.x = Cols - 1, !.y = y]
      BY <1>2 DEF CursBackward
    <3> HIDE DEF t, y
    <3> QED
      BY <1>1, <3>1
  <2> HIDE DEF t, y
  <2>3. t \in Screens
    BY <1>1, <2>1, <2>2 DEF Screens, ScreensOf
  <2>4. Place(t) = Place(s) - 1
    BY <1>1, <1>2, <2>1, <2>2 DEF Place
  <2> QED
    BY <2>2, <2>3, <2>4 DEF t
<1>3. CASE s.x # 0
  <2>1. t = [cell |-> s.cell, x |-> s.x - 1, y |-> s.y]
    <3>1. t = [s EXCEPT !.x = @ - 1]
      BY <1>3 DEF CursBackward
    <3> HIDE DEF t
    <3> QED
      BY <1>1, <3>1
  <2> HIDE DEF t
  <2>2. t \in Screens
    BY <1>1, <1>3, <2>1 DEF Screens, ScreensOf
  <2>3. Place(t) = Place(s) - 1
    BY <1>1, <2>1 DEF Place
  <2> QED
    BY <2>1, <2>2, <2>3 DEF t
<1> QED
  BY <1>2, <1>3

LEMMA RuboutDoes ==
  ASSUME NEW s \in Screens, Place(s) > - Above
  PROVE  LET t == Rubout(s)
         IN  /\ t \in Screens /\ Place(t) = Place(s) - 1
             /\ \A i \in 1 .. Area : t.cell[i] = IF i = Place(s) THEN Blank ELSE s.cell[i]
<1> DEFINE b == CursBackward(s)
           p == PutcAttr(b, Blank)
           t == CursBackward(p)
<1>1. Place(s) \in Int /\ Place(s) < Area /\ Area \in Nat /\ Above \in Nat /\ Cols \in Nat
  BY ScreenFacts, SizesFacts
<1>2. b \in Screens /\ b.cell = s.cell /\ Place(b) = Place(s) - 1
  BY CursBackwardDoes
<1> HIDE DEF b
<1>3. /\ p \in Screens
      /\ \E d \in {0, Cols} :
              /\ Place(p) = Place(b) + 1 - d
              /\ d = Cols => Place(b) + 1 = Area
              /\ d = 0 => Place(b) + 1 < Area
              /\ \A i \in 1 .. Area :
                   p.cell[i] = IF i + d > Area THEN Blank
                               ELSE IF i + d = Place(b) + 1 THEN Blank
                               ELSE b.cell[i + d]
  <2>1. Blank \in Glyphs
    BY DEF Glyphs
  <2> QED
    BY <1>2, <2>1, PutcAttrDoes
<1> HIDE DEF p
<1>4. PICK d \in {0, Cols} :
              /\ Place(p) = Place(b) + 1 - d
              /\ d = Cols => Place(b) + 1 = Area
              /\ \A i \in 1 .. Area :
                   p.cell[i] = IF i + d > Area THEN Blank
                               ELSE IF i + d = Place(b) + 1 THEN Blank
                               ELSE b.cell[i + d]
  BY <1>3
<1>5. d = 0
  BY <1>1, <1>2, <1>4
<1>6. /\ Place(p) = Place(s)
      /\ \A i \in 1 .. Area : p.cell[i] = IF i = Place(s) THEN Blank ELSE s.cell[i]
  BY <1>1, <1>2, <1>4, <1>5
<1>7. t \in Screens /\ t.cell = p.cell /\ Place(t) = Place(p) - 1
  BY <1>3, <1>6, CursBackwardDoes
<1>8. t = Rubout(s)
  BY DEF Rubout, b, p
<1> QED
  BY <1>6, <1>7, <1>8

(* What the console keeps of the screen: the cursor is in place low or     *)
(* behind it, and behind the cursor there is nothing.                      *)
Tame(s, low) == /\ s \in Screens
                /\ Place(s) >= low
                /\ \A i \in 1 .. Area : i > Place(s) => s.cell[i] = Blank

(* And where the first n characters of text stand before the cursor.       *)
Shows(s, text, n) == /\ Tame(s, n)
                     /\ \A i \in 1 .. n : s.cell[Place(s) - n + i] = text[i]

LEMMA TameClear ==
  ASSUME NEW low \in Int, low <= 0
  PROVE  Tame(ClearScreen, low)
BY ClearScreenIs DEF Tame

LEMMA TameLower ==
  ASSUME NEW low \in Int, NEW less \in Int, less <= low, NEW s, Tame(s, low)
  PROVE  Tame(s, less)
BY ScreenFacts DEF Tame

LEMMA TameLineFeed ==
  ASSUME NEW low \in Int, low <= Area - Cols, NEW s, Tame(s, low)
  PROVE  Tame(LineFeed(s), low)
<1> DEFINE t == LineFeed(s)
<1>1. s \in Screens /\ Place(s) >= low /\ \A i \in 1 .. Area : i > Place(s) => s.cell[i] = Blank
  BY DEF Tame
<1>2. Place(s) \in Int /\ s.x \in 0 .. Cols - 1 /\ Cols \in Nat \ {0} /\ Area \in Nat
  BY <1>1, ScreenFacts, SizesFacts
<1>3. t \in Screens
  BY <1>1, LineFeedDoes
<1>4. PICK d \in {0, Cols} : /\ Place(t) = Place(s) - s.x + Cols - d
                             /\ Lifted(s, t, d)
                             /\ d = Cols => Place(t) = Area - Cols
  BY <1>1, LineFeedDoes
<1> HIDE DEF t
<1>5. Place(t) >= low
  BY <1>1, <1>2, <1>4
<1>6. ASSUME NEW i \in 1 .. Area, i > Place(t) PROVE t.cell[i] = Blank
  <2>1. d \in Nat /\ i + d > Place(s)
    BY <1>2, <1>4, <1>6
  <2>2. t.cell[i] = IF i + d > Area THEN Blank ELSE s.cell[i + d]
    BY <1>4 DEF Lifted
  <2>3. ~(i + d > Area) => i + d \in 1 .. Area
    BY <1>2, <2>1
  <2> QED
    BY <1>1, <2>1, <2>2, <2>3
<1> QED
  BY <1>3, <1>5, <1>6 DEF Tame, t

LEMMA TamePutcAttr ==
  ASSUME NEW low \in Int, low < Area - Cols, NEW s, Tame(s, low), NEW c \in Glyphs
  PROVE  Tame(PutcAttr(s, c), low + 1)
<1> DEFINE t == PutcAttr(s, c)
<1>1. s \in Screens /\ Place(s) >= low /\ \A i \in 1 .. Area : i > Place(s) => s.cell[i] = Blank
  BY DEF Tame
<1>2. Place(s) \in Int /\ Cols \in Nat \ {0} /\ Area \in Nat
  BY <1>1, ScreenFacts, SizesFacts
<1>3. t \in Screens
  BY <1>1, PutcAttrDoes
<1>4. PICK d \in {0, Cols} :
              /\ Place(t) = Place(s) + 1 - d
              /\ d = Cols => Place(s) + 1 = Area
              /\ \A i \in 1 .. Area :
                   t.cell[i] = IF i + d > Area THEN Blank
                               ELSE IF i + d = Place(s) + 1 THEN c ELSE s.cell[i + d]
  BY <1>1, PutcAttrDoes
<1> HIDE DEF t
<1>5. Place(t) >= low + 1
  BY <1>1, <1>2, <1>4
<1>6. ASSUME NEW i \in 1 .. Area, i > Place(t) PROVE t.cell[i] = Blank
  <2>1. d \in Nat /\ i + d > Place(s) + 1
    BY <1>2, <1>4, <1>6
  <2>2. ~(i + d > Area) => i + d \in 1 .. Area
    BY <1>2, <2>1
  <2> QED
    BY <1>1, <1>2, <1>4, <2>1, <2>2
<1> QED
  BY <1>3, <1>5, <1>6 DEF Tame, t

LEMMA ShowsPutcAttr ==
  ASSUME NEW n \in Nat, n < Area - Cols, NEW s, NEW text, Shows(s, text, n),
         text[n + 1] \in Glyphs
  PROVE  Shows(PutcAttr(s, text[n + 1]), text, n + 1)
<1> DEFINE c == text[n + 1]
           t == PutcAttr(s, c)
<1>1. s \in Screens /\ Place(s) >= n /\ \A i \in 1 .. n : s.cell[Place(s) - n + i] = text[i]
  BY DEF Shows, Tame
<1>2. Place(s) \in Int /\ Cols \in Nat \ {0} /\ Area \in Nat /\ Place(s) < Area
  BY <1>1, ScreenFacts, SizesFacts
<1>3. Tame(t, n + 1)
  BY TamePutcAttr DEF Shows
<1>4. PICK d \in {0, Cols} :
              /\ Place(t) = Place(s) + 1 - d
              /\ d = Cols => Place(s) + 1 = Area
              /\ \A i \in 1 .. Area :
                   t.cell[i] = IF i + d > Area THEN Blank
                               ELSE IF i + d = Place(s) + 1 THEN c ELSE s.cell[i + d]
  BY <1>1, PutcAttrDoes
<1> HIDE DEF t, c
<1>5. ASSUME NEW i \in 1 .. n + 1 PROVE t.cell[Place(t) - (n + 1) + i] = text[i]
  <2> DEFINE j == Place(t) - (n + 1) + i
  <2>1. j \in 1 .. Area /\ d \in Nat /\ j + d = Place(s) - n + i /\ j + d <= Area
    BY <1>1, <1>2, <1>4
  <2> HIDE DEF j
  <2>2. t.cell[j] = IF j + d = Place(s) + 1 THEN c ELSE s.cell[j + d]
    BY <1>2, <1>4, <2>1
  <2>3. CASE i = n + 1
    <3>1. j + d = Place(s) + 1
      BY <1>2, <2>1, <2>3
    <3> QED
      BY <2>2, <2>3, <3>1 DEF c, j
  <2>4. CASE i # n + 1
    <3>1. i \in 1 .. n /\ j + d # Place(s) + 1
      BY <1>2, <2>1, <2>4
    <3> QED
      BY <1>1, <2>1, <2>2, <3>1 DEF j
  <2> QED
    BY <2>3, <2>4
<1> QED
  BY <1>3, <1>5 DEF Shows, t, c

LEMMA TameRubout ==
  ASSUME NEW low \in Int, low > - Above, NEW s, Tame(s, low)
  PROVE  Tame(Rubout(s), low - 1)
<1>1. /\ s \in Screens /\ Place(s) \in Int /\ Place(s) > - Above /\ Place(s) >= low
      /\ Above \in Nat
      /\ \A i \in 1 .. Area : i > Place(s) => s.cell[i] = Blank
  BY ScreenFacts, SizesFacts, SMTT(20) DEF Tame
<1> DEFINE t == Rubout(s)
<1>2. /\ t \in Screens /\ Place(t) = Place(s) - 1
      /\ \A i \in 1 .. Area : t.cell[i] = IF i = Place(s) THEN Blank ELSE s.cell[i]
  BY <1>1, RuboutDoes
<1> HIDE DEF t
<1>3. ASSUME NEW i \in 1 .. Area, i > Place(t) PROVE t.cell[i] = Blank
  BY <1>1, <1>2, <1>3
<1>4. Place(t) >= low - 1
  BY <1>1, <1>2
<1> QED
  BY <1>2, <1>3, <1>4 DEF Tame, t

LEMMA ShowsRubout ==
  ASSUME NEW n \in Nat \ {0}, NEW s, NEW text, Shows(s, text, n)
  PROVE  Shows(Rubout(s), text, n - 1)
<1>1. /\ s \in Screens /\ Place(s) \in Int /\ Place(s) >= n /\ Above \in Nat
      /\ Place(s) < Area /\ Area \in Nat
      /\ \A i \in 1 .. n : s.cell[Place(s) - n + i] = text[i]
  BY ScreenFacts, SizesFacts, SMTT(20) DEF Shows, Tame
<1> DEFINE t == Rubout(s)
<1>2. /\ Place(t) = Place(s) - 1
      /\ \A i \in 1 .. Area : t.cell[i] = IF i = Place(s) THEN Blank ELSE s.cell[i]
  <2>1. Place(s) > - Above
    BY <1>1
  <2> QED
    BY <1>1, <2>1, RuboutDoes
<1>3. Tame(t, n - 1)
  <2>1. n \in Int /\ n > - Above
    BY <1>1
  <2> QED
    BY <2>1, TameRubout DEF Shows
<1> HIDE DEF t
<1>4. ASSUME NEW i \in 1 .. n - 1 PROVE t.cell[Place(t) - (n - 1) + i] = text[i]
  <2>1. /\ Place(t) - (n - 1) + i = Place(s) - n + i
        /\ Place(s) - n + i \in 1 .. Area /\ Place(s) - n + i # Place(s) /\ i \in 1 .. n
    BY <1>1, <1>2
  <2> QED
    BY <1>1, <1>2, <2>1
<1> QED
  BY <1>3, <1>4 DEF Shows, t

(* What console_puts is given: no tabs, and a newline is no glyph. *)
LEMMA PutcIs ==
  ASSUME NEW s, NEW c \in Glyphs \cup {"\n"}
  PROVE  /\ c = "\n" => Putc(s, c) = LineFeed(s)
         /\ c # "\n" => c \in Glyphs /\ Putc(s, c) = PutcAttr(s, c)
         /\ c \in Glyphs => c # "\n"
<1>1. "\t" \notin Glyphs /\ "\n" \notin Glyphs
  BY CharsAssumption DEF Glyphs, Characters, Blank
<1>2. c = "\n" => Putc(s, c) = LineFeed(s)
  BY DEF Putc
<1>3. c # "\n" => c \in Glyphs /\ c # "\t"
  BY <1>1
<1>4. c # "\n" => Putc(s, c) = PutcAttr(s, c)
  BY <1>3, Zenon DEF Putc
<1> QED
  BY <1>1, <1>2, <1>3, <1>4

LEMMA PutsSteps ==
  ASSUME NEW s \in Screens, NEW str \in Seq(Glyphs \cup {"\n"})
  PROVE  \E f : /\ f[0] = s /\ f[Len(str)] = Puts(s, str)
                /\ \A k \in 0 .. Len(str) - 1 : f[k + 1] = Putc(f[k], str[k + 1])
<1> DEFINE C == Glyphs \cup {"\n"}
<1>1. PutcStays(Screens, C)
  BY PutcIs, LineFeedDoes, PutcAttrDoes DEF PutcStays
<1> HIDE DEF C
<1>2. PICK f \in [0 .. Len(str) -> Screens] :
        /\ f[0] = s /\ f[Len(str)] = Puts(s, str)
        /\ \A k \in 0 .. Len(str) - 1 : f[k + 1] = Putc(f[k], str[k + 1])
  BY <1>1, PutsOf DEF C
<1> QED
  BY <1>2

(* Wherever the cursor is, going back leaves it a cursor. *)
LEMMA BackwardScreens ==
  ASSUME NEW s \in Screens PROVE CursBackward(s) \in Screens
<1>1. /\ s.y \in 0 .. CursRange - 1 /\ s.x \in 0 .. Cols - 1
      /\ s.cell \in Seq(Glyphs) /\ Len(s.cell) = Area
      /\ s = [cell |-> s.cell, x |-> s.x, y |-> s.y]
      /\ Cols \in Nat \ {0} /\ CursRange \in Nat \ {0}
  BY ScreenFacts, SizesFacts
<1> DEFINE t == CursBackward(s)
           y == (s.y + CursRange - 1) % CursRange
<1>2. y \in 0 .. CursRange - 1
  BY <1>1
<1>3. t = IF s.x = 0 THEN [s EXCEPT !.x = Cols - 1, !.y = y] ELSE [s EXCEPT !.x = @ - 1]
  BY DEF CursBackward
<1> HIDE DEF y, t
<1>4. t = IF s.x = 0 THEN [cell |-> s.cell, x |-> Cols - 1, y |-> y]
          ELSE [cell |-> s.cell, x |-> s.x - 1, y |-> s.y]
  <2>1. s.x = 0 => t = [cell |-> s.cell, x |-> Cols - 1, y |-> y]
    BY <1>1, <1>3
  <2>2. s.x # 0 => t = [cell |-> s.cell, x |-> s.x - 1, y |-> s.y]
    BY <1>1, <1>3
  <2> QED
    BY <2>1, <2>2, Zenon
<1>5. t \in Screens
  BY <1>1, <1>2, <1>4 DEF Screens, ScreensOf
<1> QED
  BY <1>5 DEF t

LEMMA RuboutScreens == ASSUME NEW s \in Screens PROVE Rubout(s) \in Screens
<1>1. Blank \in Glyphs
  BY DEF Glyphs
<1> QED
  BY <1>1, BackwardScreens, PutcAttrDoes DEF Rubout

LEMMA RuboutsSteps ==
  ASSUME scr \in Screens, NEW gone \in Seq(Characters)
  PROVE  \E f : /\ f[0] = scr /\ f[Len(gone)] = RuboutAll(gone)
                /\ \A k \in 0 .. Len(gone) - 1 : f[k + 1] = Rubout(f[k])
<1> DEFINE n == Len(gone)
           I == 1 .. n
           C(it) == it = [x \in SUBSET I |->
                           IF x = {} THEN scr
                           ELSE Rubout(it[x \ {Greatest(x)}])]
           G == [k \in I |-> [t \in Screens |-> Rubout(t)]]
           iter == CHOOSE it : C(it)
<1>1. n \in Nat /\ DOMAIN gone = I
  OBVIOUS
<1>2. G \in [I -> [Screens -> Screens]]
  BY RuboutScreens
<1>3. \E it : C(it)
  <2>1. PICK it \in [SUBSET I -> Screens] : FoldsBy(it, n, scr, G)
    <3> HIDE DEF G
    <3> QED
      BY <1>1, <1>2, FoldExists
  <2>2. ASSUME NEW x \in SUBSET I
        PROVE  it[x] = IF x = {} THEN scr ELSE Rubout(it[x \ {Greatest(x)}])
    <3>1. it[x] = IF x = {} THEN scr ELSE G[Greatest(x)][it[x \ {Greatest(x)}]]
      <4> HIDE DEF G
      <4> QED
        BY <2>1 DEF FoldsBy
    <3>2. x # {} => Greatest(x) \in I /\ it[x \ {Greatest(x)}] \in Screens
      BY <1>1, GreatestIs
    <3> QED
      BY <3>1, <3>2
  <2>3. C(it)
    BY <2>1, <2>2
  <2> QED
    BY <2>3
<1>4. RuboutAll(gone) = iter[I]
  BY <1>1 DEF RuboutAll, FoldLeft, MapThenFoldSet, Max, Greatest
<1>5. C(iter)
  BY <1>3
<1> HIDE DEF iter
<1>6. iter[{}] = scr /\ \A x \in SUBSET I : x # {} =>
                        iter[x] = Rubout(iter[x \ {Greatest(x)}])
  BY <1>5
<1>7. ASSUME NEW k \in 0 .. n - 1
      PROVE  iter[1 .. k + 1] = Rubout(iter[1 .. k])
  <2>1. 1 .. k + 1 \in SUBSET I /\ k \in Nat
    BY <1>1
  <2>2. /\ 1 .. k + 1 # {} /\ Greatest(1 .. k + 1) = k + 1
        /\ (1 .. k + 1) \ {k + 1} = 1 .. k
    BY <2>1, GreatestOfAll
  <2> QED
    BY <1>6, <2>1, <2>2
<1> DEFINE f == [k \in 0 .. n |-> iter[1 .. k]]
<1>8. f[0] = scr /\ f[n] = RuboutAll(gone)
  BY <1>1, <1>4, <1>6, 1 .. 0 = {}
<1>9. \A k \in 0 .. n - 1 : f[k + 1] = Rubout(f[k])
  BY <1>1, <1>7
<1> QED
  BY <1>8, <1>9

LEMMA TamePutc ==
  ASSUME NEW low \in Int, low < Area - Cols, NEW s, Tame(s, low), NEW c \in Glyphs \cup {"\n"}
  PROVE  Tame(Putc(s, c), low)
<1>1. low + 1 \in Int /\ low <= low + 1 /\ low <= Area - Cols
  BY SizesFacts
<1>2. CASE c = "\n"
  BY <1>1, <1>2, PutcIs, TameLineFeed
<1>3. CASE c # "\n"
  <2>1. Tame(PutcAttr(s, c), low + 1)
    BY <1>3, PutcIs, TamePutcAttr
  <2> QED
    BY <1>1, <1>3, <2>1, PutcIs, TameLower
<1> QED
  BY <1>2, <1>3

LEMMA TamePuts ==
  ASSUME NEW low \in Int, low < Area - Cols, NEW s, Tame(s, low),
         NEW str \in Seq(Glyphs \cup {"\n"})
  PROVE  Tame(Puts(s, str), low)
<1>1. s \in Screens /\ Len(str) \in Nat
  BY DEF Tame
<1>2. PICK f : /\ f[0] = s /\ f[Len(str)] = Puts(s, str)
               /\ \A k \in 0 .. Len(str) - 1 : f[k + 1] = Putc(f[k], str[k + 1])
  BY <1>1, PutsSteps
<1> DEFINE T == {k \in Nat : k <= Len(str) => Tame(f[k], low)}
<1>3. 0 \in T
  BY <1>2
<1>4. ASSUME NEW k \in Nat, k \in T PROVE k + 1 \in T
  <2>1. SUFFICES ASSUME k + 1 <= Len(str) PROVE Tame(f[k + 1], low)
    OBVIOUS
  <2>2. k \in 0 .. Len(str) - 1 /\ k + 1 \in 1 .. Len(str)
    BY <1>1, <2>1
  <2>3. Tame(f[k], low) /\ f[k + 1] = Putc(f[k], str[k + 1]) /\ str[k + 1] \in Glyphs \cup {"\n"}
    BY <1>1, <1>2, <1>4, <2>2
  <2> QED
    BY <2>3, TamePutc
<1>5. Nat \subseteq T
  <2> HIDE DEF T
  <2> QED
    BY <1>3, <1>4, NumberInduction
<1> QED
  BY <1>1, <1>2, <1>5

LEMMA ShowsPuts ==
  ASSUME NEW n \in Nat, NEW s, NEW text, Shows(s, text, n),
         NEW str \in Seq(Glyphs), n + Len(str) <= Area - Cols,
         \A k \in 1 .. Len(str) : text[n + k] = str[k]
  PROVE  Shows(Puts(s, str), text, n + Len(str))
<1>1. /\ s \in Screens /\ Len(str) \in Nat /\ str \in Seq(Glyphs \cup {"\n"})
      /\ Area \in Nat /\ Cols \in Nat
      /\ \A k \in 1 .. Len(str) : str[k] \in Glyphs
  BY SizesFacts DEF Shows, Tame
<1>2. PICK f : /\ f[0] = s /\ f[Len(str)] = Puts(s, str)
               /\ \A k \in 0 .. Len(str) - 1 : f[k + 1] = Putc(f[k], str[k + 1])
  BY <1>1, PutsSteps
<1> DEFINE T == {k \in Nat : k <= Len(str) => Shows(f[k], text, n + k)}
<1>3. 0 \in T
  BY <1>2
<1>4. ASSUME NEW k \in Nat, k \in T PROVE k + 1 \in T
  <2>1. SUFFICES ASSUME k + 1 <= Len(str) PROVE Shows(f[k + 1], text, n + (k + 1))
    OBVIOUS
  <2>2. /\ k \in 0 .. Len(str) - 1 /\ k + 1 \in 1 .. Len(str) /\ k <= Len(str)
        /\ n + k \in Nat /\ n + k < Area - Cols /\ n + (k + 1) = (n + k) + 1
    BY <1>1, <2>1
  <2>3. /\ Shows(f[k], text, n + k) /\ text[(n + k) + 1] = str[k + 1]
        /\ str[k + 1] \in Glyphs
        /\ f[k + 1] = Putc(f[k], str[k + 1])
    <3>1. str[k + 1] \in Glyphs /\ text[n + (k + 1)] = str[k + 1]
      BY <1>1, <2>2
    <3> QED
      BY <1>2, <1>4, <2>2, <3>1
  <2>4. f[k + 1] = PutcAttr(f[k], text[(n + k) + 1])
    BY <2>3, PutcIs
  <2>5. Shows(f[k + 1], text, (n + k) + 1)
    BY <2>2, <2>3, <2>4, ShowsPutcAttr
  <2> QED
    BY <2>2, <2>5
<1>5. Nat \subseteq T
  <2> HIDE DEF T
  <2> QED
    BY <1>3, <1>4, NumberInduction
<1> QED
  BY <1>1, <1>2, <1>5

LEMMA TameRubouts ==
  ASSUME NEW low \in Int, Tame(scr, low), NEW gone \in Seq(Characters),
         low - Len(gone) >= - Above
  PROVE  Tame(RuboutAll(gone), low - Len(gone))
<1>1. scr \in Screens /\ Len(gone) \in Nat /\ Above \in Nat
  BY SizesFacts DEF Tame
<1>2. PICK f : /\ f[0] = scr /\ f[Len(gone)] = RuboutAll(gone)
               /\ \A k \in 0 .. Len(gone) - 1 : f[k + 1] = Rubout(f[k])
  BY <1>1, RuboutsSteps
<1> DEFINE T == {k \in Nat : k <= Len(gone) => Tame(f[k], low - k)}
<1>3. 0 \in T
  BY <1>2
<1>4. ASSUME NEW k \in Nat, k \in T PROVE k + 1 \in T
  <2>1. SUFFICES ASSUME k + 1 <= Len(gone) PROVE Tame(f[k + 1], low - (k + 1))
    OBVIOUS
  <2>2. /\ k \in 0 .. Len(gone) - 1 /\ k <= Len(gone)
        /\ low - k \in Int /\ low - k > - Above /\ low - (k + 1) = (low - k) - 1
    BY <1>1, <2>1
  <2>3. Tame(f[k], low - k) /\ f[k + 1] = Rubout(f[k])
    BY <1>1, <1>2, <1>4, <2>2
  <2>4. Tame(f[k + 1], (low - k) - 1)
    BY <2>2, <2>3, TameRubout
  <2> QED
    BY <2>2, <2>4
<1>5. Nat \subseteq T
  <2> HIDE DEF T
  <2> QED
    BY <1>3, <1>4, NumberInduction
<1> QED
  BY <1>1, <1>2, <1>5

LEMMA ShowsRubouts ==
  ASSUME NEW n \in Nat, NEW text, Shows(scr, text, n),
         NEW gone \in Seq(Characters), Len(gone) <= n
  PROVE  Shows(RuboutAll(gone), text, n - Len(gone))
<1>1. scr \in Screens /\ Len(gone) \in Nat
  BY DEF Shows, Tame
<1>2. PICK f : /\ f[0] = scr /\ f[Len(gone)] = RuboutAll(gone)
               /\ \A k \in 0 .. Len(gone) - 1 : f[k + 1] = Rubout(f[k])
  BY <1>1, RuboutsSteps
<1> DEFINE T == {k \in Nat : k <= Len(gone) => Shows(f[k], text, n - k)}
<1>3. 0 \in T
  BY <1>2
<1>4. ASSUME NEW k \in Nat, k \in T PROVE k + 1 \in T
  <2>1. SUFFICES ASSUME k + 1 <= Len(gone) PROVE Shows(f[k + 1], text, n - (k + 1))
    OBVIOUS
  <2>2. /\ k \in 0 .. Len(gone) - 1 /\ k <= Len(gone)
        /\ n - k \in Nat \ {0} /\ n - (k + 1) = (n - k) - 1
    BY <1>1, <2>1
  <2>3. Shows(f[k], text, n - k) /\ f[k + 1] = Rubout(f[k])
    BY <1>1, <1>2, <1>4, <2>2
  <2>4. Shows(f[k + 1], text, (n - k) - 1)
    BY <2>2, <2>3, ShowsRubout
  <2> QED
    BY <2>2, <2>4
<1>5. Nat \subseteq T
  <2> HIDE DEF T
  <2> QED
    BY <1>3, <1>4, NumberInduction
<1> QED
  BY <1>1, <1>2, <1>5

(* What the line looks like behind the prompt. *)
Prompted(b) == <<"$">> \o b

LEMMA TextIs ==
  ASSUME NEW b \in Seq(Characters)
  PROVE  /\ Prompted(b) \in Seq(Glyphs) /\ Len(b) \in Nat /\ Len(Prompted(b)) = Len(b) + 1
         /\ Prompted(b)[1] = "$"
         /\ \A i \in 1 .. Len(b) : Prompted(b)[1 + i] = b[i] /\ b[i] \in Glyphs
         /\ b \in Seq(Glyphs)
<1>1. Characters \subseteq Glyphs /\ "$" \in Glyphs
  BY DEF Glyphs
<1>2. b \in Seq(Glyphs) /\ Len(b) \in Nat /\ <<"$">> \in Seq(Glyphs) /\ Len(<<"$">>) = 1
      /\ <<"$">>[1] = "$" /\ \A i \in 1 .. Len(b) : b[i] \in Glyphs
  BY <1>1
<1>3. /\ Prompted(b) \in Seq(Glyphs) /\ Len(Prompted(b)) = 1 + Len(b)
      /\ \A i \in 1 .. 1 + Len(b) : Prompted(b)[i] = IF i <= 1 THEN <<"$">>[i] ELSE b[i - 1]
  BY <1>2, ConcatProperties DEF Prompted
<1>4. Prompted(b)[1] = "$" /\ \A i \in 1 .. Len(b) : Prompted(b)[1 + i] = b[i]
  BY <1>2, <1>3
<1> QED
  BY <1>2, <1>3, <1>4

LEMMA ShowsSame ==
  ASSUME NEW n \in Nat, NEW s, NEW text, NEW other, Shows(s, text, n),
         \A i \in 1 .. n : text[i] = other[i]
  PROVE  Shows(s, other, n)
BY DEF Shows

(* The keys that change the line, as the screen follows them. *)
LEMMA PutCharShows ==
  ASSUME NEW b \in Seq(Characters), Len(b) < IbufSize, NEW c \in Characters,
         NEW s, Tame(s, Len(b) - IbufSize)
  PROVE  LET t == Putc(s, c)
             a == Append(b, c)
         IN  /\ Tame(t, Len(a) - IbufSize)
             /\ Shows(s, Prompted(b), Len(b) + 1) => Shows(t, Prompted(a), Len(a) + 1)
<1> DEFINE t == Putc(s, c)
           a == Append(b, c)
<1>1. /\ a \in Seq(Characters) /\ Len(b) \in Nat /\ Len(a) = Len(b) + 1
      /\ a[Len(b) + 1] = c /\ \A i \in 1 .. Len(b) : a[i] = b[i]
  OBVIOUS
<1>2. c \in Glyphs /\ t = PutcAttr(s, c)
  BY PutcIs DEF Glyphs
<1>3. /\ IbufSize \in Nat /\ Area \in Nat /\ Cols \in Nat /\ IbufSize + 1 <= Area - Cols
  BY SizesFacts
<1> HIDE DEF t, a
<1>4. Tame(t, Len(a) - IbufSize)
  <2>1. /\ Len(b) - IbufSize \in Int /\ Len(b) - IbufSize < Area - Cols
        /\ Len(a) - IbufSize = (Len(b) - IbufSize) + 1
    BY <1>1, <1>3
  <2> QED
    BY <1>2, <2>1, TamePutcAttr
<1>5. ASSUME Shows(s, Prompted(b), Len(b) + 1) PROVE Shows(t, Prompted(a), Len(a) + 1)
  <2>1. \A i \in 1 .. Len(b) + 1 : Prompted(b)[i] = Prompted(a)[i]
    <3> TAKE i \in 1 .. Len(b) + 1
    <3>1. Prompted(b)[1] = "$" /\ Prompted(a)[1] = "$"
      BY <1>1, TextIs
    <3>2. \A j \in 1 .. Len(b) : Prompted(b)[1 + j] = b[j] /\ Prompted(a)[1 + j] = a[j]
      BY <1>1, TextIs
    <3>3. CASE i = 1
      BY <3>1, <3>3
    <3>4. CASE i # 1
      <4>1. i - 1 \in 1 .. Len(b) /\ 1 + (i - 1) = i
        BY <1>1, <3>4
      <4> QED
        BY <1>1, <3>2, <4>1
    <3> QED
      BY <3>3, <3>4
  <2>2. Len(b) + 1 \in Nat /\ Len(b) + 1 < Area - Cols /\ Len(a) + 1 = (Len(b) + 1) + 1
    BY <1>1, <1>3
  <2>3. Shows(s, Prompted(a), Len(b) + 1)
    BY <1>5, <2>1, <2>2, ShowsSame
  <2>4. Prompted(a)[(Len(b) + 1) + 1] = c
    <3>1. Len(a) \in 1 .. Len(a) /\ 1 + Len(a) = (Len(b) + 1) + 1
      BY <1>1
    <3>2. Prompted(a)[1 + Len(a)] = a[Len(a)]
      BY <1>1, <3>1, TextIs
    <3> QED
      BY <1>1, <3>1, <3>2
  <2> QED
    BY <1>2, <2>2, <2>3, <2>4, ShowsPutcAttr
<1> QED
  BY <1>4, <1>5 DEF t, a

LEMMA EraseShows ==
  ASSUME NEW b \in Seq(Characters), Len(b) <= IbufSize, Tame(scr, Len(b) - IbufSize),
         NEW gone \in Seq(Characters), NEW rest \in Seq(Characters),
         Len(gone) + Len(rest) = Len(b), \A i \in 1 .. Len(rest) : rest[i] = b[i]
  PROVE  LET t == RuboutAll(gone)
         IN  /\ Tame(t, Len(rest) - IbufSize)
             /\ Shows(scr, Prompted(b), Len(b) + 1) => Shows(t, Prompted(rest), Len(rest) + 1)
<1> DEFINE t == RuboutAll(gone)
<1>1. /\ Len(b) \in Nat /\ Len(gone) \in Nat /\ Len(rest) \in Nat
      /\ IbufSize \in Nat /\ Above \in Nat /\ IbufSize <= Above
  BY SizesFacts
<1>2. Tame(t, Len(rest) - IbufSize)
  <2>1. /\ Len(b) - IbufSize \in Int /\ (Len(b) - IbufSize) - Len(gone) >= - Above
        /\ Len(rest) - IbufSize = (Len(b) - IbufSize) - Len(gone)
    BY <1>1
  <2> QED
    BY <2>1, TameRubouts
<1>3. ASSUME Shows(scr, Prompted(b), Len(b) + 1) PROVE Shows(t, Prompted(rest), Len(rest) + 1)
  <2>1. /\ Len(b) + 1 \in Nat /\ Len(gone) <= Len(b) + 1
        /\ (Len(b) + 1) - Len(gone) = Len(rest) + 1 /\ Len(rest) + 1 \in Nat
    BY <1>1
  <2>2. Shows(t, Prompted(b), Len(rest) + 1)
    BY <1>3, <2>1, ShowsRubouts
  <2>3. \A i \in 1 .. Len(rest) + 1 : Prompted(b)[i] = Prompted(rest)[i]
    <3> TAKE i \in 1 .. Len(rest) + 1
    <3>1. Prompted(b)[1] = "$" /\ Prompted(rest)[1] = "$"
      BY TextIs
    <3>2. \A j \in 1 .. Len(rest) : Prompted(b)[1 + j] = b[j] /\ Prompted(rest)[1 + j] = rest[j]
      <4>1. \A j \in 1 .. Len(rest) : j \in 1 .. Len(b)
        BY <1>1
      <4> QED
        BY <4>1, TextIs
    <3>3. CASE i = 1
      BY <3>1, <3>3
    <3>4. CASE i # 1
      <4>1. i - 1 \in 1 .. Len(rest) /\ 1 + (i - 1) = i
        BY <1>1, <3>4
      <4>2. Prompted(b)[1 + (i - 1)] = b[i - 1] /\ Prompted(rest)[1 + (i - 1)] = rest[i - 1]
        BY <3>2, <4>1
      <4> QED
        BY <4>1, <4>2
    <3> QED
      BY <3>3, <3>4
  <2> HIDE DEF t
  <2> QED
    BY <2>1, <2>2, <2>3, ShowsSame
<1> QED
  BY <1>2, <1>3 DEF t

(* The line is written behind a prompt. *)
LEMMA RewriteShows ==
  ASSUME NEW b \in Seq(Characters), Len(b) <= IbufSize, NEW s, Shows(s, <<"$">>, 1)
  PROVE  Shows(Puts(s, b), Prompted(b), Len(b) + 1)
<1>1. Len(b) \in Nat /\ 1 + Len(b) <= Area - Cols /\ 1 + Len(b) = Len(b) + 1
  BY SizesFacts
<1>2. /\ b \in Seq(Glyphs) /\ \A k \in 1 .. Len(b) : Prompted(b)[1 + k] = b[k]
      /\ Prompted(b)[1] = <<"$">>[1]
  BY TextIs
<1>3. Shows(s, Prompted(b), 1)
  BY <1>2, ShowsSame
<1>4. Shows(Puts(s, b), Prompted(b), 1 + Len(b))
  BY <1>1, <1>2, <1>3, ShowsPuts
<1> QED
  BY <1>1, <1>4

-----------------------------------------------------------------------------

LEMMA InitIInv == Init => IInv
<1> SUFFICES ASSUME Init PROVE IInv
  OBVIOUS
<1>1. InterruptsTypeOK
  BY LinesFacts DEF Init, InterruptsInit, InterruptsTypeOK
<1>2. EditorTypeOK
  <2>1. /\ line \in Seq(Characters) /\ entered \in Seq(Characters)
        /\ pending \in Seq([code : Codes, make : BOOLEAN]) /\ Len(pending) <= KeysAhead
        /\ ibuf \in Seq(Characters) /\ Len(ibuf) <= IbufSize
    BY EmptySeq, Sizes DEF Init
  <2>2. /\ program = "loader" /\ pc = "pic"
        /\ ctrl = FALSE /\ completed = FALSE /\ cleared = FALSE
        /\ waited = FALSE /\ shown = FALSE /\ deaf = FALSE
    BY DEF Init
  <2> QED
    BY <2>1, <2>2 DEF EditorTypeOK, BootPC
<1>3. Control
  BY DEF Init, InterruptsInit, Control, Latched, ShutOut, Booting, Connected, Kernel, ShellPC
<1>4. HandOver
  BY DEF Init, HandOver, Fetching, NothingDropped, LineAsEntered
<1> QED
  BY <1>1, <1>2, <1>3, <1>4 DEF IInv, Types

(* booting *)
LEMMA BootStep ==
  ASSUME IInv, InitPic \/ InitIdt \/ InitPit \/ InitConsole \/ InitKeyboard \/ Jump \/ Error \/ Sti
  PROVE  IInv'
<1> USE LinesFacts, Sizes, EmptySeq
        DEF IInv, Types, Goto, Kernel, keys, editor, shell, history, pic, interrupts,
            BootPC, ShellPC
<1>1. CASE InitPic
  <2>1. InterruptsTypeOK'
    BY <1>1 DEF InitPic, PicInit, MaskAll, InterruptsTypeOK
  <2>2. EditorTypeOK'
    BY <1>1 DEF InitPic, PicInit, MaskAll, EditorTypeOK
  <2>3. Control'
    BY <1>1
       DEF InitPic, PicInit, MaskAll, Control, Latched, ShutOut, Booting, Connected,
           InterruptsTypeOK, EditorTypeOK
  <2>4. HandOver'
    BY <1>1 DEF InitPic, PicInit, MaskAll, HandOver, Fetching, NothingDropped, LineAsEntered
  <2> QED
    BY <2>1, <2>2, <2>3, <2>4
<1>2. CASE InitIdt
  <2>1. InterruptsTypeOK'
    BY <1>2 DEF InitIdt, IdtInit, InterruptsTypeOK
  <2>2. EditorTypeOK'
    BY <1>2 DEF InitIdt, IdtInit, EditorTypeOK
  <2>3. Control'
    BY <1>2
       DEF InitIdt, IdtInit, Control, Latched, ShutOut, Booting, Connected,
           InterruptsTypeOK, EditorTypeOK
  <2>4. HandOver'
    BY <1>2 DEF InitIdt, IdtInit, HandOver, Fetching, NothingDropped, LineAsEntered
  <2> QED
    BY <2>1, <2>2, <2>3, <2>4
<1>3. CASE InitPit
  <2>1. InterruptsTypeOK'
    BY <1>3 DEF InitPit, Register, EnableIrq, SendEoi, EndOne, InterruptsTypeOK
  <2>2. EditorTypeOK'
    BY <1>3 DEF InitPit, Register, EnableIrq, SendEoi, EndOne, EditorTypeOK
  <2>3. Control'
    BY <1>3
       DEF InitPit, Register, EnableIrq, SendEoi, EndOne, Control, Latched, ShutOut,
           Booting, Connected, InterruptsTypeOK, EditorTypeOK
  <2>4. HandOver'
    BY <1>3
       DEF InitPit, Register, EnableIrq, SendEoi, EndOne, HandOver, Fetching,
           NothingDropped, LineAsEntered
  <2> QED
    BY <2>1, <2>2, <2>3, <2>4
<1>4. CASE InitConsole
  <2>1. InterruptsTypeOK'
    BY <1>4 DEF InitConsole, InterruptsTypeOK
  <2>2. EditorTypeOK'
    <3>1. ibuf' \in Seq(Characters) /\ Len(ibuf') <= IbufSize
      BY <1>4 DEF InitConsole
    <3>2. /\ UNCHANGED <<program, line, pending, ctrl, entered, waited, shown, deaf>>
          /\ pc' = "keyboard" /\ completed' = FALSE /\ cleared' = TRUE
      BY <1>4 DEF InitConsole
    <3> QED
      BY <3>1, <3>2 DEF EditorTypeOK
  <2>3. Control'
    BY <1>4
       DEF InitConsole, Control, Latched, ShutOut, Booting, Connected, InterruptsTypeOK,
           EditorTypeOK
  <2>4. HandOver'
    BY <1>4 DEF InitConsole, HandOver, Fetching, NothingDropped, LineAsEntered
  <2> QED
    BY <2>1, <2>2, <2>3, <2>4
<1>5. CASE InitKeyboard
  <2>1. InterruptsTypeOK'
    BY <1>5 DEF InitKeyboard, Register, EnableIrq, SendEoi, EndOne, InterruptsTypeOK
  <2>2. EditorTypeOK'
    BY <1>5 DEF InitKeyboard, Register, EnableIrq, SendEoi, EndOne, EditorTypeOK
  <2>3. Control'
    BY <1>5
       DEF InitKeyboard, Register, EnableIrq, SendEoi, EndOne, Control, Latched, ShutOut,
           Booting, Connected, InterruptsTypeOK, EditorTypeOK
  <2>4. HandOver'
    BY <1>5
       DEF InitKeyboard, Register, EnableIrq, SendEoi, EndOne, HandOver, Fetching,
           NothingDropped, LineAsEntered
  <2> QED
    BY <2>1, <2>2, <2>3, <2>4
<1>6. CASE Jump
  <2>1. InterruptsTypeOK'
    BY <1>6 DEF Jump, InterruptsTypeOK
  <2>2. EditorTypeOK'
    <3>1. ibuf' \in Seq(Characters) /\ Len(ibuf') <= IbufSize
      BY <1>6 DEF Jump
    <3>2. /\ UNCHANGED <<line, pending, entered, waited, shown, deaf>>
          /\ program' = "kernel" /\ pc' = "idt"
          /\ ctrl' = FALSE /\ completed' = FALSE /\ cleared' = FALSE
      BY <1>6 DEF Jump
    <3> QED
      BY <3>1, <3>2 DEF EditorTypeOK
  <2>3. Control'
    BY <1>6
       DEF Jump, Control, Latched, ShutOut, Booting, Connected, InterruptsTypeOK,
           EditorTypeOK
  <2>4. HandOver'
    BY <1>6 DEF Jump, HandOver, Fetching, NothingDropped, LineAsEntered
  <2> QED
    BY <2>1, <2>2, <2>3, <2>4
<1>7. CASE Error
  <2>1. InterruptsTypeOK'
    BY <1>7 DEF Error, InterruptsTypeOK
  <2>2. EditorTypeOK'
    BY <1>7 DEF Error, EditorTypeOK
  <2>3. Control'
    BY <1>7
       DEF Error, Control, Latched, ShutOut, Booting, Connected, InterruptsTypeOK,
           EditorTypeOK
  <2>4. HandOver'
    BY <1>7 DEF Error, HandOver, Fetching, NothingDropped, LineAsEntered
  <2> QED
    BY <2>1, <2>2, <2>3, <2>4
<1>8. CASE Sti
  <2>1. InterruptsTypeOK'
    BY <1>8 DEF Sti, InterruptsTypeOK
  <2>2. EditorTypeOK'
    BY <1>8 DEF Sti, EditorTypeOK
  <2>3. Control'
    BY <1>8 DEF Sti, Control, Latched, ShutOut, Booting, Connected, InterruptsTypeOK, EditorTypeOK
  <2>4. HandOver'
    BY <1>8 DEF Sti, HandOver, Fetching, NothingDropped, LineAsEntered
  <2> QED
    BY <2>1, <2>2, <2>3, <2>4
<1> QED
  BY <1>1, <1>2, <1>3, <1>4, <1>5, <1>6, <1>7, <1>8

(* shell_do and console_get_line *)
LEMMA ShellStep ==
  ASSUME IInv, Welcome \/ Prompt \/ Enter \/ Uncl \/ Loop \/ Test \/ Open \/ Take \/ Reset \/ Echo
  PROVE  IInv'
<1> USE LinesFacts, Sizes, EmptySeq
        DEF IInv, Types, Goto, Kernel, keys, editor, shell, history, pic, interrupts,
            BootPC, ShellPC
<1>1. CASE Welcome
  <2>1. InterruptsTypeOK'
    BY <1>1 DEF Welcome, InterruptsTypeOK
  <2>2. EditorTypeOK'
    BY <1>1 DEF Welcome, EditorTypeOK
  <2>3. Control'
    BY <1>1
       DEF Welcome, Control, Latched, ShutOut, Booting, Connected, InterruptsTypeOK,
           EditorTypeOK
  <2>4. HandOver'
    BY <1>1 DEF Welcome, HandOver, Fetching, NothingDropped, LineAsEntered
  <2> QED
    BY <2>1, <2>2, <2>3, <2>4
<1>2. CASE Prompt
  <2>1. InterruptsTypeOK'
    BY <1>2 DEF Prompt, InterruptsTypeOK
  <2>2. EditorTypeOK'
    <3>1. shown' \in BOOLEAN
      <4>1. OnScreen(scr) \in BOOLEAN
        BY DEF OnScreen
      <4> QED
        BY <1>2, <4>1, Zenon DEF Prompt
    <3>2. /\ UNCHANGED <<program, line, pending, ctrl, ibuf, completed, cleared,
                       entered, waited, deaf>>
          /\ pc' = "enter"
      BY <1>2 DEF Prompt
    <3> QED
      BY <3>1, <3>2 DEF EditorTypeOK
  <2>3. Control'
    BY <1>2
       DEF Prompt, Control, Latched, ShutOut, Booting, Connected, InterruptsTypeOK,
           EditorTypeOK
  <2>4. HandOver'
    BY <1>2 DEF Prompt, HandOver, Fetching, NothingDropped, LineAsEntered
  <2> QED
    BY <2>1, <2>2, <2>3, <2>4
<1>3. CASE Enter
  <2>1. InterruptsTypeOK'
    BY <1>3 DEF Enter, InterruptsTypeOK
  <2>2. EditorTypeOK'
    BY <1>3 DEF Enter, EditorTypeOK
  <2>3. Control'
    BY <1>3
       DEF Enter, Control, Latched, ShutOut, Booting, Connected, InterruptsTypeOK,
           EditorTypeOK
  <2>4. HandOver'
    BY <1>3 DEF Enter, HandOver, Fetching, NothingDropped, LineAsEntered
  <2> QED
    BY <2>1, <2>2, <2>3, <2>4
<1>4. CASE Uncl
  <2>1. InterruptsTypeOK'
    BY <1>4 DEF Uncl, InterruptsTypeOK
  <2>2. EditorTypeOK'
    BY <1>4 DEF Uncl, EditorTypeOK
  <2>3. Control'
    BY <1>4
       DEF Uncl, Control, Latched, ShutOut, Booting, Connected, InterruptsTypeOK,
           EditorTypeOK
  <2>4. HandOver'
    BY <1>4 DEF Uncl, HandOver, Fetching, NothingDropped, LineAsEntered
  <2> QED
    BY <2>1, <2>2, <2>3, <2>4
<1>5. CASE Loop
  <2>1. InterruptsTypeOK'
    BY <1>5 DEF Loop, Close, DisableIrq, InterruptsTypeOK
  <2>2. EditorTypeOK'
    BY <1>5 DEF Loop, Close, DisableIrq, EditorTypeOK
  <2>3. Control'
    BY <1>5
       DEF Loop, Close, DisableIrq, Control, Latched, ShutOut, Booting, Connected,
           InterruptsTypeOK, EditorTypeOK
  <2>4. HandOver'
    BY <1>5 DEF Loop, Close, DisableIrq, HandOver, Fetching, NothingDropped, LineAsEntered
  <2> QED
    BY <2>1, <2>2, <2>3, <2>4
<1>6. CASE Test
  <2>1. InterruptsTypeOK'
    BY <1>6 DEF Test, Reopen, EnableIrq, InterruptsTypeOK
  <2>2. EditorTypeOK'
    BY <1>6 DEF Test, Reopen, EnableIrq, EditorTypeOK
  <2>3. Control'
    BY <1>6
       DEF Test, Reopen, EnableIrq, Control, Latched, ShutOut, Booting, Connected,
           InterruptsTypeOK, EditorTypeOK
  <2>4. HandOver'
    BY <1>6 DEF Test, Reopen, EnableIrq, HandOver, Fetching, NothingDropped, LineAsEntered
  <2> QED
    BY <2>1, <2>2, <2>3, <2>4
<1>7. CASE Open
  <2>1. InterruptsTypeOK'
    BY <1>7 DEF Open, Reopen, EnableIrq, InterruptsTypeOK
  <2>2. EditorTypeOK'
    BY <1>7 DEF Open, Reopen, EnableIrq, EditorTypeOK
  <2>3. Control'
    BY <1>7
       DEF Open, Reopen, EnableIrq, Control, Latched, ShutOut, Booting, Connected,
           InterruptsTypeOK, EditorTypeOK
  <2>4. HandOver'
    BY <1>7 DEF Open, Reopen, EnableIrq, HandOver, Fetching, NothingDropped, LineAsEntered
  <2> QED
    BY <2>1, <2>2, <2>3, <2>4
<1>8. CASE Take
  <2>1. InterruptsTypeOK'
    BY <1>8 DEF Take, InterruptsTypeOK
  <2>2. EditorTypeOK'
    BY <1>8 DEF Take, EditorTypeOK
  <2>3. Control'
    BY <1>8
       DEF Take, Control, Latched, ShutOut, Booting, Connected, InterruptsTypeOK,
           EditorTypeOK
  <2>4. HandOver'
    BY <1>8 DEF Take, HandOver, Fetching, NothingDropped, LineAsEntered
  <2> QED
    BY <2>1, <2>2, <2>3, <2>4
<1>9. CASE Reset
  <2>1. InterruptsTypeOK'
    BY <1>9 DEF Reset, InterruptsTypeOK
  <2>2. EditorTypeOK'
    BY <1>9 DEF Reset, EditorTypeOK
  <2>3. Control'
    BY <1>9
       DEF Reset, Control, Latched, ShutOut, Booting, Connected, InterruptsTypeOK,
           EditorTypeOK
  <2>4. HandOver'
    BY <1>9 DEF Reset, HandOver, Fetching, NothingDropped, LineAsEntered
  <2> QED
    BY <2>1, <2>2, <2>3, <2>4
<1>10. CASE Echo
  <2>1. InterruptsTypeOK'
    BY <1>10 DEF Echo, InterruptsTypeOK
  <2>2. EditorTypeOK'
    BY <1>10 DEF Echo, EditorTypeOK
  <2>3. Control'
    BY <1>10
       DEF Echo, Control, Latched, ShutOut, Booting, Connected, InterruptsTypeOK,
           EditorTypeOK
  <2>4. HandOver'
    BY <1>10 DEF Echo, HandOver, Fetching, NothingDropped, LineAsEntered
  <2> QED
    BY <2>1, <2>2, <2>3, <2>4
<1> QED
  BY <1>1, <1>2, <1>3, <1>4, <1>5, <1>6, <1>7, <1>8, <1>9, <1>10

-----------------------------------------------------------------------------
(* The keyboard and its handler.                                           *)

LEMMA PressStep ==
  ASSUME IInv, NEW code \in Codes, NEW make \in BOOLEAN, Press(code, make)
  PROVE  IInv'
<1> USE Sizes DEF IInv, Types, editor, shell, history
<1>1. pending \in Seq([code : Codes, make : BOOLEAN]) /\ Len(pending) < KeysAhead
  BY DEF Press, EditorTypeOK
<1>2. [code |-> code, make |-> make] \in [code : Codes, make : BOOLEAN]
  OBVIOUS
<1>3. /\ pending' \in Seq([code : Codes, make : BOOLEAN]) /\ pending' # <<>>
      /\ Len(pending') <= KeysAhead
  BY <1>1, <1>2, AppendSeq DEF Press
<1>4. /\ UNCHANGED <<program, pc, line, ctrl, ibuf, completed, cleared, intr, imr,
                   serviced, gate, entered, waited, shown, deaf>>
  BY DEF Press
<1>5. requested' \in BOOLEAN
  BY Zenon DEF Press, InterruptsTypeOK
<1>6. Types'
  BY <1>3, <1>4, <1>5 DEF InterruptsTypeOK, EditorTypeOK
<1>7. Control' /\ HandOver'
  BY <1>3, <1>4 DEF Control, Latched, ShutOut, Booting, Connected, Kernel, HandOver,
                    Fetching, NothingDropped, LineAsEntered
<1> QED
  BY <1>6, <1>7

(* What a key does to the line: nothing, or a character is put at its end, *)
(* or it is completed, or what is not completed loses its end or all.      *)
Edited ==
  \/ UNCHANGED <<ibuf, completed, entered>>
  \/ /\ \E c \in Characters : Len(ibuf) < IbufSize /\ ibuf' = Append(ibuf, c)
     /\ UNCHANGED <<completed, entered>>
  \/ /\ completed' = TRUE
     /\ entered' = IF completed THEN entered ELSE ibuf
     /\ UNCHANGED ibuf
  \/ /\ ~completed /\ ibuf # <<>>
     /\ ibuf' = <<>> \/ ibuf' = Front(ibuf)
     /\ UNCHANGED <<completed, entered>>

LEMMA PutCharEdits ==
  ASSUME NEW c \in Characters, PutChar(c)
  PROVE  Edited /\ UNCHANGED <<cleared, shown>>
BY Zenon DEF PutChar, Edited

LEMMA DelIbufEdits ==
  ASSUME NEW all \in BOOLEAN, DelIbuf(all)
  PROVE  Edited /\ UNCHANGED <<cleared, shown>>
BY Zenon DEF DelIbuf, Erase, NoEdit, Edited, editor

LEMMA EditEdits ==
  ASSUME NEW code \in Codes, code # "ctrl", Edit(code)
  PROVE  Edited /\ \/ UNCHANGED <<cleared, shown>>
                   \/ cleared' = TRUE /\ shown' = (shown /\ pc # "uncl")
<1>1. CASE code = "enter"
  <2>1. PutNewline
    BY <1>1, Zenon DEF Edit
  <2> QED
    BY <2>1, Zenon DEF PutNewline, Edited
<1>2. CASE code = "erase"
  BY <1>2, DelIbufEdits DEF Edit
<1>3. CASE code = "u" /\ ctrl
  BY <1>3, DelIbufEdits DEF Edit
<1>4. CASE code = "l" /\ ctrl
  BY <1>4 DEF Edit, Clear, Edited
<1>5. CASE code = "unmapped"
  BY <1>5, PutCharEdits DEF Edit, NoEdit, Edited, Characters, editor
<1>6. CASE /\ code \notin {"enter", "erase", "unmapped"}
           /\ ~(code = "u" /\ ctrl) /\ ~(code = "l" /\ ctrl)
  <2>1. code \in Characters
    BY <1>6 DEF Codes, Characters
  <2>2. PutChar(code)
    BY <1>6 DEF Edit
  <2> QED
    BY <2>1, <2>2, PutCharEdits
<1> QED
  BY <1>1, <1>2, <1>3, <1>4, <1>5, <1>6

LEMMA IsrStep == ASSUME IInv, KeyboardIsr PROVE IInv'
<1> USE Sizes DEF IInv, Types
<1> DEFINE e == Head(pending)
<1>1. /\ intr /\ requested
      /\ pending' = Tail(pending) /\ requested' = (Len(pending) > 1)
      /\ ctrl' = IF e.code = "ctrl" THEN e.make ELSE ctrl
      /\ serviced' = SendEoi(Acknowledged(KEYBOARD_IRQ_NUM))
      /\ pc' \in Resumed
      /\ UNCHANGED <<program, line, intr, imr, gate, waited, deaf>>
  BY Zenon DEF KeyboardIsr, Deliverable, End
<1>2. /\ pending # <<>> /\ pending \in Seq([code : Codes, make : BOOLEAN])
      /\ Len(pending) <= KeysAhead
  BY <1>1 DEF Control, Latched, EditorTypeOK
<1>3. e \in [code : Codes, make : BOOLEAN]
  BY <1>2, TailSeq
<1>4. /\ pending' \in Seq([code : Codes, make : BOOLEAN]) /\ Len(pending') <= KeysAhead
      /\ Len(pending) > 1 => pending' # <<>>
  BY <1>1, <1>2, TailSeq, TailMore
<1>5. /\ Kernel /\ pc \notin BootPC
      /\ pc \notin {"test", "open", "take", "reset", "echo"}
  BY <1>1 DEF Control, ShutOut
<1>6. Edited /\ \/ UNCHANGED <<cleared, shown>>
                \/ cleared' = TRUE /\ shown' = (shown /\ pc # "uncl")
  <2>1. CASE e.make /\ e.code # "ctrl"
    <3>1. Edit(e.code)
      BY <2>1, Zenon DEF KeyboardIsr
    <3> QED
      BY <1>3, <2>1, <3>1, EditEdits
  <2>2. CASE ~(e.make /\ e.code # "ctrl")
    <3>1. NoEdit
      BY <2>2, Zenon DEF KeyboardIsr
    <3> QED
      BY <3>1 DEF NoEdit, Edited, editor
  <2> QED
    BY <2>1, <2>2
<1>13. pc' = pc \/ pc' \in {"loop", "lost"}
  BY <1>1 DEF Resumed
<1>7. /\ ibuf \in Seq(Characters) /\ entered \in Seq(Characters)
      /\ Len(ibuf) \in Nat /\ Len(ibuf) <= IbufSize
  BY DEF EditorTypeOK
<1> DEFINE Whole == /\ ibuf' \in Seq(Characters) /\ Len(ibuf') <= IbufSize
                    /\ completed' \in BOOLEAN /\ entered' \in Seq(Characters)
                    /\ completed' => IsPrefix(entered', ibuf')
<1>8. Whole
  <2>1. CASE UNCHANGED <<ibuf, completed, entered>>
    BY <1>7, <2>1 DEF EditorTypeOK, HandOver, LineAsEntered
  <2>2. ASSUME NEW c \in Characters, Len(ibuf) < IbufSize, ibuf' = Append(ibuf, c),
               UNCHANGED <<completed, entered>>
        PROVE  Whole
    <3>1. /\ ibuf' \in Seq(Characters) /\ Len(ibuf') <= IbufSize
          /\ completed' \in BOOLEAN /\ entered' \in Seq(Characters)
      BY <1>7, <2>2, AppendSeq DEF EditorTypeOK
    <3>2. ASSUME completed' PROVE IsPrefix(entered', ibuf')
      <4>1. IsPrefix(entered, ibuf)
        BY <2>2, <3>2 DEF HandOver, LineAsEntered
      <4> QED
        BY <1>7, <2>2, <4>1, PrefixAppend
    <3> QED
      BY <3>1, <3>2
  <2>3. CASE /\ completed' = TRUE
             /\ entered' = IF completed THEN entered ELSE ibuf
             /\ UNCHANGED ibuf
    <3>1. CASE completed
      BY <1>7, <2>3, <3>1 DEF HandOver, LineAsEntered
    <3>2. CASE ~completed
      BY <1>7, <2>3, <3>2, PrefixSelf
    <3> QED
      BY <3>1, <3>2
  <2>4. CASE /\ ~completed /\ ibuf # <<>>
             /\ ibuf' = <<>> \/ ibuf' = Front(ibuf)
             /\ UNCHANGED <<completed, entered>>
    <3>1. ibuf' \in Seq(Characters) /\ Len(ibuf') <= IbufSize
      <4>1. CASE ibuf' = <<>>
        <5>1. <<>> \in Seq(Characters) /\ Len(<<>>) = 0
          BY EmptySeq
        <5> QED
          BY <4>1, <5>1, SizesAssumption
      <4>2. CASE ibuf' = Front(ibuf)
        <5>1. Front(ibuf) \in Seq(Characters) /\ Len(Front(ibuf)) = Len(ibuf) - 1
          BY <1>7, <2>4, FrontSeq
        <5> QED
          BY <1>7, <4>2, <5>1
      <4> QED
        BY <2>4, <4>1, <4>2
    <3> QED
      BY <1>7, <2>4, <3>1 DEF EditorTypeOK
  <2> HIDE DEF Whole
  <2> QED
    BY <1>6, <2>1, <2>2, <2>3, <2>4 DEF Edited
<1>9. InterruptsTypeOK'
  <2>1. /\ requested' \in BOOLEAN
    BY <1>1
  <2>2. serviced' \subseteq Lines
    BY <1>1, LinesFacts DEF SendEoi, EndOne, Acknowledged, InterruptsTypeOK
  <2> QED
    BY <1>1, <2>1, <2>2 DEF InterruptsTypeOK
<1>10. EditorTypeOK'
  <2>1. ctrl' \in BOOLEAN
    BY <1>1, <1>3, Zenon DEF EditorTypeOK
  <2>2. cleared' \in BOOLEAN /\ shown' \in BOOLEAN
    BY <1>6, Zenon DEF EditorTypeOK
  <2>3. pc' \in BootPC \cup ShellPC
    BY <1>13 DEF EditorTypeOK, ShellPC
  <2> QED
    BY <1>1, <1>4, <1>8, <2>1, <2>2, <2>3 DEF EditorTypeOK
<1>11. Control'
  <2>1. /\ pc' \notin BootPC \cup {"test", "open", "take", "reset", "echo"}
        /\ Kernel' /\ pc \in ShellPC
    BY <1>1, <1>5, <1>13 DEF Kernel, BootPC, EditorTypeOK
  <2>2. Latched'
    BY <1>1, <1>4 DEF Control, Latched
  <2>3. ShutOut' /\ Booting'
    BY <2>1 DEF ShutOut, Booting, BootPC, Kernel
  <2>4. Connected'
    BY <1>1, <1>5, <2>1 DEF Control, Connected, BootPC
  <2> QED
    BY <2>2, <2>3, <2>4 DEF Control
<1>12. HandOver'
  BY <1>1, <1>5, <1>8, <1>13 DEF HandOver, Fetching, NothingDropped, LineAsEntered
<1> QED
  BY <1>9, <1>10, <1>11, <1>12

LEMMA Step == ASSUME IInv, [Next]_vars PROVE IInv'
<1>1. ASSUME NEW code \in Codes, NEW make \in BOOLEAN, Press(code, make) PROVE IInv'
  BY <1>1, PressStep
<1>2. CASE KeyboardIsr
  BY <1>2, IsrStep
<1>3. CASE Shell
  BY <1>3, BootStep, ShellStep DEF Shell, Boot
<1>4. CASE UNCHANGED vars
  BY <1>4 DEF vars, shell, keys, editor, interrupts, pic, history, IInv, Types,
              InterruptsTypeOK, EditorTypeOK, Control, Latched, ShutOut, Booting,
              Connected, Kernel, HandOver, Fetching, NothingDropped, LineAsEntered
<1> QED
  BY <1>1, <1>2, <1>3, <1>4 DEF Next

-----------------------------------------------------------------------------

(* The inductive invariant holds from power-up on, in either program.      *)
THEOREM Invariance == Spec => []IInv
<1>1. IInv /\ [Next]_vars => IInv'
  BY Step
<1> QED
  BY InitIInv, <1>1, PTL DEF Spec

(* No interrupt that is let through finds a handler other than its own.    *)
THEOREM HandlersInPlace == Spec => []HandlersReady
<1>1. ASSUME IInv PROVE HandlersReady
  <2>1. SUFFICES ASSUME NEW l \in Lines, Deliverable(l) PROVE gate[l] = Isr[l]
    BY DEF HandlersReady
  <2>2. intr /\ l \notin imr
    BY <2>1 DEF Deliverable
  <2>3. Kernel /\ pc \in ShellPC
    BY <1>1, <2>2 DEF IInv, Types, EditorTypeOK, Control, ShutOut
  <2>4. /\ PIT_IRQ_NUM \in imr
        /\ gate[KEYBOARD_IRQ_NUM] = Isr[KEYBOARD_IRQ_NUM]
    BY <1>1, <2>3 DEF IInv, Control, Connected, ShellPC
  <2> QED
    BY <2>2, <2>4 DEF Lines
<1> QED
  BY Invariance, <1>1, PTL

(* get_line empties the buffer of what it has handed over and of nothing   *)
(* else.                                                                   *)
THEOREM NothingLost == Spec => []NothingDropped
<1>1. IInv => NothingDropped
  BY DEF IInv, HandOver
<1> QED
  BY Invariance, <1>1, PTL

(* A completed line is handed over as it was when Enter was pressed.       *)
THEOREM LineKept == Spec => []LineAsEntered
<1>1. IInv => LineAsEntered
  BY DEF IInv, HandOver
<1> QED
  BY Invariance, <1>1, PTL

-----------------------------------------------------------------------------
(* The screen as the two programs leave it.                                *)

(* Where the main thread cannot be interrupted any more once get_line has  *)
(* waited, and what it finds there: the first prompt is written to a       *)
(* cleared console, a later one for a cleared console or an empty line.    *)
Quiet ==
  /\ waited => pc \notin BootPC \cup {"welcome"}
  /\ pc \in {"test", "open", "take", "reset", "echo", "halted"} => waited
  /\ pc = "halted" => ~Kernel
  /\ waited /\ pc \in {"prompt", "enter", "uncl"} => ~intr
  /\ ~waited /\ pc \in {"keyboard", "sti", "load", "welcome", "prompt", "enter", "uncl"}
       => cleared
  /\ pc = "echo" => ibuf = <<>>
  /\ waited /\ pc \in {"prompt", "enter"} /\ ~cleared => ibuf = <<>>

(* Where the line on the screen is the one in the buffer. *)
Following == /\ shown /\ ~completed
             /\ pc = "uncl" \/ (pc \in {"loop", "test", "open"} /\ ~cleared)

(* The screen keeps room for what may still be erased, and shows what it   *)
(* is to show.                                                             *)
Drawn == \/ scr = Garbled
         \/ /\ Tame(scr, Len(ibuf) - IbufSize)
            /\ pc = "enter" /\ shown => Shows(scr, <<"$">>, 1)
            /\ Following => Shows(scr, Prompted(ibuf), Len(ibuf) + 1)

LEMMA QuietStep == ASSUME IInv, Quiet, [Next]_vars PROVE Quiet'
<1> USE DEF Kernel, BootPC, ShellPC, Goto
<1>1. ASSUME NEW code \in Codes, NEW make \in BOOLEAN, Press(code, make) PROVE Quiet'
  BY <1>1 DEF Press, Quiet, shell, editor, history
<1>2. CASE KeyboardIsr
  <2> DEFINE e == Head(pending)
  <2>1. /\ intr /\ requested
        /\ pc' \in Resumed
        /\ UNCHANGED <<program, intr, waited>>
    BY <1>2, Zenon DEF KeyboardIsr, Deliverable
  <2>2. /\ Kernel /\ pc \notin BootPC /\ pc \notin {"test", "open", "take", "reset", "echo"}
    BY <2>1 DEF IInv, Control, ShutOut
  <2>3. pc' = pc \/ pc' = "lost"
    BY <2>1, <2>2 DEF Resumed, Quiet
  <2>4. cleared' = cleared \/ cleared' = TRUE
    <3>1. /\ pending # <<>> /\ pending \in Seq([code : Codes, make : BOOLEAN])
      BY <2>1 DEF IInv, Types, Control, Latched, EditorTypeOK
    <3>2. e \in [code : Codes, make : BOOLEAN]
      BY <3>1, TailSeq
    <3>3. CASE e.make /\ e.code # "ctrl"
      <4>1. Edit(e.code)
        BY <1>2, <3>3, Zenon DEF KeyboardIsr
      <4> QED
        BY <3>2, <3>3, <4>1, EditEdits
    <3>4. CASE ~(e.make /\ e.code # "ctrl")
      BY <1>2, <3>4 DEF KeyboardIsr, NoEdit, editor
    <3> QED
      BY <3>3, <3>4
  <2> QED
    BY <2>1, <2>2, <2>3, <2>4 DEF Quiet
<1>3. CASE Shell
  <2> USE DEF keys, editor, shell, history, pic, interrupts
  <2>1. CASE InitPic \/ InitIdt \/ InitPit \/ InitConsole
    BY <2>1 DEF InitPic, InitIdt, InitPit, InitConsole, Quiet
  <2>2. CASE InitKeyboard \/ Jump \/ Error \/ Sti
    BY <2>2 DEF InitKeyboard, Jump, Error, Sti, Quiet
  <2>3. CASE Welcome \/ Prompt
    BY <2>3 DEF Welcome, Prompt, Quiet
  <2>9. CASE Enter
    <3>1. /\ pc = "enter" /\ pc' \in {"uncl", "loop"}
          /\ UNCHANGED <<program, ibuf, cleared, waited, intr>>
      BY <2>9, Zenon DEF Enter
    <3> QED
      BY <3>1 DEF Quiet
  <2>10. CASE Uncl
    <3>1. pc = "uncl" /\ pc' = "loop" /\ UNCHANGED <<program, ibuf, waited, intr>>
      BY <2>10 DEF Uncl
    <3> QED
      BY <3>1 DEF Quiet
  <2>4. CASE Loop
    BY <2>4 DEF Loop, Quiet
  <2>5. CASE Test
    <3>1. ~intr /\ waited
      BY <2>5 DEF Test, Quiet, IInv, Control, ShutOut
    <3>2. /\ pc' \in {"take", "prompt", "open"} /\ (pc' = "prompt" => cleared)
          /\ UNCHANGED <<program, ibuf, cleared, waited, intr>>
      BY <2>5, <3>1 DEF Test, Reopen
    <3>3. ~intr' /\ waited' /\ (pc' = "prompt" => cleared')
      BY <3>1, <3>2
    <3> QED
      BY <3>2, <3>3 DEF Quiet
  <2>6. CASE Open
    BY <2>6 DEF Open, Quiet
  <2>7. CASE Take \/ Reset
    BY <2>7 DEF Take, Reset, Quiet
  <2>8. CASE Echo
    BY <2>8 DEF Echo, Quiet, IInv, Control, ShutOut
  <2> QED
    BY <1>3, <2>1, <2>2, <2>3, <2>4, <2>5, <2>6, <2>7, <2>8, <2>9, <2>10 DEF Shell, Boot
<1>4. CASE UNCHANGED vars
  BY <1>4 DEF vars, shell, editor, interrupts, history, Quiet
<1> QED
  BY <1>1, <1>2, <1>3, <1>4 DEF Next

LEMMA DrawnSame ==
  ASSUME Drawn, UNCHANGED <<scr, ibuf, shown>>, pc' # "enter",
         Following' => Following
  PROVE  Drawn'
<1>1. CASE scr = Garbled
  BY <1>1 DEF Drawn, Garbled, ClearScreen
<1>2. CASE scr # Garbled
  <2>1. Tame(scr, Len(ibuf) - IbufSize)
    BY <1>2 DEF Drawn
  <2>2. Tame(scr', Len(ibuf') - IbufSize)
    BY <2>1
  <2>3. Following' => Shows(scr', Prompted(ibuf'), Len(ibuf') + 1)
    BY <1>2 DEF Drawn
  <2> QED
    BY <2>2, <2>3 DEF Drawn
<1> QED
  BY <1>1, <1>2

(* The screen as a step leaves it, where no prompt and no line is meant to *)
(* be on it.                                                               *)
LEMMA DrawnOnly ==
  ASSUME pc' # "enter", ~Following', scr' = Garbled \/ Tame(scr', Len(ibuf') - IbufSize)
  PROVE  Drawn'
BY DEF Drawn, Garbled, ClearScreen

LEMMA LowFacts ==
  ASSUME EditorTypeOK
  PROVE  /\ ibuf \in Seq(Characters) /\ Len(ibuf) \in Nat
         /\ Len(ibuf) - IbufSize \in Int /\ Len(ibuf) - IbufSize < Area - Cols
         /\ Len(ibuf) - IbufSize <= 0 /\ Len(ibuf) <= IbufSize
         /\ Len(ibuf) - IbufSize >= 0 - IbufSize /\ 0 - IbufSize \in Int
<1>1. ibuf \in Seq(Characters) /\ Len(ibuf) \in Nat /\ Len(ibuf) <= IbufSize
  BY DEF EditorTypeOK
<1> QED
  BY <1>1, SizesFacts

(* What the main thread writes leaves the screen as it must be. *)
LEMMA DisplayTame ==
  ASSUME EditorTypeOK, Drawn, NEW str \in Seq(Glyphs \cup {"\n"}), Display(str),
         UNCHANGED ibuf
  PROVE  scr' = Garbled \/ Tame(scr', Len(ibuf') - IbufSize)
<1>1. CASE scr = Garbled
  BY <1>1 DEF Display
<1>2. CASE scr # Garbled
  <2>1. Tame(scr, Len(ibuf) - IbufSize) /\ scr' = Puts(scr, str)
    BY <1>2 DEF Drawn, Display
  <2>2. Tame(Puts(scr, str), Len(ibuf) - IbufSize)
    BY <2>1, LowFacts, TamePuts
  <2> QED
    BY <2>1, <2>2
<1> QED
  BY <1>1, <1>2

LEMMA Texts ==
  /\ Message \in Seq(Glyphs \cup {"\n"}) /\ <<"$">> \in Seq(Glyphs)
  /\ <<"$">> \in Seq(Glyphs \cup {"\n"}) /\ Len(<<"$">>) = 1 /\ <<"$">>[1] = "$"
  /\ <<>> \in Seq(Glyphs \cup {"\n"}) /\ Newline \in Seq(Glyphs \cup {"\n"})
BY DEF Message, Newline, Glyphs

LEMMA StrIs ==
  ASSUME NEW l \in Seq(Characters)
  PROVE  Str(l) \in Seq(Characters)
<1> DEFINE ends == {k \in 1 .. Len(l) : l[k] = "NUL"}
           m == Min(ends)
<1>1. CASE ends = {}
  BY <1>1 DEF Str
<1>2. CASE ends # {}
  <2>1. \E x \in ends : \A y \in ends : x <= y
    <3>1. ends \in SUBSET Nat
      OBVIOUS
    <3> HIDE DEF ends
    <3> QED
      BY <1>2, <3>1, LeastNumber
  <2>2. m \in ends
    BY <2>1 DEF Min
  <2>3. Str(l) = SubSeq(l, 1, m - 1)
    BY <1>2, Zenon DEF Str
  <2> HIDE DEF m
  <2>4. m - 1 \in 0 .. Len(l)
    BY <2>2
  <2> QED
    BY <2>3, <2>4, StartSeq
<1> QED
  BY <1>1, <1>2

LEMMA DrawnBootStep == ASSUME IInv, Drawn, Boot PROVE Drawn'
<1> USE DEF keys, editor, shell, history, interrupts, pic, Goto
<1>1. EditorTypeOK
  BY DEF IInv, Types
<1>2. CASE InitPic \/ InitIdt \/ InitPit \/ InitKeyboard
  <2>1. /\ UNCHANGED <<scr, ibuf, shown>>
        /\ pc' \in {"console", "idt", "pit", "pic", "keyboard", "sti", "load"}
    BY <1>2, Zenon DEF InitPic, InitIdt, InitPit, InitKeyboard
  <2>2. pc' # "enter" /\ ~Following'
    BY <2>1 DEF Following
  <2> QED
    BY <2>1, <2>2, DrawnSame
<1>3. CASE InitConsole
  <2>1. scr' = ClearScreen /\ ibuf' = <<>> /\ pc' = "keyboard"
    BY <1>3 DEF InitConsole
  <2>2. Len(ibuf') - IbufSize \in Int /\ Len(ibuf') - IbufSize <= 0
    <3>1. Len(<<>>) = 0
      BY EmptySeq
    <3> QED
      BY <2>1, <3>1, SizesFacts
  <2>3. Tame(scr', Len(ibuf') - IbufSize)
    BY <2>1, <2>2, TameClear
  <2>4. pc' # "enter" /\ ~Following'
    BY <2>1 DEF Following
  <2> QED
    BY <2>3, <2>4, DrawnOnly
<1>4. CASE Jump
  <2>1. scr' = scr /\ ibuf' = <<>> /\ pc' = "idt"
    BY <1>4 DEF Jump
  <2>2. scr' = Garbled \/ Tame(scr', Len(ibuf') - IbufSize)
    <3>1. CASE scr = Garbled
      BY <2>1, <3>1
    <3>2. CASE scr # Garbled
      <4>1. Tame(scr, Len(ibuf) - IbufSize) /\ Len(ibuf') = 0
        BY <2>1, <3>2, EmptySeq DEF Drawn
      <4>2. Tame(scr, 0 - IbufSize)
        BY <1>1, <4>1, LowFacts, TameLower
      <4> QED
        BY <2>1, <4>1, <4>2
    <3> QED
      BY <3>1, <3>2
  <2>3. pc' # "enter" /\ ~Following'
    BY <2>1 DEF Following
  <2> QED
    BY <2>2, <2>3, DrawnOnly
<1>5. CASE Error \/ Sti
  <2>1. Display(Message) /\ pc' = "welcome" /\ UNCHANGED ibuf
    BY <1>5 DEF Error, Sti
  <2>2. pc' # "enter" /\ ~Following'
    BY <2>1 DEF Following
  <2> QED
    BY <1>1, <2>1, <2>2, Texts, DisplayTame, DrawnOnly
<1> QED
  BY <1>2, <1>3, <1>4, <1>5 DEF Boot

LEMMA PromptStep == ASSUME EditorTypeOK, Drawn, Prompt PROVE Drawn'
<1>1. /\ Display(<<"$">>) /\ shown' = OnScreen(scr) /\ pc' = "enter" /\ UNCHANGED ibuf
  BY DEF Prompt, Goto, editor
<1>2. scr' = Garbled \/ Tame(scr', Len(ibuf') - IbufSize)
  BY <1>1, Texts, DisplayTame
<1>3. ~Following'
  BY <1>1 DEF Following
<1>4. ASSUME scr' # Garbled, shown' PROVE Shows(scr', <<"$">>, 1)
  <2>1. scr # Garbled /\ scr' = Puts(scr, <<"$">>) /\ OnScreen(scr)
    BY <1>1, <1>4 DEF Display
  <2>2. Tame(scr, Len(ibuf) - IbufSize)
    BY <2>1 DEF Drawn
  <2>3. Shows(scr, <<"$">>, 0)
    <3>1. scr \in Screens /\ Place(scr) >= 0
      BY <2>1, <2>2, ScreenFacts DEF Tame
    <3> QED
      BY <2>2, <3>1 DEF Shows, Tame
  <2>4. 0 \in Nat /\ 0 + 1 <= Area - Cols /\ \A k \in 1 .. 1 : <<"$">>[0 + k] = <<"$">>[k]
    BY SizesFacts
  <2>5. Shows(Puts(scr, <<"$">>), <<"$">>, 0 + 1)
    BY <2>3, <2>4, Texts, ShowsPuts
  <2> QED
    BY <2>1, <2>5
<1> QED
  BY <1>1, <1>2, <1>3, <1>4 DEF Drawn, Garbled, ClearScreen

LEMMA EnterStep == ASSUME EditorTypeOK, Quiet, Drawn, Enter PROVE Drawn'
<1>1. /\ pc = "enter" /\ pc' = IF cleared THEN "uncl" ELSE "loop"
      /\ UNCHANGED <<ibuf, completed, cleared, shown>>
      /\ IF cleared THEN Display(ibuf) ELSE UNCHANGED scr
  BY DEF Enter, Goto, editor, history
<1>2. /\ ibuf \in Seq(Characters) /\ Len(ibuf) \in Nat /\ Len(ibuf) <= IbufSize
      /\ ibuf \in Seq(Glyphs \cup {"\n"})
  <2>1. ibuf \in Seq(Characters) /\ Len(ibuf) \in Nat /\ Len(ibuf) <= IbufSize
    BY LowFacts
  <2> QED
    BY <2>1, TextIs
<1>3. scr' = Garbled \/ Tame(scr', Len(ibuf') - IbufSize)
  <2>1. CASE cleared
    BY <1>1, <1>2, <2>1, DisplayTame
  <2>2. CASE ~cleared
    BY <1>1, <2>2 DEF Drawn
  <2> QED
    BY <2>1, <2>2
<1>4. ASSUME scr' # Garbled, shown PROVE Shows(scr', Prompted(ibuf), Len(ibuf) + 1)
  <2>1. scr # Garbled
    BY <1>1, <1>4 DEF Display
  <2>2. Shows(scr, <<"$">>, 1)
    BY <1>1, <1>4, <2>1 DEF Drawn
  <2>3. CASE cleared
    <3>1. scr' = Puts(scr, ibuf)
      BY <1>1, <2>1, <2>3 DEF Display
    <3> QED
      BY <1>2, <2>2, <3>1, RewriteShows
  <2>4. CASE ~cleared
    <3>1. ibuf = <<>>
      BY <1>1, <2>4 DEF Quiet
    <3>2. Len(ibuf) + 1 = 1
      <4>1. Len(<<>>) = 0
        BY EmptySeq
      <4> QED
        BY <3>1, <4>1
    <3>3. Shows(scr, Prompted(ibuf), 1)
      <4>1. Prompted(ibuf)[1] = <<"$">>[1]
        BY <1>2, TextIs, Texts
      <4> QED
        BY <2>2, <4>1, ShowsSame
    <3> QED
      BY <1>1, <2>4, <3>2, <3>3
  <2> QED
    BY <2>3, <2>4
<1>5. pc' # "enter"
  BY <1>1
<1>6. Following' => shown
  BY <1>1 DEF Following
<1>7. scr' # Garbled /\ Following' => Shows(scr', Prompted(ibuf'), Len(ibuf') + 1)
  BY <1>1, <1>4, <1>6
<1> QED
  BY <1>3, <1>5, <1>7 DEF Drawn, Garbled, ClearScreen

LEMMA DrawnShellStep ==
  ASSUME IInv, Quiet, Drawn,
         Welcome \/ Prompt \/ Enter \/ Uncl \/ Loop \/ Test \/ Open \/ Take \/ Reset \/ Echo
  PROVE  Drawn'
<1> USE DEF keys, editor, shell, history, interrupts, pic, Goto
<1>1. EditorTypeOK
  BY DEF IInv, Types
<1>2. CASE Welcome
  <2>1. Display(Message) /\ pc' = "prompt" /\ UNCHANGED ibuf
    BY <1>2 DEF Welcome
  <2>2. pc' # "enter" /\ ~Following'
    BY <2>1 DEF Following
  <2> QED
    BY <1>1, <2>1, <2>2, Texts, DisplayTame, DrawnOnly
<1>3. CASE Prompt
  BY <1>1, <1>3, PromptStep
<1>4. CASE Enter
  BY <1>1, <1>4, EnterStep
<1>5. CASE Uncl
  <2>1. pc = "uncl" /\ pc' = "loop" /\ UNCHANGED <<scr, ibuf, shown, completed>>
    BY <1>5 DEF Uncl
  <2>2. pc' # "enter" /\ (Following' => Following)
    BY <2>1 DEF Following
  <2> QED
    BY <2>1, <2>2, DrawnSame
<1>6. CASE Loop
  <2>1. pc = "loop" /\ pc' = "test" /\ UNCHANGED <<scr, ibuf, shown, completed, cleared>>
    BY <1>6 DEF Loop
  <2>2. pc' # "enter" /\ (Following' => Following)
    BY <2>1 DEF Following
  <2> QED
    BY <2>1, <2>2, DrawnSame
<1>7. CASE Test
  <2>1. /\ pc = "test" /\ pc' \in {"take", "prompt", "open"}
        /\ UNCHANGED <<scr, ibuf, shown, completed, cleared>>
    BY <1>7, Zenon DEF Test
  <2>2. pc' # "enter" /\ (Following' => Following)
    BY <2>1 DEF Following
  <2> QED
    BY <2>1, <2>2, DrawnSame
<1>8. CASE Open
  <2>1. /\ pc = "open" /\ pc' \in {"loop", "halted"}
        /\ UNCHANGED <<scr, ibuf, shown, completed, cleared>>
    BY <1>8, Zenon DEF Open
  <2>2. pc' # "enter" /\ (Following' => Following)
    BY <2>1 DEF Following
  <2> QED
    BY <2>1, <2>2, DrawnSame
<1>9. CASE Take
  <2>1. pc' = "reset" /\ UNCHANGED <<scr, ibuf, shown>>
    BY <1>9 DEF Take
  <2>2. pc' # "enter" /\ ~Following'
    BY <2>1 DEF Following
  <2> QED
    BY <2>1, <2>2, DrawnSame
<1>10. CASE Reset
  <2>1. scr' = scr /\ ibuf' = <<>> /\ pc' = "echo"
    BY <1>10 DEF Reset
  <2>2. scr' = Garbled \/ Tame(scr', Len(ibuf') - IbufSize)
    <3>1. CASE scr = Garbled
      BY <2>1, <3>1
    <3>2. CASE scr # Garbled
      <4>1. Tame(scr, Len(ibuf) - IbufSize) /\ Len(ibuf') = 0
        BY <2>1, <3>2, EmptySeq DEF Drawn
      <4>2. Tame(scr, 0 - IbufSize)
        BY <1>1, <4>1, LowFacts, TameLower
      <4> QED
        BY <2>1, <4>1, <4>2
    <3> QED
      BY <3>1, <3>2
  <2>3. pc' # "enter" /\ ~Following'
    BY <2>1 DEF Following
  <2> QED
    BY <2>2, <2>3, DrawnOnly
<1>11. CASE Echo
  <2>1. /\ pc' = "prompt" /\ UNCHANGED ibuf
        /\ Display(IF Str(line) = <<>> THEN <<>> ELSE Str(line) \o Newline)
    BY <1>11 DEF Echo
  <2>2. Str(line) \o Newline \in Seq(Glyphs \cup {"\n"})
    <3>1. Str(line) \in Seq(Characters)
      BY <1>1, StrIs DEF EditorTypeOK
    <3>2. Str(line) \in Seq(Glyphs \cup {"\n"})
      BY <3>1, TextIs
    <3> QED
      BY <3>2, Texts, ConcatProperties
  <2>3. scr' = Garbled \/ Tame(scr', Len(ibuf') - IbufSize)
    BY <1>1, <2>1, <2>2, Texts, DisplayTame
  <2>4. pc' # "enter" /\ ~Following'
    BY <2>1 DEF Following
  <2> QED
    BY <2>3, <2>4, DrawnOnly
<1> QED
  BY <1>2, <1>3, <1>4, <1>5, <1>6, <1>7, <1>8, <1>9, <1>10, <1>11

(* The handler: the main thread is in the kernel, not at any of the places *)
(* with IF clear, and writes itself where this can be told.                *)
LEMMA DrawnIsrStep == ASSUME IInv, Quiet, Drawn, KeyboardIsr PROVE Drawn'
<1> DEFINE e == Head(pending)
           low == Len(ibuf) - IbufSize
<1>1. /\ intr /\ requested /\ pc' \in Resumed
      /\ IF e.make /\ e.code # "ctrl" THEN Edit(e.code) ELSE NoEdit
  BY Zenon DEF KeyboardIsr, Deliverable
<1>2. EditorTypeOK /\ Kernel /\ (pc' = pc \/ pc' = "lost")
  <2>1. EditorTypeOK /\ Kernel
    BY <1>1 DEF IInv, Types, Control, ShutOut
  <2> QED
    BY <1>1, <2>1 DEF Resumed, Quiet
<1>3. e \in [code : Codes, make : BOOLEAN]
  <2>1. /\ pending # <<>> /\ pending \in Seq([code : Codes, make : BOOLEAN])
    BY <1>1 DEF IInv, Types, Control, Latched, EditorTypeOK
  <2> QED
    BY <2>1, TailSeq
<1>4. pc = "enter" => Racing
  BY <1>1 DEF Racing, Quiet
<1>5. /\ ibuf \in Seq(Characters) /\ Len(ibuf) \in Nat /\ Len(ibuf) <= IbufSize
      /\ low \in Int /\ low <= 0 /\ low < Area - Cols
  BY <1>2, LowFacts
<1> HIDE DEF e, low
<1>6. ASSUME NEW s, Draw(s), Racing PROVE Drawn'
  BY <1>6 DEF Draw, Drawn, Garbled, ClearScreen
(* What is left to show where the handler does not run into a write. *)
<1>7. ASSUME NEW s, Draw(s), ~Racing,
             Tame(s, Len(ibuf') - IbufSize) \/ s = Garbled,
             Following' => Following,
             s # Garbled /\ Following' => Shows(s, Prompted(ibuf'), Len(ibuf') + 1)
      PROVE  Drawn'
  <2>1. scr' = s /\ pc' # "enter"
    BY <1>2, <1>4, <1>7 DEF Draw
  <2> QED
    BY <1>7, <2>1 DEF Drawn, Garbled, ClearScreen
<1>8. CASE NoEdit
  <2>1. UNCHANGED <<scr, ibuf, completed, cleared, shown>>
    BY <1>8 DEF NoEdit, editor
  <2>2. CASE pc # "enter"
    <3>1. Following' => Following
      BY <1>2, <2>1 DEF Following
    <3> QED
      BY <1>2, <2>1, <2>2, <3>1, DrawnSame
  <2>3. CASE pc = "enter"
    <3>1. ~Following'
      BY <1>2, <2>3 DEF Following
    <3>2. scr' = Garbled \/ Tame(scr', Len(ibuf') - IbufSize)
      BY <2>1 DEF Drawn
    <3>3. scr' # Garbled /\ shown' => Shows(scr', <<"$">>, 1)
      BY <2>1, <2>3 DEF Drawn
    <3> QED
      BY <3>1, <3>2, <3>3 DEF Drawn, Garbled, ClearScreen
  <2> QED
    BY <2>2, <2>3
<1>9. ASSUME NEW c \in Characters, PutChar(c) PROVE Drawn'
  <2>1. CASE ~(Len(ibuf) < IbufSize)
    <3>1. NoEdit
      BY <1>9, <2>1 DEF PutChar, NoEdit, editor
    <3> QED
      BY <1>8, <3>1
  <2>2. CASE Len(ibuf) < IbufSize
    <3>1. /\ ibuf' = Append(ibuf, c) /\ Draw(Known(Putc(scr, c)))
          /\ UNCHANGED <<completed, cleared, shown>>
      BY <1>9, <2>2 DEF PutChar
    <3>2. CASE Racing
      BY <1>6, <3>1, <3>2
    <3>3. CASE ~Racing
      <4>1. Following' => Following
        BY <1>2, <3>1 DEF Following
      <4>2. CASE scr = Garbled
        <5>1. Known(Putc(scr, c)) = Garbled
          BY <4>2 DEF Known
        <5> QED
          BY <1>7, <3>1, <3>3, <4>1, <5>1
      <4>3. CASE scr # Garbled
        <5>1. Known(Putc(scr, c)) = Putc(scr, c)
          BY <4>3 DEF Known
        <5>2. /\ Tame(scr, Len(ibuf) - IbufSize)
              /\ Following => Shows(scr, Prompted(ibuf), Len(ibuf) + 1)
          BY <4>3 DEF Drawn
        <5>3. /\ Tame(Putc(scr, c), Len(ibuf') - IbufSize)
              /\ Following => Shows(Putc(scr, c), Prompted(ibuf'), Len(ibuf') + 1)
          BY <1>5, <2>2, <3>1, <5>2, PutCharShows
        <5> QED
          BY <1>7, <3>1, <3>3, <4>1, <5>1, <5>3
      <4> QED
        BY <4>2, <4>3
    <3> QED
      BY <3>2, <3>3
  <2> QED
    BY <2>1, <2>2
<1>10. CASE PutNewline
  <2>1. /\ completed' = TRUE /\ Draw(Known(LineFeed(scr))) /\ UNCHANGED ibuf
    BY <1>10 DEF PutNewline
  <2>2. CASE Racing
    BY <1>6, <2>1, <2>2
  <2>3. CASE ~Racing
    <3>1. ~Following'
      BY <2>1 DEF Following
    <3>2. Known(LineFeed(scr)) = Garbled \/ Tame(Known(LineFeed(scr)), Len(ibuf') - IbufSize)
      <4>1. CASE scr = Garbled
        BY <4>1 DEF Known
      <4>2. CASE scr # Garbled
        <5>1. Tame(scr, low) /\ Known(LineFeed(scr)) = LineFeed(scr)
          BY <4>2 DEF Drawn, Known, low
        <5>2. Tame(LineFeed(scr), low)
          BY <1>5, <5>1, SizesFacts, TameLineFeed
        <5> QED
          BY <2>1, <5>1, <5>2 DEF low
      <4> QED
        BY <4>1, <4>2
    <3> QED
      BY <1>7, <2>1, <2>3, <3>1, <3>2
  <2> QED
    BY <2>2, <2>3
<1>11. ASSUME NEW gone \in Seq(Characters), NEW rest \in Seq(Characters),
              Len(gone) + Len(rest) = Len(ibuf), \A i \in 1 .. Len(rest) : rest[i] = ibuf[i],
              Erase(gone, rest)
       PROVE  Drawn'
  <2>1. /\ ibuf' = rest /\ Draw(Known(RuboutAll(gone)))
        /\ UNCHANGED <<completed, cleared, shown>>
    BY <1>11 DEF Erase
  <2>2. CASE Racing
    BY <1>6, <2>1, <2>2
  <2>3. CASE ~Racing
    <3>1. Following' => Following
      BY <1>2, <2>1 DEF Following
    <3>2. CASE scr = Garbled
      <4>1. Known(RuboutAll(gone)) = Garbled
        BY <3>2 DEF Known
      <4> QED
        BY <1>7, <2>1, <2>3, <3>1, <4>1
    <3>3. CASE scr # Garbled
      <4>1. Known(RuboutAll(gone)) = RuboutAll(gone)
        BY <3>3 DEF Known
      <4>2. /\ Tame(scr, Len(ibuf) - IbufSize)
            /\ Following => Shows(scr, Prompted(ibuf), Len(ibuf) + 1)
        BY <3>3 DEF Drawn
      <4>3. /\ Tame(RuboutAll(gone), Len(ibuf') - IbufSize)
            /\ Following => Shows(RuboutAll(gone), Prompted(ibuf'), Len(ibuf') + 1)
        BY <1>5, <1>11, <2>1, <4>2, EraseShows
      <4> QED
        BY <1>7, <2>1, <2>3, <3>1, <4>1, <4>3
    <3> QED
      BY <3>2, <3>3
  <2> QED
    BY <2>2, <2>3
<1>12. ASSUME NEW all \in BOOLEAN, DelIbuf(all) PROVE Drawn'
  <2>1. CASE completed \/ ibuf = <<>>
    BY <1>8, <1>12, <2>1 DEF DelIbuf
  <2>2. CASE ~(completed \/ ibuf = <<>>) /\ all
    <3>1. Erase(ibuf, <<>>)
      BY <1>12, <2>2 DEF DelIbuf
    <3>2. /\ <<>> \in Seq(Characters) /\ Len(<<>>) = 0
      BY EmptySeq
    <3>3. /\ Len(ibuf) + Len(<<>>) = Len(ibuf)
          /\ \A i \in 1 .. Len(<<>>) : <<>>[i] = ibuf[i]
      BY <1>5, <3>2
    <3> QED
      BY <1>5, <1>11, <3>1, <3>2, <3>3
  <2>3. CASE ~(completed \/ ibuf = <<>>) /\ ~all
    <3>1. Erase(<<Last(ibuf)>>, Front(ibuf))
      BY <1>12, <2>3 DEF DelIbuf
    <3>2. /\ Front(ibuf) \in Seq(Characters) /\ Len(Front(ibuf)) = Len(ibuf) - 1
      BY <1>5, <2>3, FrontSeq
    <3>3. Len(ibuf) \in 1 .. Len(ibuf)
      BY <1>5, <3>2
    <3>4. <<Last(ibuf)>> \in Seq(Characters) /\ Len(<<Last(ibuf)>>) = 1
      <4>1. Last(ibuf) \in Characters
        BY <1>5, <3>3 DEF Last
      <4> QED
        BY <4>1
    <3>5. \A i \in 1 .. Len(Front(ibuf)) : Front(ibuf)[i] = ibuf[i]
      BY <1>5, <3>2 DEF Front
    <3>6. Len(<<Last(ibuf)>>) + Len(Front(ibuf)) = Len(ibuf)
      BY <1>5, <3>2, <3>4
    <3> QED
      BY <1>11, <3>1, <3>2, <3>4, <3>5, <3>6
  <2> QED
    BY <2>1, <2>2, <2>3
<1>13. CASE Clear
  <2>1. /\ cleared' = TRUE /\ Draw(ClearScreen) /\ UNCHANGED ibuf
        /\ shown' = (shown /\ pc # "uncl")
    BY <1>13 DEF Clear
  <2>2. CASE Racing
    BY <1>6, <2>1, <2>2
  <2>3. CASE ~Racing
    <3>1. ~Following'
      BY <1>2, <2>1 DEF Following
    <3>2. Tame(ClearScreen, Len(ibuf') - IbufSize)
      <4>1. Tame(ClearScreen, low)
        BY <1>5, TameClear
      <4> QED
        BY <2>1, <4>1 DEF low
    <3> QED
      BY <1>7, <2>1, <2>3, <3>1, <3>2
  <2> QED
    BY <2>2, <2>3
<1>14. ASSUME NEW code \in Codes, code # "ctrl", Edit(code) PROVE Drawn'
  <2>1. CASE code = "enter"
    BY <1>10, <1>14, <2>1 DEF Edit
  <2>2. CASE code = "erase"
    BY <1>12, <1>14, <2>2 DEF Edit
  <2>3. CASE code = "u" /\ ctrl
    BY <1>12, <1>14, <2>3 DEF Edit
  <2>4. CASE code = "l" /\ ctrl
    BY <1>13, <1>14, <2>4 DEF Edit
  <2>5. CASE code = "unmapped"
    <3>1. "NUL" \in Characters
      BY DEF Characters
    <3> QED
      BY <1>8, <1>9, <1>14, <2>5, <3>1 DEF Edit
  <2>6. CASE /\ code \notin {"enter", "erase", "unmapped"}
             /\ ~(code = "u" /\ ctrl) /\ ~(code = "l" /\ ctrl)
    <3>1. code \in Characters
      BY <1>14, <2>6 DEF Codes, Characters
    <3>2. PutChar(code)
      BY <1>14, <2>6 DEF Edit
    <3> QED
      BY <1>9, <3>1, <3>2
  <2> QED
    BY <2>1, <2>2, <2>3, <2>4, <2>5, <2>6
<1> QED
  <2>1. CASE e.make /\ e.code # "ctrl"
    BY <1>1, <1>3, <1>14, <2>1
  <2>2. CASE ~(e.make /\ e.code # "ctrl")
    BY <1>1, <1>8, <2>2
  <2> QED
    BY <2>1, <2>2

LEMMA DrawnStep == ASSUME IInv, Quiet, Drawn, [Next]_vars PROVE Drawn'
<1>1. ASSUME UNCHANGED <<scr, ibuf, shown, pc, completed, cleared>> PROVE Drawn'
  <2>1. Following' => Following
    BY <1>1 DEF Following
  <2> QED
    BY <1>1, <2>1 DEF Drawn, Garbled, ClearScreen
<1>2. ASSUME NEW code \in Codes, NEW make \in BOOLEAN, Press(code, make) PROVE Drawn'
  BY <1>1, <1>2 DEF Press, shell, editor, history
<1>3. CASE KeyboardIsr
  BY <1>3, DrawnIsrStep
<1>4. CASE Shell
  BY <1>4, DrawnBootStep, DrawnShellStep DEF Shell
<1>5. CASE UNCHANGED vars
  BY <1>1, <1>5 DEF vars, shell, editor, history
<1> QED
  BY <1>2, <1>3, <1>4, <1>5 DEF Next

LEMMA InitDrawn == Init => Quiet /\ Drawn
<1> SUFFICES ASSUME Init PROVE Quiet /\ Drawn
  OBVIOUS
<1>1. Quiet
  BY DEF Init, Quiet, Kernel, BootPC
<1>2. Len(ibuf) - IbufSize \in Int /\ Len(ibuf) - IbufSize <= 0
  <2>1. Len(<<>>) = 0 /\ ibuf = <<>>
    BY EmptySeq DEF Init
  <2> QED
    BY <2>1, SizesFacts
<1>3. scr = ClearScreen /\ pc = "pic"
  BY DEF Init
<1>4. Tame(scr, Len(ibuf) - IbufSize)
  BY <1>2, <1>3, TameClear
<1> QED
  BY <1>1, <1>3, <1>4 DEF Drawn, Following

-----------------------------------------------------------------------------

THEOREM ScreenFollows == Spec => [](Quiet /\ Drawn)
<1>1. IInv /\ Quiet /\ Drawn /\ [Next]_vars => (Quiet /\ Drawn)'
  BY QuietStep, DrawnStep
<1> QED
  BY Invariance, InitDrawn, <1>1, PTL DEF Spec

(* Whatever is typed and whenever, the line buffer never holds more than   *)
(* it has room for, the cursor stays within its range, and everything else *)
(* keeps its type.                                                         *)
THEOREM TypeCorrect == Spec => []TypeOK
<1>1. ASSUME IInv, Drawn PROVE TypeOK
  <2>1. ScreenTypeOK
    <3>1. CASE scr = Garbled
      <4>1. /\ scr.cell = ClearScreen.cell /\ scr.x = ClearScreen.x /\ scr.y = CursRange
        BY <3>1 DEF Garbled, ClearScreen
      <4>2. /\ ClearScreen.cell \in Seq(Glyphs) /\ Len(ClearScreen.cell) = Area
            /\ ClearScreen.x \in 0 .. Cols - 1
        BY ClearScreenIs, ScreenFacts
      <4> QED
        BY <4>1, <4>2, SizesFacts DEF ScreenTypeOK, Area
    <3>2. CASE scr # Garbled
      <4>1. scr \in Screens
        BY <1>1, <3>2 DEF Drawn, Tame
      <4>2. /\ scr.cell \in Seq(Glyphs) /\ Len(scr.cell) = Area
            /\ scr.x \in 0 .. Cols - 1 /\ scr.y \in 0 .. CursRange - 1
        BY <4>1, ScreenFacts
      <4> QED
        BY <4>2, SizesFacts DEF ScreenTypeOK, Area
    <3> QED
      BY <3>1, <3>2
  <2> QED
    BY <1>1, <2>1 DEF IInv, Types, TypeOK
<1> QED
  BY Invariance, ScreenFollows, <1>1, PTL

(* While get_line waits, the screen shows the prompt, what is in the       *)
(* buffer, and nothing behind it: however the line was typed, erased,      *)
(* wrapped over rows, scrolled, killed or cleared, and whenever the        *)
(* handler came in between.                                                *)
THEOREM EchoKept == Spec => []EchoShown
<1>1. ASSUME IInv, Drawn PROVE EchoShown
  <2> DEFINE text == <<"$">> \o ibuf
             end  == scr.y * Cols + scr.x
             rest == Blanks(Rows * Cols - end)
             n    == Len(ibuf) + 1
             left == SubSeq(scr.cell, end - Len(text) + 1, Rows * Cols)
  <2>1. SUFFICES ASSUME pc \in {"loop", "test", "open"}, ~completed, ~cleared, shown,
                        scr # Garbled
                 PROVE  Len(text) <= end /\ end < Rows * Cols /\ left = text \o rest
    BY DEF EchoShown
  <2>2. Tame(scr, Len(ibuf) - IbufSize) /\ Shows(scr, Prompted(ibuf), n)
    BY <1>1, <2>1 DEF Drawn, Following
  <2>3. /\ ibuf \in Seq(Characters) /\ Len(ibuf) \in Nat
        /\ text \in Seq(Glyphs) /\ Len(text) = n /\ text = Prompted(ibuf)
    <3>1. ibuf \in Seq(Characters)
      BY <1>1 DEF IInv, Types, EditorTypeOK
    <3> QED
      BY <3>1, TextIs DEF Prompted
  <2>4. /\ scr \in Screens /\ Place(scr) >= n
        /\ \A i \in 1 .. Area : i > Place(scr) => scr.cell[i] = Blank
        /\ \A i \in 1 .. n : scr.cell[Place(scr) - n + i] = Prompted(ibuf)[i]
    BY <2>2 DEF Shows, Tame
  <2>5. /\ scr.cell \in Seq(Glyphs) /\ Len(scr.cell) = Area /\ Place(scr) \in Int
        /\ Place(scr) < Area /\ Area \in Nat /\ n \in Nat
    BY <2>3, <2>4, ScreenFacts, SizesFacts, SMTT(30)
  <2>6. end = Place(scr) /\ Rows * Cols = Area
    <3>1. scr.y < Rows
      BY <2>3, <2>4, ScreenFacts
    <3> QED
      BY <3>1 DEF Place, Row, Area
  <2> HIDE DEF text, end, n, rest, left
  <2>7. Len(text) <= end /\ end < Rows * Cols /\ end \in Nat
    BY <2>3, <2>4, <2>5, <2>6
  <2>8. /\ rest \in Seq(Glyphs) /\ Len(rest) = Area - end
        /\ \A i \in 1 .. Area - end : rest[i] = Blank
    <3>1. Area - end \in Nat
      BY <2>5, <2>6, <2>7
    <3> QED
      BY <2>6, <3>1 DEF rest, Blanks, Glyphs
  <2>9. /\ text \o rest \in Seq(Glyphs) /\ Len(text \o rest) = n + (Area - end)
        /\ \A i \in 1 .. n + (Area - end) :
             (text \o rest)[i] = IF i <= n THEN text[i] ELSE rest[i - n]
    <3>1. /\ text \o rest \in Seq(Glyphs) /\ Len(text \o rest) = Len(text) + Len(rest)
          /\ \A i \in 1 .. Len(text) + Len(rest) :
               (text \o rest)[i] = IF i <= Len(text) THEN text[i] ELSE rest[i - Len(text)]
      <4>1. text \in Seq(Glyphs) /\ rest \in Seq(Glyphs)
        BY <2>3, <2>8
      <4> QED
        BY <4>1, ConcatProperties
    <3>2. Len(text) = n /\ Len(rest) = Area - end
      BY <2>3, <2>8
    <3> QED
      BY <3>1, <3>2, Zenon
  <2>10. /\ left \in Seq(Glyphs) /\ Len(left) = n + (Area - end)
         /\ \A i \in 1 .. n + (Area - end) : left[i] = scr.cell[end - n + i]
    <3>1. /\ end - n + 1 \in Int /\ end - n + 1 >= 1 /\ end - n + 1 <= Area
          /\ Area - (end - n + 1) + 1 = n + (Area - end)
          /\ \A i \in 1 .. n + (Area - end) : (end - n + 1) + i - 1 = end - n + i
      BY <2>3, <2>5, <2>6, <2>7
    <3>2. left = SubSeq(scr.cell, end - n + 1, Area)
      BY <2>3, <2>6 DEF left
    <3> DEFINE m == end - n + 1
    <3>3. m \in 1 .. Area /\ \A i \in m .. Area : scr.cell[i] \in Glyphs
      BY <2>5, <3>1
    <3>4. /\ left \in Seq(Glyphs)
          /\ Len(left) = IF m <= Area THEN Area - m + 1 ELSE 0
          /\ \A i \in 1 .. Area - m + 1 : left[i] = scr.cell[m + i - 1]
      <4> HIDE DEF m
      <4>1. left = SubSeq(scr.cell, m, Area)
        BY <3>2 DEF m
      <4> QED
        BY <2>5, <3>3, <4>1, SubSeqProperties
    <3> QED
      BY <3>1, <3>4
  <2>11. ASSUME NEW i \in 1 .. n + (Area - end) PROVE left[i] = (text \o rest)[i]
    <3>1. /\ left[i] = scr.cell[end - n + i]
          /\ (text \o rest)[i] = IF i <= n THEN text[i] ELSE rest[i - n]
      BY <2>9, <2>10
    <3>2. i \in Int /\ i >= 1 /\ i <= n + (Area - end) /\ n \in Int /\ end \in Int /\ Area \in Int
      BY <2>5, <2>7
    <3>3. CASE i <= n
      <4>1. i \in 1 .. n
        BY <3>2, <3>3
      <4>2. scr.cell[end - n + i] = text[i]
        BY <2>3, <2>4, <2>6, <4>1
      <4> QED
        BY <3>1, <3>3, <4>2
    <3>4. CASE ~(i <= n)
      <4>1. end - n + i \in 1 .. Area /\ end - n + i > end /\ i - n \in 1 .. Area - end
        BY <2>3, <2>7, <3>2, <3>4
      <4>2. scr.cell[end - n + i] = Blank /\ rest[i - n] = Blank
        BY <2>4, <2>6, <2>8, <4>1
      <4> QED
        BY <3>1, <3>4, <4>2
    <3> QED
      BY <3>3, <3>4
  <2>12. left = text \o rest
    BY <2>9, <2>10, <2>11, SeqEqual
  <2> QED
    BY <2>7, <2>12
<1> QED
  BY Invariance, ScreenFollows, <1>1, PTL

-----------------------------------------------------------------------------
(* kprintf.                                                                *)

(* Characters and numbers.                                                 *)

LEMMA RangeFacts ==
  /\ IntRange \in Nat /\ IntRange >= 2
  /\ IntRange \div 2 \in Nat \ {0} /\ IntRange = 2 * (IntRange \div 2)
<1>1. IntRange \in Nat \ {0} /\ IntRange % 2 = 0
  BY RangeAssumption
<1>2. IntRange \div 2 \in Nat /\ IntRange = 2 * (IntRange \div 2) + (IntRange % 2)
  BY <1>1, DivMod
<1> QED
  BY <1>1, <1>2

LEMMA DigitCharsAre ==
  /\ DOMAIN DigitChars = 1 .. 10 /\ Len(DigitChars) = 10
  /\ DigitChars[1] = "0" /\ DigitChars[2] = "1" /\ DigitChars[3] = "2" /\ DigitChars[4] = "3"
  /\ DigitChars[5] = "4" /\ DigitChars[6] = "5" /\ DigitChars[7] = "6" /\ DigitChars[8] = "7"
  /\ DigitChars[9] = "8" /\ DigitChars[10] = "9"
BY DEF DigitChars

LEMMA DigitsOfChar ==
  Range(DigitChars) = {"0", "1", "2", "3", "4", "5", "6", "7", "8", "9"}
<1>1. \A i : i \in 1 .. 10 <=> \/ i = 1 \/ i = 2 \/ i = 3 \/ i = 4 \/ i = 5 \/ i = 6
                               \/ i = 7 \/ i = 8 \/ i = 9 \/ i = 10
  OBVIOUS
<1> QED
  BY <1>1, DigitCharsAre, ZenonT(40) DEF Range

LEMMA FlagsAre == Flags = {"-", "+", Blank, "#", "0"}
BY Zenon DEF Flags, Blank

LEMMA BlankIs ==
  /\ Blank # "NUL" /\ Blank # "%" /\ Blank # "*" /\ Blank # "."
  /\ Blank # "\n" /\ Blank # "\t"
BY Zenon DEF Blank

LEMMA ModifiersAre ==
  /\ Modifiers \subseteq Char /\ Flags \subseteq Modifiers /\ Range(DigitChars) \subseteq Modifiers
  /\ Qualifiers \subseteq Modifiers /\ "." \in Modifiers
  /\ "NUL" \notin Modifiers /\ "%" \notin Modifiers /\ "*" \notin Modifiers
  /\ "." \notin Flags /\ "." \notin Range(DigitChars) /\ "." \notin Qualifiers
  /\ Flags \cap Qualifiers = {} /\ Range(DigitChars) \cap Qualifiers = {}
<1>1. Modifiers \subseteq Char
  BY CharAssumption
<1> QED
  BY <1>1, FlagsAre, BlankIs, DigitsOfChar DEF Modifiers, Qualifiers

LEMMA ConversionsAre ==
  /\ DOMAIN Base = {"o", "p", "x", "X", "d", "i", "u"}
  /\ Conversions \subseteq Char /\ "*" \notin Conversions /\ "NUL" \notin Conversions
  /\ "%" \notin Conversions
  /\ \A c \in DOMAIN Base : Base[c] \in {8, 10, 16}
<1>1. Conversions \subseteq Char
  BY CharAssumption
<1> QED
  BY <1>1 DEF Conversions, Base

LEMMA SixChars ==
  ASSUME NEW C, NEW a \in C, NEW b \in C, NEW c \in C, NEW d \in C, NEW e \in C, NEW f \in C
  PROVE  <<a, b, c, d, e, f>> \in Seq(C) /\ Len(<<a, b, c, d, e, f>>) = 6
OBVIOUS

LEMMA TenChars ==
  ASSUME NEW C, NEW a \in C, NEW b \in C, NEW c \in C, NEW d \in C, NEW e \in C,
         NEW f \in C, NEW g \in C, NEW h \in C, NEW i \in C, NEW j \in C
  PROVE  <<a, b, c, d, e, f, g, h, i, j>> \in Seq(C)
OBVIOUS

LEMMA DigitsAre ==
  ASSUME NEW small \in BOOLEAN
  PROVE  /\ Len(Digits(small)) = 16 /\ Digits(small) \in Seq(Char)
         /\ \A k \in 1 .. 16 : Digits(small)[k] \in Char
         /\ \A k \in 1 .. 10 : Digits(small)[k] = DigitChars[k]
<1> DEFINE t == IF small THEN <<"a", "b", "c", "d", "e", "f">>
                ELSE <<"A", "B", "C", "D", "E", "F">>
           u == DigitChars \o t
<1>1. Digits(small) = u
  BY DEF Digits
<1>2. Range(Digits(small)) \subseteq Char
  BY CharAssumption
<1> DEFINE S == {"0", "1", "2", "3", "4", "5", "6", "7", "8", "9",
                 "a", "b", "c", "d", "e", "f", "A", "B", "C", "D", "E", "F"}
<1>3. t \in Seq(S) /\ Len(t) = 6
  <2>1. CASE small
    BY <2>1, SixChars
  <2>2. CASE ~small
    BY <2>2, SixChars
  <2> QED
    BY <2>1, <2>2
<1>4. DigitChars \in Seq(S)
  BY TenChars DEF DigitChars
<1> HIDE DEF t, S
<1>5. /\ u \in Seq(S) /\ Len(u) = 16
      /\ \A k \in 1 .. 10 : u[k] = DigitChars[k]
  <2>1. \A k \in 1 .. 10 : k <= 10 /\ k \in 1 .. 10 + 6
    OBVIOUS
  <2>2. Len(DigitChars) = 10
    BY DigitCharsAre
  <2>3. /\ u \in Seq(S) /\ Len(u) = 10 + 6
        /\ \A i \in 1 .. 10 + 6 : u[i] = IF i <= 10 THEN DigitChars[i] ELSE t[i - 10]
    <3> HIDE DEF u
    <3> DEFINE d == DigitChars
    <3>1. d \in Seq(S) /\ t \in Seq(S) /\ Len(d) = 10 /\ Len(t) = 6
      BY <1>3, <1>4, <2>2
    <3> HIDE DEF d
    <3>2. /\ d \o t \in Seq(S) /\ Len(d \o t) = Len(d) + Len(t)
          /\ \A i \in 1 .. Len(d) + Len(t) : (d \o t)[i] = IF i <= Len(d) THEN d[i]
                                                          ELSE t[i - Len(d)]
      BY <3>1, ConcatProperties
    <3> QED
      BY <3>1, <3>2 DEF u, d
  <2> HIDE DEF u
  <2> QED
    BY <2>1, <2>3
<1> HIDE DEF u
<1>6. DOMAIN u = 1 .. 16 /\ u = [k \in 1 .. 16 |-> u[k]]
  BY <1>5
<1>7. \A k \in 1 .. 16 : u[k] \in Char
  BY <1>1, <1>2, <1>6 DEF Range
<1>8. [k \in 1 .. 16 |-> u[k]] \in Seq(Char)
  BY <1>7
<1>9. u \in Seq(Char)
  BY <1>6, <1>8, Zenon
<1> QED
  BY <1>1, <1>5, <1>7, <1>9

LEMMA StringFacts ==
  /\ <<>> \in Seq(Char) /\ Len(<<>>) = 0
  /\ \A c \in Char : <<c>> \in Seq(Char) /\ Len(<<c>>) = 1 /\ <<c>>[1] = c
  /\ \A s \in Seq(Char) : Len(s) \in Nat
OBVIOUS

LEMMA OneElement == ASSUME NEW S, NEW e \in S PROVE <<e>> \in Seq(S)
OBVIOUS

LEMMA JoinedIs ==
  ASSUME NEW S, NEW s \in Seq(S), NEW t \in Seq(S)
  PROVE  /\ s \o t \in Seq(S) /\ Len(s \o t) = Len(s) + Len(t)
         /\ Len(s) \in Nat /\ Len(t) \in Nat
         /\ \A i \in 1 .. Len(s) : (s \o t)[i] = s[i]
         /\ \A i \in 1 .. Len(t) : (s \o t)[Len(s) + i] = t[i]
BY ConcatProperties

LEMMA PadIs ==
  ASSUME NEW n \in Int, NEW c \in Char
  PROVE  /\ Pad(n, c) \in Seq(Char) /\ Len(Pad(n, c)) = Most(n, 0)
         /\ Most(n, 0) \in Nat
         /\ \A i \in 1 .. Most(n, 0) : Pad(n, c)[i] = c
BY DEF Pad, Most

LEMMA SignedIs ==
  ASSUME NEW n \in 0 .. IntRange - 1
  PROVE  /\ Signed(n) \in Int
         /\ Signed(n) < 0 => IntRange - n \in 0 .. IntRange - 1
BY RangeFacts DEF Signed

-----------------------------------------------------------------------------
(* The digits of a number.                                                 *)

LEMMA QuotientLess ==
  ASSUME NEW b \in Nat \ {0, 1}, NEW n \in Nat
  PROVE  /\ n \div b \in Nat /\ n % b \in 0 .. b - 1 /\ n = b * (n \div b) + (n % b)
         /\ n # 0 => n \div b < n
<1>1. n \div b \in Nat /\ n % b \in 0 .. b - 1 /\ n = b * (n \div b) + (n % b)
  BY DivMod
<1>2. 2 * (n \div b) <= b * (n \div b)
  <2>1. (n \div b) * 2 <= (n \div b) * b
    BY <1>1, TimesMonotone
  <2> QED
    BY <1>1, <2>1
<1> QED
  BY <1>1, <1>2

(* do_div until nothing is left: the last digit is the remainder. *)
LEMMA TmpIs ==
  ASSUME NEW b \in Nat \ {0, 1}
  PROVE  \A n \in 0 .. IntRange - 1 :
           /\ Tmp(n, b) \in Seq(0 .. b - 1)
           /\ Tmp(n, b) = IF n < b THEN <<n>> ELSE Append(Tmp(n \div b, b), n % b)
<1> DEFINE D == 0 .. IntRange - 1
           S == Seq(0 .. b - 1)
           F(d) == [n \in D |-> IF n < b THEN <<n>> ELSE Append(d[n \div b], n % b)]
           digits == CHOOSE d : d = F(d)
           C == [n \in Nat |-> IF n < b THEN <<n>> ELSE <<>>]
           G == [n \in Nat |-> [s \in S |-> Append(s, n % b)]]
           down == [n \in Nat |-> n \div b]
           Z == 0 .. b - 1
<1>0. \A n \in Nat : n \div b \in Nat /\ n % b \in 0 .. b - 1 /\ (n # 0 => n \div b < n)
  BY QuotientLess
<1>1. C \in [Nat -> S] /\ down \in [Nat -> Nat] /\ \A n \in Nat \ Z : down[n] < n
  <2>1. \A n \in Nat : (IF n < b THEN <<n>> ELSE <<>>) \in S
    <3>1. ASSUME NEW n \in Nat, n < b PROVE <<n>> \in S
      BY <3>1, OneElement, n \in 0 .. b - 1
    <3> QED
      BY <3>1, EmptySeq
  <2>2. \A n \in Nat \ Z : n \in Nat /\ n # 0
    OBVIOUS
  <2> HIDE DEF S, Z
  <2>3. \A n \in Nat : down[n] = n \div b
    OBVIOUS
  <2> QED
    BY <1>0, <2>1, <2>2
<1>2. G \in [Nat -> [S -> S]]
  <2>1. ASSUME NEW n \in Nat, NEW s \in S PROVE Append(s, n % b) \in S
    BY <1>0, AppendProperties
  <2> HIDE DEF S
  <2> QED
    BY <2>1
<1>3. PICK f \in [Nat -> S] : Descends(f, Z, C, down, G)
  <2> HIDE DEF S, C, down, G, Z
  <2> QED
    BY <1>1, <1>2, Descent
<1>4. ASSUME NEW n \in Nat
      PROVE  f[n] \in S /\ f[n] = IF n < b THEN <<n>> ELSE Append(f[n \div b], n % b)
  <2>1. f[n] \in S /\ f[n] = IF n \in Z THEN C[n] ELSE G[n][f[down[n]]]
    BY <1>3 DEF Descends
  <2>2. f[n \div b] \in S /\ down[n] = n \div b
    BY <1>0
  <2>3. n < b => n \in Z /\ C[n] = <<n>>
    OBVIOUS
  <2>4. ~(n < b) => n \notin Z
    OBVIOUS
  <2>5. G[n][f[n \div b]] = Append(f[n \div b], n % b)
    <3> HIDE DEF S
    <3> QED
      BY <2>2
  <2> QED
    BY <2>1, <2>2, <2>3, <2>4, <2>5
<1> HIDE DEF S, C, G, down, Z
<1> DEFINE g == [n \in D |-> f[n]]
<1>5. \A n \in D : n \in Nat /\ n \div b \in D
  BY <1>0, RangeFacts
<1>6. g = F(g)
  BY <1>4, <1>5
<1>7. digits = F(digits)
  <2> HIDE DEF F
  <2> QED
    BY <1>6
<1>8. \A n \in D : Tmp(n, b) = digits[n]
  BY DEF Tmp
<1> HIDE DEF digits
<1>9. \A n \in D : digits[n] = IF n < b THEN <<n>> ELSE Append(digits[n \div b], n % b)
  BY <1>7
<1> HIDE DEF F, g
<1> DEFINE T == {n \in Nat : \A m \in 0 .. n : m \in D => digits[m] \in S}
<1>10. 0 \in T
  <2>1. 0 \in D => digits[0] = <<0>>
    <3>1. 0 < b
      OBVIOUS
    <3> QED
      BY <1>9, <3>1, Zenon
  <2>2. <<0>> \in S
    BY OneElement, 0 \in 0 .. b - 1 DEF S
  <2>3. \A m \in 0 .. 0 : m = 0
    OBVIOUS
  <2> QED
    BY <2>1, <2>2, <2>3
<1>11. ASSUME NEW n \in Nat, n \in T PROVE n + 1 \in T
  <2>1. ASSUME n + 1 \in D PROVE digits[n + 1] \in S
    <3>1. (n + 1) \div b \in 0 .. n /\ (n + 1) % b \in 0 .. b - 1 /\ (n + 1) \div b \in D
      BY <1>0, <1>5, <2>1
    <3>2. digits[(n + 1) \div b] \in S
      BY <1>11, <3>1
    <3>3. Append(digits[(n + 1) \div b], (n + 1) % b) \in S
      BY <3>1, <3>2 DEF S
    <3>4. n + 1 < b => <<n + 1>> \in S
      BY OneElement, n + 1 < b => n + 1 \in 0 .. b - 1 DEF S
    <3> QED
      BY <1>9, <2>1, <3>3, <3>4
  <2>2. \A m \in 0 .. n + 1 : m \in 0 .. n \/ m = n + 1
    OBVIOUS
  <2> QED
    BY <1>11, <2>1, <2>2
<1>12. Nat \subseteq T
  <2> HIDE DEF T
  <2> QED
    BY <1>10, <1>11, NumberInduction
<1>13. ASSUME NEW n \in D PROVE digits[n] \in S
  <2>1. n \in T /\ n \in 0 .. n
    <3>1. n \in Nat
      BY <1>5
    <3>2. n \in T
      <4> HIDE DEF T
      <4> QED
        BY <1>12, <3>1
    <3> QED
      BY <3>1, <3>2
  <2> QED
    BY <2>1
<1>14. \A n \in D : n \div b \in D
  BY <1>5
<1> QED
  BY <1>8, <1>9, <1>13, <1>14 DEF S

(* kprintf is given a format and an argument for each that it takes. *)
InCall == calls \in Seq(Calls) /\ calls # <<>>

Parts == {"text", "flags", "precision", "qualifier", "conversion", "shown"}

(* The position k of a directive: behind a % with nothing but what may     *)
(* stand before a conversion.                                              *)
InDirective(k) == \E j \in 1 .. k - 1 : /\ Fmt[j] = "%"
                                        /\ \A i \in j + 1 .. k - 1 : Fmt[i] \in Modifiers

(* The arguments taken before the position k. *)
Before(k) == {w \in Wants(Fmt) : w < k}
Taken(k)  == Cardinality(Before(k))

PrintfTypes ==
  /\ InCall
  /\ part \in Parts
  /\ pos \in 1 .. Len(Fmt) + 1
  /\ arg \in Nat \ {0}
  /\ flags \in SUBSET Flags /\ width \in Int /\ precision \in Int /\ count \in Int
  /\ out \in Seq(Char) /\ written \in Seq(Char)

Scanning == part \notin {"text", "shown"} => InDirective(pos)

(* A '*' stays where it is when its argument is taken. *)
Arguments == \/ arg - 1 <= Taken(pos)
             \/ /\ part \in {"precision", "qualifier", "conversion"}
                /\ Here = "*"
                /\ arg - 1 <= Taken(pos + 1)

PrintfInv == PrintfTypes /\ Scanning /\ Arguments

-----------------------------------------------------------------------------
(* The call in progress.                                                   *)

LEMMA CallFacts ==
  ASSUME InCall
  PROVE  /\ Head(calls) \in Calls /\ Fmt \in Seq(Char) /\ Len(Fmt) \in Nat
         /\ DOMAIN Fmt = 1 .. Len(Fmt)
         /\ Head(calls).args \in Seq(Argument) /\ Len(Head(calls).args) \in Nat
         /\ Head(calls).asked \in Asked
         /\ Cardinality(Wants(Fmt)) <= Len(Head(calls).args)
<1>1. Head(calls) \in Calls
  BY HeadTailProperties DEF InCall
<1> QED
  BY <1>1 DEF Calls, Fmt

LEMMA ChIs ==
  ASSUME InCall, NEW k \in Nat \ {0}
  PROVE  /\ Ch(k) \in Char \cup {"NUL"}
         /\ Ch(k) = "NUL" <=> k > Len(Fmt)
         /\ k <= Len(Fmt) => k \in DOMAIN Fmt /\ Ch(k) = Fmt[k] /\ Ch(k) \in Char
<1>1. Fmt \in Seq(Char) /\ Len(Fmt) \in Nat /\ DOMAIN Fmt = 1 .. Len(Fmt)
  BY CallFacts
<1>2. k <= Len(Fmt) => k \in DOMAIN Fmt /\ Fmt[k] \in Char
  BY <1>1, ElementOfSeq
<1>3. "NUL" \notin Char
  BY CharAssumption
<1>4. (k > Len(Fmt)) <=> ~(k <= Len(Fmt))
  BY <1>1
<1> QED
  BY <1>2, <1>3, <1>4, Zenon DEF Ch

LEMMA LeastIs ==
  ASSUME NEW T \in SUBSET Nat, T # {}
  PROVE  Min(T) \in T /\ \A k \in T : Min(T) <= k
BY LeastNumber DEF Min

LEMMA PastDigitsIs ==
  ASSUME InCall, NEW k \in 1 .. Len(Fmt) + 1
  PROVE  /\ PastDigits(k) \in k .. Len(Fmt) + 1
         /\ ~ IsDigit(Ch(PastDigits(k)))
         /\ \A j \in k .. PastDigits(k) - 1 : IsDigit(Ch(j))
<1> DEFINE T == {j \in k .. Len(Fmt) + 1 : ~IsDigit(Ch(j))}
           m == Min(T)
<1>1. Len(Fmt) \in Nat
  BY CallFacts
<1>2. Len(Fmt) + 1 \in T
  <2>1. Ch(Len(Fmt) + 1) = "NUL"
    BY <1>1, ChIs
  <2>2. ~ IsDigit("NUL")
    BY ModifiersAre DEF IsDigit
  <2> QED
    BY <1>1, <2>1, <2>2
<1>3. T \in SUBSET Nat
  BY <1>1
<1>4. m \in T /\ \A j \in T : m <= j
  <2> HIDE DEF T
  <2> QED
    BY <1>2, <1>3, LeastIs
<1>5. PastDigits(k) = m
  BY DEF PastDigits
<1>6. ASSUME NEW j \in k .. m - 1 PROVE IsDigit(Ch(j))
  <2> HIDE DEF m
  <2>1. j \in k .. Len(Fmt) + 1 /\ ~ (m <= j)
    BY <1>1, <1>4
  <2>2. j \notin T
    <3> HIDE DEF T
    <3> QED
      BY <1>4, <2>1
  <2> QED
    BY <2>1, <2>2
<1> HIDE DEF m
<1> QED
  BY <1>4, <1>5, <1>6

LEMMA TakenIs ==
  ASSUME InCall, NEW k \in 1 .. Len(Fmt) + 1
  PROVE  /\ Taken(k) \in Nat /\ Taken(k) <= Len(Head(calls).args)
         /\ \A m \in k .. Len(Fmt) + 1 : Taken(k) <= Taken(m)
         /\ k \in Wants(Fmt) => /\ k + 1 \in 1 .. Len(Fmt) + 1
                                /\ Taken(k + 1) = Taken(k) + 1
<1>1. /\ Len(Fmt) \in Nat /\ Head(calls).args \in Seq(Argument)
      /\ Len(Head(calls).args) \in Nat
      /\ Cardinality(Wants(Fmt)) <= Len(Head(calls).args) /\ DOMAIN Fmt = 1 .. Len(Fmt)
  BY CallFacts
<1>2. Wants(Fmt) \subseteq 1 .. Len(Fmt)
  BY <1>1 DEF Wants
<1>3. IsFiniteSet(Wants(Fmt))
  <2>1. IsFiniteSet(1 .. Len(Fmt))
    BY <1>1, FS_Interval
  <2> QED
    BY <1>2, <2>1, FS_Subset
<1>4. \A m : IsFiniteSet(Before(m)) /\ Cardinality(Before(m)) <= Cardinality(Wants(Fmt))
  BY <1>3, FS_Subset, Zenon DEF Before
<1>5. \A m : Taken(m) \in Nat
  BY <1>4, FS_CardinalityType DEF Taken
<1>6. Cardinality(Wants(Fmt)) \in Nat
  BY <1>3, FS_CardinalityType
<1>7. Taken(k) <= Len(Head(calls).args)
  <2>1. Taken(k) <= Cardinality(Wants(Fmt))
    BY <1>4 DEF Taken
  <2> QED
    BY <1>1, <1>5, <1>6, <2>1
<1>8. ASSUME NEW m \in k .. Len(Fmt) + 1 PROVE Taken(k) <= Taken(m)
  <2>1. Before(k) \subseteq Before(m)
    BY <1>2, <1>1 DEF Before
  <2> QED
    BY <1>4, <2>1, FS_Subset DEF Taken
<1>9. ASSUME k \in Wants(Fmt)
      PROVE  k + 1 \in 1 .. Len(Fmt) + 1 /\ Taken(k + 1) = Taken(k) + 1
  <2>1. Before(k + 1) = Before(k) \cup {k} /\ k \notin Before(k)
    BY <1>2, <1>9 DEF Before
  <2>2. Cardinality(Before(k) \cup {k}) = Cardinality(Before(k)) + 1
    BY <1>4, <2>1, FS_AddElement
  <2>3. Taken(k + 1) = Taken(k) + 1
    BY <2>1, <2>2, Zenon DEF Taken
  <2>4. k \in 1 .. Len(Fmt)
    BY <1>2, <1>9
  <2> QED
    BY <1>1, <2>3, <2>4
<1> QED
  BY <1>5, <1>7, <1>8, <1>9

(* Where a conversion or a '*' is read in a directive, its argument is     *)
(* there.                                                                  *)
LEMMA ArgIs ==
  ASSUME InCall, NEW k \in 1 .. Len(Fmt) + 1, InDirective(k), arg \in Nat \ {0},
         Ch(k) \in Conversions \cup {"*"}, arg - 1 <= Taken(k)
  PROVE  /\ k + 1 \in 1 .. Len(Fmt) + 1 /\ arg <= Taken(k + 1)
         /\ arg \in 1 .. Len(Head(calls).args) /\ Arg \in Argument
<1>1. "NUL" \notin Conversions \cup {"*"} /\ Len(Fmt) \in Nat
  BY CallFacts, ConversionsAre
<1>2. k \in DOMAIN Fmt /\ Fmt[k] \in Conversions \cup {"*"}
  BY <1>1, ChIs
<1>3. k \in Wants(Fmt)
  BY <1>2 DEF Wants, InDirective
<1>4. k + 1 \in 1 .. Len(Fmt) + 1 /\ Taken(k + 1) = Taken(k) + 1 /\ Taken(k) \in Nat
  BY <1>3, TakenIs
<1>5. Taken(k + 1) <= Len(Head(calls).args)
  BY <1>4, TakenIs
<1>6. arg <= Taken(k + 1) /\ arg \in 1 .. Len(Head(calls).args)
  <2>1. Len(Head(calls).args) \in Nat
    BY CallFacts
  <2> QED
    BY <1>4, <1>5, <2>1
<1>7. Head(calls).args[arg] \in Argument
  BY <1>6, CallFacts, ElementOfSeq
<1> QED
  BY <1>4, <1>6, <1>7 DEF Arg

-----------------------------------------------------------------------------
(* What is written and read has its type.                                  *)

LEMMA DigitCharsDiffer ==
  ASSUME NEW i \in 1 .. 10, NEW j \in 1 .. 10, DigitChars[i] = DigitChars[j]
  PROVE  i = j
<1>1. \A k \in 1 .. 10 : \/ k = 1 \/ k = 2 \/ k = 3 \/ k = 4 \/ k = 5
                        \/ k = 6 \/ k = 7 \/ k = 8 \/ k = 9 \/ k = 10
  OBVIOUS
<1> QED
  BY <1>1, DigitCharsAre

LEMMA LenNat == ASSUME NEW E, NEW x \in Seq(E) PROVE Len(x) \in Nat
OBVIOUS

LEMMA TwoElements == ASSUME NEW C, NEW a \in C, NEW b \in C PROVE <<a, b>> \in Seq(C)
OBVIOUS

LEMMA FiveJoined ==
  ASSUME NEW S, NEW s \in Seq(S), NEW t \in Seq(S), NEW u \in Seq(S), NEW v \in Seq(S),
         NEW w \in Seq(S)
  PROVE  s \o t \o u \o v \o w \in Seq(S)
BY JoinedIs

LEMMA DigitValueIs ==
  /\ \A c : DigitValue(c) \in -1 .. 9
  /\ \A k \in 1 .. 10 : DigitValue(DigitChars[k]) = k - 1
<1> DEFINE T(c) == {i \in 1 .. Len(DigitChars) : DigitChars[i] = c}
<1>1. Len(DigitChars) = 10
  BY DigitCharsAre
<1>2. ASSUME NEW c
      PROVE  DigitValue(c) = (IF T(c) # {} THEN Min(T(c)) ELSE 0) - 1
  BY DEF DigitValue, SelectInSeq
<1>3. ASSUME NEW c, T(c) # {} PROVE Min(T(c)) \in T(c) /\ Min(T(c)) \in 1 .. 10
  <2>1. T(c) \in SUBSET Nat /\ T(c) \subseteq 1 .. 10
    BY <1>1
  <2> HIDE DEF T
  <2> QED
    BY <1>3, <2>1, LeastIs
<1>4. ASSUME NEW k \in 1 .. 10 PROVE T(DigitChars[k]) = {k}
  <2>1. \A i \in 1 .. 10 : DigitChars[i] = DigitChars[k] => i = k
    BY DigitCharsDiffer
  <2> QED
    BY <1>1, <2>1
<1> HIDE DEF T
<1>5. ASSUME NEW c PROVE DigitValue(c) \in -1 .. 9
  BY <1>2, <1>3
<1>6. ASSUME NEW k \in 1 .. 10 PROVE DigitValue(DigitChars[k]) = k - 1
  <2>1. T(DigitChars[k]) # {} /\ Min(T(DigitChars[k])) = k
    BY <1>3, <1>4
  <2> QED
    BY <1>2, <2>1
<1> QED
  BY <1>5, <1>6

(* skip_atoi takes one digit after the other. *)
LEMMA AtoiSteps ==
  ASSUME NEW s \in Seq(Char)
  PROVE  \E f \in [0 .. Len(s) -> Int] :
           /\ f[0] = 0
           /\ f[Len(s)] = FoldLeft(LAMBDA v, c : 10 * v + DigitValue(c), 0, s)
           /\ \A k \in 0 .. Len(s) - 1 : f[k + 1] = 10 * f[k] + DigitValue(s[k + 1])
<1> DEFINE n == Len(s)
           I == 1 .. n
           Shift(t, c) == 10 * t + DigitValue(c)
           C(it) == it = [x \in SUBSET I |->
                           IF x = {} THEN 0
                           ELSE Shift(it[x \ {Greatest(x)}], s[Greatest(x)])]
           G == [k \in I |-> [t \in Int |-> Shift(t, s[k])]]
           iter == CHOOSE it : C(it)
<1>1. n \in Nat /\ DOMAIN s = I /\ 0 \in Int
  OBVIOUS
<1>2. G \in [I -> [Int -> Int]]
  <2>1. ASSUME NEW k \in I, NEW t \in Int PROVE Shift(t, s[k]) \in Int
    BY DigitValueIs, DigitValue(s[k]) \in Int
  <2> HIDE DEF I, Shift
  <2> QED
    BY <2>1
<1>3. FoldLeft(LAMBDA v, c : 10 * v + DigitValue(c), 0, s) = iter[I]
  BY <1>1 DEF FoldLeft, MapThenFoldSet, Max, Greatest
<1>4. \E it : C(it)
  <2>1. PICK it \in [SUBSET I -> Int] : FoldsBy(it, n, 0, G)
    <3> HIDE DEF G
    <3> QED
      BY <1>1, <1>2, FoldExists
  <2>2. ASSUME NEW x \in SUBSET I
        PROVE  it[x] = IF x = {} THEN 0 ELSE Shift(it[x \ {Greatest(x)}], s[Greatest(x)])
    <3>1. it[x] = IF x = {} THEN 0 ELSE G[Greatest(x)][it[x \ {Greatest(x)}]]
      <4> HIDE DEF G
      <4> QED
        BY <2>1 DEF FoldsBy
    <3>2. x # {} => Greatest(x) \in I /\ it[x \ {Greatest(x)}] \in Int
      BY <1>1, GreatestIs
    <3> HIDE DEF Shift
    <3> QED
      BY <3>1, <3>2
  <2> HIDE DEF Shift
  <2>3. C(it)
    BY <2>1, <2>2
  <2> QED
    BY <2>3
<1> HIDE DEF Shift
<1>5. C(iter)
  BY <1>4
<1> HIDE DEF iter
<1>6. iter[{}] = 0 /\ \A x \in SUBSET I : x # {} =>
                        iter[x] = Shift(iter[x \ {Greatest(x)}], s[Greatest(x)])
  BY <1>5
<1>7. ASSUME NEW x \in SUBSET I, x # {}, iter[x \ {Greatest(x)}] \in Int
      PROVE  iter[x] = G[Greatest(x)][iter[x \ {Greatest(x)}]]
  <2>1. Greatest(x) \in I
    BY <1>1, <1>7, GreatestIs
  <2> QED
    BY <1>6, <1>7, <2>1
<1> HIDE DEF G
<1>8. PICK f \in [0 .. n -> Int] : FoldValues(f, n, 0, iter[1 .. n], G)
  <2>1. FoldsIn(iter, n, 0, Int, G)
    BY <1>6, <1>7 DEF FoldsIn
  <2> QED
    BY <1>1, <1>2, <2>1, FoldIs
<1>9. ASSUME NEW k \in 0 .. n - 1 PROVE f[k + 1] = Shift(f[k], s[k + 1])
  <2>1. k + 1 \in I /\ f[k] \in Int /\ f[k + 1] = G[k + 1][f[k]]
    BY <1>1, <1>8 DEF FoldValues
  <2> QED
    BY <2>1 DEF G
<1>10. \A k \in 0 .. n - 1 : f[k + 1] = 10 * f[k] + DigitValue(s[k + 1])
  BY <1>9 DEF Shift
<1> QED
  BY <1>3, <1>8, <1>10 DEF FoldValues

LEMMA PieceIs ==
  ASSUME NEW S, NEW s \in Seq(S), NEW m \in 1 .. Len(s) + 1, NEW n \in m - 1 .. Len(s)
  PROVE  /\ SubSeq(s, m, n) \in Seq(S) /\ Len(SubSeq(s, m, n)) = n - m + 1
         /\ \A i \in 1 .. n - m + 1 : SubSeq(s, m, n)[i] = s[m + i - 1]
<1>1. Len(s) \in Nat /\ m \in Int /\ n \in Int
  OBVIOUS
<1>2. \A i \in m .. n : s[i] \in S
  BY <1>1, ElementOfSeq
<1> QED
  BY <1>1, <1>2, SubSeqProperties

LEMMA AtoiIs ==
  ASSUME InCall, NEW k \in 1 .. Len(Fmt) + 1
  PROVE  Atoi(k) \in Int /\ Most(Atoi(k), 0) \in Int
<1> DEFINE s == SubSeq(Fmt, k, PastDigits(k) - 1)
<1>1. s \in Seq(Char)
  <2>1. Fmt \in Seq(Char) /\ Len(Fmt) \in Nat
    BY CallFacts
  <2>2. PastDigits(k) \in k .. Len(Fmt) + 1
    BY PastDigitsIs
  <2>3. PastDigits(k) - 1 \in k - 1 .. Len(Fmt)
    BY <2>1, <2>2
  <2> QED
    BY <2>1, <2>3, PieceIs
<1>2. NumberAt(k) = FoldLeft(LAMBDA v, c : 10 * v + DigitValue(c), 0, s)
  BY DEF NumberAt
<1> HIDE DEF s
<1>3. PICK f \in [0 .. Len(s) -> Int] :
        f[Len(s)] = FoldLeft(LAMBDA v, c : 10 * v + DigitValue(c), 0, s)
  BY <1>1, AtoiSteps
<1>4. Len(s) \in 0 .. Len(s)
  BY <1>1
<1>5. NumberAt(k) \in Int
  BY <1>2, <1>3, <1>4
<1>6. NumberAt(k) % IntRange \in 0 .. IntRange - 1
  BY <1>5, RangeFacts
<1> QED
  BY <1>6, SignedIs DEF Atoi, Most

LEMMA CharsAre ==
  /\ {"-", "+", "0", "x", "X", "%"} \subseteq Char /\ Blank \in Char
<1>1. {"-", "+", "0", Blank} \subseteq Char
  BY FlagsAre, ModifiersAre
<1>2. {"x", "X", "%"} \subseteq Char
  BY CharAssumption, ConversionsAre DEF Conversions
<1> QED
  BY <1>1, <1>2

LEMMA NumberIs ==
  ASSUME NEW num \in 0 .. IntRange - 1, NEW base \in {8, 10, 16}, NEW size \in Int,
         NEW prec \in Int, NEW type \in SUBSET Flags, NEW sgn \in BOOLEAN, NEW small \in BOOLEAN
  PROVE  Number(num, base, size, prec, type, sgn, small) \in Seq(Char)
<1> DEFINE minus   == sgn /\ Signed(num) < 0
           sign    == CASE minus -> <<"-">>
                        [] ~minus /\ "+" \in type -> <<"+">>
                        [] ~minus /\ "+" \notin type /\ " " \in type -> <<" ">>
                        [] OTHER -> <<>>
           special == CASE "#" \in type /\ base = 16 -> <<"0", IF small THEN "x" ELSE "X">>
                        [] "#" \in type /\ base = 8 -> <<"0">>
                        [] OTHER -> <<>>
           tmp     == Tmp(IF minus THEN IntRange - num ELSE num, base)
           digits  == [k \in DOMAIN tmp |-> Digits(small)[tmp[k] + 1]]
           p       == Most(Len(tmp), prec)
           left    == size - Len(sign) - Len(special) - p
           zeros   == Pad(p - Len(tmp), "0")
<1>1. sign \in Seq(Char) /\ Len(sign) \in Nat
  <2>1. \A c \in {"-", "+", Blank} : <<c>> \in Seq(Char)
    BY CharsAre, StringFacts
  <2>2. sign \in Seq(Char)
    BY <2>1, StringFacts, Zenon DEF Blank
  <2> QED
    BY <2>2, LenNat
<1>2. special \in Seq(Char) /\ Len(special) \in Nat
  <2>1. <<"0">> \in Seq(Char)
    BY CharsAre, StringFacts
  <2>2. \A c \in {"x", "X"} : <<"0", c>> \in Seq(Char)
    BY CharsAre, TwoElements
  <2>3. special \in Seq(Char)
    BY <2>1, <2>2, StringFacts, Zenon
  <2> QED
    BY <2>3, LenNat
<1>3. tmp \in Seq(0 .. base - 1)
  <2>1. IntRange - num \in 0 .. IntRange - 1 \/ ~minus
    BY SignedIs
  <2>2. base \in Nat \ {0, 1}
    OBVIOUS
  <2> HIDE DEF minus
  <2> QED
    BY <2>1, <2>2, TmpIs
<1> HIDE DEF sign, special, tmp
<1>4. Len(tmp) \in Nat /\ DOMAIN tmp = 1 .. Len(tmp)
  BY <1>3
<1>5. digits \in Seq(Char)
  <2>1. ASSUME NEW k \in 1 .. Len(tmp) PROVE Digits(small)[tmp[k] + 1] \in Char
    <3>1. tmp[k] \in 0 .. base - 1
      BY <1>3, ElementOfSeq
    <3>2. \A r \in 0 .. base - 1 : r + 1 \in 1 .. 16
      OBVIOUS
    <3>3. tmp[k] + 1 \in 1 .. 16
      BY <3>1, <3>2
    <3> QED
      BY <3>3, DigitsAre
  <2>2. digits = [k \in 1 .. Len(tmp) |-> Digits(small)[tmp[k] + 1]]
    BY <1>4
  <2> QED
    BY <1>4, <2>1, <2>2
<1> HIDE DEF digits
<1>6. p \in Int /\ left \in Int /\ p - Len(tmp) \in Int
  BY <1>1, <1>2, <1>4 DEF Most
<1> HIDE DEF p, left
<1>7. zeros \in Seq(Char) /\ Pad(left, "0") \in Seq(Char) /\ Pad(left, Blank) \in Seq(Char)
  BY <1>6, PadIs, CharsAre
<1> HIDE DEF zeros
<1> DEFINE blanks == Pad(left, Blank)
           noughts == Pad(left, "0")
<1>8. Number(num, base, size, prec, type, sgn, small) =
        CASE "-" \in type -> sign \o special \o zeros \o digits \o blanks
        [] "-" \notin type /\ "0" \in type ->
             sign \o special \o noughts \o zeros \o digits
        [] OTHER -> blanks \o sign \o special \o zeros \o digits
  BY Zenon DEF Number, sign, special, tmp, digits, p, left, zeros, minus, Blank
<1>9. /\ sign \o special \o zeros \o digits \o blanks \in Seq(Char)
      /\ sign \o special \o noughts \o zeros \o digits \in Seq(Char)
      /\ blanks \o sign \o special \o zeros \o digits \in Seq(Char)
  <2> DEFINE joined(s, t, u, v, w) == s \o t \o u \o v \o w
  <2> HIDE DEF blanks, noughts
  <2> QED
    BY <1>1, <1>2, <1>5, <1>7, FiveJoined DEF blanks, noughts
<1> QED
  BY <1>8, <1>9, Zenon

(* A directive goes on over what may stand before a conversion. *)
LEMMA Onward ==
  ASSUME InCall, NEW k \in 1 .. Len(Fmt) + 1, InDirective(k), NEW m \in k .. Len(Fmt) + 1,
         \A i \in k .. m - 1 : Ch(i) \in Modifiers
  PROVE  InDirective(m)
<1>1. Len(Fmt) \in Nat
  BY CallFacts
<1>2. PICK j \in 1 .. k - 1 : Fmt[j] = "%" /\ \A i \in j + 1 .. k - 1 : Fmt[i] \in Modifiers
  BY DEF InDirective
<1>3. ASSUME NEW i \in j + 1 .. m - 1 PROVE Fmt[i] \in Modifiers
  <2>1. CASE i <= k - 1
    BY <1>1, <1>2, <2>1
  <2>2. CASE ~(i <= k - 1)
    <3>1. i \in k .. m - 1 /\ i \in Nat \ {0} /\ i <= Len(Fmt)
      BY <1>1, <2>2
    <3> QED
      BY <3>1, ChIs
  <2> QED
    BY <2>1, <2>2
<1>4. j \in 1 .. m - 1
  BY <1>1
<1> QED
  BY <1>2, <1>3, <1>4 DEF InDirective

LEMMA OneOn ==
  ASSUME InCall, NEW k \in 1 .. Len(Fmt) + 1, InDirective(k), Ch(k) \in Modifiers
  PROVE  k + 1 \in 1 .. Len(Fmt) + 1 /\ InDirective(k + 1)
<1>1. Len(Fmt) \in Nat /\ "NUL" \notin Modifiers
  BY CallFacts, ModifiersAre
<1>2. k <= Len(Fmt)
  BY <1>1, ChIs
<1>3. k + 1 \in k .. Len(Fmt) + 1 /\ \A i \in k .. (k + 1) - 1 : i = k
  BY <1>1, <1>2
<1> QED
  BY <1>1, <1>2, <1>3, Onward

LEMMA DigitsOn ==
  ASSUME InCall, NEW k \in 1 .. Len(Fmt) + 1, InDirective(k)
  PROVE  PastDigits(k) \in k .. Len(Fmt) + 1 /\ InDirective(PastDigits(k))
<1>1. /\ PastDigits(k) \in k .. Len(Fmt) + 1
      /\ \A i \in k .. PastDigits(k) - 1 : Ch(i) \in Modifiers
  BY PastDigitsIs, ModifiersAre DEF IsDigit
<1> QED
  BY <1>1, Onward

(* While a call goes on, its format is the same. *)
LEMMA SameCall ==
  ASSUME calls' = calls
  PROVE  /\ InCall' <=> InCall
         /\ Fmt' = Fmt /\ Head(calls)' = Head(calls)
         /\ Taken(pos)' = Taken(pos') /\ Taken(pos + 1)' = Taken(pos' + 1)
         /\ InDirective(pos)' <=> InDirective(pos')
         /\ Here' = Ch(pos')
BY DEF InCall, Fmt, Taken, Before, InDirective, Here, Ch

(* What an action of the scan leaves alone, and where it goes. *)
LEMMA Kept ==
  ASSUME PrintfInv, calls' = calls, part' \in Parts \ {"shown"}, pos' \in 1 .. Len(Fmt) + 1,
         arg' \in Nat \ {0}, flags' \in SUBSET Flags, width' \in Int, precision' \in Int,
         count' \in Int, out' \in Seq(Char), written' = written,
         part' # "text" => InDirective(pos'),
         \/ arg' - 1 <= Taken(pos')
         \/ /\ part' \in {"precision", "qualifier", "conversion"}
            /\ Ch(pos') = "*" /\ arg' - 1 <= Taken(pos' + 1)
  PROVE  PrintfInv'
<1>1. PrintfTypes'
  BY SameCall DEF PrintfInv, PrintfTypes
<1>2. Scanning'
  BY SameCall DEF Scanning
<1>3. Arguments'
  BY SameCall DEF Arguments
<1> QED
  BY <1>1, <1>2, <1>3 DEF PrintfInv

(* Nothing was taken ahead where no '*' stands. *)
LEMMA NotAhead ==
  ASSUME PrintfInv, part \in {"text", "flags"} \/ Here # "*"
  PROVE  arg - 1 <= Taken(pos)
BY DEF PrintfInv, Arguments

LEMMA TakenOn ==
  ASSUME InCall, NEW k \in 1 .. Len(Fmt) + 1, NEW m \in k .. Len(Fmt) + 1,
         NEW a \in Nat, a <= Taken(k)
  PROVE  a <= Taken(m)
<1>1. m \in 1 .. Len(Fmt) + 1 /\ Taken(k) <= Taken(m) /\ Taken(k) \in Nat
  BY CallFacts, TakenIs
<1>2. Taken(m) \in Nat
  BY <1>1, TakenIs
<1> QED
  BY <1>1, <1>2

LEMMA ScanFacts ==
  ASSUME PrintfInv
  PROVE  /\ PrintfTypes /\ InCall /\ Len(Fmt) \in Nat /\ pos \in 1 .. Len(Fmt) + 1
         /\ pos \in Nat \ {0} /\ arg \in Nat \ {0} /\ arg - 1 \in Nat
         /\ Here = "NUL" <=> pos = Len(Fmt) + 1
         /\ Here # "NUL" => pos + 1 \in pos .. Len(Fmt) + 1 /\ pos + 1 \in 1 .. Len(Fmt) + 1
<1>1. PrintfTypes /\ InCall /\ pos \in 1 .. Len(Fmt) + 1 /\ arg \in Nat \ {0}
  BY DEF PrintfInv, PrintfTypes
<1>2. Len(Fmt) \in Nat
  BY <1>1, CallFacts
<1>3. Here = "NUL" <=> pos > Len(Fmt)
  BY <1>1, <1>2, ChIs DEF Here
<1> QED
  BY <1>1, <1>2, <1>3

(* A conversion in text ends a directive; what it writes has its type.     *)
LEMMA EmitKeeps ==
  ASSUME PrintfInv, NEW s, Arg \in Argument => s \in Seq(Char),
         Here \in Conversions, Emit(s)
  PROVE  PrintfInv'
<1>1. /\ part = "conversion" /\ part' = "text" /\ out' = out \o s /\ arg' = arg + 1
      /\ pos' = pos + 1 /\ calls' = calls /\ flags' = flags /\ width' = width
      /\ precision' = precision /\ count' = count /\ written' = written
  BY DEF Emit, Move
<1>2. InDirective(pos) /\ Here # "*"
  BY <1>1, ConversionsAre DEF PrintfInv, Scanning
<1>3. /\ pos + 1 \in 1 .. Len(Fmt) + 1 /\ arg <= Taken(pos + 1) /\ Arg \in Argument
  BY <1>2, ScanFacts, NotAhead, ArgIs DEF Here
<1>4. arg' - 1 <= Taken(pos') /\ arg' \in Nat \ {0}
  BY <1>1, <1>3, ScanFacts
<1>5. out' \in Seq(Char)
  BY <1>1, <1>3, ScanFacts, JoinedIs DEF PrintfTypes
<1> QED
  BY <1>1, <1>3, <1>4, <1>5, ScanFacts, Kept DEF PrintfTypes, Parts

LEMMA JustifiedIs ==
  ASSUME NEW s \in Seq(Char), width \in Int
  PROVE  Justified(s) \in Seq(Char)
<1>1. Len(s) \in Nat /\ width - Len(s) \in Int
  BY LenNat
<1>2. Pad(width - Len(s), Blank) \in Seq(Char)
  BY <1>1, PadIs, CharsAre
<1>3. Pad(width - Len(s), " ") \in Seq(Char)
  BY <1>2, Zenon DEF Blank
<1>4. s \o Pad(width - Len(s), " ") \in Seq(Char) /\ Pad(width - Len(s), " ") \o s \in Seq(Char)
  <2> DEFINE pad == Pad(width - Len(s), " ")
  <2>1. pad \in Seq(Char)
    BY <1>3, Zenon
  <2> HIDE DEF pad
  <2>2. s \o pad \in Seq(Char) /\ pad \o s \in Seq(Char)
    BY <2>1, JoinedIs
  <2> QED
    BY <2>2, Zenon DEF pad
<1> QED
  BY <1>4, Zenon DEF Justified

LEMMA TextKeeps == PrintfInv /\ Text => PrintfInv'
<1> SUFFICES ASSUME PrintfInv, Text PROVE PrintfInv'
  OBVIOUS
<1>1. /\ part = "text" /\ part' = "text" /\ Here \notin {"%", "NUL"}
      /\ out' = Append(out, Here) /\ pos' = pos + 1
      /\ calls' = calls /\ arg' = arg /\ flags' = flags /\ width' = width
      /\ precision' = precision /\ count' = count /\ written' = written
  BY DEF Text, Move
<1>2. pos' \in pos .. Len(Fmt) + 1 /\ pos' \in 1 .. Len(Fmt) + 1
  BY <1>1, ScanFacts
<1>3. arg' - 1 <= Taken(pos')
  BY <1>1, <1>2, ScanFacts, NotAhead, TakenOn
<1>4. out' \in Seq(Char)
  <2>1. Here \in Char
    BY <1>1, ScanFacts, ChIs DEF Here
  <2> QED
    BY <1>1, <2>1, ScanFacts, AppendProperties DEF PrintfTypes
<1> QED
  BY <1>1, <1>2, <1>3, <1>4, ScanFacts, Kept DEF PrintfTypes, Parts

LEMMA PercentKeeps == PrintfInv /\ Percent => PrintfInv'
<1> SUFFICES ASSUME PrintfInv, Percent PROVE PrintfInv'
  OBVIOUS
<1>1. /\ part = "text" /\ part' = "flags" /\ Here = "%" /\ pos' = pos + 1
      /\ calls' = calls /\ arg' = arg /\ flags' = {} /\ width' = width /\ out' = out
      /\ precision' = precision /\ count' = count /\ written' = written
  BY DEF Percent, Move
<1>2. Here # "NUL"
  BY <1>1, CharsAre, CharAssumption
<1>3. pos' \in pos .. Len(Fmt) + 1 /\ pos' \in 1 .. Len(Fmt) + 1
  BY <1>1, <1>2, ScanFacts
<1>4. arg' - 1 <= Taken(pos')
  BY <1>1, <1>3, ScanFacts, NotAhead, TakenOn
<1>5. InDirective(pos')
  <2>1. Fmt[pos] = "%"
    BY <1>1, <1>2, ScanFacts, ChIs DEF Here
  <2>2. pos \in 1 .. pos' - 1 /\ \A i \in pos + 1 .. pos' - 1 : FALSE
    BY <1>1, ScanFacts
  <2> QED
    BY <2>1, <2>2 DEF InDirective
<1> QED
  BY <1>1, <1>3, <1>4, <1>5, ScanFacts, Kept DEF PrintfTypes, Parts

LEMMA FlagKeeps == PrintfInv /\ Flag => PrintfInv'
<1> SUFFICES ASSUME PrintfInv, Flag PROVE PrintfInv'
  OBVIOUS
<1>1. /\ part = "flags" /\ part' = "flags" /\ Here \in Flags /\ pos' = pos + 1
      /\ calls' = calls /\ arg' = arg /\ flags' = flags \cup {Here} /\ width' = width
      /\ out' = out /\ precision' = precision /\ count' = count /\ written' = written
  BY DEF Flag, Move
<1>2. Here \in Modifiers /\ Here # "NUL"
  BY <1>1, ModifiersAre
<1>3. pos' \in pos .. Len(Fmt) + 1 /\ pos' \in 1 .. Len(Fmt) + 1
  BY <1>1, <1>2, ScanFacts
<1>4. arg' - 1 <= Taken(pos')
  BY <1>1, <1>3, ScanFacts, NotAhead, TakenOn
<1>5. InDirective(pos')
  BY <1>1, <1>2, ScanFacts, OneOn DEF PrintfInv, Scanning, Here
<1>6. flags' \in SUBSET Flags
  BY <1>1, ScanFacts DEF PrintfTypes
<1> QED
  BY <1>1, <1>3, <1>4, <1>5, <1>6, ScanFacts, Kept DEF PrintfTypes, Parts

LEMMA WidthKeeps == PrintfInv /\ Width => PrintfInv'
<1> SUFFICES ASSUME PrintfInv, Width PROVE PrintfInv'
  OBVIOUS
<1>1. /\ part = "flags" /\ part' = "precision"
      /\ calls' = calls /\ precision' = precision /\ out' = out /\ count' = count
      /\ written' = written
  BY DEF Width, Move
<1>2. InDirective(pos) /\ arg - 1 <= Taken(pos)
  BY <1>1, NotAhead DEF PrintfInv, Scanning
<1>3. CASE IsDigit(Here) /\ width' = Atoi(pos) /\ pos' = PastDigits(pos)
           /\ arg' = arg /\ flags' = flags
  <2>1. pos' \in pos .. Len(Fmt) + 1 /\ InDirective(pos') /\ width' \in Int
    BY <1>2, <1>3, ScanFacts, DigitsOn, AtoiIs
  <2>2. pos' \in 1 .. Len(Fmt) + 1
    BY <2>1, ScanFacts
  <2>3. arg' - 1 <= Taken(pos')
    BY <1>2, <1>3, <2>1, ScanFacts, TakenOn
  <2> QED
    BY <1>1, <1>3, <2>1, <2>2, <2>3, ScanFacts, Kept DEF PrintfTypes, Parts
<1>4. CASE /\ Here = "*" /\ arg' = arg + 1 /\ pos' = pos
           /\ width' = IF Signed(Arg.n) < 0 THEN Signed(IntRange - Arg.n) ELSE Arg.n
           /\ flags' = IF Signed(Arg.n) < 0 THEN flags \cup {"-"} ELSE flags
  <2>1. arg <= Taken(pos + 1) /\ Arg \in Argument
    BY <1>2, <1>4, ScanFacts, ArgIs DEF Here
  <2>2. Arg.n \in 0 .. IntRange - 1
    BY <2>1 DEF Argument
  <2>3. width' \in Int
    BY <1>4, <2>2, SignedIs
  <2>4. flags' \in SUBSET Flags
    BY <1>4, ScanFacts, FlagsAre DEF PrintfTypes
  <2>5. arg' - 1 <= Taken(pos' + 1) /\ arg' \in Nat \ {0} /\ Ch(pos') = "*"
    BY <1>4, <2>1, ScanFacts DEF Here
  <2> QED
    BY <1>1, <1>2, <1>4, <2>3, <2>4, <2>5, ScanFacts, Kept DEF PrintfTypes, Parts
<1>5. CASE width' = -1 /\ pos' = pos /\ arg' = arg /\ flags' = flags
  BY <1>1, <1>2, <1>5, ScanFacts, Kept DEF PrintfTypes, Parts
<1> QED
  BY <1>3, <1>4, <1>5 DEF Width

LEMMA PrecisionKeeps == PrintfInv /\ Precision => PrintfInv'
<1> SUFFICES ASSUME PrintfInv, Precision PROVE PrintfInv'
  OBVIOUS
<1>1. /\ part = "precision" /\ part' = "qualifier"
      /\ calls' = calls /\ flags' = flags /\ width' = width /\ out' = out /\ count' = count
      /\ written' = written
  BY DEF Precision, Move
<1>2. InDirective(pos)
  BY <1>1 DEF PrintfInv, Scanning
<1>3. ASSUME Here = "."
      PROVE  /\ pos + 1 \in pos .. Len(Fmt) + 1 /\ pos + 1 \in 1 .. Len(Fmt) + 1
             /\ InDirective(pos + 1) /\ arg - 1 <= Taken(pos + 1) /\ pos + 1 \in Nat \ {0}
  <2>1. Here \in Modifiers /\ Here # "NUL" /\ Here # "*"
    BY <1>3, ModifiersAre
  <2>2. pos + 1 \in pos .. Len(Fmt) + 1 /\ pos + 1 \in 1 .. Len(Fmt) + 1
    BY <2>1, ScanFacts
  <2>3. arg - 1 <= Taken(pos + 1)
    BY <2>1, <2>2, ScanFacts, NotAhead, TakenOn
  <2> QED
    BY <1>2, <2>1, <2>2, <2>3, ScanFacts, OneOn DEF Here
<1>4. CASE /\ Here = "." /\ IsDigit(Ch(pos + 1)) /\ precision' = Most(Atoi(pos + 1), 0)
           /\ pos' = PastDigits(pos + 1) /\ arg' = arg
  <2>1. pos' \in pos + 1 .. Len(Fmt) + 1 /\ InDirective(pos') /\ precision' \in Int
    BY <1>3, <1>4, ScanFacts, DigitsOn, AtoiIs
  <2>2. pos' \in 1 .. Len(Fmt) + 1
    BY <2>1, ScanFacts
  <2>3. arg' - 1 <= Taken(pos')
    BY <1>3, <1>4, <2>1, ScanFacts, TakenOn
  <2> QED
    BY <1>1, <1>4, <2>1, <2>2, <2>3, ScanFacts, Kept DEF PrintfTypes, Parts
<1>5. CASE /\ Here = "." /\ Ch(pos + 1) = "*" /\ precision' = Most(Signed(Arg.n), 0)
           /\ arg' = arg + 1 /\ pos' = pos + 1
  <2>1. arg <= Taken(pos + 1 + 1) /\ Arg \in Argument
    BY <1>3, <1>5, ScanFacts, ArgIs
  <2>2. Signed(Arg.n) \in Int
    BY <2>1, SignedIs DEF Argument
  <2>3. precision' \in Int
    BY <1>5, <2>2 DEF Most
  <2>4. arg' - 1 <= Taken(pos' + 1) /\ arg' \in Nat \ {0}
    BY <1>5, <2>1, ScanFacts
  <2> QED
    BY <1>1, <1>3, <1>5, <2>3, <2>4, ScanFacts, Kept DEF PrintfTypes, Parts
<1>6. CASE Here = "." /\ precision' = 0 /\ pos' = pos + 1 /\ arg' = arg
  BY <1>1, <1>3, <1>6, ScanFacts, Kept DEF PrintfTypes, Parts
<1>7. CASE Here # "." /\ precision' = -1 /\ pos' = pos /\ arg' = arg
  BY <1>1, <1>2, <1>7, ScanFacts, SameCall, Kept DEF PrintfInv, PrintfTypes, Parts, Arguments,
     Here
<1> QED
  BY <1>4, <1>5, <1>6, <1>7 DEF Precision

LEMMA QualifierKeeps == PrintfInv /\ Qualifier => PrintfInv'
<1> SUFFICES ASSUME PrintfInv, Qualifier PROVE PrintfInv'
  OBVIOUS
<1>1. /\ part = "qualifier" /\ part' = "conversion"
      /\ pos' = IF Here \in Qualifiers THEN pos + 1 ELSE pos
      /\ calls' = calls /\ arg' = arg /\ flags' = flags /\ width' = width /\ out' = out
      /\ precision' = precision /\ count' = count /\ written' = written
  BY DEF Qualifier, Move
<1>2. InDirective(pos)
  BY <1>1 DEF PrintfInv, Scanning
<1>3. CASE Here \in Qualifiers /\ pos' = pos + 1
  <2>1. Here \in Modifiers /\ Here # "NUL" /\ Here # "*"
    BY <1>3, ModifiersAre
  <2>2. pos' \in pos .. Len(Fmt) + 1 /\ pos' \in 1 .. Len(Fmt) + 1
    BY <1>3, <2>1, ScanFacts
  <2>3. arg' - 1 <= Taken(pos')
    BY <1>1, <2>1, <2>2, ScanFacts, NotAhead, TakenOn
  <2>4. InDirective(pos')
    BY <1>2, <1>3, <2>1, ScanFacts, OneOn DEF Here
  <2> QED
    BY <1>1, <2>2, <2>3, <2>4, ScanFacts, Kept DEF PrintfTypes, Parts
<1>4. CASE pos' = pos
  BY <1>1, <1>2, <1>4, ScanFacts, Kept DEF PrintfInv, PrintfTypes, Parts, Arguments, Here
<1> QED
  BY <1>1, <1>3, <1>4

LEMMA ConversionKeeps ==
  PrintfInv /\ (ConvChar \/ ConvString \/ ConvNumber) => PrintfInv'
<1> SUFFICES ASSUME PrintfInv, ConvChar \/ ConvString \/ ConvNumber PROVE PrintfInv'
  OBVIOUS
<1>1. width \in Int /\ precision \in Int /\ flags \in SUBSET Flags
  BY ScanFacts DEF PrintfTypes
<1>2. CASE ConvChar
  <2>1. Arg \in Argument => Justified(Arg.s) \in Seq(Char)
    BY <1>1, JustifiedIs DEF Argument
  <2>2. Here \in Conversions
    BY <1>2 DEF ConvChar, Conversions
  <2> QED
    BY <1>2, <2>1, <2>2, EmitKeeps DEF ConvChar
<1>3. CASE ConvString
  <2> DEFINE s   == IF Arg.s = Null THEN <<>> ELSE Arg.s
             len == IF precision < 0 \/ Len(s) <= precision THEN Len(s) ELSE precision
  <2>1. ASSUME Arg \in Argument PROVE Justified(SubSeq(s, 1, len)) \in Seq(Char)
    <3>1. s \in Seq(Char)
      BY <2>1, StringFacts DEF Argument
    <3> HIDE DEF s
    <3>2. len \in 0 .. Len(s) /\ 1 \in 1 .. Len(s) + 1 /\ len \in 1 - 1 .. Len(s)
      BY <1>1, <3>1, LenNat
    <3> HIDE DEF len
    <3>3. SubSeq(s, 1, len) \in Seq(Char)
      BY <3>1, <3>2, PieceIs
    <3> QED
      BY <1>1, <3>3, JustifiedIs
  <2>2. Here \in Conversions
    BY <1>3 DEF ConvString, Conversions
  <2> QED
    BY <1>3, <2>1, <2>2, EmitKeeps DEF ConvString
<1>4. CASE ConvNumber
  <2> DEFINE bare == Here = "p" /\ width = -1
             size == IF bare THEN 8 ELSE width
             type == IF bare THEN flags \cup {"0"} ELSE flags
             sgn  == Here \in {"d", "i"}
             small == Here = "x"
  <2>1. Here \in DOMAIN Base /\ Here \in Conversions /\ Base[Here] \in {8, 10, 16}
    BY <1>4, ConversionsAre DEF ConvNumber, Conversions
  <2>2. size \in Int /\ type \in SUBSET Flags /\ sgn \in BOOLEAN /\ small \in BOOLEAN
    BY <1>1, FlagsAre
  <2>3. Emit(Number(Arg.n, Base[Here], size, precision, type, sgn, small))
    BY <1>4 DEF ConvNumber
  <2> HIDE DEF bare, size, type, sgn, small
  <2>4. Arg \in Argument =>
          Number(Arg.n, Base[Here], size, precision, type, sgn, small) \in Seq(Char)
    BY <1>1, <2>1, <2>2, NumberIs DEF Argument
  <2> QED
    BY <2>1, <2>3, <2>4, EmitKeeps
<1> QED
  BY <1>2, <1>3, <1>4

LEMMA CountKeeps == PrintfInv /\ ConvCount => PrintfInv'
<1> SUFFICES ASSUME PrintfInv, ConvCount PROVE PrintfInv'
  OBVIOUS
<1>1. /\ part = "conversion" /\ part' = "text" /\ Here = "n" /\ arg' = arg + 1
      /\ pos' = pos + 1 /\ calls' = calls /\ flags' = flags /\ width' = width
      /\ precision' = precision /\ count' = Len(out) /\ written' = written /\ out' = out
  BY DEF ConvCount, Move
<1>2. InDirective(pos) /\ Here \in Conversions /\ Here # "*"
  BY <1>1, ConversionsAre DEF PrintfInv, Scanning, Conversions
<1>3. /\ pos + 1 \in 1 .. Len(Fmt) + 1 /\ arg <= Taken(pos + 1)
  BY <1>2, ScanFacts, NotAhead, ArgIs DEF Here
<1>4. arg' - 1 <= Taken(pos') /\ arg' \in Nat \ {0}
  BY <1>1, <1>3, ScanFacts
<1>5. count' \in Int
  BY <1>1, ScanFacts, LenNat DEF PrintfTypes
<1> QED
  BY <1>1, <1>3, <1>4, <1>5, ScanFacts, Kept DEF PrintfTypes, Parts

LEMMA OtherKeeps == PrintfInv /\ ConvOther => PrintfInv'
<1> SUFFICES ASSUME PrintfInv, ConvOther PROVE PrintfInv'
  OBVIOUS
<1> DEFINE sign == IF Here # "%" THEN <<"%">> ELSE <<>>
           char == IF Here # "NUL" THEN <<Here>> ELSE <<>>
<1>1. /\ part = "conversion" /\ part' = "text"
      /\ out' = out \o sign \o char
      /\ pos' = IF Here # "NUL" THEN pos + 1 ELSE pos
      /\ calls' = calls /\ arg' = arg /\ flags' = flags /\ width' = width
      /\ precision' = precision /\ count' = count /\ written' = written
  BY DEF ConvOther, Move
<1>2. sign \in Seq(Char) /\ char \in Seq(Char)
  <2>1. Here # "NUL" => Here \in Char
    BY ScanFacts, ChIs DEF Here
  <2>2. <<"%">> \in Seq(Char)
    BY CharsAre, StringFacts
  <2> QED
    BY <2>1, <2>2, StringFacts
<1> HIDE DEF sign, char
<1>3. out' \in Seq(Char)
  BY <1>1, <1>2, ScanFacts, JoinedIs DEF PrintfTypes
<1>4. pos' \in pos .. Len(Fmt) + 1 /\ pos' \in 1 .. Len(Fmt) + 1
  BY <1>1, ScanFacts
<1>5. arg' - 1 <= Taken(pos')
  <2>1. CASE Here = "*"
    <3>1. Here # "NUL"
      BY <2>1, CharAssumption
    <3>2. pos' = pos + 1 /\ pos \in pos' - 1 .. pos'
      BY <1>1, <3>1, ScanFacts
    <3>3. arg - 1 <= Taken(pos) => arg - 1 <= Taken(pos')
      BY <1>4, ScanFacts, TakenOn
    <3> QED
      BY <1>1, <3>2, <3>3 DEF PrintfInv, Arguments
  <2>2. CASE Here # "*"
    BY <1>1, <1>4, <2>2, ScanFacts, NotAhead, TakenOn
  <2> QED
    BY <2>1, <2>2
<1> QED
  BY <1>1, <1>3, <1>4, <1>5, ScanFacts, Kept DEF PrintfTypes, Parts

LEMMA ShowKeeps == PrintfInv /\ Show => PrintfInv'
<1> SUFFICES ASSUME PrintfInv, Show PROVE PrintfInv'
  OBVIOUS
<1>1. /\ part = "text" /\ part' = "shown" /\ written' = written \o out
      /\ calls' = calls /\ arg' = arg /\ flags' = flags /\ width' = width /\ out' = out
      /\ precision' = precision /\ count' = count /\ pos' = pos
  BY DEF Show, Move, scan
<1>2. written' \in Seq(Char)
  BY <1>1, ScanFacts, JoinedIs DEF PrintfTypes
<1>3. PrintfTypes'
  BY <1>1, <1>2, ScanFacts, SameCall DEF PrintfTypes, Parts
<1>4. Scanning' /\ Arguments'
  BY <1>1, NotAhead, SameCall DEF Scanning, Arguments
<1> QED
  BY <1>3, <1>4 DEF PrintfInv

LEMMA CallStarts ==
  ASSUME InCall, pos = 1, arg = 1, part = "text"
  PROVE  /\ pos \in 1 .. Len(Fmt) + 1 /\ Scanning /\ Arguments
<1>1. Len(Fmt) \in Nat
  BY CallFacts
<1>2. pos \in 1 .. Len(Fmt) + 1
  BY <1>1
<1>3. Taken(pos) \in Nat
  BY <1>2, TakenIs
<1> QED
  BY <1>2, <1>3 DEF Scanning, Arguments

LEMMA CallKeeps == PrintfInv /\ Call => PrintfInv'
<1> SUFFICES ASSUME PrintfInv, Call PROVE PrintfInv'
  OBVIOUS
<1>1. /\ part' = "text" /\ Len(calls) > 1 /\ calls' = Tail(calls) /\ pos' = 1 /\ arg' = 1
      /\ out' = <<>> /\ count' = -1 /\ flags' = {} /\ width' = -1 /\ precision' = -1
      /\ written' = written
  BY DEF Call, Move
<1>2. InCall'
  <2>1. calls \in Seq(Calls) /\ calls # <<>>
    BY ScanFacts DEF InCall
  <2>2. calls' \in Seq(Calls) /\ Len(calls') > 0
    BY <1>1, <2>1, HeadTailProperties, LenNat
  <2> QED
    BY <2>2, EmptySeq DEF InCall
<1>3. pos' \in 1 .. Len(Fmt') + 1 /\ Scanning' /\ Arguments'
  <2>1. (InCall /\ pos = 1 /\ arg = 1 /\ part = "text"
            => pos \in 1 .. Len(Fmt) + 1 /\ Scanning /\ Arguments)'
    BY CallStarts, PTL
  <2> QED
    BY <1>1, <1>2, <2>1
<1>4. PrintfTypes'
  BY <1>1, <1>2, <1>3, ScanFacts, StringFacts DEF PrintfTypes, Parts
<1> QED
  BY <1>3, <1>4 DEF PrintfInv

LEMMA PrintfStarts == PrintfInit => PrintfInv
<1> SUFFICES ASSUME PrintfInit PROVE PrintfInv
  OBVIOUS
<1>1. /\ part = "text" /\ pos = 1 /\ arg = 1 /\ flags = {} /\ width = -1 /\ precision = -1
      /\ out = <<>> /\ count = -1 /\ written = <<>>
  BY DEF PrintfInit
<1>2. InCall
  BY ScriptsAssumption DEF PrintfInit, InCall
<1>3. pos \in 1 .. Len(Fmt) + 1 /\ Scanning /\ Arguments
  BY <1>1, <1>2, CallStarts
<1> QED
  BY <1>1, <1>2, <1>3, StringFacts DEF PrintfInv, PrintfTypes, Parts

LEMMA PrintfKeeps == PrintfInv /\ [PrintfNext]_printfVars => PrintfInv'
<1> SUFFICES ASSUME PrintfInv, [PrintfNext]_printfVars PROVE PrintfInv'
  OBVIOUS
<1>1. CASE PrintfNext
  BY <1>1, TextKeeps, PercentKeeps, FlagKeeps, WidthKeeps, PrecisionKeeps, QualifierKeeps,
     ConversionKeeps, CountKeeps, OtherKeeps, ShowKeeps, CallKeeps DEF PrintfNext
<1>2. CASE UNCHANGED printfVars
  <2>1. /\ calls' = calls /\ part' = part /\ pos' = pos /\ arg' = arg /\ flags' = flags
        /\ width' = width /\ precision' = precision /\ out' = out /\ count' = count
        /\ written' = written
    BY <1>2 DEF printfVars, scan
  <2> QED
    BY <2>1, SameCall DEF PrintfInv, PrintfTypes, Scanning, Arguments, Here
<1> QED
  BY <1>1, <1>2

LEMMA PrintfInvariant == PrintfSpec => []PrintfInv
BY PrintfStarts, PrintfKeeps, PTL DEF PrintfSpec

(* The scan reads no character behind the format's end and takes no        *)
(* argument that was not passed: the one is behind a NUL that stops every  *)
(* part of it, the other is counted against the places where the format    *)
(* asks for an argument.                                                   *)
THEOREM ScanWithinFormat == PrintfSpec => []WithinFormat
<1>1. ASSUME PrintfInv PROVE WithinFormat
  <2>1. pos \in 1 .. Len(Fmt) + 1 /\ arg \in Nat \ {0} /\ InCall
    BY <1>1, ScanFacts
  <2>2. /\ Len(Head(calls).args) \in Nat /\ Len(Fmt) \in Nat
    BY <2>1, CallFacts
  <2>3. Taken(pos) \in Nat /\ Taken(pos) <= Len(Head(calls).args)
    BY <2>1, TakenIs
  <2>4. ASSUME Here = "*"
        PROVE  Taken(pos + 1) \in Nat /\ Taken(pos + 1) <= Len(Head(calls).args)
    <3>1. Here # "NUL"
      BY <2>4, CharAssumption
    <3>2. pos + 1 \in 1 .. Len(Fmt) + 1
      BY <1>1, <3>1, ScanFacts
    <3> QED
      BY <2>1, <3>2, TakenIs
  <2>5. arg - 1 <= Len(Head(calls).args)
    BY <1>1, <2>1, <2>2, <2>3, <2>4 DEF PrintfInv, Arguments
  <2>6. arg \in 1 .. Len(Head(calls).args) + 1
    BY <2>1, <2>2, <2>5
  <2> QED
    BY <2>1, <2>6 DEF WithinFormat
<1> QED
  BY <1>1, PrintfInvariant, PTL

-----------------------------------------------------------------------------
(* What was written, on an endless roll of rows of which the screen shows  *)
(* the last ones.                                                          *)

(* The screen's first cell is cell t of the roll, with the cursor at e: no *)
(* further down than the cursor's row needs.                               *)
IsTop(t, e) == /\ \E q \in Nat : t = Cols * q
               /\ 0 <= e - t /\ e - t < Area
               /\ t = 0 \/ e - t >= Area - Cols

(* The screen s shows a roll that may hold C[n] in its cell n, with the    *)
(* cursor at e.                                                            *)
Rolls(s, e, C, t) == /\ s \in ScreensOf(Char)
                     /\ IsTop(t, e) /\ Place(s) = e - t
                     /\ \A i \in 1 .. Area : s.cell[i] \in C[t + i - 1]

Held(s, e, C) == \E t \in Nat : Rolls(s, e, C, t)

(* Behind the cursor the roll is blank. *)
Fresh(e, C) == \A n \in Nat : n >= e => Blank \in C[n]

LEMMA TopIs ==
  ASSUME NEW t \in Nat, NEW e \in Nat, IsTop(t, e)
  PROVE  /\ t = Cols * Most(e \div Cols - (Rows - 1), 0)
         /\ \A y \in 0 .. Rows - 1, x \in 0 .. Cols - 1 :
              e - t = y * Cols + x => x = e % Cols /\ y = (e - t) \div Cols
<1>1. /\ Rows \in Nat \ {0} /\ Cols \in Nat \ {0} /\ Area = Cols * Rows
  BY ScreenSizes DEF Area
<1>2. PICK q \in Nat : t = Cols * q
  BY DEF IsTop
<1> DEFINE a == e \div Cols
           b == e % Cols
<1>3. a \in Nat /\ b \in 0 .. Cols - 1 /\ e = Cols * a + b
  BY <1>1, DivMod
<1> HIDE DEF a, b
<1>4. /\ 0 <= e - t /\ e - t < Cols * Rows
      /\ t = 0 \/ e - t >= Cols * Rows - Cols
  BY <1>1 DEF IsTop
<1>5. e - t = Cols * (a - q) + b /\ Cols * (a - q) \in Int
  BY <1>1, <1>2, <1>3
<1>6. a - q >= 0
  <2>1. SUFFICES ASSUME a - q <= -1 PROVE FALSE
    BY <1>2, <1>3
  <2>2. Cols * (a - q) <= Cols * (-1)
    BY <1>1, <1>2, <1>3, <2>1, TimesMonotone
  <2>3. Cols * (-1) = - Cols
    BY <1>1
  <2> QED
    BY <1>1, <1>3, <1>4, <1>5, <2>2, <2>3
<1>7. a - q <= Rows - 1
  <2>1. SUFFICES ASSUME Rows <= a - q PROVE FALSE
    BY <1>1, <1>2, <1>3
  <2>2. Cols * Rows <= Cols * (a - q)
    BY <1>1, <1>2, <1>3, <2>1, TimesMonotone
  <2> QED
    BY <1>1, <1>3, <1>4, <1>5, <2>2
<1>8. q = 0 \/ a - q >= Rows - 1
  <2>1. SUFFICES ASSUME t # 0, a - q <= Rows - 2 PROVE FALSE
    <3>1. t = 0 => q = 0
      <4>1. q >= 1 => Cols * 1 <= Cols * q
        BY <1>1, TimesMonotone
      <4> QED
        BY <1>1, <1>2, <4>1
    <3> QED
      BY <1>1, <1>2, <1>3, <2>1, <3>1
  <2>2. Cols * (a - q) <= Cols * (Rows - 2)
    BY <1>1, <1>2, <1>3, <2>1, TimesMonotone
  <2>3. Cols * (Rows - 2) = Cols * Rows - Cols - Cols /\ Cols * Rows \in Int
    BY <1>1
  <2> QED
    BY <1>1, <1>3, <1>4, <1>5, <2>1, <2>2, <2>3
<1>9. q = Most(a - (Rows - 1), 0)
  BY <1>1, <1>2, <1>3, <1>6, <1>7, <1>8 DEF Most
<1>10. ASSUME NEW y \in 0 .. Rows - 1, NEW x \in 0 .. Cols - 1, e - t = y * Cols + x
       PROVE  x = e % Cols /\ y = (e - t) \div Cols
  <2>1. e = Cols * (q + y) + x /\ e - t = Cols * y + x /\ q + y \in Int /\ y \in Int
    BY <1>1, <1>2, <1>10
  <2>2. \A c \in Int, r \in 0 .. Cols - 1 :
          (Cols * c + r) \div Cols = c /\ (Cols * c + r) % Cols = r
    BY <1>1, DivModUnique, Zenon
  <2> QED
    BY <2>1, <2>2
<1> QED
  BY <1>2, <1>9, <1>10 DEF a

(* The screen's columns are the roll's. *)
LEMMA ColumnIs ==
  ASSUME NEW C, NEW e \in Nat, NEW t \in Nat, NEW s, Rolls(s, e, C, t)
  PROVE  /\ s.x = e % Cols /\ s.y = (e - t) \div Cols
         /\ t = Cols * Most(e \div Cols - (Rows - 1), 0)
         /\ (e \div Cols + 1) * Cols = e - s.x + Cols
<1>1. s \in ScreensOf(Char) /\ IsTop(t, e) /\ Place(s) = e - t /\ e - t >= 0
  BY DEF Rolls, IsTop
<1>2. Blank \in Char
  BY CharsAre
<1>3. /\ s.y \in 0 .. CursRange - 1 /\ s.x \in 0 .. Cols - 1 /\ Place(s) = Row(s.y) + s.x
      /\ OnScreen(s) <=> Place(s) >= 0
      /\ OnScreen(s) <=> s.y < Rows
  BY <1>1, <1>2, ScreenOf
<1>4. s.y \in 0 .. Rows - 1 /\ e - t = s.y * Cols + s.x
  <2>1. s.y < Rows
    BY <1>1, <1>3
  <2> QED
    BY <1>1, <1>3, <2>1, ScreenSizes DEF Row
<1>5. /\ s.x = e % Cols /\ s.y = (e - t) \div Cols
      /\ t = Cols * Most(e \div Cols - (Rows - 1), 0)
  BY <1>1, <1>3, <1>4, TopIs
<1>6. (e \div Cols + 1) * Cols = e - s.x + Cols
  <2> DEFINE a == e \div Cols
             b == e % Cols
  <2>1. a \in Nat /\ b \in 0 .. Cols - 1 /\ e = Cols * a + b /\ s.x = b /\ Cols \in Nat
    BY <1>5, ScreenSizes, DivMod
  <2> HIDE DEF a, b
  <2>2. (a + 1) * Cols = e - s.x + Cols
    BY <2>1
  <2> QED
    BY <2>2 DEF a
<1> QED
  BY <1>5, <1>6

(* A character goes into the roll's cell at the cursor. *)
LEMMA PutHolds ==
  ASSUME NEW e \in Nat, NEW C, NEW D, NEW s, Held(s, e, C), NEW c \in Char,
         \A n \in Nat : n # e => C[n] \subseteq D[n], c \in D[e], Fresh(e + 1, D)
  PROVE  Held(PutcAttr(s, c), e + 1, D)
<1> DEFINE u == PutcAttr(s, c)
<1>1. PICK t \in Nat : Rolls(s, e, C, t)
  BY DEF Held
<1>2. s \in ScreensOf(Char) /\ Place(s) = e - t /\ Blank \in Char
  BY <1>1, CharsAre DEF Rolls
<1>3. /\ 0 <= e - t /\ e - t < Area /\ (t = 0 \/ e - t >= Area - Cols)
  BY <1>1 DEF Rolls, IsTop
<1>4. u \in ScreensOf(Char)
  BY <1>2, PutcAttrOf
<1>5. PICK d \in {0, Cols} :
              /\ Place(u) = Place(s) + 1 - d
              /\ d = Cols => Place(s) + 1 = Area
              /\ d = 0 => Place(s) + 1 < Area
              /\ \A i \in 1 .. Area :
                   u.cell[i] = IF i + d > Area THEN Blank
                               ELSE IF i + d = Place(s) + 1 THEN c
                               ELSE s.cell[i + d]
  BY <1>2, PutcAttrOf
<1> HIDE DEF u
<1>6. Cols \in Nat \ {0} /\ Area \in Nat /\ Area >= Cols /\ d \in Nat
  BY ScreenSizes
<1> DEFINE top == t + d
<1>7. top \in Nat /\ \E q \in Nat : top = Cols * q
  <2>1. PICK q \in Nat : t = Cols * q
    BY <1>1 DEF Rolls, IsTop
  <2>2. Cols * (q + 1) = t + Cols /\ q + 1 \in Nat
    BY <1>6, <2>1
  <2>3. CASE d = 0
    BY <2>1, <2>3
  <2>4. CASE d = Cols
    <3>1. top = Cols * (q + 1) /\ top \in Nat
      BY <1>6, <2>2, <2>4
    <3> HIDE DEF top
    <3> QED
      BY <2>2, <3>1, Zenon
  <2> QED
    BY <2>3, <2>4
<1>8. /\ Place(u) = (e + 1) - top
      /\ 0 <= (e + 1) - top /\ (e + 1) - top < Area
      /\ top = 0 \/ (e + 1) - top >= Area - Cols
  BY <1>2, <1>3, <1>5, <1>6
<1>9. ASSUME NEW i \in 1 .. Area PROVE u.cell[i] \in D[top + i - 1]
  <2>1. top + i - 1 \in Nat
    BY <1>6
  <2>2. CASE i + d > Area
    <3>1. top + i - 1 >= e + 1
      BY <1>2, <1>3, <1>5, <1>6, <2>2
    <3> QED
      BY <1>5, <2>1, <2>2, <3>1 DEF Fresh
  <2>3. CASE ~(i + d > Area) /\ i + d = Place(s) + 1
    <3>1. top + i - 1 = e
      BY <1>2, <1>6, <2>3
    <3> QED
      BY <1>5, <2>3, <3>1
  <2>4. CASE ~(i + d > Area) /\ i + d # Place(s) + 1
    <3>1. i + d \in 1 .. Area /\ t + (i + d) - 1 = top + i - 1 /\ top + i - 1 # e
      BY <1>2, <1>6, <2>4
    <3>2. s.cell[i + d] \in C[t + (i + d) - 1]
      BY <1>1, <3>1 DEF Rolls
    <3>3. C[top + i - 1] \subseteq D[top + i - 1]
      BY <2>1, <3>1
    <3> HIDE DEF top
    <3> QED
      BY <1>5, <2>4, <3>1, <3>2, <3>3
  <2> QED
    BY <2>2, <2>3, <2>4
<1>10. Rolls(u, e + 1, D, top)
  <2> HIDE DEF top
  <2> QED
    BY <1>4, <1>7, <1>8, <1>9 DEF Rolls, IsTop
<1> QED
  BY <1>7, <1>10 DEF Held, u

(* A line feed leaves the roll as it is. *)
LEMMA FeedHolds ==
  ASSUME NEW e \in Nat, NEW C, NEW s, Held(s, e, C), Fresh(e, C)
  PROVE  Held(LineFeed(s), (e \div Cols + 1) * Cols, C)
<1> DEFINE u == LineFeed(s)
           f == (e \div Cols + 1) * Cols
<1>1. PICK t \in Nat : Rolls(s, e, C, t)
  BY DEF Held
<1>2. s \in ScreensOf(Char) /\ Place(s) = e - t /\ Blank \in Char
  BY <1>1, CharsAre DEF Rolls
<1>3. /\ 0 <= e - t /\ e - t < Area /\ (t = 0 \/ e - t >= Area - Cols)
  BY <1>1 DEF Rolls, IsTop
<1>4. u \in ScreensOf(Char)
  BY <1>2, LineFeedOf
<1>5. PICK d \in {0, Cols} :
              /\ Place(u) = Place(s) - s.x + Cols - d
              /\ Lifted(s, u, d)
              /\ d = Cols => Place(u) = Area - Cols
              /\ d = 0 => Place(s) - s.x + Cols < Area
  BY <1>2, LineFeedOf
<1>6. f = e - s.x + Cols
  BY <1>1, ColumnIs
<1>7. s.x \in 0 .. Cols - 1
  BY <1>2, ScreenOf
<1> HIDE DEF u, f
<1>8. Cols \in Nat \ {0} /\ Area \in Nat /\ Area >= Cols /\ d \in Nat
  BY ScreenSizes
<1> DEFINE top == t + d
<1>9. top \in Nat /\ \E q \in Nat : top = Cols * q
  <2>1. PICK q \in Nat : t = Cols * q
    BY <1>1 DEF Rolls, IsTop
  <2>2. Cols * (q + 1) = t + Cols /\ q + 1 \in Nat
    BY <1>8, <2>1
  <2>3. CASE d = 0
    BY <2>1, <2>3
  <2>4. CASE d = Cols
    <3>1. top = Cols * (q + 1) /\ top \in Nat
      BY <1>8, <2>2, <2>4
    <3> HIDE DEF top
    <3> QED
      BY <2>2, <3>1, Zenon
  <2> QED
    BY <2>3, <2>4
<1>10. /\ Place(u) = f - top
       /\ 0 <= f - top /\ f - top < Area
       /\ top = 0 \/ f - top >= Area - Cols
  BY <1>2, <1>3, <1>5, <1>6, <1>7, <1>8
<1>11. ASSUME NEW i \in 1 .. Area PROVE u.cell[i] \in C[top + i - 1]
  <2>1. top + i - 1 \in Nat
    BY <1>8
  <2>2. u.cell[i] = IF i + d > Area THEN Blank ELSE s.cell[i + d]
    BY <1>5 DEF Lifted
  <2>3. CASE i + d > Area
    <3>1. top + i - 1 >= e
      BY <1>2, <1>3, <1>8, <2>3
    <3> QED
      BY <2>1, <2>2, <2>3, <3>1 DEF Fresh
  <2>4. CASE ~(i + d > Area)
    <3>1. i + d \in 1 .. Area /\ t + (i + d) - 1 = top + i - 1
      BY <1>8, <2>4
    <3>2. s.cell[i + d] \in C[t + (i + d) - 1]
      BY <1>1, <3>1 DEF Rolls
    <3> HIDE DEF top
    <3> QED
      BY <2>2, <2>4, <3>1, <3>2
  <2> QED
    BY <2>3, <2>4
<1>12. Rolls(u, f, C, top)
  <2> HIDE DEF top
  <2> QED
    BY <1>4, <1>9, <1>10, <1>11 DEF Rolls, IsTop
<1> QED
  BY <1>9, <1>12 DEF Held, u, f

(* A tab writes blanks over a part of the roll that is blank. *)
LEMMA TabHolds ==
  ASSUME NEW e \in Nat, NEW C, NEW s, Held(s, e, C), Fresh(e, C)
  PROVE  Held(PutAll(s, Blanks(TabWidth)), e + TabWidth, C)
<1> DEFINE b == Blanks(TabWidth)
           S == ScreensOf(Char)
<1>1. TabWidth \in Nat /\ Blank \in Char
  BY ScreenSizes, CharsAre
<1>2. Len(b) = TabWidth /\ \A i \in 1 .. TabWidth : b[i] = Blank
  BY <1>1 DEF Blanks
<1>3. s \in S /\ b \in Seq(Char)
  <2>1. b \in Seq(Char)
    BY <1>1 DEF Blanks
  <2>2. s \in S
    BY DEF Held, Rolls
  <2> QED
    BY <2>1, <2>2
<1>4. PutcAttrStays(S, Char)
  BY <1>1, PutcAttrOf DEF PutcAttrStays
<1> HIDE DEF b, S
<1>5. PICK f \in [0 .. Len(b) -> S] :
        /\ f[0] = s /\ f[Len(b)] = PutAll(s, b)
        /\ \A k \in 0 .. Len(b) - 1 : f[k + 1] = PutcAttr(f[k], b[k + 1])
  BY <1>3, <1>4, PutcAttrsOf
<1> DEFINE T == {k \in Nat : k <= TabWidth => Held(f[k], e + k, C)}
<1>6. 0 \in T
  BY <1>5, e + 0 = e
<1>7. ASSUME NEW k \in Nat, k \in T PROVE k + 1 \in T
  <2>1. SUFFICES ASSUME k + 1 <= TabWidth PROVE Held(f[k + 1], e + (k + 1), C)
    OBVIOUS
  <2>2. k \in 0 .. Len(b) - 1 /\ k + 1 \in 1 .. TabWidth /\ k <= TabWidth
    BY <1>1, <1>2, <2>1
  <2>3. Held(f[k], e + k, C) /\ f[k + 1] = PutcAttr(f[k], Blank)
    BY <1>2, <1>5, <1>7, <2>2
  <2>4. /\ e + k \in Nat /\ (e + k) + 1 = e + (k + 1) /\ e + k >= e
        /\ \A n \in Nat : n >= (e + k) + 1 => n >= e
    OBVIOUS
  <2>5. Fresh((e + k) + 1, C) /\ Blank \in C[e + k]
    BY <2>4 DEF Fresh
  <2>6. Held(PutcAttr(f[k], Blank), (e + k) + 1, C)
    BY <1>1, <2>3, <2>4, <2>5, PutHolds
  <2> QED
    BY <2>3, <2>4, <2>6
<1>8. Nat \subseteq T
  <2> HIDE DEF T
  <2> QED
    BY <1>6, <1>7, NumberInduction
<1>9. Held(f[TabWidth], e + TabWidth, C)
  BY <1>1, <1>8
<1> QED
  BY <1>2, <1>5, <1>9 DEF b

-----------------------------------------------------------------------------
(* Where the characters of a string go on the roll.                        *)

Route(at, w) == /\ at \in [1 .. Len(w) + 1 -> Nat]
                /\ at[1] = 0
                /\ \A k \in 1 .. Len(w) : at[k + 1] = Behind(at[k], w[k])

(* The first k characters that are put in cell n, and what they leave on   *)
(* the roll.                                                               *)
In(w, at, k, n)   == {m \in 1 .. k : w[m] \notin {"\n", "\t"} /\ at[m] = n}
Left(w, ms)       == IF ms = {} THEN {Blank} ELSE {w[m] : m \in ms}
Content(w, at, k) == [n \in Nat |-> Left(w, In(w, at, k, n))]

LEMMA BehindIs ==
  ASSUME NEW n \in Nat, NEW c
  PROVE  Behind(n, c) \in Nat /\ Behind(n, c) > n
<1>1. TabWidth \in Nat \ {0} /\ Cols \in Nat \ {0}
  BY ScreenSizes
<1>2. (n \div Cols + 1) * Cols \in Nat /\ (n \div Cols + 1) * Cols > n
  <2> DEFINE a == n \div Cols
             b == n % Cols
  <2>1. a \in Nat /\ b \in 0 .. Cols - 1 /\ n = Cols * a + b
    BY <1>1, DivMod
  <2> HIDE DEF a, b
  <2>2. (a + 1) * Cols = n - b + Cols
    BY <1>1, <2>1
  <2>3. (a + 1) * Cols \in Nat /\ (a + 1) * Cols > n
    BY <1>1, <2>1, <2>2
  <2> QED
    BY <2>3 DEF a
<1>3. n + TabWidth \in Nat /\ n + TabWidth > n /\ n + 1 \in Nat /\ n + 1 > n
  BY <1>1
<1> QED
  BY <1>2, <1>3, Zenon DEF Behind

LEMMA SpotIs ==
  ASSUME written \in Seq(Char)
  PROVE  Route(Spot, written)
<1> DEFINE n == Len(written)
           I == 1 .. n + 1
           G == [k \in Nat |-> [v \in Nat |-> Behind(v, written[k + 1])]]
           Is(p) == p = [k \in I |-> IF k = 1 THEN 0 ELSE Behind(p[k - 1], written[k - 1])]
           spot == CHOOSE p : Is(p)
<1>1. n \in Nat
  BY LenNat
<1>2. G \in [Nat -> [Nat -> Nat]] /\ 0 \in Nat
  BY BehindIs
<1>3. PICK f \in [Nat -> Nat] : StepsBy(f, 0, G)
  <2> HIDE DEF G
  <2> QED
    BY <1>2, Recursion
<1>4. f[0] = 0 /\ \A k \in Nat : f[k + 1] = Behind(f[k], written[k + 1])
  BY <1>3 DEF StepsBy
<1> DEFINE p == [k \in I |-> f[k - 1]]
<1>5. ASSUME NEW k \in I
      PROVE  p[k] = IF k = 1 THEN 0 ELSE Behind(p[k - 1], written[k - 1])
  <2>1. CASE k = 1
    BY <1>4, <2>1
  <2>2. CASE k # 1
    <3>1. k - 1 \in I /\ k - 2 \in Nat /\ (k - 2) + 1 = k - 1 /\ (k - 1) - 1 = k - 2
      BY <1>1, <2>2
    <3>2. p[k] = f[(k - 2) + 1] /\ p[k - 1] = f[k - 2]
      BY <3>1
    <3>3. f[(k - 2) + 1] = Behind(f[k - 2], written[(k - 2) + 1])
      BY <1>4, <3>1
    <3> HIDE DEF p
    <3> QED
      BY <2>2, <3>1, <3>2, <3>3
  <2> QED
    BY <2>1, <2>2
<1>6. Is(p)
  <2> DEFINE val(k) == IF k = 1 THEN 0 ELSE Behind(p[k - 1], written[k - 1])
  <2>1. \A k \in I : p[k] = val(k)
    BY <1>5
  <2>2. p = [k \in I |-> p[k]]
    OBVIOUS
  <2> HIDE DEF p, val
  <2>3. p = [k \in I |-> val(k)]
    BY <2>1, <2>2
  <2> QED
    BY <2>3 DEF val
<1>7. Is(spot)
  BY <1>6
<1>8. Spot = spot
  BY DEF Spot
<1> HIDE DEF spot
<1>9. DOMAIN spot = I
      /\ \A k \in I : spot[k] = IF k = 1 THEN 0 ELSE Behind(spot[k - 1], written[k - 1])
  BY <1>7
<1> DEFINE T == {k \in Nat : k <= n => spot[k + 1] \in Nat}
<1>10. spot[1] = 0
  BY <1>1, <1>9
<1>11. ASSUME NEW k \in 1 .. n PROVE spot[k + 1] = Behind(spot[k], written[k])
  <2>1. k + 1 \in I /\ k + 1 # 1 /\ (k + 1) - 1 = k
    BY <1>1
  <2> QED
    BY <1>9, <2>1
<1>12. 0 \in T
  BY <1>10
<1>13. ASSUME NEW k \in Nat, k \in T PROVE k + 1 \in T
  <2>1. SUFFICES ASSUME k + 1 <= n PROVE spot[(k + 1) + 1] \in Nat
    OBVIOUS
  <2>2. k + 1 \in 1 .. n /\ spot[k + 1] \in Nat
    BY <1>1, <1>13, <2>1
  <2> QED
    BY <1>11, <2>2, BehindIs
<1>14. Nat \subseteq T
  <2> HIDE DEF T
  <2> QED
    BY <1>12, <1>13, NumberInduction
<1>15. ASSUME NEW k \in I PROVE spot[k] \in Nat
  <2>1. k - 1 \in Nat /\ k - 1 <= n /\ (k - 1) + 1 = k
    BY <1>1
  <2>2. spot[(k - 1) + 1] \in Nat
    BY <1>14, <2>1
  <2> QED
    BY <2>1, <2>2
<1>16. spot \in [I -> Nat]
  <2>1. spot = [k \in I |-> spot[k]]
    BY <1>7
  <2> QED
    BY <1>15, <2>1
<1> QED
  BY <1>8, <1>10, <1>11, <1>16 DEF Route

(* The way is the same for a string and what begins with it. *)
LEMMA RouteGoesOn ==
  ASSUME NEW w \in Seq(Char), NEW o \in Seq(Char), NEW a, NEW b, Route(a, w), Route(b, w \o o)
  PROVE  /\ \A k \in 1 .. Len(w) + 1 : a[k] = b[k]
         /\ Content(w, a, Len(w)) = Content(w \o o, b, Len(w))
<1> DEFINE v == w \o o
<1>1. /\ Len(w) \in Nat /\ Len(v) \in Nat /\ Len(v) >= Len(w)
      /\ \A k \in 1 .. Len(w) : v[k] = w[k]
  <2>1. /\ Len(w) \in Nat /\ Len(o) \in Nat /\ Len(v) = Len(w) + Len(o)
        /\ \A k \in 1 .. Len(w) : v[k] = w[k]
    BY JoinedIs
  <2> HIDE DEF v
  <2> QED
    BY <2>1
<1> HIDE DEF v
<1> DEFINE T == {k \in Nat : k <= Len(w) => a[k + 1] = b[k + 1]}
<1>2. 0 \in T
  BY DEF Route, v
<1>3. ASSUME NEW k \in Nat, k \in T PROVE k + 1 \in T
  <2>1. SUFFICES ASSUME k + 1 <= Len(w) PROVE a[(k + 1) + 1] = b[(k + 1) + 1]
    OBVIOUS
  <2>2. k + 1 \in 1 .. Len(w) /\ k + 1 \in 1 .. Len(v) /\ a[k + 1] = b[k + 1]
    BY <1>1, <1>3, <2>1
  <2>3. a[(k + 1) + 1] = Behind(a[k + 1], w[k + 1])
    BY <2>2 DEF Route
  <2>4. b[(k + 1) + 1] = Behind(b[k + 1], v[k + 1])
    BY <2>2 DEF Route, v
  <2> QED
    BY <1>1, <2>2, <2>3, <2>4
<1>4. Nat \subseteq T
  <2> HIDE DEF T
  <2> QED
    BY <1>2, <1>3, NumberInduction
<1>5. ASSUME NEW k \in 1 .. Len(w) + 1 PROVE a[k] = b[k]
  <2>1. k - 1 \in Nat /\ k - 1 <= Len(w) /\ (k - 1) + 1 = k
    BY <1>1
  <2>2. a[(k - 1) + 1] = b[(k - 1) + 1]
    BY <1>4, <2>1
  <2> QED
    BY <2>1, <2>2
<1>6. \A m \in 1 .. Len(w) : m \in 1 .. Len(w) + 1
  BY <1>1
<1>7. ASSUME NEW n PROVE In(w, a, Len(w), n) = In(v, b, Len(w), n)
  BY <1>1, <1>5, <1>6, Zenon DEF In
<1>8. ASSUME NEW n
      PROVE  Left(w, In(w, a, Len(w), n)) = Left(v, In(v, b, Len(w), n))
  <2>1. \A m \in In(v, b, Len(w), n) : v[m] = w[m]
    BY <1>1 DEF In
  <2> QED
    BY <1>7, <2>1 DEF Left
<1>9. Content(w, a, Len(w)) = Content(v, b, Len(w))
  BY <1>8 DEF Content
<1> QED
  BY <1>5, <1>9 DEF v

LEMMA RouteGrows ==
  ASSUME NEW w \in Seq(Char), NEW at, Route(at, w), NEW k \in 0 .. Len(w)
  PROVE  /\ at[k + 1] \in Nat
         /\ \A m \in 1 .. k : at[m] \in Nat /\ at[m] < at[k + 1]
<1>1. Len(w) \in Nat
  BY LenNat
<1>2. \A j \in 1 .. Len(w) + 1 : at[j] \in Nat
  BY DEF Route
<1>3. \A j \in 1 .. Len(w) : at[j + 1] > at[j]
  <2> TAKE j \in 1 .. Len(w)
  <2>1. j \in 1 .. Len(w) + 1
    BY <1>1
  <2>2. at[j] \in Nat /\ at[j + 1] = Behind(at[j], w[j])
    BY <1>2, <2>1 DEF Route
  <2> QED
    BY <2>2, BehindIs
<1> DEFINE T == {j \in Nat : j <= Len(w) => \A m \in 1 .. j : at[m] < at[j + 1]}
<1>4. 0 \in T
  OBVIOUS
<1>5. ASSUME NEW j \in Nat, j \in T PROVE j + 1 \in T
  <2>1. SUFFICES ASSUME j + 1 <= Len(w), NEW m \in 1 .. j + 1 PROVE at[m] < at[(j + 1) + 1]
    OBVIOUS
  <2>2. /\ at[j + 1] < at[(j + 1) + 1] /\ at[j + 1] \in Nat /\ at[(j + 1) + 1] \in Nat
        /\ at[m] \in Nat
    <3>1. /\ j + 1 \in 1 .. Len(w) /\ j + 1 \in 1 .. Len(w) + 1
          /\ (j + 1) + 1 \in 1 .. Len(w) + 1 /\ m \in 1 .. Len(w) + 1
      BY <1>1, <2>1
    <3> QED
      BY <1>2, <1>3, <3>1
  <2>3. m = j + 1 \/ m \in 1 .. j
    OBVIOUS
  <2>4. m \in 1 .. j => at[m] < at[j + 1]
    BY <1>1, <1>5, <2>1
  <2> QED
    BY <2>2, <2>3, <2>4
<1>6. Nat \subseteq T
  <2> HIDE DEF T
  <2> QED
    BY <1>4, <1>5, NumberInduction
<1>7. k \in Nat /\ k <= Len(w) /\ k + 1 \in 1 .. Len(w) + 1
      /\ \A m \in 1 .. k : m \in 1 .. Len(w) + 1
  BY <1>1
<1>8. \A m \in 1 .. k : at[m] < at[k + 1]
  BY <1>6, <1>7
<1> QED
  BY <1>2, <1>7, <1>8

LEMMA ContentFresh ==
  ASSUME NEW w \in Seq(Char), NEW at, Route(at, w), NEW k \in 0 .. Len(w)
  PROVE  Fresh(at[k + 1], Content(w, at, k))
<1>1. ASSUME NEW n \in Nat, n >= at[k + 1] PROVE Blank \in Content(w, at, k)[n]
  <2>1. at[k + 1] \in Nat /\ \A m \in 1 .. k : at[m] \in Nat /\ at[m] < at[k + 1]
    BY RouteGrows
  <2>2. \A m \in 1 .. k : at[m] # n
    BY <1>1, <2>1
  <2>3. In(w, at, k, n) = {}
    BY <2>2 DEF In
  <2> QED
    BY <1>1, <2>3 DEF Content, Left
<1> QED
  BY <1>1 DEF Fresh

(* One character more on the roll and on the screen. *)
LEMMA PutcHolds ==
  ASSUME NEW w \in Seq(Char), NEW at, Route(at, w), NEW k \in 0 .. Len(w) - 1,
         NEW s, Held(s, at[k + 1], Content(w, at, k))
  PROVE  Held(Putc(s, w[k + 1]), at[(k + 1) + 1], Content(w, at, k + 1))
<1> DEFINE e == at[k + 1]
           c == w[k + 1]
           C == Content(w, at, k)
           D == Content(w, at, k + 1)
<1>1. /\ Len(w) \in Nat /\ k \in 0 .. Len(w) /\ k + 1 \in 0 .. Len(w) /\ k + 1 \in 1 .. Len(w)
      /\ k + 1 \in 1 .. k + 1 /\ k \in Nat
  BY LenNat
<1>2. e \in Nat /\ at[(k + 1) + 1] = Behind(e, c) /\ c \in Char
  BY <1>1, RouteGrows, ElementOfSeq DEF Route
<1>3. Fresh(e, C) /\ Fresh(Behind(e, c), D)
  BY <1>1, <1>2, ContentFresh
<1>4. \A m \in 1 .. k + 1 : m \in 1 .. k \/ m = k + 1
  OBVIOUS
<1>5. \A m \in 1 .. k : m \in 1 .. k + 1
  OBVIOUS
<1>6. ASSUME c \in {"\n", "\t"} PROVE D = C
  <2>1. \A n : In(w, at, k + 1, n) = In(w, at, k, n)
    BY <1>4, <1>5, <1>6 DEF In
  <2> QED
    BY <2>1 DEF Content
<1>7. ASSUME NEW n \in Nat, n # e PROVE D[n] = C[n]
  <2>1. In(w, at, k + 1, n) = In(w, at, k, n)
    BY <1>4, <1>5, <1>7 DEF In
  <2> QED
    BY <2>1 DEF Content
<1>8. ASSUME c \notin {"\n", "\t"} PROVE c \in D[e]
  <2>1. k + 1 \in In(w, at, k + 1, e)
    BY <1>1, <1>8 DEF In
  <2> QED
    BY <1>2, <2>1 DEF Content, Left
<1>9. Held(s, e, C)
  OBVIOUS
<1> HIDE DEF e, C, D, c
<1>10. CASE c = "\n"
  <2>1. Putc(s, c) = LineFeed(s) /\ Behind(e, c) = (e \div Cols + 1) * Cols
    BY <1>10 DEF Putc, Behind
  <2>2. Held(LineFeed(s), (e \div Cols + 1) * Cols, C)
    BY <1>2, <1>3, <1>9, FeedHolds
  <2> QED
    BY <1>2, <1>6, <1>10, <2>1, <2>2 DEF c, D
<1>11. CASE c = "\t"
  <2>1. /\ Putc(s, c) = PutAll(s, Blanks(TabWidth))
        /\ Behind(e, c) = e + TabWidth
    BY <1>11, "\t" # "\n", Zenon DEF Putc, Behind, PutAll
  <2>2. Held(PutAll(s, Blanks(TabWidth)), e + TabWidth, C)
    BY <1>2, <1>3, <1>9, TabHolds
  <2> QED
    BY <1>2, <1>6, <1>11, <2>1, <2>2 DEF c, D
<1>12. CASE c \notin {"\n", "\t"}
  <2>1. Putc(s, c) = PutcAttr(s, c) /\ Behind(e, c) = e + 1
    BY <1>12, Zenon DEF Putc, Behind
  <2>2. Held(PutcAttr(s, c), e + 1, D)
    BY <1>2, <1>3, <1>7, <1>8, <1>9, <1>12, <2>1, PutHolds
  <2> QED
    BY <1>2, <2>1, <2>2 DEF c, D
<1> QED
  BY <1>10, <1>11, <1>12

LEMMA PutsHolds ==
  ASSUME NEW w \in Seq(Char), NEW o \in Seq(Char), NEW at, Route(at, w \o o),
         NEW s, Held(s, at[Len(w) + 1], Content(w \o o, at, Len(w)))
  PROVE  Held(Puts(s, o), at[Len(w \o o) + 1], Content(w \o o, at, Len(w \o o)))
<1> DEFINE v == w \o o
           n == Len(w)
           S == ScreensOf(Char)
<1>1. /\ v \in Seq(Char) /\ n \in Nat /\ Len(o) \in Nat /\ Len(v) = n + Len(o)
      /\ \A k \in 1 .. Len(o) : v[n + k] = o[k]
  BY JoinedIs
<1> HIDE DEF v, n
<1>2. s \in S
  BY DEF Held, Rolls
<1>3. PutcStays(S, Char)
  <2> SUFFICES ASSUME NEW t \in S, NEW c \in Char PROVE Putc(t, c) \in S
    BY DEF PutcStays
  <2>1. Blank \in Char
    BY CharsAre
  <2>2. LineFeed(t) \in S /\ PutcAttr(t, c) \in S
    BY <2>1, LineFeedOf, PutcAttrOf
  <2>3. PutAll(t, Blanks(TabWidth)) \in S
    <3> DEFINE b == Blanks(TabWidth)
    <3>1. b \in Seq(Char)
      BY <2>1, ScreenSizes DEF Blanks
    <3>2. PutcAttrStays(S, Char)
      BY <2>1, PutcAttrOf DEF PutcAttrStays
    <3> HIDE DEF b, S
    <3>3. PICK f \in [0 .. Len(b) -> S] : f[Len(b)] = PutAll(t, b)
      BY <3>1, <3>2, PutcAttrsOf
    <3>4. Len(b) \in 0 .. Len(b)
      BY <3>1, LenNat
    <3> QED
      BY <3>3, <3>4 DEF b
  <2> HIDE DEF S
  <2> QED
    BY <2>2, <2>3 DEF Putc, PutAll
<1> HIDE DEF S
<1>4. PICK f \in [0 .. Len(o) -> S] :
        /\ f[0] = s /\ f[Len(o)] = Puts(s, o)
        /\ \A k \in 0 .. Len(o) - 1 : f[k + 1] = Putc(f[k], o[k + 1])
  BY <1>1, <1>2, <1>3, PutsOf
<1> DEFINE T == {k \in Nat : k <= Len(o) => Held(f[k], at[(n + k) + 1], Content(v, at, n + k))}
<1>5. 0 \in T
  BY <1>1, <1>4, n + 0 = n DEF v, n
<1>6. ASSUME NEW k \in Nat, k \in T PROVE k + 1 \in T
  <2>1. SUFFICES ASSUME k + 1 <= Len(o)
                 PROVE  Held(f[k + 1], at[(n + (k + 1)) + 1], Content(v, at, n + (k + 1)))
    OBVIOUS
  <2>2. /\ k \in 0 .. Len(o) - 1 /\ k + 1 \in 1 .. Len(o) /\ k <= Len(o)
        /\ n + k \in 0 .. Len(v) - 1 /\ n + (k + 1) = (n + k) + 1
    BY <1>1, <2>1
  <2>3. Held(f[k], at[(n + k) + 1], Content(v, at, n + k)) /\ f[k + 1] = Putc(f[k], v[(n + k) + 1])
    BY <1>1, <1>4, <1>6, <2>2
  <2>4. Held(Putc(f[k], v[(n + k) + 1]), at[((n + k) + 1) + 1], Content(v, at, (n + k) + 1))
    BY <1>1, <2>2, <2>3, PutcHolds DEF v
  <2> QED
    BY <2>2, <2>3, <2>4
<1>7. Nat \subseteq T
  <2> HIDE DEF T
  <2> QED
    BY <1>5, <1>6, NumberInduction
<1>8. Held(f[Len(o)], at[Len(v) + 1], Content(v, at, Len(v)))
  <2>1. Len(o) \in T
    <3> HIDE DEF T
    <3> QED
      BY <1>1, <1>7
  <2>2. Held(f[Len(o)], at[(n + Len(o)) + 1], Content(v, at, n + Len(o)))
    BY <1>1, <2>1
  <2> QED
    BY <1>1, <2>2
<1> QED
  BY <1>4, <1>8 DEF v

-----------------------------------------------------------------------------
(* The screen shows what was written.                                      *)

Showing == Held(screen, Spot[Len(written) + 1], Content(written, Spot, Len(written)))

LEMMA ShowingStarts == PrintfInit => Showing
<1> SUFFICES ASSUME PrintfInit PROVE Showing
  OBVIOUS
<1>1. screen = ClearScreen /\ written = <<>> /\ written \in Seq(Char) /\ Len(written) = 0
  BY StringFacts DEF PrintfInit
<1>2. Spot[1] = 0
  BY <1>1, SpotIs DEF Route
<1>3. /\ screen \in ScreensOf(Char) /\ Place(screen) = 0
      /\ \A i \in 1 .. Area : screen.cell[i] = Blank
  BY <1>1, CharsAre, ClearScreenOf
<1>4. \A n \in Nat : Content(written, Spot, 0)[n] = {Blank}
  <2>1. \A n : In(written, Spot, 0, n) = {}
    BY DEF In
  <2> QED
    BY <2>1 DEF Content, Left
<1>5. Area \in Nat /\ Area >= Cols /\ Cols \in Nat \ {0}
  BY ScreenSizes
<1>6. IsTop(0, 0)
  <2>1. 0 = Cols * 0
    BY <1>5
  <2> QED
    BY <1>5, <2>1 DEF IsTop
<1>7. \A i \in 1 .. Area : screen.cell[i] \in Content(written, Spot, 0)[0 + i - 1]
  <2>1. \A i \in 1 .. Area : 0 + i - 1 \in Nat
    BY <1>5
  <2> QED
    BY <1>3, <1>4, <2>1
<1>8. Rolls(screen, 0, Content(written, Spot, 0), 0)
  BY <1>3, <1>6, <1>7, 0 - 0 = 0 DEF Rolls
<1>9. Held(screen, 0, Content(written, Spot, 0))
  BY <1>8 DEF Held
<1> QED
  BY <1>1, <1>2, <1>9 DEF Showing

LEMMA SpotNext == written' \in Seq(Char) => Route(Spot', written')
<1>1. (written \in Seq(Char) => Route(Spot, written))'
  BY SpotIs, PTL
<1> QED
  BY <1>1 DEF Route

LEMMA ShowingKeeps == PrintfInv /\ Showing /\ [PrintfNext]_printfVars => Showing'
<1> SUFFICES ASSUME PrintfInv, Showing, [PrintfNext]_printfVars PROVE Showing'
  OBVIOUS
<1>1. CASE Show
  <2>1. screen' = Puts(screen, out) /\ written' = written \o out
    BY <1>1 DEF Show
  <2>2. written \in Seq(Char) /\ out \in Seq(Char) /\ written \o out \in Seq(Char)
    BY ScanFacts, JoinedIs DEF PrintfTypes
  <2>3. Route(Spot, written) /\ Route(Spot', written \o out)
    BY <2>1, <2>2, SpotIs, SpotNext
  <2>4. /\ Spot[Len(written) + 1] = Spot'[Len(written) + 1]
        /\ Content(written, Spot, Len(written)) = Content(written \o out, Spot', Len(written))
    <3>1. Len(written) + 1 \in 1 .. Len(written) + 1
      BY <2>2, LenNat
    <3> QED
      BY <2>2, <2>3, <3>1, RouteGoesOn
  <2>5. Held(Puts(screen, out), Spot'[Len(written \o out) + 1],
             Content(written \o out, Spot', Len(written \o out)))
    BY <2>2, <2>3, <2>4, PutsHolds DEF Showing
  <2> QED
    BY <2>1, <2>5 DEF Showing
<1>2. CASE ~ Show
  <2>1. screen' = screen /\ written' = written
    BY <1>2 DEF PrintfNext, Text, Percent, Flag, Width, Precision, Qualifier, ConvChar,
       ConvString, ConvNumber, ConvCount, ConvOther, Emit, Call, printfVars
  <2> QED
    BY <2>1 DEF Showing, Spot
<1> QED
  BY <1>1, <1>2

(* Between two calls the screen shows the last rows of everything that     *)
(* kprintf was asked to write, wherever lines wrapped and the screen       *)
(* scrolled.                                                               *)
THEOREM ScreenShowsOutput == PrintfSpec => []OutputShown
<1>1. ASSUME PrintfInv, Showing PROVE OutputShown
  <2> DEFINE w == written
             at == Spot
             n == Len(written)
             end == at[n + 1]
             top == Cols * Most(end \div Cols - (Rows - 1), 0)
             C == Content(w, at, n)
  <2>1. w \in Seq(Char) /\ n \in Nat /\ DOMAIN w = 1 .. n
    BY <1>1, ScanFacts DEF PrintfTypes
  <2>2. end \in Nat
    <3>1. Route(at, w) /\ n + 1 \in 1 .. n + 1
      BY <2>1, SpotIs
    <3> QED
      BY <3>1 DEF Route
  <2>3. PICK t \in Nat : Rolls(screen, end, C, t)
    BY <1>1 DEF Showing, Held
  <2> HIDE DEF w, at, n, end, C
  <2>4. /\ screen.x = end % Cols /\ screen.y = (end - t) \div Cols /\ t = top
    BY <2>2, <2>3, ColumnIs
  <2> HIDE DEF top
  <2>5. ASSUME NEW i \in 1 .. Rows * Cols
        PROVE  LET here == {k \in DOMAIN w : /\ w[k] \notin {"\n", "\t"}
                                             /\ at[k] = top + i - 1}
               IN  screen.cell[i] \in IF here = {} THEN {Blank} ELSE {w[k] : k \in here}
    <3>1. screen.cell[i] \in C[top + i - 1]
      BY <2>3, <2>4 DEF Rolls, Area
    <3>2. top + i - 1 \in Nat
      BY <2>4, ScreenSizes DEF Area
    <3>3. C[top + i - 1] = IF In(w, at, n, top + i - 1) = {} THEN {Blank}
                           ELSE {w[m] : m \in In(w, at, n, top + i - 1)}
      BY <3>2 DEF Content, Left, C
    <3>4. In(w, at, n, top + i - 1) = {k \in DOMAIN w : /\ w[k] \notin {"\n", "\t"}
                                                      /\ at[k] = top + i - 1}
      BY <2>1 DEF In
    <3> QED
      BY <3>1, <3>3, <3>4, Zenon
  <2> QED
    BY <2>4, <2>5, Zenon DEF OutputShown, w, at, n, end, top
<1> QED
  BY <1>1, ShowingStarts, ShowingKeeps, PrintfInvariant, PrintfStarts, PTL DEF PrintfSpec

-----------------------------------------------------------------------------
(* Numerals.                                                               *)

LEMMA PowerIs ==
  ASSUME NEW b \in Nat \ {0}
  PROVE  /\ Power(b)[0] = 1
         /\ \A k \in Nat : /\ Power(b)[k] \in Nat \ {0}
                           /\ Power(b)[k + 1] = b * Power(b)[k]
<1> DEFINE G == [k \in Nat |-> [x \in Nat |-> b * x]]
           C(p) == p = [k \in Nat |-> IF k = 0 THEN 1 ELSE b * p[k - 1]]
           pow == CHOOSE p : C(p)
<1>1. G \in [Nat -> [Nat -> Nat]] /\ 1 \in Nat
  OBVIOUS
<1>2. PICK f \in [Nat -> Nat] : StepsBy(f, 1, G)
  <2> HIDE DEF G
  <2> QED
    BY <1>1, Recursion
<1>3. f[0] = 1 /\ \A k \in Nat : f[k + 1] = b * f[k]
  BY <1>2 DEF StepsBy
<1>4. C(f)
  <2>1. ASSUME NEW k \in Nat PROVE f[k] = IF k = 0 THEN 1 ELSE b * f[k - 1]
    <3>1. CASE k = 0
      BY <1>3, <3>1
    <3>2. CASE k # 0
      <4>1. k - 1 \in Nat /\ (k - 1) + 1 = k
        BY <3>2
      <4>2. f[(k - 1) + 1] = b * f[k - 1]
        BY <1>3, <4>1
      <4> QED
        BY <3>2, <4>1, <4>2
    <3> QED
      BY <3>1, <3>2
  <2> QED
    BY <2>1
<1>5. C(pow)
  BY <1>4
<1>6. Power(b) = pow
  BY DEF Power
<1> HIDE DEF pow
<1>7. \A k \in Nat : pow[k] = IF k = 0 THEN 1 ELSE b * pow[k - 1]
  BY <1>5
<1>8. ASSUME NEW k \in Nat PROVE pow[k + 1] = b * pow[k]
  <2>1. k + 1 \in Nat /\ k + 1 # 0 /\ (k + 1) - 1 = k
    OBVIOUS
  <2> QED
    BY <1>7, <2>1
<1> DEFINE T == {k \in Nat : pow[k] \in Nat \ {0}}
<1>9. 0 \in T
  BY <1>7
<1>10. ASSUME NEW k \in Nat, k \in T PROVE k + 1 \in T
  <2>1. pow[k] \in Nat \ {0} /\ pow[k + 1] = b * pow[k]
    BY <1>8, <1>10
  <2>2. b * pow[k] \in Nat \ {0}
    <3>1. pow[k] * 1 <= pow[k] * b /\ pow[k] * b \in Int
      BY <2>1, TimesMonotone
    <3> QED
      BY <2>1, <3>1
  <2> QED
    BY <2>1, <2>2
<1>11. Nat \subseteq T
  <2> HIDE DEF T
  <2> QED
    BY <1>9, <1>10, NumberInduction
<1> QED
  BY <1>6, <1>7, <1>8, <1>11

LEMMA PowersGrow ==
  ASSUME NEW b \in Nat \ {0, 1}
  PROVE  \A k \in Nat : /\ Power(b)[k] \in Nat /\ k < Power(b)[k]
                        /\ \A j \in 0 .. k : Power(b)[j] <= Power(b)[k]
<1> DEFINE p == Power(b)
           T == {k \in Nat : k < p[k] /\ \A j \in 0 .. k : p[j] <= p[k]}
<1>1. p[0] = 1 /\ \A k \in Nat : p[k] \in Nat \ {0} /\ p[k + 1] = b * p[k]
  BY PowerIs
<1> HIDE DEF p
<1>2. 0 \in T
  <2>1. \A j \in 0 .. 0 : j = 0
    OBVIOUS
  <2> QED
    BY <1>1, <2>1
<1>3. ASSUME NEW k \in Nat, k \in T PROVE k + 1 \in T
  <2>1. p[k] \in Nat /\ k < p[k] /\ p[k + 1] = b * p[k] /\ p[k + 1] \in Nat
    BY <1>1, <1>3
  <2>2. p[k] * 2 <= p[k] * b /\ p[k] * b \in Int
    BY <2>1, TimesMonotone
  <2>3. p[k] < p[k + 1] /\ k + 1 < p[k + 1]
    BY <2>1, <2>2
  <2>4. ASSUME NEW j \in 0 .. k + 1 PROVE p[j] <= p[k + 1]
    <3>1. CASE j = k + 1
      BY <2>1, <3>1
    <3>2. CASE j # k + 1
      <4>1. j \in 0 .. k /\ j \in Nat
        BY <3>2
      <4>2. p[j] \in Nat /\ p[j] <= p[k]
        BY <1>1, <1>3, <4>1
      <4> QED
        BY <2>1, <2>3, <4>2
    <3> QED
      BY <3>1, <3>2
  <2> QED
    BY <2>3, <2>4
<1>4. Nat \subseteq T
  <2> HIDE DEF T
  <2> QED
    BY <1>2, <1>3, NumberInduction
<1> QED
  BY <1>1, <1>4 DEF p

(* The sequence d has the digits of v, the first of which is not a zero.   *)
PlacesOf(d, v, b) ==
  /\ Len(d) \in Nat \ {0}
  /\ v < Power(b)[Len(d)]
  /\ Len(d) > 1 => Power(b)[Len(d) - 1] <= v
  /\ \A k \in 1 .. Len(d) : d[k] = (v \div Power(b)[Len(d) - k]) % b
  /\ d[1] = 0 => v = 0

LEMMA OnePlace ==
  ASSUME NEW b \in Nat \ {0, 1}, NEW v \in 0 .. b - 1
  PROVE  PlacesOf(<<v>>, v, b)
<1>1. Power(b)[0] = 1 /\ Power(b)[0 + 1] = b * Power(b)[0]
  BY PowerIs
<1>2. Power(b)[1] = b /\ Power(b)[0] = 1
  BY <1>1
<1>3. v \div 1 = v /\ v % b = v
  <2>1. (1 * v + 0) \div 1 = v
    BY DivModUnique, 0 \in 0 .. 1 - 1, 1 \in Nat \ {0}, v \in Int
  <2>2. (b * 0 + v) % b = v
    BY DivModUnique, 0 \in Int, b \in Nat \ {0}
  <2>3. 1 * v + 0 = v /\ b * 0 + v = v
    OBVIOUS
  <2> QED
    BY <2>1, <2>2, <2>3
<1>4. Len(<<v>>) = 1 /\ <<v>>[1] = v
  OBVIOUS
<1>5. \A k \in 1 .. 1 : k = 1 /\ 1 - k = 0
  OBVIOUS
<1> QED
  BY <1>2, <1>3, <1>4, <1>5 DEF PlacesOf

LEMMA QuotientTimes ==
  ASSUME NEW b \in Nat \ {0}, NEW q \in Nat, NEW r \in 0 .. b - 1, NEW m \in Nat
  PROVE  /\ q < m => b * q + r < b * m
         /\ m <= q => b * m <= b * q + r
<1>1. b * q \in Int /\ b * m \in Int /\ r \in Nat /\ r < b /\ q + 1 \in Int
  OBVIOUS
<1>2. b * (q + 1) = b * q + b
  OBVIOUS
<1>3. ASSUME q < m PROVE b * q + r < b * m
  <2>1. q + 1 <= m
    BY <1>3
  <2>2. b * (q + 1) <= b * m
    BY <1>1, <2>1, TimesMonotone
  <2> QED
    BY <1>1, <1>2, <2>2
<1>4. ASSUME m <= q PROVE b * m <= b * q + r
  <2>1. b * m <= b * q
    BY <1>4, TimesMonotone
  <2> QED
    BY <1>1, <2>1
<1> QED
  BY <1>3, <1>4

LEMMA MorePlaces ==
  ASSUME NEW b \in Nat \ {0, 1}, NEW v \in Nat, b <= v, NEW d \in Seq(0 .. b - 1),
         PlacesOf(d, v \div b, b)
  PROVE  PlacesOf(Append(d, v % b), v, b)
<1> DEFINE q == v \div b
           r == v % b
           p == Power(b)
           l == Len(d)
           e == Append(d, r)
<1>1. q \in Nat /\ r \in 0 .. b - 1 /\ v = b * q + r
  BY DivMod
<1>2. /\ p[0] = 1 /\ \A k \in Nat : p[k] \in Nat \ {0} /\ p[k + 1] = b * p[k]
  BY PowerIs
<1>3. /\ l \in Nat \ {0} /\ q < p[l] /\ (l > 1 => p[l - 1] <= q)
      /\ \A k \in 1 .. l : d[k] = (q \div p[l - k]) % b
      /\ d[1] = 0 => q = 0
  BY DEF PlacesOf
<1>4. Len(e) = l + 1 /\ e[l + 1] = r /\ \A k \in 1 .. l : e[k] = d[k]
  BY <1>1, <1>3, AppendProperties
<1>5. \A k \in Nat, w \in Nat : (w \div b) \div p[k] = w \div p[k + 1]
  <2> TAKE k \in Nat, w \in Nat
  <2> HIDE DEF p
  <2>1. p[k] \in Nat \ {0} /\ p[k + 1] = b * p[k] /\ b \in Nat \ {0}
    BY <1>2
  <2>2. \A m \in Nat \ {0} : (w \div b) \div m = w \div (b * m)
    BY DivDiv
  <2>3. (w \div b) \div p[k] = w \div (b * p[k])
    BY <2>1, <2>2
  <2> QED
    BY <2>1, <2>3
<1>6. v \div p[0] = v
  <2>1. (1 * v + 0) \div 1 = v
    BY DivModUnique, 0 \in 0 .. 1 - 1, 1 \in Nat \ {0}, v \in Int
  <2>2. 1 * v + 0 = v
    OBVIOUS
  <2> QED
    BY <1>2, <2>1, <2>2
<1> HIDE DEF p, q, r, l, e
<1>7. v < p[l + 1]
  <2>1. l \in Nat /\ q < p[l]
    BY <1>3
  <2>2. p[l] \in Nat /\ p[l + 1] = b * p[l]
    BY <1>2, <2>1
  <2>3. b * q + r < b * p[l]
    BY <1>1, <2>1, <2>2, QuotientTimes
  <2> QED
    BY <1>1, <2>2, <2>3
<1>8. p[l] <= v
  <2>1. CASE l = 1
    <3>1. p[0 + 1] = b * p[0]
      BY <1>2
    <3>2. p[1] = b * 1
      BY <1>2, <3>1
    <3> QED
      BY <2>1, <3>2
  <2>2. CASE l > 1
    <3>1. l - 1 \in Nat /\ (l - 1) + 1 = l
      BY <1>3
    <3>2. p[l - 1] \in Nat /\ p[(l - 1) + 1] = b * p[l - 1]
      BY <1>2, <3>1
    <3>3. p[l - 1] <= q
      BY <1>3, <2>2
    <3>4. b * p[l - 1] <= b * q + r
      BY <1>1, <3>2, <3>3, QuotientTimes
    <3> QED
      BY <1>1, <3>1, <3>2, <3>4
  <2> QED
    BY <1>3, <2>1, <2>2
<1>9. ASSUME NEW k \in 1 .. l + 1 PROVE e[k] = (v \div p[(l + 1) - k]) % b
  <2>1. CASE k = l + 1
    <3>1. (l + 1) - k = 0
      BY <1>3, <2>1
    <3> QED
      BY <1>4, <1>6, <2>1, <3>1 DEF r
  <2>2. CASE k # l + 1
    <3>1. k \in 1 .. l /\ l - k \in Nat /\ (l + 1) - k = (l - k) + 1
      BY <1>3, <2>2
    <3>2. (v \div b) \div p[l - k] = v \div p[(l - k) + 1]
      BY <1>5, <3>1
    <3>3. e[k] = (q \div p[l - k]) % b
      BY <1>3, <1>4, <3>1
    <3> QED
      BY <3>1, <3>2, <3>3 DEF q
  <2> QED
    BY <2>1, <2>2
<1>10. e[1] # 0
  <2>1. e[1] = d[1]
    BY <1>3, <1>4
  <2>2. q # 0
    <3>1. q = 0 => v = r
      BY <1>1
    <3> QED
      BY <1>1, <3>1
  <2> QED
    BY <1>3, <2>1, <2>2
<1>11. Len(e) \in Nat \ {0} /\ Len(e) - 1 = l
  BY <1>3, <1>4
<1> QED
  BY <1>4, <1>7, <1>8, <1>9, <1>10, <1>11 DEF PlacesOf, e, r, p

LEMMA TmpPlaces ==
  ASSUME NEW b \in Nat \ {0, 1}, NEW v \in 0 .. IntRange - 1
  PROVE  PlacesOf(Tmp(v, b), v, b)
<1> DEFINE D == 0 .. IntRange - 1
           Good(n) == PlacesOf(Tmp(n, b), n, b)
           T == {n \in Nat : \A m \in 0 .. n : m \in D => Good(m)}
<1>1. ASSUME NEW n \in D
      PROVE  n \in Nat /\ Tmp(n, b) \in Seq(0 .. b - 1)
             /\ Tmp(n, b) = IF n < b THEN <<n>> ELSE Append(Tmp(n \div b, b), n % b)
  <2>1. n \in Nat
    OBVIOUS
  <2> HIDE DEF D
  <2>2. n \in 0 .. IntRange - 1
    BY DEF D
  <2> QED
    BY <2>1, <2>2, TmpIs, Zenon
<1>2. ASSUME NEW n \in D, n < b PROVE Good(n)
  <2>1. n \in 0 .. b - 1 /\ Tmp(n, b) = <<n>>
    BY <1>1, <1>2
  <2> QED
    BY <2>1, OnePlace
<1>3. ASSUME NEW n \in D, ~ (n < b), Good(n \div b) PROVE Good(n)
  <2>0. n \div b \in Nat /\ (n # 0 => n \div b < n)
    BY <1>1, <1>3, QuotientLess
  <2>1. n \in Nat /\ b <= n /\ n \div b \in D
    <3> DEFINE q == n \div b
    <3>1. q \in Nat /\ (n # 0 => q < n) /\ n \in Nat
      BY <2>0
    <3> HIDE DEF q
    <3>2. b <= n /\ q \in D
      BY <1>3, <3>1, RangeFacts
    <3> QED
      BY <3>1, <3>2 DEF q
  <2>2. Tmp(n \div b, b) \in Seq(0 .. b - 1)
    BY <1>1, <2>1
  <2>3. Tmp(n, b) = Append(Tmp(n \div b, b), n % b)
    BY <1>1, <1>3
  <2> QED
    BY <1>3, <2>1, <2>2, <2>3, MorePlaces
<1> HIDE DEF Good
<1>4. 0 \in T
  <2>1. 0 \in D => Good(0)
    BY <1>2
  <2>2. \A m \in 0 .. 0 : m = 0
    OBVIOUS
  <2> QED
    BY <2>1, <2>2
<1>5. ASSUME NEW n \in Nat, n \in T PROVE n + 1 \in T
  <2>1. ASSUME n + 1 \in D PROVE Good(n + 1)
    <3>1. CASE n + 1 < b
      BY <1>2, <2>1, <3>1
    <3>2. CASE ~ (n + 1 < b)
      <4>0. n + 1 \in Nat /\ n + 1 # 0
        OBVIOUS
      <4>1. (n + 1) \div b \in Nat /\ (n + 1) \div b < n + 1
        BY <4>0, QuotientLess
      <4>2. (n + 1) \div b \in 0 .. n /\ (n + 1) \div b \in D
        <5> DEFINE q == (n + 1) \div b
        <5> HIDE DEF q
        <5>1. q \in 0 .. n /\ q \in D
          BY <2>1, <4>1, RangeFacts DEF q
        <5> QED
          BY <5>1 DEF q
      <4>3. Good((n + 1) \div b)
        BY <1>5, <4>2
      <4> QED
        BY <1>3, <2>1, <3>2, <4>3
    <3> QED
      BY <3>1, <3>2
  <2>2. \A m \in 0 .. n + 1 : m \in 0 .. n \/ m = n + 1
    OBVIOUS
  <2> QED
    BY <1>5, <2>1, <2>2
<1>6. Nat \subseteq T
  <2> HIDE DEF T
  <2> QED
    BY <1>4, <1>5, NumberInduction
<1>7. v \in Nat /\ v \in 0 .. v
  OBVIOUS
<1>8. v \in T
  <2> HIDE DEF T
  <2> QED
    BY <1>6, <1>7
<1> QED
  BY <1>7, <1>8 DEF Good

(* do_div writes the numeral. *)
LEMMA NumeralIs ==
  ASSUME NEW b \in {8, 10, 16}, NEW v \in 0 .. IntRange - 1, NEW small \in BOOLEAN
  PROVE  Numeral(v, b, small)
           = [k \in DOMAIN Tmp(v, b) |-> Digits(small)[Tmp(v, b)[k] + 1]]
<1> DEFINE t == Tmp(v, b)
           p == Power(b)
           l == Len(t)
           Fits(k) == v < p[k] /\ (k > 1 => p[k - 1] <= v)
           n == CHOOSE k \in 1 .. IntRange : Fits(k)
<1>1. b \in Nat \ {0, 1} /\ v \in Nat /\ IntRange \in Nat /\ v < IntRange
  BY RangeFacts
<1>2. t \in Seq(0 .. b - 1) /\ PlacesOf(t, v, b)
  BY <1>1, TmpIs, TmpPlaces
<1>3. /\ l \in Nat \ {0} /\ Fits(l) /\ DOMAIN t = 1 .. l
      /\ \A k \in 1 .. l : t[k] = (v \div p[l - k]) % b
  BY <1>2 DEF PlacesOf
<1>4. \A k \in Nat : /\ p[k] \in Nat /\ k < p[k] /\ \A j \in 0 .. k : p[j] <= p[k]
  BY <1>1, PowersGrow
<1>5. Numeral(v, b, small) = [k \in 1 .. n |-> Digits(small)[((v \div p[n - k]) % b) + 1]]
  BY DEF Numeral
<1> HIDE DEF t, p, l
<1>6. l \in 1 .. IntRange
  <2>1. CASE l = 1
    BY <1>1, <2>1
  <2>2. CASE l > 1
    <3>1. l - 1 \in Nat
      BY <1>3
    <3>2. p[l - 1] \in Nat /\ l - 1 < p[l - 1] /\ p[l - 1] <= v
      BY <1>3, <1>4, <2>2, <3>1
    <3> QED
      BY <1>1, <1>3, <3>2
  <2> QED
    BY <1>3, <2>1, <2>2
<1>7. ASSUME NEW k \in 1 .. IntRange, Fits(k) PROVE k = l
  <2>1. k \in Nat /\ k - 1 \in Nat /\ l \in Nat /\ l - 1 \in Nat
    BY <1>1, <1>3
  <2>2. /\ v < p[k] /\ v < p[l] /\ (k > 1 => p[k - 1] <= v) /\ (l > 1 => p[l - 1] <= v)
    BY <1>3, <1>7
  <2>3. p[k] \in Nat /\ p[l] \in Nat /\ p[k - 1] \in Nat /\ p[l - 1] \in Nat
    BY <1>4, <2>1
  <2>4. k < l => l > 1 /\ k \in 0 .. l - 1
    BY <1>1, <2>1
  <2>5. l < k => k > 1 /\ l \in 0 .. k - 1
    BY <1>3, <2>1
  <2>6. k < l => p[k] <= p[l - 1]
    BY <1>4, <2>1, <2>4
  <2>7. l < k => p[l] <= p[k - 1]
    BY <1>4, <2>1, <2>5
  <2>8. ~ (k < l)
    BY <1>1, <2>2, <2>3, <2>4, <2>6
  <2>9. ~ (l < k)
    BY <1>1, <2>2, <2>3, <2>5, <2>7
  <2> QED
    BY <2>1, <2>8, <2>9
<1>8. n = l
  <2> HIDE DEF Fits
  <2> QED
    BY <1>3, <1>6, <1>7
<1> HIDE DEF n
<1>9. Numeral(v, b, small) = [k \in 1 .. l |-> Digits(small)[((v \div p[l - k]) % b) + 1]]
  BY <1>5, <1>8
<1>10. [k \in 1 .. l |-> Digits(small)[((v \div p[l - k]) % b) + 1]]
         = [k \in 1 .. l |-> Digits(small)[t[k] + 1]]
  BY <1>3
<1> QED
  BY <1>3, <1>9, <1>10 DEF t

-----------------------------------------------------------------------------
(* Numbers in a format.                                                    *)

LEMMA DigitCharIs ==
  \A k \in 1 .. 10 : /\ DigitChars[k] \in Range(DigitChars) /\ IsDigit(DigitChars[k])
                     /\ DigitChars[k] \in Char
                     /\ DigitChars[k] \in Flags => k = 1
<1>1. \A k \in 1 .. 10 : DigitChars[k] \in Range(DigitChars)
  BY DigitCharsAre DEF Range
<1>2. Range(DigitChars) \subseteq Char
  BY ModifiersAre
<1>3. Blank \notin Range(DigitChars)
  BY DigitsOfChar, Zenon DEF Blank
<1>4. \A c \in Range(DigitChars) : c \in Flags => c = "0"
  BY <1>3, FlagsAre, DigitsOfChar
<1>5. ASSUME NEW k \in 1 .. 10, DigitChars[k] \in Flags PROVE k = 1
  <2>1. DigitChars[k] = DigitChars[1]
    BY <1>1, <1>4, <1>5, DigitCharsAre
  <2> QED
    BY <2>1, DigitCharsDiffer
<1> QED
  BY <1>1, <1>2, <1>5 DEF IsDigit

LEMMA DecimalIs ==
  ASSUME NEW w \in {-1} \cup (0 .. IntRange - 1)
  PROVE  /\ Decimal(w) \in Seq(Range(DigitChars)) /\ Decimal(w) \in Seq(Char)
         /\ Len(Decimal(w)) \in Nat
         /\ w = -1 => Decimal(w) = <<>>
         /\ w # -1 => /\ Len(Decimal(w)) > 0
                      /\ w < Power(10)[Len(Decimal(w))]
                      /\ \A k \in 1 .. Len(Decimal(w)) :
                           Decimal(w)[k]
                             = DigitChars[((w \div Power(10)[Len(Decimal(w)) - k]) % 10) + 1]
                      /\ w # 0 => Decimal(w)[1] \notin Flags
<1>1. CASE w = -1
  <2>1. Decimal(w) = <<>>
    BY <1>1 DEF Decimal
  <2> QED
    BY <1>1, <2>1, EmptySeq
<1>2. CASE w # -1
  <2> DEFINE t == Tmp(w, 10)
             d == Decimal(w)
             p == Power(10)
  <2>1. w \in 0 .. IntRange - 1 /\ 10 \in Nat \ {0, 1}
    BY <1>2
  <2>2. t \in Seq(0 .. 10 - 1) /\ PlacesOf(t, w, 10)
    BY <2>1, TmpIs, TmpPlaces
  <2>3. /\ Len(t) \in Nat \ {0} /\ DOMAIN t = 1 .. Len(t)
        /\ \A k \in 1 .. Len(t) : t[k] \in 0 .. 9
    BY <2>2, ElementOfSeq DEF PlacesOf
  <2>4. /\ w < p[Len(t)] /\ (t[1] = 0 => w = 0)
        /\ \A k \in 1 .. Len(t) : t[k] = (w \div p[Len(t) - k]) % 10
    BY <2>2 DEF PlacesOf
  <2>5. d = [k \in 1 .. Len(t) |-> Digits(TRUE)[t[k] + 1]]
    <3>1. d = Numeral(w, 10, TRUE)
      BY <1>2, Zenon DEF Decimal
    <3>2. Numeral(w, 10, TRUE) = [k \in DOMAIN t |-> Digits(TRUE)[t[k] + 1]]
      BY <2>1, NumeralIs
    <3> QED
      BY <2>3, <3>1, <3>2
  <2> HIDE DEF t, d, p
  <2>6. \A k \in 1 .. Len(t) : t[k] + 1 \in 1 .. 10 /\ Digits(TRUE)[t[k] + 1] = DigitChars[t[k] + 1]
    <3>1. \A k \in 1 .. Len(t) : t[k] + 1 \in 1 .. 10
      BY <2>3
    <3> QED
      BY <3>1, DigitsAre
  <2>7. d = [k \in 1 .. Len(t) |-> DigitChars[t[k] + 1]]
    BY <2>5, <2>6
  <2>8. \A k \in 1 .. Len(t) : DigitChars[t[k] + 1] \in Range(DigitChars)
                                /\ DigitChars[t[k] + 1] \in Char
    BY <2>6, DigitCharIs
  <2>9. d \in Seq(Range(DigitChars)) /\ d \in Seq(Char) /\ Len(d) = Len(t)
    BY <2>3, <2>7, <2>8
  <2>10. ASSUME w # 0 PROVE d[1] \notin Flags
    <3>1. 1 \in 1 .. Len(t)
      BY <2>3
    <3>2. d[1] = DigitChars[t[1] + 1] /\ t[1] + 1 \in 1 .. 10 /\ t[1] # 0
      BY <2>4, <2>6, <2>7, <2>10, <3>1
    <3>3. t[1] \in 0 .. 9
      BY <2>3, <3>1
    <3>4. t[1] + 1 # 1
      BY <3>2, <3>3
    <3> QED
      BY <3>2, <3>4, DigitCharIs
  <2>11. \A k \in 1 .. Len(d) : d[k] = DigitChars[((w \div p[Len(d) - k]) % 10) + 1]
    BY <2>4, <2>7, <2>9
  <2> QED
    BY <1>2, <2>3, <2>4, <2>9, <2>10, <2>11 DEF d, p
<1> QED
  BY <1>1, <1>2

(* skip_atoi finds the number that is written. *)
LEMMA AtoiDecimal ==
  ASSUME InCall, NEW w \in 0 .. IntRange \div 2 - 1, NEW k \in 1 .. Len(Fmt) + 1,
         k + Len(Decimal(w)) <= Len(Fmt) + 1,
         \A i \in 1 .. Len(Decimal(w)) : Ch(k + i - 1) = Decimal(w)[i],
         ~ IsDigit(Ch(k + Len(Decimal(w))))
  PROVE  IsDigit(Ch(k)) /\ PastDigits(k) = k + Len(Decimal(w)) /\ Atoi(k) = w
<1> DEFINE d == Decimal(w)
           l == Len(d)
           p == Power(10)
           s == SubSeq(Fmt, k, PastDigits(k) - 1)
<1>0. w \in 0 .. IntRange - 1 /\ w < IntRange \div 2 /\ w # -1 /\ w % IntRange = w
  BY RangeFacts
<1>1. /\ l \in Nat \ {0} /\ w < p[l] /\ d \in Seq(Range(DigitChars)) /\ d \in Seq(Char)
      /\ \A i \in 1 .. l : d[i] = DigitChars[((w \div p[l - i]) % 10) + 1]
  BY <1>0, DecimalIs
<1>2. k + l <= Len(Fmt) + 1 /\ ~ IsDigit(Ch(k + l)) /\ \A i \in 1 .. l : Ch(k + i - 1) = d[i]
  OBVIOUS
<1>3. Fmt \in Seq(Char) /\ Len(Fmt) \in Nat /\ DOMAIN Fmt = 1 .. Len(Fmt)
  BY CallFacts
<1>4. \A i \in 1 .. l : IsDigit(d[i])
  BY <1>1, ElementOfSeq DEF IsDigit
<1> HIDE DEF d, l, p
<1>5. \A j \in k .. k + l - 1 : IsDigit(Ch(j))
  <2> TAKE j \in k .. k + l - 1
  <2>1. j - k + 1 \in 1 .. l /\ k + (j - k + 1) - 1 = j
    BY <1>1
  <2> QED
    BY <1>2, <1>4, <2>1
<1>6. PastDigits(k) = k + l
  <2> DEFINE q == PastDigits(k)
  <2>1. /\ q \in k .. Len(Fmt) + 1 /\ ~ IsDigit(Ch(q))
        /\ \A j \in k .. q - 1 : IsDigit(Ch(j))
    BY PastDigitsIs
  <2> HIDE DEF q
  <2>2. ~ (q < k + l)
    <3>1. q < k + l => q \in k .. k + l - 1
      BY <1>1, <1>3, <2>1
    <3> QED
      BY <1>5, <2>1, <3>1
  <2>3. ~ (q > k + l)
    <3>1. q > k + l => k + l \in k .. q - 1
      BY <1>1, <1>3, <2>1
    <3> QED
      BY <1>2, <2>1, <3>1
  <2>4. q = k + l
    BY <1>1, <1>3, <2>1, <2>2, <2>3
  <2> QED
    BY <2>4 DEF q
<1>7. s = d
  <2>1. k + l - 1 \in k - 1 .. Len(Fmt)
    BY <1>1, <1>2, <1>3
  <2>2. s = SubSeq(Fmt, k, k + l - 1)
    <3>1. PastDigits(k) - 1 = k + l - 1
      BY <1>1, <1>6
    <3> QED
      BY <3>1, Zenon
  <2>3. s \in Seq(Char) /\ Len(s) = l /\ \A i \in 1 .. l : s[i] = Fmt[k + i - 1]
    <3> DEFINE e == k + l - 1
    <3>1. e \in k - 1 .. Len(Fmt) /\ e - k + 1 = l
      BY <1>1, <2>1
    <3>2. s = SubSeq(Fmt, k, e)
      BY <2>2
    <3> HIDE DEF e, s
    <3> QED
      BY <1>3, <3>1, <3>2, PieceIs
  <2> HIDE DEF s
  <2>4. \A i \in 1 .. l : s[i] = d[i]
    <3> TAKE i \in 1 .. l
    <3>1. k + i - 1 \in Nat \ {0} /\ k + i - 1 <= Len(Fmt)
      BY <1>1, <1>2, <1>3
    <3>2. Ch(k + i - 1) = Fmt[k + i - 1]
      BY <3>1, ChIs
    <3> QED
      BY <1>2, <2>3, <3>2
  <2>5. Len(d) = l
    BY DEF l
  <2> QED
    BY <1>1, <2>3, <2>4, <2>5, SeqEqual
<1>8. NumberAt(k) = FoldLeft(LAMBDA v, c : 10 * v + DigitValue(c), 0, s)
  BY DEF NumberAt
<1> HIDE DEF s
<1>9. PICK f \in [0 .. l -> Int] :
        /\ f[0] = 0 /\ f[l] = NumberAt(k)
        /\ \A j \in 0 .. l - 1 : f[j + 1] = 10 * f[j] + DigitValue(d[j + 1])
  <2>1. s \in Seq(Char) /\ Len(s) = l
    BY <1>1, <1>7 DEF l
  <2> QED
    BY <1>7, <1>8, <2>1, AtoiSteps
<1> DEFINE T == {j \in Nat : j <= l => f[j] = w \div p[l - j]}
<1>10. p[0] = 1 /\ \A j \in Nat : p[j] \in Nat \ {0} /\ p[j + 1] = 10 * p[j]
  BY PowerIs, 10 \in Nat \ {0} DEF p
<1>11. 0 \in T
  <2>1. p[l] \in Nat \ {0} /\ w \in 0 .. p[l] - 1 /\ l - 0 = l
    <3>1. l \in Nat /\ w < p[l] /\ w \in Nat
      BY <1>1
    <3>2. p[l] \in Nat \ {0}
      BY <1>10, <3>1
    <3> QED
      BY <3>1, <3>2
  <2> DEFINE m == p[l]
  <2>2. m \in Nat \ {0} /\ w \in 0 .. m - 1
    BY <2>1
  <2> HIDE DEF m
  <2>3. (m * 0 + w) \div m = 0
    BY <2>2, DivModUnique, 0 \in Int
  <2>4. m * 0 + w = w
    BY <2>2
  <2> QED
    BY <1>9, <2>1, <2>3, <2>4 DEF m
<1>12. ASSUME NEW j \in Nat, j \in T PROVE j + 1 \in T
  <2>1. SUFFICES ASSUME j + 1 <= l PROVE f[j + 1] = w \div p[l - (j + 1)]
    OBVIOUS
  <2>2. /\ j \in 0 .. l - 1 /\ j + 1 \in 1 .. l /\ l - (j + 1) \in Nat
        /\ (l - (j + 1)) + 1 = l - j
    BY <1>1, <2>1
  <2> DEFINE m == p[l - (j + 1)]
             q == w \div m
  <2>3. m \in Nat \ {0} /\ p[l - j] = 10 * m
    BY <1>10, <2>2
  <2>4. q \div 10 = w \div p[l - j]
    <3> HIDE DEF m
    <3>1. (w \div m) \div 10 = w \div (m * 10)
      BY <2>3, w \in Nat, 10 \in Nat \ {0}, DivDiv
    <3>2. m * 10 = 10 * m
      BY <2>3
    <3> QED
      BY <2>3, <3>1, <3>2
  <2>5. q \in Nat
    <3> HIDE DEF m
    <3> QED
      BY <2>3, w \in Nat, DivMod
  <2> HIDE DEF q, m
  <2>6. q % 10 \in 0 .. 9 /\ q = 10 * (q \div 10) + (q % 10)
    BY <2>5
  <2>7. d[j + 1] = DigitChars[(q % 10) + 1]
    BY <1>1, <2>2 DEF q, m
  <2>8. DigitValue(d[j + 1]) = q % 10
    <3>1. (q % 10) + 1 \in 1 .. 10 /\ ((q % 10) + 1) - 1 = q % 10
      BY <2>6
    <3> QED
      BY <2>7, <3>1, DigitValueIs
  <2>9. f[j] = q \div 10 /\ f[j + 1] = 10 * f[j] + DigitValue(d[j + 1])
    <3>1. j <= l
      BY <1>1, <2>1
    <3> QED
      BY <1>9, <1>12, <2>2, <2>4, <3>1
  <2> QED
    BY <2>6, <2>8, <2>9 DEF q, m
<1>13. Nat \subseteq T
  <2> HIDE DEF T
  <2> QED
    BY <1>11, <1>12, NumberInduction
<1>14. f[l] = w \div p[0]
  BY <1>1, <1>13
<1>15. w \div 1 = w
  BY w \in Nat
<1>16. 1 \in 1 .. l /\ k + 1 - 1 = k
  BY <1>1
<1>17. IsDigit(Ch(k))
  BY <1>2, <1>4, <1>16
<1>18. NumberAt(k) = w
  BY <1>9, <1>10, <1>14, <1>15
<1>19. Atoi(k) = w
  BY <1>0, <1>18 DEF Atoi, Signed
<1> QED
  BY <1>6, <1>17, <1>19 DEF l, d

-----------------------------------------------------------------------------
(* The field of a number.                                                  *)

SignOf(minus, type) == IF minus THEN <<"-">> ELSE IF "+" \in type THEN <<"+">>
                       ELSE IF " " \in type THEN <<" ">> ELSE <<>>

PrefixOf(base, type, small) ==
  IF "#" \notin type THEN <<>> ELSE IF base = 8 THEN <<"0">>
  ELSE IF base = 16 THEN <<"0", IF small THEN "x" ELSE "X">> ELSE <<>>

(* What Field says of a number with this sign and prefix and these digits. *)
Zeros(size, prec, type, sign, prefix, digits) ==
  Most(prec - Len(digits),
       IF "0" \in type /\ "-" \notin type
       THEN size - Len(sign \o prefix \o digits) ELSE 0)

Side(type, body, pad) == IF "-" \in type THEN body \o pad ELSE pad \o body

Filled(size, type, body) == Side(type, body, Pad(size - Len(body), Blank))

Padded(size, prec, type, sign, prefix, digits) ==
  Filled(size, type,
         sign \o prefix \o Pad(Zeros(size, prec, type, sign, prefix, digits), "0") \o digits)

LEMMA MostIs == ASSUME NEW m \in Int PROVE Most(m, 0) \in Nat /\ m <= Most(m, 0)
BY DEF Most

LEMMA MostOfThree ==
  ASSUME NEW n \in Nat, NEW l \in Nat, NEW prec \in Int, NEW size \in Int
  PROVE  Most(Most(prec - l, size - (n + l)), 0)
           = Most((size - n) - Most(l, prec), 0) + (Most(l, prec) - l)
BY DEF Most

LEMMA PadNone == ASSUME NEW n \in Int, n <= 0, NEW c PROVE Pad(n, c) = <<>>
<1>1. Most(n, 0) = 0
  BY DEF Most
<1>2. \A k : k \notin 1 .. 0
  OBVIOUS
<1> QED
  BY <1>1, <1>2 DEF Pad

LEMMA PadJoined ==
  ASSUME NEW m \in Int, NEW n \in Int, NEW c \in Char
  PROVE  Pad(m, c) \o Pad(n, c) = Pad(Most(m, 0) + Most(n, 0), c)
<1> DEFINE s == Pad(m, c)
           t == Pad(n, c)
           l == Most(m, 0) + Most(n, 0)
           u == Pad(l, c)
<1>1. /\ s \in Seq(Char) /\ Len(s) = Most(m, 0) /\ \A i \in 1 .. Len(s) : s[i] = c
      /\ t \in Seq(Char) /\ Len(t) = Most(n, 0) /\ \A i \in 1 .. Len(t) : t[i] = c
      /\ Len(s) \in Nat /\ Len(t) \in Nat
  BY PadIs
<1>2. l \in Nat /\ Most(l, 0) = l /\ l = Len(s) + Len(t)
  BY <1>1 DEF Most
<1>3. u \in Seq(Char) /\ Len(u) = l /\ \A i \in 1 .. l : u[i] = c
  BY <1>2, PadIs
<1> HIDE DEF s, t, u, l
<1>4. /\ s \o t \in Seq(Char) /\ Len(s \o t) = l
      /\ \A i \in 1 .. l : (s \o t)[i] = IF i <= Len(s) THEN s[i] ELSE t[i - Len(s)]
  BY <1>1, <1>2, ConcatProperties
<1>5. \A i \in 1 .. l : (s \o t)[i] = c
  BY <1>1, <1>2, <1>4
<1>6. s \o t = u
  BY <1>3, <1>4, <1>5, SeqEqual
<1> QED
  BY <1>6 DEF s, t, u, l

Strings == Seq(Char)

Associative(s, t, u) == (s \o t) \o u = s \o (t \o u)

LEMMA JoinTwice ==
  ASSUME NEW s \in Strings, NEW t \in Strings, NEW u \in Strings
  PROVE  Associative(s, t, u) /\ s \o t \in Strings
<1> DEFINE st == s \o t
           tu == t \o u
           v == st \o u
           w == s \o tu
<1>1. /\ s \in Seq(Char) /\ t \in Seq(Char) /\ u \in Seq(Char)
      /\ Len(s) \in Nat /\ Len(t) \in Nat /\ Len(u) \in Nat
  BY DEF Strings
<1>2. /\ st \in Seq(Char) /\ Len(st) = Len(s) + Len(t)
      /\ \A i \in 1 .. Len(s) + Len(t) : st[i] = IF i <= Len(s) THEN s[i] ELSE t[i - Len(s)]
  BY <1>1, ConcatProperties
<1>3. /\ tu \in Seq(Char) /\ Len(tu) = Len(t) + Len(u)
      /\ \A i \in 1 .. Len(t) + Len(u) : tu[i] = IF i <= Len(t) THEN t[i] ELSE u[i - Len(t)]
  BY <1>1, ConcatProperties
<1> HIDE DEF st, tu
<1>4. /\ v \in Seq(Char) /\ Len(v) = Len(st) + Len(u)
      /\ \A i \in 1 .. Len(st) + Len(u) : v[i] = IF i <= Len(st) THEN st[i] ELSE u[i - Len(st)]
  <2>1. st \in Seq(Char) /\ u \in Seq(Char)
    BY <1>1, <1>2
  <2> QED
    BY <2>1, ConcatProperties
<1>5. /\ w \in Seq(Char) /\ Len(w) = Len(s) + Len(tu)
      /\ \A i \in 1 .. Len(s) + Len(tu) : w[i] = IF i <= Len(s) THEN s[i] ELSE tu[i - Len(s)]
  <2>1. s \in Seq(Char) /\ tu \in Seq(Char)
    BY <1>1, <1>3
  <2> QED
    BY <2>1, ConcatProperties
<1> HIDE DEF v, w
<1>6. Len(v) = Len(w)
  BY <1>1, <1>2, <1>3, <1>4, <1>5
<1>7. ASSUME NEW i \in 1 .. Len(v) PROVE v[i] = w[i]
  <2>1. CASE i <= Len(s)
    <3>1. v[i] = st[i] /\ i \in 1 .. Len(s) + Len(t)
      BY <1>1, <1>2, <1>4, <2>1
    <3>2. st[i] = s[i]
      BY <1>2, <2>1, <3>1
    <3>3. w[i] = s[i]
      BY <1>1, <1>5, <1>6, <2>1
    <3> QED
      BY <3>1, <3>2, <3>3
  <2>2. CASE ~ (i <= Len(s)) /\ i <= Len(s) + Len(t)
    <3>1. v[i] = t[i - Len(s)]
      BY <1>1, <1>2, <1>4, <2>2
    <3>2. i - Len(s) \in 1 .. Len(t) + Len(u) /\ i - Len(s) <= Len(t)
      BY <1>1, <2>2
    <3>3. w[i] = tu[i - Len(s)]
      BY <1>1, <1>5, <1>6, <2>2
    <3> QED
      BY <1>3, <3>1, <3>2, <3>3
  <2>3. CASE ~ (i <= Len(s) + Len(t))
    <3>1. v[i] = u[i - Len(st)] /\ Len(st) = Len(s) + Len(t)
      BY <1>1, <1>2, <1>4, <2>3
    <3>2. i - Len(s) \in 1 .. Len(t) + Len(u) /\ ~ (i - Len(s) <= Len(t))
      BY <1>1, <1>2, <1>4, <2>3
    <3>3. w[i] = tu[i - Len(s)]
      BY <1>1, <1>5, <1>6, <2>3
    <3>4. tu[i - Len(s)] = u[(i - Len(s)) - Len(t)]
      BY <1>3, <3>2
    <3>5. (i - Len(s)) - Len(t) = i - Len(st)
      BY <1>1, <3>1
    <3> QED
      BY <3>1, <3>3, <3>4, <3>5
  <2> QED
    BY <2>1, <2>2, <2>3
<1>8. v = w
  BY <1>4, <1>5, <1>6, <1>7, SeqEqual
<1>9. Associative(s, t, u)
  BY <1>8, Zenon DEF v, w, st, tu, Associative
<1>10. s \o t \in Strings
  BY <1>2, Zenon DEF st, Strings
<1> QED
  BY <1>9, <1>10

Regrouped(a, b, c, d, e) ==
  /\ a \o b \o c \o d \o e = a \o (b \o c \o d \o e)
  /\ a \o b \o c \o d \o e = a \o b \o (c \o d) \o e

LEMMA Regroup ==
  ASSUME NEW a \in Strings, NEW b \in Strings, NEW c \in Strings, NEW d \in Strings,
         NEW e \in Strings
  PROVE  Regrouped(a, b, c, d, e)
<1>1. a \o b \in Strings /\ a \o b \o c \in Strings /\ b \o c \in Strings
      /\ b \o c \o d \in Strings
  BY JoinTwice, Zenon
<1>2. /\ Associative(a, b, c) /\ Associative(a \o b, c, d)
      /\ Associative(a, b \o c, d) /\ Associative(a, b \o c \o d, e)
  BY <1>1, JoinTwice, Zenon
<1>3. a \o b \o c = a \o (b \o c) /\ a \o b \o c \o d = a \o b \o (c \o d)
  BY <1>2, Zenon DEF Associative
<1>4. a \o (b \o c) \o d = a \o (b \o c \o d)
  BY <1>2, Zenon DEF Associative
<1>5. a \o (b \o c \o d) \o e = a \o (b \o c \o d \o e)
  BY <1>2, Zenon DEF Associative
<1> QED
  BY <1>3, <1>4, <1>5, Zenon DEF Regrouped

LEMMA FourJoined ==
  ASSUME NEW a \in Seq(Char), NEW b \in Seq(Char), NEW c \in Seq(Char), NEW d \in Seq(Char)
  PROVE  /\ Len(a \o b \o c) = Len(a) + Len(b) + Len(c)
         /\ Len(a \o b \o c \o d) = Len(a) + Len(b) + Len(c) + Len(d)
<1>1. a \o b \in Seq(Char) /\ a \o b \o c \in Seq(Char)
  BY JoinedIs
<1>2. Len(a \o b) = Len(a) + Len(b) /\ Len(a \o b \o c) = Len(a \o b) + Len(c)
      /\ Len(a \o b \o c \o d) = Len(a \o b \o c) + Len(d)
  BY <1>1, JoinedIs
<1> QED
  BY <1>2

PaddedAs(size, prec, type, sign, prefix, digits, left, zeros) ==
  Padded(size, prec, type, sign, prefix, digits)
    = IF "-" \in type THEN sign \o prefix \o zeros \o digits \o Pad(left, Blank)
      ELSE IF "0" \in type THEN sign \o prefix \o Pad(left, "0") \o zeros \o digits
      ELSE Pad(left, Blank) \o sign \o prefix \o zeros \o digits

(* size, counted down by the sign, the prefix and the digits, is what is   *)
(* left of the field.                                                      *)
CountsDown(size, s, t, d, f, p) ==
  \A m \in Int : f = m + (p - d) => size - (s + t + f + d) = (size - s - t - p) - m

LEMMA CountedDown ==
  ASSUME NEW size \in Int, NEW s \in Nat, NEW t \in Nat, NEW d \in Nat, NEW f \in Nat,
         NEW p \in Int
  PROVE  CountsDown(size, s, t, d, f, p)
BY DEF CountsDown

LEMMA PaddedIs ==
  ASSUME NEW sign \in Seq(Char), NEW prefix \in Seq(Char), NEW digits \in Seq(Char),
         NEW size \in Int, NEW prec \in Int, NEW type,
         NEW p, p = Most(Len(digits), prec),
         NEW left, left = size - Len(sign) - Len(prefix) - p,
         NEW zeros, zeros = Pad(p - Len(digits), "0")
  PROVE  PaddedAs(size, prec, type, sign, prefix, digits, left, zeros)
<1> DEFINE z == Zeros(size, prec, type, sign, prefix, digits)
           fill == Pad(z, "0")
           body == sign \o prefix \o fill \o digits
           rest == size - Len(body)
<1>1. /\ Len(sign) \in Nat /\ Len(prefix) \in Nat /\ Len(digits) \in Nat
      /\ p \in Int /\ left \in Int /\ p - Len(digits) \in Nat
  BY LenNat DEF Most
<1>2. "0" \in Char /\ Blank \in Char
  BY CharsAre
<1>3. zeros \in Seq(Char) /\ Len(zeros) = p - Len(digits)
  <2> DEFINE n == p - Len(digits)
  <2>1. n \in Nat /\ zeros = Pad(n, "0") /\ Most(n, 0) = n
    BY <1>1 DEF Most
  <2> HIDE DEF n
  <2>2. zeros \in Seq(Char) /\ Len(zeros) = n
    BY <1>2, <2>1, PadIs
  <2> QED
    BY <2>2 DEF n
<1>4. Len(sign \o prefix \o digits) = Len(sign) + Len(prefix) + Len(digits)
  BY FourJoined
<1>5. z \in Int
  BY <1>1, <1>4 DEF Zeros, Most
<1>6. fill \in Seq(Char) /\ Len(fill) = Most(z, 0)
  BY <1>2, <1>5, PadIs
<1>7. Len(body) = Len(sign) + Len(prefix) + Len(fill) + Len(digits) /\ body \in Seq(Char)
  BY <1>6, FourJoined, JoinedIs
<1>8. ASSUME NEW m \in Int, Len(fill) = m + (p - Len(digits)) PROVE rest = left - m
  <2>1. CountsDown(size, Len(sign), Len(prefix), Len(digits), Len(fill), p)
    BY <1>1, <1>6, LenNat, CountedDown
  <2>2. rest = size - (Len(sign) + Len(prefix) + Len(fill) + Len(digits))
    BY <1>7, Zenon
  <2> QED
    BY <1>8, <2>1, <2>2, Zenon DEF CountsDown
<1>9. Padded(size, prec, type, sign, prefix, digits)
        = IF "-" \in type THEN body \o Pad(rest, Blank) ELSE Pad(rest, Blank) \o body
  BY DEF Padded, Filled, Side
<1>10. ASSUME ~("0" \in type /\ "-" \notin type)
       PROVE  fill = zeros /\ rest = left
  <2>1. z = Most(prec - Len(digits), 0)
    BY <1>10 DEF Zeros
  <2>2. Most(z, 0) = p - Len(digits)
    BY <1>1, <2>1 DEF Most
  <2>3. fill = zeros
    <3>1. Most(p - Len(digits), 0) = p - Len(digits)
      BY <1>1 DEF Most
    <3> HIDE DEF z
    <3> QED
      BY <2>2, <3>1 DEF Pad
  <2>4. rest = left
    <3> HIDE DEF z, fill, body, rest
    <3>1. Len(fill) = 0 + (p - Len(digits))
      BY <1>1, <1>6, <2>2
    <3>2. rest = left - 0
      BY <1>8, <3>1, 0 \in Int
    <3> QED
      BY <1>1, <3>2
  <2> QED
    BY <2>3, <2>4
<1>11. ASSUME "0" \in type, "-" \notin type
       PROVE  fill = Pad(left, "0") \o zeros /\ rest <= 0 /\ rest \in Int
  <2>1. z = Most(prec - Len(digits), size - (Len(sign) + Len(prefix) + Len(digits)))
    BY <1>4, <1>11 DEF Zeros
  <2>2. Most(z, 0) = Most(left, 0) + (p - Len(digits))
    <3> DEFINE n == Len(sign) + Len(prefix)
               l == Len(digits)
    <3> HIDE DEF z
    <3>1. n \in Nat /\ l \in Nat /\ z = Most(prec - l, size - (n + l)) /\ left = (size - n) - p
      BY <1>1, <2>1
    <3> HIDE DEF n, l
    <3>2. p = Most(l, prec)
      BY DEF l
    <3>3. Most(z, 0) = Most(left, 0) + (p - l)
      <4>1. Most(z, 0) = Most((size - n) - Most(l, prec), 0) + (Most(l, prec) - l)
        BY <3>1, MostOfThree
      <4>2. left = (size - n) - Most(l, prec)
        BY <3>1, <3>2
      <4> QED
        BY <3>2, <4>1, <4>2, Zenon
    <3> QED
      BY <3>3 DEF l
  <2>3. fill = Pad(left, "0") \o zeros
    <3>1. Most(p - Len(digits), 0) = p - Len(digits) /\ p - Len(digits) \in Int
      BY <1>1 DEF Most
    <3>2. Pad(left, "0") \o zeros = Pad(Most(left, 0) + (p - Len(digits)), "0")
      BY <1>1, <1>2, <3>1, PadJoined, Pad(left, "0") \o Pad(p - Len(digits), "0")
           = Pad(Most(left, 0) + Most(p - Len(digits), 0), "0")
    <3>3. Most(Most(z, 0), 0) = Most(z, 0)
      BY <1>5 DEF Most
    <3>4. Pad(Most(z, 0), "0") = fill
      <4> HIDE DEF z
      <4> QED
        BY <3>3 DEF Pad
    <3> HIDE DEF z, fill
    <3> QED
      BY <2>2, <3>2, <3>4
  <2>4. rest <= 0 /\ rest \in Int
    <3> HIDE DEF z, fill, body, rest
    <3>1. Len(fill) = Most(left, 0) + (p - Len(digits))
      BY <1>6, <2>2
    <3>2. left <= Most(left, 0) /\ Most(left, 0) \in Int
      BY <1>1, MostIs
    <3>3. rest = left - Most(left, 0)
      BY <1>8, <3>1, <3>2
    <3> QED
      BY <1>1, <3>2, <3>3
  <2> QED
    BY <2>3, <2>4
<1> HIDE DEF rest, fill
<1>12. CASE "-" \in type
  BY <1>9, <1>10, <1>12 DEF PaddedAs
<1>13. CASE "-" \notin type /\ "0" \in type
  <2> DEFINE noughts == Pad(left, "0")
  <2>1. Pad(rest, Blank) = <<>>
    BY <1>11, <1>13, PadNone
  <2>2. Padded(size, prec, type, sign, prefix, digits) = body
    BY <1>7, <1>9, <1>13, <2>1
  <2>3. noughts \in Seq(Char)
    BY <1>1, <1>2, PadIs
  <2>4. fill = noughts \o zeros
    BY <1>11, <1>13
  <2> HIDE DEF noughts
  <2>5. sign \o prefix \o noughts \o zeros \o digits
          = sign \o prefix \o (noughts \o zeros) \o digits
    <3>1. \A s \in {sign, prefix, noughts, zeros, digits} : s \in Strings
      BY <1>3, <2>3 DEF Strings
    <3>2. Regrouped(sign, prefix, noughts, zeros, digits)
      BY <3>1, Regroup
    <3> QED
      BY <3>2, Zenon DEF Regrouped
  <2>6. body = sign \o prefix \o noughts \o zeros \o digits
    BY <2>4, <2>5
  <2> QED
    BY <1>13, <2>2, <2>6 DEF noughts, PaddedAs
<1>14. CASE "-" \notin type /\ "0" \notin type
  <2> DEFINE blanks == Pad(left, Blank)
  <2>1. Padded(size, prec, type, sign, prefix, digits)
          = blanks \o (sign \o prefix \o zeros \o digits)
    BY <1>9, <1>10, <1>14
  <2>2. blanks \in Seq(Char)
    BY <1>1, <1>2, PadIs
  <2> HIDE DEF blanks
  <2>3. blanks \o sign \o prefix \o zeros \o digits = blanks \o (sign \o prefix \o zeros \o digits)
    <3>1. \A s \in {blanks, sign, prefix, zeros, digits} : s \in Strings
      BY <1>3, <2>2 DEF Strings
    <3>2. Regrouped(blanks, sign, prefix, zeros, digits)
      BY <3>1, Regroup
    <3> QED
      BY <3>2, Zenon DEF Regrouped
  <2> QED
    BY <1>14, <2>1, <2>3 DEF blanks, PaddedAs
<1> QED
  BY <1>12, <1>13, <1>14

LEMMA NumberIsPadded ==
  ASSUME NEW num \in 0 .. IntRange - 1, NEW base \in {8, 10, 16}, NEW size \in Int,
         NEW prec \in Int, NEW type \in SUBSET Flags, NEW sgn \in BOOLEAN, NEW small \in BOOLEAN,
         NEW minus \in BOOLEAN, minus <=> sgn /\ Signed(num) < 0
  PROVE  Number(num, base, size, prec, type, sgn, small)
           = Padded(size, prec, type, SignOf(minus, type), PrefixOf(base, type, small),
                    Numeral(IF minus THEN IntRange - num ELSE num, base, small))
<1> DEFINE neg == sgn /\ Signed(num) < 0
           sign    == CASE neg -> <<"-">>
                        [] ~neg /\ "+" \in type -> <<"+">>
                        [] ~neg /\ "+" \notin type /\ " " \in type -> <<" ">>
                        [] OTHER -> <<>>
           special == CASE "#" \in type /\ base = 16 -> <<"0", IF small THEN "x" ELSE "X">>
                        [] "#" \in type /\ base = 8 -> <<"0">>
                        [] OTHER -> <<>>
           v       == IF minus THEN IntRange - num ELSE num
           tmp     == Tmp(IF neg THEN IntRange - num ELSE num, base)
           digits  == [k \in DOMAIN tmp |-> Digits(small)[tmp[k] + 1]]
           p       == Most(Len(tmp), prec)
           left    == size - Len(sign) - Len(special) - p
           zeros   == Pad(p - Len(tmp), "0")
<1>1. sign = SignOf(minus, type)
  BY Zenon DEF SignOf
<1>2. special = PrefixOf(base, type, small)
  <2>1. base = 8 => base # 16
    OBVIOUS
  <2> QED
    BY <2>1, Zenon DEF PrefixOf
<1>3. sign \in Seq(Char)
  <2>1. \A c \in {"-", "+", Blank} : <<c>> \in Seq(Char)
    BY CharsAre, StringFacts
  <2> QED
    BY <2>1, StringFacts, Zenon DEF Blank
<1>4. special \in Seq(Char)
  <2>1. <<"0">> \in Seq(Char)
    BY CharsAre, StringFacts
  <2>2. \A c \in {"x", "X"} : <<"0", c>> \in Seq(Char)
    BY CharsAre, TwoElements
  <2> QED
    BY <2>1, <2>2, StringFacts, Zenon
<1>5. v \in 0 .. IntRange - 1 /\ base \in Nat \ {0, 1}
  <2>1. IntRange - num \in 0 .. IntRange - 1 \/ ~minus
    BY SignedIs
  <2> QED
    BY <2>1
<1>6. tmp = Tmp(v, base)
  <2>1. (IF neg THEN IntRange - num ELSE num) = v
    BY Zenon
  <2> QED
    BY <2>1, Zenon
<1> HIDE DEF sign, special, tmp, v, neg
<1>7. tmp \in Seq(0 .. base - 1)
  BY <1>5, <1>6, TmpIs
<1>8. Len(tmp) \in Nat /\ DOMAIN tmp = 1 .. Len(tmp)
  BY <1>7
<1>9. digits = Numeral(v, base, small)
  BY <1>5, <1>6, NumeralIs
<1>10. digits \in Seq(Char) /\ Len(digits) = Len(tmp)
  <2>1. ASSUME NEW k \in 1 .. Len(tmp) PROVE Digits(small)[tmp[k] + 1] \in Char
    <3>1. tmp[k] \in 0 .. base - 1
      BY <1>7, ElementOfSeq
    <3>2. \A r \in 0 .. base - 1 : r + 1 \in 1 .. 16
      OBVIOUS
    <3>3. tmp[k] + 1 \in 1 .. 16
      BY <3>1, <3>2
    <3> QED
      BY <3>3, DigitsAre
  <2>2. digits = [k \in 1 .. Len(tmp) |-> Digits(small)[tmp[k] + 1]]
    BY <1>8
  <2> QED
    BY <1>8, <2>1, <2>2
<1>11. Number(num, base, size, prec, type, sgn, small) =
         CASE "-" \in type -> sign \o special \o zeros \o digits \o Pad(left, Blank)
         [] "-" \notin type /\ "0" \in type ->
              sign \o special \o Pad(left, "0") \o zeros \o digits
         [] OTHER -> Pad(left, Blank) \o sign \o special \o zeros \o digits
  BY Zenon DEF Number, sign, special, tmp, digits, p, left, zeros, neg, Blank
<1> HIDE DEF digits
<1>12. p = Most(Len(digits), prec) /\ zeros = Pad(p - Len(digits), "0")
  BY <1>10, Zenon
<1> HIDE DEF p, zeros
<1>13. left = size - Len(sign) - Len(special) - p
  OBVIOUS
<1> HIDE DEF left
<1>14. PaddedAs(size, prec, type, sign, special, digits, left, zeros)
  BY <1>3, <1>4, <1>10, <1>12, <1>13, PaddedIs
<1>15. Number(num, base, size, prec, type, sgn, small)
         = Padded(size, prec, type, sign, special, digits)
  BY <1>11, <1>14, Zenon DEF PaddedAs
<1> QED
  BY <1>1, <1>2, <1>9, <1>15, Zenon DEF v

-----------------------------------------------------------------------------
(* The field of a directive, by its conversion.                            *)

FieldNegative == asked.conv \in {"d", "i"} /\ Signed(value.n) < 0

FieldDigits == Numeral(IF FieldNegative THEN IntRange - value.n ELSE value.n,
                       Base[asked.conv], asked.conv = "x")

PaddedNumber ==
  Padded(FieldWidth, FieldPrecision, FieldFlags, SignOf(FieldNegative, FieldFlags),
         PrefixOf(Base[asked.conv], FieldFlags, asked.conv = "x"), FieldDigits)

LEMMA FieldIsNumber ==
  ASSUME asked.conv \in DOMAIN Base, value.n \in 0 .. IntRange - 1
  PROVE  Field = PaddedNumber
<1> DEFINE c      == asked.conv
           n      == IF c \in {"d", "i"} THEN Signed(value.n) ELSE value.n
           sign   == IF n < 0 THEN <<"-">> ELSE IF "+" \in FieldFlags THEN <<"+">>
                     ELSE IF " " \in FieldFlags THEN <<" ">> ELSE <<>>
           prefix == IF "#" \notin FieldFlags THEN <<>> ELSE IF Base[c] = 8 THEN <<"0">>
                     ELSE IF Base[c] = 16 THEN <<"0", IF c = "x" THEN "x" ELSE "X">> ELSE <<>>
           digits == Numeral(IF n < 0 THEN - n ELSE n, Base[c], c = "x")
           zeros  == Zeros(FieldWidth, FieldPrecision, FieldFlags, sign, prefix, digits)
<1>1. c \in Conversions \ {"n"}
  <2>1. c \in Conversions /\ c # "n"
    BY DEF Conversions, Base
  <2> QED
    BY <2>1
<1>2. Field = Filled(FieldWidth, FieldFlags, FieldNumber)
  <2>1. c # "s" /\ c # "c" /\ c # "n" /\ c \notin {"%", "NUL"}
    BY DEF Base
  <2> QED
    BY <1>1, <2>1, Zenon DEF Field, Filled, Side, Blank
<1>10. FieldNumber = sign \o prefix \o Pad(zeros, "0") \o digits
  BY Zenon DEF FieldNumber, Zeros
<1>3. n < 0 <=> FieldNegative
  <2>1. ~ (value.n < 0)
    OBVIOUS
  <2> QED
    BY <2>1, Zenon DEF FieldNegative
<1>4. FieldNegative => - n = IntRange - value.n
  <2>1. Signed(value.n) < 0 => - Signed(value.n) = IntRange - value.n
    BY RangeFacts DEF Signed
  <2> QED
    BY <2>1, Zenon DEF FieldNegative
<1>5. ~ FieldNegative => n = value.n
  <2>1. ~ (Signed(value.n) < 0) => Signed(value.n) = value.n
    BY RangeFacts DEF Signed
  <2> QED
    BY <2>1, Zenon DEF FieldNegative
<1>6. sign = SignOf(FieldNegative, FieldFlags)
  BY <1>3, Zenon DEF SignOf
<1>7. prefix = PrefixOf(Base[c], FieldFlags, c = "x")
  BY Zenon DEF PrefixOf
<1>8. digits = FieldDigits
  BY <1>3, <1>4, <1>5, Zenon DEF FieldDigits
<1> HIDE DEF n, sign, prefix, digits
<1>9. Field = Padded(FieldWidth, FieldPrecision, FieldFlags, sign, prefix, digits)
  BY <1>2, <1>10, Zenon DEF Padded
<1> QED
  BY <1>6, <1>7, <1>8, <1>9, Zenon DEF PaddedNumber

LEMMA FieldIsText ==
  /\ asked.conv = "s" => Field = Filled(FieldWidth, FieldFlags, FieldString)
  /\ asked.conv = "c" => Field = Filled(FieldWidth, FieldFlags, value.s)
<1>1. "s" \notin DOMAIN Base /\ "c" \notin DOMAIN Base /\ "c" # "s"
      /\ "s" \in Conversions \ {"n"} /\ "c" \in Conversions \ {"n"}
  BY DEF Base, Conversions
<1> QED
  BY <1>1, Zenon DEF Field, Filled, Side, Blank

LEMMA FieldIsMark ==
  /\ asked.conv = "n" => Field = <<>>
  /\ asked.conv \in {"%", "NUL"} => Field = <<"%">>
  /\ asked.conv \notin Conversions \cup {"%", "NUL"} => Field = <<"%", asked.conv>>
<1> DEFINE c == asked.conv
           body == CASE c = "n" -> <<>>
                     [] c \in {"%", "NUL"} -> <<"%">>
                     [] OTHER -> <<"%", c>>
<1>1. SUFFICES ASSUME c \notin Conversions \ {"n"} 
               PROVE  Field = body
  <2>1. {"n", "%", "NUL"} \cap (Conversions \ {"n"}) = {}
    BY DEF Conversions, Base
  <2>2. "n" \notin {"%", "NUL"} /\ "n" \in Conversions
    BY DEF Conversions
  <2> QED
    BY <2>1, <2>2, Zenon
<1>2. c \notin DOMAIN Base /\ c # "s" /\ c # "c"
  BY <1>1 DEF Conversions, Base
<1>3. Field = Side(FieldFlags, body, <<>>)
  BY <1>1, <1>2, Zenon DEF Field, Side
<1>4. body \o <<>> = body /\ <<>> \o body = body
  <2>1. body \in Seq({"%", c})
    BY EmptySeq, OneElement, TwoElements
  <2> HIDE DEF body
  <2> QED
    BY <2>1, ConcatEmptySeq
<1> QED
  BY <1>3, <1>4, Zenon DEF Side

-----------------------------------------------------------------------------
(* A format that says what is asked.                                       *)

(* The first n elements. *)
Begun(s, n) == [i \in 1 .. n |-> s[i]]

(* Where the parts of the format that says what is asked begin. *)
AtSign      == Len(asked.before) + 1
AtFlags     == AtSign + 1
AtWidth     == AtFlags + Len(asked.flags)
AtPoint     == AtWidth + Len(Decimal(asked.width))
AtPrecision == AtPoint + (IF asked.point THEN 1 ELSE 0)
AtQualifier == AtPrecision + (IF asked.point THEN Len(Decimal(asked.precision)) ELSE 0)
AtConv      == AtQualifier + Len(asked.qualifier)

(* The text before the directive is there, and what the directive means    *)
(* has been read as far as the scan has come.                              *)
Asks == asked.kind # "text" /\ out = asked.before /\ count = -1

BeforeSign ==
  part \in {"text", "shown"} /\ pos <= AtSign =>
    out = Begun(asked.before, pos - 1) /\ count = -1 /\ arg = 1

InFlags == part = "flags" =>
             /\ Asks /\ arg = 1
             /\ pos \in AtFlags .. AtWidth
             /\ flags = {asked.flags[i] : i \in 1 .. pos - AtFlags}

WidthRead == arg = 1 /\ flags = Range(asked.flags) /\ width = asked.width

PrecisionRead == precision = FieldPrecision

InPrecision  == part = "precision" => Asks /\ pos = AtPoint /\ WidthRead
InQualifier  == part = "qualifier" => Asks /\ pos = AtQualifier /\ WidthRead /\ PrecisionRead
InConversion == part = "conversion" => Asks /\ pos = AtConv /\ WidthRead /\ PrecisionRead

BehindField ==
  part \in {"text", "shown"} /\ pos > AtSign =>
    /\ asked.kind # "text" /\ Field \in Seq(Char)
    /\ IF asked.conv = "NUL" THEN pos = AtConv
       ELSE pos \in AtConv + 1 .. AtConv + 1 + Len(asked.after)
    /\ out = asked.before \o Field \o Begun(asked.after, pos - AtConv - 1)
    /\ count = IF asked.conv = "n" THEN Len(asked.before) ELSE -1

FollowsAsked == Fmt = Spelled(asked) =>
               /\ BeforeSign /\ InFlags /\ InPrecision /\ InQualifier /\ InConversion
               /\ BehindField

AtEnd == part = "shown" => Here = "NUL"

LEMMA CharsOfKinds ==
  /\ Plain \subseteq Char /\ Flags \subseteq Char /\ Qualifiers \subseteq Char
  /\ "%" \in Char /\ "." \in Char /\ "NUL" \notin Plain /\ "%" \notin Plain
<1>1. Flags \subseteq Char /\ Qualifiers \subseteq Char /\ "." \in Char
  BY ModifiersAre
<1>2. "%" \in Char /\ "NUL" \notin Char
  BY CharAssumption
<1>3. Plain = Char \ {"%"}
  BY DEF Plain
<1> QED
  BY <1>1, <1>2, <1>3

LEMMA SeqOver == ASSUME NEW S, NEW T, S \subseteq T, NEW s \in Seq(S) PROVE s \in Seq(T)
<1>1. s \in [1 .. Len(s) -> S] /\ Len(s) \in Nat
  OBVIOUS
<1>2. s \in [1 .. Len(s) -> T]
  BY <1>1
<1> QED
  BY <1>1, <1>2

LEMMA AskedFacts ==
  ASSUME InCall
  PROVE  /\ asked.before \in Seq(Char) /\ Len(asked.before) \in Nat
         /\ \A i \in 1 .. Len(asked.before) : asked.before[i] \in Plain
         /\ asked.flags \in Seq(Char) /\ Len(asked.flags) \in Nat
         /\ \A i \in 1 .. Len(asked.flags) : asked.flags[i] \in Flags
         /\ asked.width \in {-1} \cup (1 .. IntRange \div 2 - 1)
         /\ asked.width \in {-1} \cup (0 .. IntRange - 1)
         /\ asked.point \in BOOLEAN
         /\ asked.precision \in {-1} \cup (0 .. IntRange \div 2 - 1)
         /\ asked.precision \in {-1} \cup (0 .. IntRange - 1)
         /\ asked.qualifier \in Seq(Char) /\ Len(asked.qualifier) \in {0, 1}
         /\ \/ asked.qualifier = <<>>
            \/ Len(asked.qualifier) = 1 /\ asked.qualifier[1] \in Qualifiers
         /\ asked.conv \in Char \cup {"NUL"} /\ asked.conv \notin Modifiers
         /\ asked.conv # "*"
         /\ asked.after \in Seq(Char) /\ Len(asked.after) \in Nat
         /\ \A i \in 1 .. Len(asked.after) : asked.after[i] \in Plain
<1> DEFINE a == asked
<1>1. a \in Asked
  BY CallFacts DEF asked
<1> HIDE DEF a
<1>2. /\ a.before \in Seq(Plain) /\ a.flags \in Seq(Flags)
      /\ a.width \in {-1} \cup (1 .. IntRange \div 2 - 1)
      /\ a.point \in BOOLEAN
      /\ a.precision \in {-1} \cup (0 .. IntRange \div 2 - 1)
      /\ a.qualifier \in {<<>>} \cup {<<q>> : q \in Qualifiers}
      /\ a.conv \in (Char \cup {"NUL"}) \ (Modifiers \cup {"*"})
      /\ a.after \in Seq(Plain)
  BY <1>1, Zenon DEF Asked
<1>3. /\ a.before \in Seq(Char) /\ Len(a.before) \in Nat
      /\ \A i \in 1 .. Len(a.before) : a.before[i] \in Plain
  BY <1>2, CharsOfKinds, SeqOver, LenNat, ElementOfSeq
<1>4. /\ a.after \in Seq(Char) /\ Len(a.after) \in Nat
      /\ \A i \in 1 .. Len(a.after) : a.after[i] \in Plain
  BY <1>2, CharsOfKinds, SeqOver, LenNat, ElementOfSeq
<1>5. /\ a.flags \in Seq(Char) /\ Len(a.flags) \in Nat
      /\ \A i \in 1 .. Len(a.flags) : a.flags[i] \in Flags
  BY <1>2, CharsOfKinds, SeqOver, LenNat, ElementOfSeq
<1>6. /\ a.qualifier \in Seq(Char) /\ Len(a.qualifier) \in {0, 1}
      /\ a.qualifier = <<>> \/ (Len(a.qualifier) = 1 /\ a.qualifier[1] \in Qualifiers)
  <2>1. CASE a.qualifier = <<>>
    BY <2>1, StringFacts
  <2>2. ASSUME NEW q \in Qualifiers, a.qualifier = <<q>>
        PROVE  /\ a.qualifier \in Seq(Char) /\ Len(a.qualifier) = 1
               /\ a.qualifier[1] \in Qualifiers
    BY <2>2, CharsOfKinds, StringFacts
  <2> QED
    BY <1>2, <2>1, <2>2
<1>7. /\ a.width \in {-1} \cup (0 .. IntRange - 1)
      /\ a.precision \in {-1} \cup (0 .. IntRange - 1)
  BY <1>2, RangeFacts
<1> QED
  BY <1>2, <1>3, <1>4, <1>5, <1>6, <1>7 DEF a

(* The sequence t begins behind k elements of s. *)
LiesAt(s, k, t) == k + Len(t) <= Len(s) /\ \A i \in 1 .. Len(t) : s[k + i] = t[i]

LEMMA LiesLonger ==
  ASSUME NEW s \in Seq(Char), NEW t \in Seq(Char), NEW u \in Seq(Char), NEW k \in Nat,
         LiesAt(s, k, t)
  PROVE  LiesAt(s \o u, k, t)
<1>1. Len(s) \in Nat /\ Len(t) \in Nat /\ Len(u) \in Nat /\ Len(s \o u) = Len(s) + Len(u)
      /\ \A i \in 1 .. Len(s) : (s \o u)[i] = s[i]
  BY JoinedIs
<1>2. k + Len(t) <= Len(s) /\ \A i \in 1 .. Len(t) : s[k + i] = t[i]
  BY DEF LiesAt
<1>3. ASSUME NEW i \in 1 .. Len(t) PROVE (s \o u)[k + i] = t[i]
  <2>1. k + i \in 1 .. Len(s)
    BY <1>1, <1>2
  <2> QED
    BY <1>1, <1>2, <2>1
<1>4. k + Len(t) <= Len(s \o u)
  BY <1>1, <1>2
<1> QED
  BY <1>3, <1>4 DEF LiesAt

LEMMA LiesBehind ==
  ASSUME NEW s \in Seq(Char), NEW u \in Seq(Char)
  PROVE  LiesAt(s \o u, Len(s), u) /\ s \o u \in Seq(Char) /\ Len(s \o u) = Len(s) + Len(u)
BY JoinedIs DEF LiesAt

(* The parts of the format. *)
PointText     == IF asked.point THEN <<".">> ELSE <<>>
PrecisionText == IF asked.point THEN Decimal(asked.precision) ELSE <<>>
Rest          == IF asked.conv = "NUL" THEN <<>> ELSE <<asked.conv>> \o asked.after

LEMMA PartsLie ==
  ASSUME InCall, asked.kind # "text", Fmt = Spelled(asked)
  PROVE  /\ LiesAt(Fmt, 0, asked.before) /\ LiesAt(Fmt, Len(asked.before), <<"%">>)
         /\ LiesAt(Fmt, AtSign, asked.flags)
         /\ LiesAt(Fmt, AtWidth - 1, Decimal(asked.width))
         /\ LiesAt(Fmt, AtPoint - 1, PointText)
         /\ LiesAt(Fmt, AtPrecision - 1, PrecisionText)
         /\ LiesAt(Fmt, AtQualifier - 1, asked.qualifier)
         /\ LiesAt(Fmt, AtConv - 1, Rest)
         /\ Len(Fmt) = AtConv - 1 + Len(Rest)
         /\ PointText \in Seq(Char) /\ PrecisionText \in Seq(Char) /\ Rest \in Seq(Char)
         /\ Len(PointText) = IF asked.point THEN 1 ELSE 0
         /\ Len(PrecisionText) = IF asked.point THEN Len(Decimal(asked.precision)) ELSE 0
<1> DEFINE t1 == asked.before
           t2 == <<"%">>
           t3 == asked.flags
           t4 == Decimal(asked.width)
           t5 == PointText
           t6 == PrecisionText
           t7 == asked.qualifier
           t8 == Rest
           p2 == t1 \o t2
           p3 == p2 \o t3
           p4 == p3 \o t4
           p5 == p4 \o t5
           p6 == p5 \o t6
           p7 == p6 \o t7
           p8 == p7 \o t8
<1>1. /\ t1 \in Seq(Char) /\ Len(t1) \in Nat /\ t3 \in Seq(Char) /\ Len(t3) \in Nat
      /\ t7 \in Seq(Char) /\ Len(t7) \in Nat
  BY AskedFacts
<1>2. t2 \in Seq(Char) /\ Len(t2) = 1
  BY CharsOfKinds, StringFacts
<1>3. t4 \in Seq(Char) /\ Len(t4) \in Nat /\ Decimal(asked.precision) \in Seq(Char)
  BY AskedFacts, DecimalIs
<1>4. t5 \in Seq(Char) /\ Len(t5) = IF asked.point THEN 1 ELSE 0
  BY CharsOfKinds, StringFacts DEF PointText
<1>5. t6 \in Seq(Char) /\ Len(t6) \in Nat
      /\ Len(t6) = IF asked.point THEN Len(Decimal(asked.precision)) ELSE 0
  <2>1. t6 \in Seq(Char) /\ Len(t6) = IF asked.point THEN Len(Decimal(asked.precision)) ELSE 0
    BY <1>3, StringFacts DEF PrecisionText
  <2> QED
    BY <2>1, LenNat
<1>6. t8 \in Seq(Char) /\ Len(t8) \in Nat
  <2>1. asked.conv # "NUL" => <<asked.conv>> \in Seq(Char)
    BY AskedFacts, StringFacts
  <2>2. asked.conv # "NUL" => <<asked.conv>> \o asked.after \in Seq(Char)
    BY <2>1, AskedFacts, JoinedIs
  <2>3. t8 \in Seq(Char)
    BY <2>2, StringFacts DEF Rest
  <2> QED
    BY <2>3, LenNat
<1>7. Fmt = p8
  BY Zenon DEF Spelled, PointText, PrecisionText, Rest
<1>8. /\ AtSign = Len(t1) + 1 /\ AtWidth - 1 = AtSign + Len(t3)
      /\ AtPoint - 1 = (AtWidth - 1) + Len(t4) /\ AtPrecision - 1 = (AtPoint - 1) + Len(t5)
      /\ AtQualifier - 1 = (AtPrecision - 1) + Len(t6) /\ AtConv - 1 = (AtQualifier - 1) + Len(t7)
  <2>1. AtSign = Len(t1) + 1 /\ AtSign \in Nat
    BY <1>1 DEF AtSign
  <2>2. AtWidth = AtSign + 1 + Len(t3) /\ AtWidth \in Nat
    <3>1. AtFlags = AtSign + 1 /\ AtFlags \in Nat
      BY <2>1 DEF AtFlags
    <3>2. AtWidth = AtFlags + Len(t3)
      BY DEF AtWidth
    <3>3. Len(t3) \in Nat
      BY <1>1
    <3> HIDE DEF t3
    <3> QED
      BY <2>1, <3>1, <3>2, <3>3
  <2>3. AtPoint = AtWidth + Len(t4) /\ AtPoint \in Nat
    BY <1>3, <2>2 DEF AtPoint
  <2>4. AtPrecision = AtPoint + Len(t5) /\ AtPrecision \in Nat
    <3> HIDE DEF t5
    <3> QED
      BY <1>4, <2>3 DEF AtPrecision
  <2>5. AtQualifier = AtPrecision + Len(t6) /\ AtQualifier \in Nat
    <3> HIDE DEF t6
    <3> QED
      BY <1>5, <2>4 DEF AtQualifier
  <2>6. AtConv = AtQualifier + Len(t7) /\ AtConv \in Nat
    BY <1>1, <2>5 DEF AtConv
  <2> HIDE DEF t1, t3, t4, t5, t6, t7
  <2> QED
    BY <1>1, <1>3, <1>4, <1>5, <2>1, <2>2, <2>3, <2>4, <2>5, <2>6
<1> DEFINE Stays(s, u) == \A k \in Nat, t \in Seq(Char) : LiesAt(s, k, t) => LiesAt(u, k, t)
<1> HIDE DEF t1, t2, t3, t4, t5, t6, t7, t8
<1>9. \A s \in Seq(Char), u \in Seq(Char) :
        /\ s \o u \in Seq(Char) /\ Len(s \o u) = Len(s) + Len(u) /\ LiesAt(s \o u, Len(s), u)
        /\ Stays(s, s \o u)
  BY LiesLonger, LiesBehind
<1> HIDE DEF Stays
<1>10. /\ p2 \in Seq(Char) /\ Len(p2) = Len(t1) + Len(t2) /\ LiesAt(p2, Len(t1), t2)
       /\ Stays(t1, p2)
  BY <1>1, <1>2, <1>9
<1> HIDE DEF p2
<1>11. /\ p3 \in Seq(Char) /\ Len(p3) = Len(p2) + Len(t3) /\ LiesAt(p3, Len(p2), t3)
       /\ Stays(p2, p3)
  BY <1>1, <1>9, <1>10
<1> HIDE DEF p3
<1>12. /\ p4 \in Seq(Char) /\ Len(p4) = Len(p3) + Len(t4) /\ LiesAt(p4, Len(p3), t4)
       /\ Stays(p3, p4)
  BY <1>3, <1>9, <1>11
<1> HIDE DEF p4
<1>13. /\ p5 \in Seq(Char) /\ Len(p5) = Len(p4) + Len(t5) /\ LiesAt(p5, Len(p4), t5)
       /\ Stays(p4, p5)
  BY <1>4, <1>9, <1>12
<1> HIDE DEF p5
<1>14. /\ p6 \in Seq(Char) /\ Len(p6) = Len(p5) + Len(t6) /\ LiesAt(p6, Len(p5), t6)
       /\ Stays(p5, p6)
  BY <1>5, <1>9, <1>13
<1> HIDE DEF p6
<1>15. /\ p7 \in Seq(Char) /\ Len(p7) = Len(p6) + Len(t7) /\ LiesAt(p7, Len(p6), t7)
       /\ Stays(p6, p7)
  BY <1>1, <1>9, <1>14
<1> HIDE DEF p7
<1>16. /\ p8 \in Seq(Char) /\ Len(p8) = Len(p7) + Len(t8) /\ LiesAt(p8, Len(p7), t8)
       /\ Stays(p7, p8)
  BY <1>6, <1>9, <1>15
<1> HIDE DEF p8
<1>17. LiesAt(t1, 0, t1)
  BY <1>1 DEF LiesAt
<1>18. /\ Len(t1) = AtSign - 1 /\ Len(p2) = AtSign /\ Len(p3) = AtWidth - 1
       /\ Len(p4) = AtPoint - 1 /\ Len(p5) = AtPrecision - 1 /\ Len(p6) = AtQualifier - 1
       /\ Len(p7) = AtConv - 1 /\ Len(p8) = AtConv - 1 + Len(t8)
       /\ {Len(t1), Len(p2), Len(p3), Len(p4), Len(p5), Len(p6), Len(p7)} \subseteq Nat
  <2>1. Len(t1) = AtSign - 1 /\ Len(t1) \in Nat /\ Len(p2) = AtSign /\ Len(p2) \in Nat
    BY <1>1, <1>2, <1>8, <1>10
  <2>2. Len(p3) = AtWidth - 1 /\ Len(p3) \in Nat
    BY <1>1, <1>8, <1>11, <2>1
  <2>3. Len(p4) = AtPoint - 1 /\ Len(p4) \in Nat
    BY <1>3, <1>8, <1>12, <2>2
  <2>4. Len(p5) = AtPrecision - 1 /\ Len(p5) \in Nat
    BY <1>4, <1>8, <1>13, <2>3
  <2>5. Len(p6) = AtQualifier - 1 /\ Len(p6) \in Nat
    BY <1>5, <1>8, <1>14, <2>4
  <2>6. Len(p7) = AtConv - 1 /\ Len(p7) \in Nat
    BY <1>1, <1>8, <1>15, <2>5
  <2>7. Len(p8) = AtConv - 1 + Len(t8)
    BY <1>6, <1>16, <2>6
  <2> QED
    BY <2>1, <2>2, <2>3, <2>4, <2>5, <2>6, <2>7
<1>19. Stays(p6, p8) /\ Stays(p5, p8) /\ Stays(p4, p8) /\ Stays(p3, p8) /\ Stays(p2, p8)
       /\ Stays(t1, p8)
  BY <1>10, <1>11, <1>12, <1>13, <1>14, <1>15, <1>16 DEF Stays
<1>20. /\ LiesAt(p8, 0, t1) /\ LiesAt(p8, Len(t1), t2) /\ LiesAt(p8, Len(p2), t3)
       /\ LiesAt(p8, Len(p3), t4) /\ LiesAt(p8, Len(p4), t5) /\ LiesAt(p8, Len(p5), t6)
       /\ LiesAt(p8, Len(p6), t7) /\ LiesAt(p8, Len(p7), t8)
  <2>1. 0 \in Nat
    OBVIOUS
  <2> QED
    BY <1>1, <1>2, <1>3, <1>4, <1>5, <1>6, <1>10, <1>11, <1>12, <1>13, <1>14, <1>15, <1>16,
       <1>17, <1>18, <1>19, <2>1 DEF Stays
<1> QED
  BY <1>4, <1>5, <1>6, <1>7, <1>18, <1>20 DEF t1, t2, t3, t4, t5, t6, t7, t8

LEMMA LiesCh ==
  ASSUME InCall, NEW k \in Nat, NEW t \in Seq(Char), LiesAt(Fmt, k, t)
  PROVE  k + Len(t) <= Len(Fmt) /\ \A i \in 1 .. Len(t) : Ch(k + i) = t[i]
<1>1. Len(Fmt) \in Nat /\ Len(t) \in Nat
  BY CallFacts, LenNat
<1>2. k + Len(t) <= Len(Fmt) /\ \A i \in 1 .. Len(t) : Fmt[k + i] = t[i]
  BY DEF LiesAt
<1>3. ASSUME NEW i \in 1 .. Len(t) PROVE Ch(k + i) = t[i]
  <2>1. k + i \in Nat \ {0} /\ k + i <= Len(Fmt)
    BY <1>1, <1>2
  <2> QED
    BY <1>2, <2>1, ChIs
<1> QED
  BY <1>2, <1>3

LEMMA PlacesAre ==
  ASSUME InCall
  PROVE  /\ AtSign \in Nat \ {0} /\ AtSign = Len(asked.before) + 1
         /\ AtFlags \in Nat /\ AtFlags = AtSign + 1
         /\ AtWidth \in Nat /\ AtWidth = AtFlags + Len(asked.flags)
         /\ AtPoint \in Nat /\ AtPoint = AtWidth + Len(Decimal(asked.width))
         /\ AtPrecision \in Nat
         /\ AtPrecision = AtPoint + (IF asked.point THEN 1 ELSE 0)
         /\ AtQualifier \in Nat
         /\ AtQualifier = AtPrecision + (IF asked.point THEN Len(Decimal(asked.precision)) ELSE 0)
         /\ AtConv \in Nat /\ AtConv = AtQualifier + Len(asked.qualifier)
         /\ AtWidth > AtSign /\ AtPoint >= AtWidth /\ AtPrecision >= AtPoint
         /\ AtQualifier >= AtPrecision /\ AtConv >= AtQualifier
<1>1. /\ Len(asked.before) \in Nat /\ Len(asked.flags) \in Nat /\ Len(asked.qualifier) \in Nat
      /\ asked.point \in BOOLEAN
      /\ asked.width \in {-1} \cup (0 .. IntRange - 1)
      /\ asked.precision \in {-1} \cup (0 .. IntRange - 1)
  BY AskedFacts
<1>2. Len(Decimal(asked.width)) \in Nat /\ Len(Decimal(asked.precision)) \in Nat
  BY <1>1, DecimalIs
<1> DEFINE b == Len(asked.before)
           f == Len(asked.flags)
           w == Len(Decimal(asked.width))
           p == Len(Decimal(asked.precision))
           q == Len(asked.qualifier)
<1>3. AtSign = b + 1 /\ AtFlags = AtSign + 1 /\ AtWidth = AtFlags + f /\ AtPoint = AtWidth + w
  BY Zenon DEF AtSign, AtFlags, AtWidth, AtPoint
<1>4. /\ AtPrecision = AtPoint + (IF asked.point THEN 1 ELSE 0)
      /\ AtQualifier = AtPrecision + (IF asked.point THEN p ELSE 0)
      /\ AtConv = AtQualifier + q
  BY Zenon DEF AtPrecision, AtQualifier, AtConv
<1> HIDE DEF b, f, w, p, q
<1>5. b \in Nat /\ f \in Nat /\ w \in Nat /\ p \in Nat /\ q \in Nat
  BY <1>1, <1>2 DEF b, f, w, p, q
<1>6. AtSign \in Nat \ {0} /\ AtFlags \in Nat /\ AtWidth \in Nat /\ AtWidth > AtSign
  BY <1>3, <1>5
<1>7. AtPoint \in Nat /\ AtPoint >= AtWidth
  BY <1>3, <1>5, <1>6
<1>8. AtPrecision \in Nat /\ AtPrecision >= AtPoint
  BY <1>4, <1>6, <1>7
<1>9. AtQualifier \in Nat /\ AtQualifier >= AtPrecision
  BY <1>4, <1>5, <1>6, <1>8
<1>10. AtConv \in Nat /\ AtConv >= AtQualifier
  BY <1>4, <1>5, <1>6, <1>9
<1> QED
  BY <1>3, <1>4, <1>6, <1>7, <1>8, <1>9, <1>10 DEF b, f, w, p, q

LEMMA Layout ==
  ASSUME InCall, asked.kind # "text", Fmt = Spelled(asked)
  PROVE  /\ \A i \in 1 .. Len(asked.before) : Ch(i) = asked.before[i]
         /\ Ch(AtSign) = "%"
         /\ \A i \in 1 .. Len(asked.flags) : Ch(AtSign + i) = asked.flags[i]
         /\ \A i \in 1 .. Len(Decimal(asked.width)) :
              Ch(AtWidth - 1 + i) = Decimal(asked.width)[i]
         /\ asked.point => /\ Ch(AtPoint) = "."
                           /\ \A i \in 1 .. Len(Decimal(asked.precision)) :
                                Ch(AtPrecision - 1 + i) = Decimal(asked.precision)[i]
         /\ Len(asked.qualifier) = 1 => Ch(AtQualifier) = asked.qualifier[1]
         /\ AtConv <= Len(Fmt) + 1 /\ Ch(AtConv) = asked.conv
         /\ asked.conv = "NUL" => Len(Fmt) = AtConv - 1
         /\ asked.conv # "NUL" => /\ Len(Fmt) = AtConv + Len(asked.after)
                                  /\ \A i \in 1 .. Len(asked.after) :
                                       Ch(AtConv + i) = asked.after[i]
<1>1. /\ AtSign \in Nat \ {0} /\ AtSign = Len(asked.before) + 1 /\ AtFlags = AtSign + 1
      /\ AtWidth - 1 \in Nat /\ AtPoint - 1 \in Nat /\ AtPrecision - 1 \in Nat
      /\ AtQualifier - 1 \in Nat /\ AtConv - 1 \in Nat
      /\ AtPoint \in Nat /\ AtQualifier \in Nat /\ AtConv \in Nat
  <2>1. /\ AtSign \in Nat \ {0} /\ AtSign = Len(asked.before) + 1 /\ AtFlags = AtSign + 1
        /\ AtWidth \in Nat /\ AtPoint \in Nat /\ AtPrecision \in Nat
        /\ AtQualifier \in Nat /\ AtConv \in Nat
        /\ AtWidth > AtSign /\ AtPoint >= AtWidth /\ AtPrecision >= AtPoint
        /\ AtQualifier >= AtPrecision /\ AtConv >= AtQualifier
    BY PlacesAre
  <2>2. AtWidth > 0 /\ AtPoint > 0 /\ AtPrecision > 0 /\ AtQualifier > 0 /\ AtConv > 0
    BY <2>1
  <2> QED
    BY <2>1, <2>2
<1>2. /\ LiesAt(Fmt, 0, asked.before) /\ LiesAt(Fmt, Len(asked.before), <<"%">>)
      /\ LiesAt(Fmt, AtSign, asked.flags)
      /\ LiesAt(Fmt, AtWidth - 1, Decimal(asked.width))
      /\ LiesAt(Fmt, AtPoint - 1, PointText)
      /\ LiesAt(Fmt, AtPrecision - 1, PrecisionText)
      /\ LiesAt(Fmt, AtQualifier - 1, asked.qualifier)
      /\ LiesAt(Fmt, AtConv - 1, Rest)
      /\ Len(Fmt) = AtConv - 1 + Len(Rest)
      /\ PointText \in Seq(Char) /\ PrecisionText \in Seq(Char) /\ Rest \in Seq(Char)
  BY PartsLie
<1>3. /\ asked.before \in Seq(Char) /\ Len(asked.before) \in Nat /\ asked.flags \in Seq(Char)
      /\ asked.qualifier \in Seq(Char) /\ asked.after \in Seq(Char) /\ Len(asked.after) \in Nat
      /\ Decimal(asked.width) \in Seq(Char) /\ Len(Fmt) \in Nat
  BY AskedFacts, DecimalIs, CallFacts
<1>4. \A i \in 1 .. Len(asked.before) : Ch(i) = asked.before[i]
  <2>1. \A i \in 1 .. Len(asked.before) : Ch(0 + i) = asked.before[i]
    BY <1>2, <1>3, LiesCh, 0 \in Nat
  <2>2. \A i \in 1 .. Len(asked.before) : 0 + i = i
    OBVIOUS
  <2> QED
    BY <2>1, <2>2
<1>5. Ch(AtSign) = "%"
  <2> DEFINE s == <<"%">>
  <2>1. s \in Seq(Char) /\ Len(s) = 1 /\ s[1] = "%"
    BY CharsOfKinds, StringFacts
  <2> HIDE DEF s
  <2>2. LiesAt(Fmt, Len(asked.before), s)
    BY <1>2 DEF s
  <2>3. \A i \in 1 .. 1 : Ch(Len(asked.before) + i) = s[i]
    BY <1>3, <2>1, <2>2, LiesCh
  <2> QED
    BY <1>1, <2>1, <2>3
<1>6. \A i \in 1 .. Len(asked.flags) : Ch(AtSign + i) = asked.flags[i]
  BY <1>1, <1>2, <1>3, LiesCh
<1>7. \A i \in 1 .. Len(Decimal(asked.width)) : Ch(AtWidth - 1 + i) = Decimal(asked.width)[i]
  BY <1>1, <1>2, <1>3, LiesCh
<1>8. ASSUME asked.point
      PROVE  /\ Ch(AtPoint) = "."
             /\ \A i \in 1 .. Len(Decimal(asked.precision)) :
                  Ch(AtPrecision - 1 + i) = Decimal(asked.precision)[i]
  <2>1. PointText = <<".">> /\ PrecisionText = Decimal(asked.precision)
    BY <1>8 DEF PointText, PrecisionText
  <2>2. \A i \in 1 .. Len(PrecisionText) : Ch(AtPrecision - 1 + i) = PrecisionText[i]
    BY <1>1, <1>2, LiesCh
  <2>3. \A i \in 1 .. Len(PointText) : Ch(AtPoint - 1 + i) = PointText[i]
    BY <1>1, <1>2, LiesCh
  <2>4. Len(PointText) = 1 /\ PointText[1] = "." /\ 1 \in 1 .. 1
    BY <2>1
  <2>5. Ch(AtPoint - 1 + 1) = "."
    BY <2>3, <2>4
  <2>6. AtPoint - 1 + 1 = AtPoint
    BY <1>1
  <2> QED
    BY <2>1, <2>2, <2>5, <2>6
<1>9. Len(asked.qualifier) = 1 => Ch(AtQualifier) = asked.qualifier[1]
  <2>1. \A i \in 1 .. Len(asked.qualifier) : Ch(AtQualifier - 1 + i) = asked.qualifier[i]
    BY <1>1, <1>2, <1>3, LiesCh
  <2>2. AtQualifier - 1 + 1 = AtQualifier /\ 1 \in 1 .. 1
    BY <1>1
  <2> QED
    BY <2>1, <2>2
<1>10. \A i \in 1 .. Len(Rest) : Ch(AtConv - 1 + i) = Rest[i]
  BY <1>1, <1>2, LiesCh
<1>11. ASSUME asked.conv = "NUL"
       PROVE  Len(Fmt) = AtConv - 1 /\ Ch(AtConv) = asked.conv
  <2>1. Len(Rest) = 0
    BY <1>11 DEF Rest
  <2>2. Len(Fmt) = AtConv - 1
    BY <1>1, <1>2, <2>1
  <2>3. AtConv \in Nat \ {0} /\ AtConv > Len(Fmt)
    BY <1>1, <1>3, <2>2
  <2> QED
    BY <1>11, <2>2, <2>3, ChIs
<1>12. ASSUME asked.conv # "NUL"
       PROVE  /\ Len(Fmt) = AtConv + Len(asked.after) /\ Ch(AtConv) = asked.conv
              /\ \A i \in 1 .. Len(asked.after) : Ch(AtConv + i) = asked.after[i]
  <2> DEFINE s == <<asked.conv>>
             u == asked.after
  <2>1. s \in Seq(Char) /\ Len(s) = 1 /\ s[1] = asked.conv
    BY <1>12, AskedFacts, StringFacts
  <2>2. Rest = s \o u
    BY <1>12 DEF Rest
  <2>3. u \in Seq(Char) /\ Len(u) \in Nat
    BY <1>3
  <2> HIDE DEF s, u
  <2>4. /\ Len(Rest) = 1 + Len(u)
        /\ \A i \in 1 .. 1 + Len(u) : Rest[i] = IF i <= 1 THEN s[i] ELSE u[i - 1]
    <3>1. /\ Len(s \o u) = Len(s) + Len(u)
          /\ \A i \in 1 .. Len(s) + Len(u) :
               (s \o u)[i] = IF i <= Len(s) THEN s[i] ELSE u[i - Len(s)]
      BY <2>1, <2>3, ConcatProperties
    <3> QED
      BY <2>1, <2>2, <3>1
  <2>5. Len(Fmt) = AtConv + Len(u)
    BY <1>1, <1>2, <2>3, <2>4
  <2>6. Ch(AtConv) = asked.conv
    <3>1. 1 \in 1 .. 1 + Len(u) /\ AtConv - 1 + 1 = AtConv
      BY <1>1, <2>3
    <3> QED
      BY <1>10, <2>1, <2>4, <3>1
  <2>7. ASSUME NEW i \in 1 .. Len(u) PROVE Ch(AtConv + i) = u[i]
    <3>1. /\ i + 1 \in 1 .. 1 + Len(u) /\ AtConv - 1 + (i + 1) = AtConv + i /\ (i + 1) - 1 = i
          /\ ~ (i + 1 <= 1)
      BY <1>1, <2>3
    <3> QED
      BY <1>10, <2>4, <3>1
  <2> QED
    BY <2>5, <2>6, <2>7 DEF u
<1>13. AtConv <= Len(Fmt) + 1 /\ Ch(AtConv) = asked.conv
  <2>1. CASE asked.conv = "NUL"
    BY <1>1, <1>3, <1>11, <2>1
  <2>2. CASE asked.conv # "NUL"
    BY <1>1, <1>3, <1>12, <2>2
  <2> QED
    BY <2>1, <2>2
<1> QED
  BY <1>4, <1>5, <1>6, <1>7, <1>8, <1>9, <1>11, <1>12, <1>13

LEMMA EmptyDecimal == Len(Decimal(-1)) = 0
BY DecimalIs

(* What stands where the scan looks for the parts of a directive. *)
LEMMA AtQualifierIs ==
  ASSUME InCall, asked.kind # "text", Fmt = Spelled(asked)
  PROVE  /\ Ch(AtQualifier) \in Qualifiers <=> Len(asked.qualifier) = 1
         /\ Len(asked.qualifier) = 1 => AtConv = AtQualifier + 1
         /\ Len(asked.qualifier) # 1 => AtConv = AtQualifier
         /\ ~ IsDigit(Ch(AtQualifier)) /\ Ch(AtQualifier) # "." /\ Ch(AtQualifier) \notin Flags
         /\ Ch(AtQualifier) = "*" => asked.conv = "*"
<1>1. /\ AtConv = AtQualifier + Len(asked.qualifier) /\ AtQualifier \in Nat
      /\ Len(asked.qualifier) \in {0, 1} /\ asked.conv \notin Modifiers
      /\ Len(asked.qualifier) = 1 => asked.qualifier[1] \in Qualifiers
  <2>1. /\ asked.qualifier = <<>>
           \/ (Len(asked.qualifier) = 1 /\ asked.qualifier[1] \in Qualifiers)
        /\ Len(asked.qualifier) \in {0, 1} /\ asked.conv \notin Modifiers
    BY AskedFacts
  <2>2. asked.qualifier = <<>> => Len(asked.qualifier) = 0
    BY StringFacts
  <2>3. AtConv = AtQualifier + Len(asked.qualifier) /\ AtQualifier \in Nat
    BY PlacesAre
  <2> QED
    BY <2>1, <2>2, <2>3
<1>2. Ch(AtConv) = asked.conv /\ (Len(asked.qualifier) = 1 => Ch(AtQualifier) = asked.qualifier[1])
  BY Layout
<1>3. CASE Len(asked.qualifier) = 1
  <2>1. Ch(AtQualifier) \in Qualifiers /\ AtConv = AtQualifier + 1
    BY <1>1, <1>2, <1>3
  <2> QED
    BY <1>3, <2>1, ModifiersAre DEF IsDigit
<1>4. CASE Len(asked.qualifier) # 1
  <2>1. AtConv = AtQualifier
    BY <1>1, <1>4
  <2>2. Ch(AtQualifier) = asked.conv /\ asked.conv \notin Modifiers
    BY <1>1, <1>2, <2>1
  <2> QED
    BY <1>4, <2>1, <2>2, ModifiersAre DEF IsDigit
<1> QED
  BY <1>3, <1>4

LEMMA AtPrecisionIs ==
  ASSUME InCall, asked.kind # "text", Fmt = Spelled(asked), asked.point
  PROVE  /\ AtPrecision = AtPoint + 1
         /\ asked.precision = -1 => AtQualifier = AtPrecision
         /\ asked.precision # -1 =>
              /\ IsDigit(Ch(AtPrecision)) /\ PastDigits(AtPrecision) = AtQualifier
              /\ Atoi(AtPrecision) = asked.precision
<1> DEFINE w == asked.precision
           d == Decimal(w)
<1>1. /\ AtPrecision = AtPoint + 1 /\ AtQualifier = AtPrecision + Len(d)
      /\ AtPrecision \in Nat \ {0} /\ AtQualifier <= AtConv /\ AtQualifier \in Nat
  <2>1. /\ AtPrecision = AtPoint + (IF asked.point THEN 1 ELSE 0)
        /\ AtQualifier = AtPrecision + (IF asked.point THEN Len(d) ELSE 0)
    BY PlacesAre, Zenon
  <2>2. AtPrecision = AtPoint + 1 /\ AtQualifier = AtPrecision + Len(d)
    BY <2>1, Zenon
  <2>3. /\ AtSign \in Nat \ {0} /\ AtWidth \in Nat /\ AtPoint \in Nat /\ AtPrecision \in Nat
        /\ AtWidth > AtSign /\ AtPoint >= AtWidth /\ AtPrecision >= AtPoint
        /\ AtQualifier <= AtConv /\ AtQualifier \in Nat
    BY PlacesAre
  <2> QED
    BY <2>2, <2>3
<1>2. CASE w = -1
  BY <1>1, <1>2, EmptyDecimal
<1>3. CASE w # -1
  <2>1. w \in 0 .. IntRange \div 2 - 1
    BY <1>3, AskedFacts
  <2>2. AtConv <= Len(Fmt) + 1 /\ Len(Fmt) \in Nat /\ Len(d) \in Nat /\ AtConv \in Nat
    BY Layout, PlacesAre, CallFacts, AskedFacts, DecimalIs
  <2>3. \A i \in 1 .. Len(d) : Ch(AtPrecision - 1 + i) = d[i]
    BY Layout
  <2>4. ~ IsDigit(Ch(AtPrecision + Len(d)))
    BY <1>1, AtQualifierIs
  <2> HIDE DEF d, w
  <2>5. AtPrecision \in 1 .. Len(Fmt) + 1 /\ AtPrecision + Len(d) <= Len(Fmt) + 1
    BY <1>1, <2>2
  <2>6. \A i \in 1 .. Len(d) : Ch(AtPrecision + i - 1) = d[i]
    <3>1. \A i \in 1 .. Len(d) : AtPrecision - 1 + i = AtPrecision + i - 1
      BY <1>1, <2>2
    <3> QED
      BY <2>3, <3>1
  <2>7. IsDigit(Ch(AtPrecision)) /\ PastDigits(AtPrecision) = AtPrecision + Len(d)
        /\ Atoi(AtPrecision) = w
    BY <2>1, <2>4, <2>5, <2>6, AtoiDecimal DEF d
  <2> QED
    BY <1>1, <1>3, <2>7 DEF w
<1> QED
  BY <1>2, <1>3

LEMMA AtPointIs ==
  ASSUME InCall, asked.kind # "text", Fmt = Spelled(asked)
  PROVE  /\ Ch(AtPoint) = "." <=> asked.point
         /\ ~ IsDigit(Ch(AtPoint)) /\ Ch(AtPoint) \notin Flags
         /\ Ch(AtPoint) = "*" => asked.conv = "*"
         /\ ~ asked.point => AtQualifier = AtPoint
<1>1. CASE asked.point
  <2>1. Ch(AtPoint) = "."
    BY <1>1, Layout
  <2> QED
    BY <1>1, <2>1, ModifiersAre DEF IsDigit
<1>2. CASE ~ asked.point
  <2>1. AtQualifier = AtPoint
    <3>1. /\ AtPrecision = AtPoint + (IF asked.point THEN 1 ELSE 0)
          /\ AtQualifier = AtPrecision + (IF asked.point THEN Len(Decimal(asked.precision)) ELSE 0)
          /\ AtPoint \in Nat
      BY PlacesAre, Zenon
    <3>2. AtPrecision = AtPoint + 0 /\ AtQualifier = AtPrecision + 0 /\ AtPoint \in Nat
      BY <1>2, <3>1, Zenon
    <3> QED
      BY <3>2
  <2> QED
    BY <1>2, <2>1, AtQualifierIs
<1> QED
  BY <1>1, <1>2

LEMMA AtWidthIs ==
  ASSUME InCall, asked.kind # "text", Fmt = Spelled(asked)
  PROVE  /\ Ch(AtWidth) \notin Flags
         /\ asked.width = -1 => AtPoint = AtWidth
         /\ asked.width # -1 =>
              /\ IsDigit(Ch(AtWidth)) /\ PastDigits(AtWidth) = AtPoint
              /\ Atoi(AtWidth) = asked.width
<1> DEFINE w == asked.width
           d == Decimal(w)
<1>1. /\ AtPoint = AtWidth + Len(d) /\ AtWidth \in Nat \ {0} /\ AtPoint \in Nat
      /\ AtPoint <= AtConv
  <2>1. /\ AtPoint = AtWidth + Len(d) /\ AtPoint \in Nat
    BY PlacesAre
  <2>2. /\ AtSign \in Nat \ {0} /\ AtWidth \in Nat /\ AtPoint \in Nat /\ AtPrecision \in Nat
        /\ AtWidth > AtSign /\ AtPoint >= AtWidth /\ AtPrecision >= AtPoint /\ AtConv \in Nat
        /\ AtQualifier >= AtPrecision /\ AtConv >= AtQualifier /\ AtQualifier \in Nat
    BY PlacesAre
  <2>3. AtPoint <= AtConv /\ AtWidth \in Nat \ {0}
    BY <2>2
  <2> QED
    BY <2>1, <2>3
<1>2. CASE w = -1
  <2>1. AtPoint = AtWidth
    BY <1>1, <1>2, EmptyDecimal
  <2> QED
    BY <1>2, <2>1, AtPointIs
<1>3. CASE w # -1
  <2>1. w \in 0 .. IntRange \div 2 - 1 /\ w # 0 /\ w \in 0 .. IntRange - 1
    BY <1>3, AskedFacts, RangeFacts
  <2>2. AtConv <= Len(Fmt) + 1 /\ Len(Fmt) \in Nat /\ AtConv \in Nat
    BY Layout, PlacesAre, CallFacts
  <2>3. \A i \in 1 .. Len(d) : Ch(AtWidth - 1 + i) = d[i]
    BY Layout
  <2>4. ~ IsDigit(Ch(AtWidth + Len(d)))
    BY <1>1, AtPointIs
  <2>8. Len(d) \in Nat /\ Len(d) > 0 /\ d[1] \notin Flags
    BY <1>3, <2>1, DecimalIs
  <2> HIDE DEF d, w
  <2>5. AtWidth \in 1 .. Len(Fmt) + 1 /\ AtWidth + Len(d) <= Len(Fmt) + 1
    BY <1>1, <2>2, <2>8
  <2>6. \A i \in 1 .. Len(d) : Ch(AtWidth + i - 1) = d[i]
    <3>1. \A i \in 1 .. Len(d) : AtWidth - 1 + i = AtWidth + i - 1
      BY <1>1, <2>8
    <3> QED
      BY <2>3, <3>1
  <2>7. IsDigit(Ch(AtWidth)) /\ PastDigits(AtWidth) = AtWidth + Len(d) /\ Atoi(AtWidth) = w
    BY <2>1, <2>4, <2>5, <2>6, AtoiDecimal DEF d
  <2>9. Ch(AtWidth) \notin Flags
    <3>1. 1 \in 1 .. Len(d) /\ AtWidth + 1 - 1 = AtWidth
      BY <1>1, <2>8
    <3> QED
      BY <2>6, <2>8, <3>1
  <2> QED
    BY <1>1, <1>3, <2>7, <2>9 DEF w
<1> QED
  BY <1>2, <1>3

-----------------------------------------------------------------------------
(* The scan follows what is asked.                                         *)

LEMMA BegunNext ==
  ASSUME NEW s \in Seq(Char), NEW n \in 1 .. Len(s)
  PROVE  Append(Begun(s, n - 1), s[n]) = Begun(s, n) /\ Begun(s, n - 1) \in Seq(Char)
<1>1. \A i \in 1 .. n : s[i] \in Char
  BY ElementOfSeq
<1>2. n - 1 \in Nat /\ \A i \in 1 .. n - 1 : i \in 1 .. n
  OBVIOUS
<1>3. Begun(s, n - 1) \in Seq(Char) /\ Len(Begun(s, n - 1)) = n - 1
  BY <1>1, <1>2 DEF Begun
<1>4. Append(Begun(s, n - 1), s[n]) = Begun(s, n)
  BY <1>1, <1>2, <1>3 DEF Begun
<1> QED
  BY <1>3, <1>4

LEMMA BegunNone == ASSUME NEW s, NEW n \in Int, n <= 0 PROVE Begun(s, n) = <<>>
<1>1. \A i : i \notin 1 .. n
  OBVIOUS
<1> QED
  BY <1>1 DEF Begun

LEMMA BegunAll == ASSUME NEW s \in Seq(Char) PROVE Begun(s, Len(s)) = s
BY DEF Begun

LEMMA AppendBehind ==
  ASSUME NEW s \in Seq(Char), NEW t \in Seq(Char), NEW c \in Char
  PROVE  Append(s \o t, c) = s \o Append(t, c)
<1>1. <<c>> \in Seq(Char) /\ s \o t \in Seq(Char)
  BY StringFacts, JoinedIs
<1>2. Append(s \o t, c) = (s \o t) \o <<c>> /\ Append(t, c) = t \o <<c>>
  BY <1>1, AppendIsConcat
<1>3. (s \o t) \o <<c>> = s \o (t \o <<c>>)
  BY <1>1, JoinTwice, Zenon DEF Associative, Strings
<1> QED
  BY <1>2, <1>3

(* Field, and what it depends on. *)
Laid(c, number, string, char, size, type) ==
  LET body == CASE c \in DOMAIN Base -> number
                [] c = "s" -> string
                [] c = "c" -> char
                [] c = "n" -> <<>>
                [] c \in {"%", "NUL"} -> <<"%">>
                [] OTHER -> <<"%", c>>
      pad  == IF c \in Conversions \ {"n"} THEN Pad(size - Len(body), " ") ELSE <<>>
  IN  IF "-" \in type THEN body \o pad ELSE pad \o body

LEMMA FieldLaid ==
  Field = Laid(asked.conv, FieldNumber, FieldString, value.s, FieldWidth, FieldFlags)
BY Zenon DEF Field, Laid

LEMMA SameAsked ==
  ASSUME calls' = calls
  PROVE  /\ asked' = asked /\ value' = value /\ Spelled(asked)' = Spelled(asked) /\ Fmt' = Fmt
         /\ AtSign' = AtSign /\ AtFlags' = AtFlags /\ AtWidth' = AtWidth /\ AtPoint' = AtPoint
         /\ AtQualifier' = AtQualifier /\ AtConv' = AtConv
         /\ FieldPrecision' = FieldPrecision /\ Field' = Field
<1>1. asked' = asked /\ value' = value /\ Fmt' = Fmt
  BY DEF asked, value, Fmt
<1>2. Spelled(asked)' = Spelled(asked)
  BY <1>1, Zenon DEF Spelled
<1>3. AtSign' = AtSign
  BY <1>1, Zenon DEF AtSign
<1>4. AtFlags' = AtFlags
  BY <1>3, Zenon DEF AtFlags
<1>5. AtWidth' = AtWidth
  BY <1>1, <1>4, Zenon DEF AtWidth
<1>6. AtPoint' = AtPoint
  BY <1>1, <1>5, Zenon DEF AtPoint
<1>7. AtPrecision' = AtPrecision
  BY <1>1, <1>6, Zenon DEF AtPrecision
<1>8. AtQualifier' = AtQualifier
  BY <1>1, <1>7, Zenon DEF AtQualifier
<1>9. AtConv' = AtConv
  BY <1>1, <1>8, Zenon DEF AtConv
<1>10. Bare' = Bare
  BY <1>1, Zenon DEF Bare
<1>11. FieldFlags' = FieldFlags
  BY <1>1, <1>10, Zenon DEF FieldFlags
<1>12. FieldWidth' = FieldWidth
  BY <1>1, <1>10, Zenon DEF FieldWidth
<1>13. FieldPrecision' = FieldPrecision
  BY <1>1, Zenon DEF FieldPrecision
<1>14. FieldNumber' = FieldNumber
  BY <1>1, <1>11, <1>12, <1>13, Zenon DEF FieldNumber
<1>15. FieldString' = FieldString
  BY <1>1, <1>13, Zenon DEF FieldString
<1>16. Field' = Field
  <2>1. (Field = Laid(asked.conv, FieldNumber, FieldString, value.s, FieldWidth, FieldFlags))'
    BY FieldLaid, PTL
  <2> QED
    BY <1>1, <1>11, <1>12, <1>14, <1>15, <2>1, FieldLaid, Zenon
<1> QED
  BY <1>1, <1>2, <1>3, <1>4, <1>5, <1>6, <1>8, <1>9, <1>13, <1>16

(* What is left to show of a step back into the text, and of one in a      *)
(* directive.                                                              *)
LEMMA TextFollows ==
  ASSUME calls' = calls, part' \in {"text", "shown"},
         ASSUME Fmt = Spelled(asked)
         PROVE  /\ pos' <= AtSign =>
                     out' = Begun(asked.before, pos' - 1) /\ count' = -1 /\ arg' = 1
                /\ pos' > AtSign =>
                     /\ asked.kind # "text" /\ Field \in Seq(Char)
                     /\ IF asked.conv = "NUL" THEN pos' = AtConv
                        ELSE pos' \in AtConv + 1 .. AtConv + 1 + Len(asked.after)
                     /\ out' = asked.before \o Field \o Begun(asked.after, pos' - AtConv - 1)
                     /\ count' = IF asked.conv = "n" THEN Len(asked.before) ELSE -1
  PROVE  FollowsAsked'
<1>1. part' \notin {"flags", "precision", "qualifier", "conversion"}
  OBVIOUS
<1>2. InFlags' /\ InPrecision' /\ InQualifier' /\ InConversion'
  BY <1>1, Zenon DEF InFlags, InPrecision, InQualifier, InConversion
<1>3. (Fmt = Spelled(asked))' => Fmt = Spelled(asked)
  BY SameAsked, Zenon
<1>4. ASSUME Fmt = Spelled(asked) PROVE BeforeSign' /\ BehindField'
  <2>1. BeforeSign'
    BY <1>4, SameAsked, Zenon DEF BeforeSign
  <2>2. BehindField'
    BY <1>4, SameAsked, Zenon DEF BehindField
  <2> QED
    BY <2>1, <2>2
<1> QED
  BY <1>2, <1>3, <1>4, Zenon DEF FollowsAsked

LEMMA DirectiveFollows ==
  ASSUME calls' = calls, part' \notin {"text", "shown"},
         ASSUME Fmt = Spelled(asked)
         PROVE  InFlags' /\ InPrecision' /\ InQualifier' /\ InConversion'
  PROVE  FollowsAsked'
<1>1. (Fmt = Spelled(asked))' => Fmt = Spelled(asked)
  BY SameAsked, Zenon
<1>2. BeforeSign' /\ BehindField'
  BY Zenon DEF BeforeSign, BehindField
<1> QED
  BY <1>1, <1>2, Zenon DEF FollowsAsked

LEMMA FollowFacts ==
  ASSUME PrintfInv, FollowsAsked, Fmt = Spelled(asked)
  PROVE  /\ BeforeSign /\ InFlags /\ InPrecision /\ InQualifier /\ InConversion /\ BehindField
         /\ InCall /\ pos \in 1 .. Len(Fmt) + 1 /\ Len(Fmt) \in Nat /\ pos \in Nat \ {0}
         /\ Here = Ch(pos) /\ (Here = "NUL" <=> pos = Len(Fmt) + 1)
         /\ AtSign \in Nat \ {0} /\ AtSign = Len(asked.before) + 1 /\ AtFlags = AtSign + 1
         /\ AtConv \in Nat
         /\ asked.kind = "text" => Len(Fmt) = AtSign - 1
         /\ asked.before \in Seq(Char) /\ asked.after \in Seq(Char)
         /\ asked.kind \in {"text", "field"}
         /\ \A i \in 1 .. Len(asked.before) : Ch(i) = asked.before[i] /\ asked.before[i] \in Plain
<1>1. /\ InCall /\ pos \in 1 .. Len(Fmt) + 1 /\ Len(Fmt) \in Nat /\ pos \in Nat \ {0}
      /\ (Here = "NUL" <=> pos = Len(Fmt) + 1)
  BY ScanFacts
<1>2. /\ AtSign \in Nat \ {0} /\ AtSign = Len(asked.before) + 1 /\ AtFlags = AtSign + 1
      /\ AtConv \in Nat
  BY <1>1, PlacesAre
<1>3. /\ asked.before \in Seq(Char) /\ asked.after \in Seq(Char) /\ Len(asked.before) \in Nat
      /\ \A i \in 1 .. Len(asked.before) : asked.before[i] \in Plain
  BY <1>1, AskedFacts
<1>4. asked.kind = "text" => Fmt = asked.before
  BY Zenon DEF Spelled
<1>5. asked.kind = "text" => Len(Fmt) = AtSign - 1
  BY <1>2, <1>3, <1>4
<1>6. asked.kind \in {"text", "field"}
  <2>1. asked \in Asked
    BY <1>1, CallFacts DEF asked
  <2> QED
    BY <2>1, Zenon DEF Asked
<1>7. \A i \in 1 .. Len(asked.before) : Ch(i) = asked.before[i]
  <2>1. CASE asked.kind = "text"
    BY <1>1, <1>3, <1>4, <2>1, ChIs
  <2>2. CASE asked.kind # "text"
    BY <1>1, <2>2, Layout
  <2> QED
    BY <2>1, <2>2
<1> QED
  BY <1>1, <1>2, <1>3, <1>5, <1>6, <1>7, Zenon DEF FollowsAsked, Here

LEMMA TextFollowed == PrintfInv /\ FollowsAsked /\ Text => FollowsAsked'
<1> SUFFICES ASSUME PrintfInv, FollowsAsked, Text PROVE FollowsAsked'
  OBVIOUS
<1>1. /\ part = "text" /\ part' = "text" /\ Here \notin {"%", "NUL"}
      /\ out' = Append(out, Here) /\ pos' = pos + 1
      /\ calls' = calls /\ arg' = arg /\ count' = count
  BY DEF Text, Move
<1>2. ASSUME Fmt = Spelled(asked), pos' <= AtSign
      PROVE  out' = Begun(asked.before, pos' - 1) /\ count' = -1 /\ arg' = 1
  <2>1. pos \in 1 .. Len(asked.before) /\ pos' - 1 = pos /\ pos <= AtSign
    BY <1>1, <1>2, FollowFacts
  <2>2. Here = asked.before[pos]
    BY <1>2, <2>1, FollowFacts
  <2>3. out = Begun(asked.before, pos - 1) /\ count = -1 /\ arg = 1
    BY <1>1, <1>2, <2>1, FollowFacts DEF BeforeSign
  <2>4. Append(Begun(asked.before, pos - 1), asked.before[pos]) = Begun(asked.before, pos)
    BY <1>2, <2>1, FollowFacts, BegunNext
  <2> QED
    BY <1>1, <2>1, <2>2, <2>3, <2>4
<1>3. ASSUME Fmt = Spelled(asked), pos' > AtSign
      PROVE  /\ asked.kind # "text" /\ Field \in Seq(Char)
             /\ IF asked.conv = "NUL" THEN pos' = AtConv
                ELSE pos' \in AtConv + 1 .. AtConv + 1 + Len(asked.after)
             /\ out' = asked.before \o Field \o Begun(asked.after, pos' - AtConv - 1)
             /\ count' = IF asked.conv = "n" THEN Len(asked.before) ELSE -1
  <2>1. pos > AtSign
    <3>1. pos # AtSign
      <4>1. asked.kind = "text" => pos # AtSign
        BY <1>1, <1>3, FollowFacts
      <4>2. asked.kind # "text" => Ch(AtSign) = "%"
        BY <1>3, FollowFacts, Layout
      <4> QED
        BY <1>1, <1>3, <4>1, <4>2, FollowFacts
    <3> QED
      BY <1>1, <1>3, <3>1, FollowFacts
  <2>2. /\ asked.kind # "text" /\ Field \in Seq(Char)
        /\ IF asked.conv = "NUL" THEN pos = AtConv
           ELSE pos \in AtConv + 1 .. AtConv + 1 + Len(asked.after)
        /\ out = asked.before \o Field \o Begun(asked.after, pos - AtConv - 1)
        /\ count = IF asked.conv = "n" THEN Len(asked.before) ELSE -1
    BY <1>1, <1>3, <2>1, FollowFacts DEF BehindField
  <2>3. /\ AtConv \in Nat
        /\ asked.conv = "NUL" => Len(Fmt) = AtConv - 1
        /\ asked.conv # "NUL" => /\ Len(Fmt) = AtConv + Len(asked.after)
                                 /\ \A i \in 1 .. Len(asked.after) :
                                      Ch(AtConv + i) = asked.after[i]
    BY <1>3, <2>2, FollowFacts, Layout
  <2>4. asked.conv # "NUL"
    <3>1. asked.conv = "NUL" => pos = Len(Fmt) + 1
      BY <2>2, <2>3
    <3> QED
      BY <1>1, <1>3, <3>1, FollowFacts
  <2> DEFINE i == pos - AtConv
             b == asked.before
             a == asked.after
  <2>5. Len(a) \in Nat /\ b \in Seq(Char) /\ a \in Seq(Char)
    BY <1>3, FollowFacts, LenNat
  <2>6. i \in 1 .. Len(a) /\ AtConv + i = pos /\ pos' - AtConv - 1 = i /\ pos - AtConv - 1 = i - 1
    <3>1. pos \in AtConv + 1 .. AtConv + 1 + Len(a)
      BY <2>2, <2>4
    <3>2. Len(Fmt) = AtConv + Len(a) /\ pos # Len(Fmt) + 1
      BY <1>1, <1>3, <2>3, <2>4, FollowFacts
    <3>3. pos' = pos + 1 /\ AtConv \in Nat /\ Len(a) \in Nat
      BY <1>1, <2>3, <2>5
    <3> HIDE DEF a
    <3> QED
      BY <3>1, <3>2, <3>3
  <2> HIDE DEF i
  <2>7. Here = a[i]
    BY <1>3, <2>3, <2>4, <2>6, FollowFacts
  <2>8. out' = Append(b \o Field \o Begun(a, i - 1), a[i])
    BY <1>1, <2>2, <2>6, <2>7
  <2> HIDE DEF a, b
  <2>9. Append(Begun(a, i - 1), a[i]) = Begun(a, i) /\ Begun(a, i - 1) \in Seq(Char)
        /\ a[i] \in Char
    BY <2>5, <2>6, BegunNext, ElementOfSeq
  <2>10. b \o Field \in Seq(Char)
    BY <2>2, <2>5, JoinedIs
  <2>11. Append(b \o Field \o Begun(a, i - 1), a[i]) = b \o Field \o Begun(a, i)
    BY <2>9, <2>10, AppendBehind
  <2>12. pos' \in AtConv + 1 .. AtConv + 1 + Len(a)
    <3>1. /\ pos' = pos + 1 /\ AtConv \in Nat /\ Len(a) \in Nat /\ AtConv + i = pos
          /\ i \in 1 .. Len(a)
      BY <1>1, <2>3, <2>5, <2>6
    <3> QED
      BY <3>1
  <2> QED
    BY <1>1, <2>2, <2>4, <2>6, <2>8, <2>11, <2>12 DEF a, b
<1> QED
  BY <1>1, <1>2, <1>3, TextFollows

LEMMA PercentFollowed == PrintfInv /\ FollowsAsked /\ Percent => FollowsAsked'
<1> SUFFICES ASSUME PrintfInv, FollowsAsked, Percent PROVE FollowsAsked'
  OBVIOUS
<1>1. /\ part = "text" /\ part' = "flags" /\ Here = "%" /\ pos' = pos + 1 /\ flags' = {}
      /\ calls' = calls /\ arg' = arg /\ count' = count /\ out' = out
  BY DEF Percent, Move
<1>2. ASSUME Fmt = Spelled(asked) PROVE InFlags' /\ InPrecision' /\ InQualifier' /\ InConversion'
  <2>1. "%" \notin Plain /\ "%" # "NUL"
    BY CharsAre, CharAssumption DEF Plain
  <2>2. ~ (pos < AtSign)
    <3>1. pos < AtSign => pos \in 1 .. Len(asked.before)
      BY <1>2, FollowFacts
    <3> QED
      BY <1>1, <1>2, <2>1, <3>1, FollowFacts
  <2>3. ~ (pos > AtSign)
    <3> SUFFICES ASSUME pos > AtSign PROVE FALSE
      OBVIOUS
    <3>1. /\ asked.kind # "text"
          /\ IF asked.conv = "NUL" THEN pos = AtConv
             ELSE pos \in AtConv + 1 .. AtConv + 1 + Len(asked.after)
      BY <1>1, <1>2, FollowFacts DEF BehindField
    <3>2. /\ AtConv \in Nat
          /\ asked.conv = "NUL" => Len(Fmt) = AtConv - 1
          /\ asked.conv # "NUL" => /\ Len(Fmt) = AtConv + Len(asked.after)
                                   /\ \A i \in 1 .. Len(asked.after) :
                                        Ch(AtConv + i) = asked.after[i]
      BY <1>2, <3>1, FollowFacts, Layout
    <3>3. Len(asked.after) \in Nat /\ \A i \in 1 .. Len(asked.after) : asked.after[i] \in Plain
      BY <1>2, FollowFacts, AskedFacts
    <3>4. pos <= Len(Fmt)
      BY <1>1, <1>2, <2>1, FollowFacts
    <3>5. /\ pos - AtConv \in 1 .. Len(asked.after) /\ AtConv + (pos - AtConv) = pos
          /\ asked.conv # "NUL"
      <4> DEFINE l == Len(asked.after)
      <4>1. asked.conv = "NUL" => pos = AtConv /\ Len(Fmt) = AtConv - 1
        BY <3>1, <3>2
      <4>2. asked.conv # "NUL" => pos \in AtConv + 1 .. AtConv + 1 + l /\ Len(Fmt) = AtConv + l
        BY <3>1, <3>2
      <4>3. AtConv \in Nat /\ l \in Nat /\ pos \in Nat
        BY <1>2, <3>2, <3>3, FollowFacts
      <4> HIDE DEF l
      <4>4. asked.conv # "NUL"
        BY <3>4, <4>1, <4>3
      <4>5. pos - AtConv \in 1 .. l /\ AtConv + (pos - AtConv) = pos
        BY <3>4, <4>2, <4>3, <4>4
      <4> QED
        BY <4>4, <4>5 DEF l
    <3>6. Ch(pos) \in Plain
      BY <3>2, <3>3, <3>5
    <3> QED
      BY <1>1, <1>2, <2>1, <3>6, FollowFacts
  <2>4. pos = AtSign
    BY <1>2, <2>2, <2>3, FollowFacts
  <2>5. asked.kind # "text"
    BY <1>1, <1>2, <2>1, <2>4, FollowFacts
  <2>6. out = asked.before /\ count = -1 /\ arg = 1
    <3>1. out = Begun(asked.before, pos - 1) /\ count = -1 /\ arg = 1
      BY <1>1, <1>2, <2>4, FollowFacts DEF BeforeSign
    <3>2. pos - 1 = Len(asked.before)
      BY <1>2, <2>4, FollowFacts, LenNat
    <3> QED
      BY <1>2, <3>1, <3>2, FollowFacts, BegunAll
  <2>7. AtWidth \in Nat /\ AtWidth >= AtFlags /\ AtFlags \in Nat
    BY <1>2, FollowFacts, PlacesAre
  <2>8. pos' = AtFlags /\ pos' \in AtFlags .. AtWidth
    BY <1>1, <1>2, <2>4, <2>7, FollowFacts
  <2>9. {asked.flags[i] : i \in 1 .. pos' - AtFlags} = {}
    <3>1. \A i : i \notin 1 .. pos' - AtFlags
      BY <2>7, <2>8
    <3> QED
      BY <3>1
  <2>10. InFlags'
    BY <1>1, <2>5, <2>6, <2>8, <2>9, SameAsked DEF InFlags, Asks
  <2>11. InPrecision' /\ InQualifier' /\ InConversion'
    <3>1. part' \notin {"precision", "qualifier", "conversion"}
      BY <1>1
    <3> QED
      BY <3>1, Zenon DEF InPrecision, InQualifier, InConversion
  <2> QED
    BY <2>10, <2>11
<1>3. part' \notin {"text", "shown"}
  BY <1>1
<1> QED
  BY <1>1, <1>2, <1>3, DirectiveFollows

(* The flags are in the set up to where the scan is. *)
LEMMA InFlagsIs ==
  ASSUME PrintfInv, FollowsAsked, Fmt = Spelled(asked), part = "flags"
  PROVE  /\ Asks /\ arg = 1 /\ flags = {asked.flags[i] : i \in 1 .. pos - AtFlags}
         /\ pos \in AtFlags .. AtWidth /\ AtWidth \in Nat /\ AtFlags \in Nat
         /\ AtWidth = AtFlags + Len(asked.flags) /\ AtFlags = AtSign + 1
         /\ Len(asked.flags) \in Nat /\ DOMAIN asked.flags = 1 .. Len(asked.flags)
         /\ Here \in Flags <=> pos < AtWidth
         /\ pos < AtWidth => Here = asked.flags[pos + 1 - AtFlags]
<1>1. /\ Asks /\ arg = 1 /\ flags = {asked.flags[i] : i \in 1 .. pos - AtFlags}
      /\ pos \in AtFlags .. AtWidth /\ InCall /\ Here = Ch(pos)
  BY FollowFacts DEF InFlags
<1>2. asked.kind # "text"
  BY <1>1 DEF Asks
<1>3. /\ AtWidth \in Nat /\ AtFlags \in Nat /\ AtSign \in Nat
      /\ AtWidth = AtFlags + Len(asked.flags) /\ AtFlags = AtSign + 1
  BY <1>1, PlacesAre
<1>4. /\ Len(asked.flags) \in Nat /\ asked.flags \in Seq(Char)
      /\ \A i \in 1 .. Len(asked.flags) : asked.flags[i] \in Flags
  BY <1>1, AskedFacts
<1>5. \A i \in 1 .. Len(asked.flags) : Ch(AtSign + i) = asked.flags[i]
  BY <1>1, <1>2, Layout
<1>6. Ch(AtWidth) \notin Flags
  BY <1>1, <1>2, AtWidthIs
<1> DEFINE l == Len(asked.flags)
           k == pos + 1 - AtFlags
<1>7. pos < AtWidth => k \in 1 .. l /\ AtSign + k = pos
  <2>1. /\ AtWidth = AtFlags + l /\ l \in Nat /\ AtFlags = AtSign + 1 /\ AtSign \in Nat
        /\ AtFlags \in Nat
    BY <1>3, <1>4
  <2>2. pos \in AtFlags .. AtWidth
    BY <1>1
  <2> HIDE DEF l
  <2> QED
    BY <2>1, <2>2
<1>8. ~(pos < AtWidth) => pos = AtWidth
  <2>1. pos \in AtFlags .. AtWidth
    BY <1>1
  <2>2. AtWidth \in Nat /\ AtFlags \in Nat
    BY <1>3
  <2> QED
    BY <2>1, <2>2
<1> HIDE DEF k
<1>9. pos < AtWidth => Here = asked.flags[k] /\ asked.flags[k] \in Flags
  BY <1>1, <1>4, <1>5, <1>7
<1>10. Here \in Flags <=> pos < AtWidth
  BY <1>1, <1>6, <1>8, <1>9
<1>11. DOMAIN asked.flags = 1 .. Len(asked.flags)
  BY <1>4
<1> QED
  BY <1>1, <1>3, <1>4, <1>9, <1>10, <1>11 DEF k

LEMMA FlagFollowed == PrintfInv /\ FollowsAsked /\ Flag => FollowsAsked'
<1> SUFFICES ASSUME PrintfInv, FollowsAsked, Flag PROVE FollowsAsked'
  OBVIOUS
<1>1. /\ part = "flags" /\ part' = "flags" /\ Here \in Flags /\ flags' = flags \cup {Here}
      /\ pos' = pos + 1 /\ calls' = calls /\ arg' = arg /\ count' = count /\ out' = out
  BY DEF Flag, Move
<1>2. ASSUME Fmt = Spelled(asked) PROVE InFlags' /\ InPrecision' /\ InQualifier' /\ InConversion'
  <2>1. /\ Asks /\ arg = 1 /\ flags = {asked.flags[i] : i \in 1 .. pos - AtFlags}
        /\ pos \in AtFlags .. AtWidth /\ AtWidth \in Nat /\ AtFlags \in Nat
        /\ pos < AtWidth /\ Here = asked.flags[pos + 1 - AtFlags]
    BY <1>1, <1>2, InFlagsIs
  <2>2. pos' \in AtFlags .. AtWidth /\ pos' - AtFlags = pos + 1 - AtFlags
    BY <1>1, <2>1
  <2>3. \A i : i \in 1 .. pos' - AtFlags <=> i \in 1 .. pos - AtFlags \/ i = pos + 1 - AtFlags
    BY <1>1, <2>1, <2>2
  <2>4. flags' = {asked.flags[i] : i \in 1 .. pos' - AtFlags}
    BY <1>1, <2>1, <2>3
  <2>5. InFlags'
    BY <1>1, <2>1, <2>2, <2>4, SameAsked DEF InFlags, Asks
  <2>6. InPrecision' /\ InQualifier' /\ InConversion'
    <3>1. part' \notin {"precision", "qualifier", "conversion"}
      BY <1>1
    <3> QED
      BY <3>1, Zenon DEF InPrecision, InQualifier, InConversion
  <2> QED
    BY <2>5, <2>6
<1>3. part' \notin {"text", "shown"}
  BY <1>1
<1> QED
  BY <1>1, <1>2, <1>3, DirectiveFollows

LEMMA WidthFollowed == PrintfInv /\ FollowsAsked /\ Width => FollowsAsked'
<1> SUFFICES ASSUME PrintfInv, FollowsAsked, Width PROVE FollowsAsked'
  OBVIOUS
<1>1. /\ part = "flags" /\ part' = "precision" /\ Here \notin Flags
      /\ calls' = calls /\ count' = count /\ out' = out
      /\ IsDigit(Here) => width' = Atoi(pos) /\ pos' = PastDigits(pos)
      /\ ~ IsDigit(Here) => pos' = pos
      /\ Here # "*" => arg' = arg /\ flags' = flags
      /\ ~ IsDigit(Here) /\ Here # "*" => width' = -1
  BY ModifiersAre DEF Width, Move, IsDigit
<1>2. ASSUME Fmt = Spelled(asked) PROVE InFlags' /\ InPrecision' /\ InQualifier' /\ InConversion'
  <2>1. /\ Asks /\ arg = 1 /\ flags = {asked.flags[i] : i \in 1 .. pos - AtFlags}
        /\ pos \in AtFlags .. AtWidth /\ AtWidth \in Nat /\ AtFlags \in Nat
        /\ AtWidth = AtFlags + Len(asked.flags) /\ Len(asked.flags) \in Nat
        /\ DOMAIN asked.flags = 1 .. Len(asked.flags) /\ ~ (pos < AtWidth)
    BY <1>1, <1>2, InFlagsIs
  <2>2. pos = AtWidth /\ pos - AtFlags = Len(asked.flags)
    BY <2>1
  <2>3. flags = Range(asked.flags)
    BY <2>1, <2>2 DEF Range
  <2>4. InCall /\ asked.kind # "text" /\ Here = Ch(AtWidth)
    BY <1>2, <2>1, <2>2, FollowFacts DEF Asks
  <2>5. pos' = AtPoint /\ width' = asked.width /\ Here # "*"
    <3>1. CASE asked.width = -1
      <4>1. AtPoint = AtWidth
        BY <1>2, <2>4, <3>1, AtWidthIs
      <4>2. ~ IsDigit(Here) /\ Here # "*"
        BY <1>2, <2>4, <4>1, AtPointIs, AskedFacts
      <4> QED
        BY <1>1, <2>2, <3>1, <4>1, <4>2
    <3>2. CASE asked.width # -1
      <4>1. IsDigit(Here) /\ PastDigits(pos) = AtPoint /\ Atoi(pos) = asked.width
        BY <1>2, <2>2, <2>4, <3>2, AtWidthIs
      <4>2. Here # "*"
        BY <4>1, ModifiersAre DEF IsDigit
      <4> QED
        BY <1>1, <4>1, <4>2
    <3> QED
      BY <3>1, <3>2
  <2>6. InPrecision'
    BY <1>1, <2>1, <2>3, <2>5, SameAsked, Zenon DEF InPrecision, WidthRead, Asks
  <2>7. InFlags' /\ InQualifier' /\ InConversion'
    <3>1. part' \notin {"flags", "qualifier", "conversion"}
      BY <1>1
    <3> QED
      BY <3>1, Zenon DEF InFlags, InQualifier, InConversion
  <2> QED
    BY <2>6, <2>7
<1>3. part' \notin {"text", "shown"}
  BY <1>1
<1> QED
  BY <1>1, <1>2, <1>3, DirectiveFollows

LEMMA PrecisionFollowed == PrintfInv /\ FollowsAsked /\ Precision => FollowsAsked'
<1> SUFFICES ASSUME PrintfInv, FollowsAsked, Precision PROVE FollowsAsked'
  OBVIOUS
<1> DEFINE next == Ch(pos + 1)
<1>1. /\ part = "precision" /\ part' = "qualifier"
      /\ calls' = calls /\ count' = count /\ out' = out /\ flags' = flags /\ width' = width
  BY DEF Precision, Move
<1>2. /\ Here # "." => precision' = -1 /\ pos' = pos /\ arg' = arg
      /\ Here = "." /\ IsDigit(next) =>
           precision' = Most(Atoi(pos + 1), 0) /\ pos' = PastDigits(pos + 1) /\ arg' = arg
      /\ Here = "." /\ ~ IsDigit(next) => pos' = pos + 1
      /\ Here = "." /\ ~ IsDigit(next) /\ next # "*" => precision' = 0 /\ arg' = arg
  BY ModifiersAre DEF Precision, IsDigit
<1> HIDE DEF next
<1>3. ASSUME Fmt = Spelled(asked) PROVE InFlags' /\ InPrecision' /\ InQualifier' /\ InConversion'
  <2>1. Asks /\ pos = AtPoint /\ WidthRead
    BY <1>1, <1>3, FollowFacts DEF InPrecision
  <2>2. InCall /\ asked.kind # "text" /\ Here = Ch(AtPoint)
    BY <1>3, <2>1, FollowFacts DEF Asks
  <2>3. pos' = AtQualifier /\ precision' = FieldPrecision /\ arg' = arg
    <3>1. CASE ~ asked.point
      <4>1. Here # "." /\ AtQualifier = AtPoint
        BY <1>3, <2>2, <3>1, AtPointIs
      <4>2. FieldPrecision = -1
        BY <3>1, Zenon DEF FieldPrecision
      <4> QED
        BY <1>2, <2>1, <4>1, <4>2
    <3>2. CASE asked.point /\ asked.precision = -1
      <4>1. Here = "." /\ AtQualifier = AtPoint + 1
        BY <1>3, <2>2, <3>2, AtPointIs, AtPrecisionIs
      <4>2. FieldPrecision = 0
        BY <3>2 DEF FieldPrecision, Most
      <4>3. next = Ch(AtQualifier)
        BY <2>1, <4>1 DEF next
      <4>4. ~ IsDigit(next) /\ next # "*"
        BY <1>3, <2>2, <4>3, AtQualifierIs, AskedFacts
      <4> QED
        BY <1>2, <2>1, <4>1, <4>2, <4>4
    <3>3. CASE asked.point /\ asked.precision # -1
      <4>1. /\ Here = "." /\ AtPrecision = AtPoint + 1 /\ IsDigit(Ch(AtPrecision))
            /\ PastDigits(AtPrecision) = AtQualifier /\ Atoi(AtPrecision) = asked.precision
        BY <1>3, <2>2, <3>3, AtPointIs, AtPrecisionIs
      <4>2. FieldPrecision = Most(asked.precision, 0)
        BY <3>3 DEF FieldPrecision
      <4> QED
        BY <1>2, <2>1, <4>1, <4>2 DEF next
    <3> QED
      BY <3>1, <3>2, <3>3
  <2>4. InQualifier'
    <3>1. Asks' /\ pos' = AtQualifier'
      BY <1>1, <2>1, <2>3, SameAsked, Zenon DEF Asks
    <3>2. WidthRead'
      BY <1>1, <2>1, <2>3, SameAsked DEF WidthRead
    <3>3. PrecisionRead'
      BY <1>1, <2>3, SameAsked DEF PrecisionRead
    <3> QED
      BY <3>1, <3>2, <3>3, Zenon DEF InQualifier
  <2>5. InFlags' /\ InPrecision' /\ InConversion'
    <3>1. part' \notin {"flags", "precision", "conversion"}
      BY <1>1
    <3> QED
      BY <3>1, Zenon DEF InFlags, InPrecision, InConversion
  <2> QED
    BY <2>4, <2>5
<1>4. part' \notin {"text", "shown"}
  BY <1>1
<1> QED
  BY <1>1, <1>3, <1>4, DirectiveFollows

LEMMA QualifierFollowed == PrintfInv /\ FollowsAsked /\ Qualifier => FollowsAsked'
<1> SUFFICES ASSUME PrintfInv, FollowsAsked, Qualifier PROVE FollowsAsked'
  OBVIOUS
<1>1. /\ part = "qualifier" /\ part' = "conversion" /\ arg' = arg /\ precision' = precision
      /\ calls' = calls /\ count' = count /\ out' = out /\ flags' = flags /\ width' = width
      /\ pos' = IF Here \in Qualifiers THEN pos + 1 ELSE pos
  BY DEF Qualifier, Move
<1>2. ASSUME Fmt = Spelled(asked) PROVE InFlags' /\ InPrecision' /\ InQualifier' /\ InConversion'
  <2>1. Asks /\ pos = AtQualifier /\ WidthRead /\ PrecisionRead
    BY <1>1, <1>2, FollowFacts DEF InQualifier
  <2>2. InCall /\ asked.kind # "text" /\ Here = Ch(AtQualifier)
    BY <1>2, <2>1, FollowFacts DEF Asks
  <2>3. pos' = AtConv
    BY <1>1, <1>2, <2>1, <2>2, AtQualifierIs
  <2>4. InConversion'
    <3>1. Asks' /\ pos' = AtConv'
      BY <1>1, <2>1, <2>3, SameAsked, Zenon DEF Asks
    <3>2. WidthRead'
      BY <1>1, <2>1, SameAsked DEF WidthRead
    <3>3. PrecisionRead'
      BY <1>1, <2>1, SameAsked DEF PrecisionRead
    <3> QED
      BY <3>1, <3>2, <3>3, Zenon DEF InConversion
  <2>5. InFlags' /\ InPrecision' /\ InQualifier'
    <3>1. part' \notin {"flags", "precision", "qualifier"}
      BY <1>1
    <3> QED
      BY <3>1, Zenon DEF InFlags, InPrecision, InQualifier
  <2> QED
    BY <2>4, <2>5
<1>3. part' \notin {"text", "shown"}
  BY <1>1
<1> QED
  BY <1>1, <1>2, <1>3, DirectiveFollows

LEMMA AtConversion ==
  ASSUME PrintfInv, FollowsAsked, Fmt = Spelled(asked), part = "conversion"
  PROVE  /\ asked.kind # "text" /\ out = asked.before /\ count = -1
         /\ pos = AtConv /\ pos > AtSign /\ Here = asked.conv
         /\ arg = 1 /\ flags = Range(asked.flags) /\ width = asked.width
         /\ precision = FieldPrecision /\ Arg = value
         /\ InCall /\ AtConv \in Nat /\ AtSign \in Nat /\ Len(asked.after) \in Nat
         /\ asked.before \in Seq(Char) /\ asked.after \in Seq(Char)
<1>1. Asks /\ pos = AtConv /\ WidthRead /\ PrecisionRead /\ InCall /\ Here = Ch(pos)
  BY FollowFacts DEF InConversion
<1>2. Ch(AtConv) = asked.conv
  BY <1>1, Layout DEF Asks
<1>3. /\ asked.before \in Seq(Char) /\ asked.after \in Seq(Char) /\ Len(asked.after) \in Nat
  BY <1>1, AskedFacts
<1>4. AtConv \in Nat /\ AtSign \in Nat /\ AtConv > AtSign
  <2>1. /\ AtSign \in Nat \ {0} /\ AtWidth \in Nat /\ AtPoint \in Nat /\ AtPrecision \in Nat
        /\ AtWidth > AtSign /\ AtPoint >= AtWidth /\ AtPrecision >= AtPoint /\ AtConv \in Nat
        /\ AtQualifier >= AtPrecision /\ AtConv >= AtQualifier /\ AtQualifier \in Nat
    BY <1>1, PlacesAre
  <2> QED
    BY <2>1
<1>5. arg = 1 => Arg = value
  BY DEF Arg, value
<1> QED
  BY <1>1, <1>2, <1>3, <1>4, <1>5 DEF Asks, WidthRead, PrecisionRead

LEMMA JoinNone == ASSUME NEW s \in Seq(Char) PROVE s \o <<>> = s
BY ConcatEmptySeq

(* A conversion puts the field behind the text. *)
LEMMA FieldFollowed ==
  ASSUME PrintfInv, FollowsAsked, part = "conversion", part' = "text", calls' = calls,
         ASSUME Fmt = Spelled(asked)
         PROVE  /\ out' = out \o Field /\ Field \in Seq(Char)
                /\ pos' = IF Here = "NUL" THEN pos ELSE pos + 1
                /\ count' = IF Here = "n" THEN Len(out) ELSE count
  PROVE  FollowsAsked'
<1>1. ASSUME Fmt = Spelled(asked)
      PROVE  /\ ~ (pos' <= AtSign)
             /\ asked.kind # "text" /\ Field \in Seq(Char)
             /\ IF asked.conv = "NUL" THEN pos' = AtConv
                ELSE pos' \in AtConv + 1 .. AtConv + 1 + Len(asked.after)
             /\ out' = asked.before \o Field \o Begun(asked.after, pos' - AtConv - 1)
             /\ count' = IF asked.conv = "n" THEN Len(asked.before) ELSE -1
  <2>1. /\ asked.kind # "text" /\ out = asked.before /\ count = -1
        /\ pos = AtConv /\ pos > AtSign /\ Here = asked.conv
        /\ AtConv \in Nat /\ AtSign \in Nat /\ Len(asked.after) \in Nat
        /\ asked.before \in Seq(Char)
    BY <1>1, AtConversion
  <2>2. /\ out' = out \o Field /\ Field \in Seq(Char)
        /\ pos' = IF Here = "NUL" THEN pos ELSE pos + 1
        /\ count' = IF Here = "n" THEN Len(out) ELSE count
    BY <1>1
  <2>3. /\ ~ (pos' <= AtSign) /\ pos' - AtConv - 1 \in Int /\ pos' - AtConv - 1 <= 0
        /\ IF asked.conv = "NUL" THEN pos' = AtConv
           ELSE pos' \in AtConv + 1 .. AtConv + 1 + Len(asked.after)
    <3> DEFINE l == Len(asked.after)
    <3>1. pos = AtConv /\ pos > AtSign /\ l \in Nat /\ AtConv \in Nat /\ AtSign \in Nat
      BY <2>1
    <3> HIDE DEF l
    <3>2. CASE asked.conv = "NUL"
      <4>1. pos' = pos
        BY <2>1, <2>2, <3>2
      <4> QED
        BY <3>1, <3>2, <4>1
    <3>3. CASE asked.conv # "NUL"
      <4>1. pos' = pos + 1
        BY <2>1, <2>2, <3>3
      <4>2. /\ ~ (pos' <= AtSign) /\ pos' - AtConv - 1 \in Int /\ pos' - AtConv - 1 <= 0
            /\ pos' \in AtConv + 1 .. AtConv + 1 + l
        BY <3>1, <4>1
      <4> QED
        BY <3>3, <4>2 DEF l
    <3> QED
      BY <3>2, <3>3
  <2>4. Begun(asked.after, pos' - AtConv - 1) = <<>>
    BY <2>3, BegunNone
  <2>5. asked.before \o Field \o <<>> = asked.before \o Field
    BY <2>1, <2>2, JoinedIs, JoinNone
  <2>6. out' = asked.before \o Field \o Begun(asked.after, pos' - AtConv - 1)
    BY <2>1, <2>2, <2>4, <2>5, Zenon
  <2>7. count' = IF asked.conv = "n" THEN Len(asked.before) ELSE -1
    BY <2>1, <2>2
  <2> QED
    BY <2>1, <2>2, <2>3, <2>6, <2>7
<1> QED
  BY <1>1, TextFollows

LEMMA EmitFollowed ==
  ASSUME PrintfInv, FollowsAsked, NEW s, Emit(s), Here \in Conversions, Here # "n",
         ASSUME Fmt = Spelled(asked)
         PROVE  s = Field /\ s \in Seq(Char)
  PROVE  FollowsAsked'
<1>1. /\ part = "conversion" /\ part' = "text" /\ out' = out \o s
      /\ pos' = pos + 1 /\ calls' = calls /\ count' = count
  BY DEF Emit, Move
<1>2. Here # "NUL"
  BY ConversionsAre
<1> QED
  BY <1>1, <1>2, FieldFollowed

(* The argument of a conversion. *)
LEMMA ConversionArg ==
  ASSUME PrintfInv, part = "conversion", Here \in Conversions
  PROVE  Arg \in Argument /\ width \in Int /\ precision \in Int /\ flags \in SUBSET Flags
<1>1. InDirective(pos) /\ Here # "*"
  BY ConversionsAre DEF PrintfInv, Scanning
<1>2. Arg \in Argument
  BY <1>1, ScanFacts, NotAhead, ArgIs DEF Here
<1> QED
  BY <1>2, ScanFacts DEF PrintfTypes

LEMMA NotBare ==
  ASSUME asked.conv # "p"
  PROVE  FieldWidth = asked.width /\ FieldFlags = Range(asked.flags)
<1>1. ~ Bare
  BY DEF Bare
<1>2. FieldWidth = asked.width
  BY <1>1, Zenon DEF FieldWidth
<1>3. FieldFlags = Range(asked.flags) \cup {}
  BY <1>1, Zenon DEF FieldFlags
<1> QED
  BY <1>2, <1>3

LEMMA CharFollowed == PrintfInv /\ FollowsAsked /\ ConvChar => FollowsAsked'
<1> SUFFICES ASSUME PrintfInv, FollowsAsked, ConvChar PROVE FollowsAsked'
  OBVIOUS
<1>1. Here = "c" /\ Emit(Justified(Arg.s)) /\ part = "conversion"
  BY DEF ConvChar, Emit, Move
<1>2. Here \in Conversions /\ Here # "n" /\ Here # "*" /\ Here # "p"
  BY <1>1 DEF Conversions
<1>3. Arg.s \in Seq(Char) /\ width \in Int
  BY <1>1, <1>2, ConversionArg DEF Argument
<1>4. Justified(Arg.s) \in Seq(Char)
  BY <1>3, JustifiedIs
<1>5. ASSUME Fmt = Spelled(asked) PROVE Justified(Arg.s) = Field
  <2>1. /\ flags = Range(asked.flags) /\ width = asked.width /\ Arg = value /\ asked.conv = "c"
        /\ asked.conv # "p"
    BY <1>1, <1>2, <1>5, AtConversion
  <2>2. Field = Filled(width, flags, Arg.s)
    BY <2>1, FieldIsText, NotBare
  <2> QED
    BY <2>2, Zenon DEF Justified, Filled, Side, Blank
<1> QED
  BY <1>1, <1>2, <1>4, <1>5, EmitFollowed

LEMMA LesserIs ==
  ASSUME NEW a \in Nat, NEW b \in Nat
  PROVE  Min({a, b}) = IF b <= a THEN b ELSE a
<1>1. Min({a, b}) \in {a, b} /\ \A k \in {a, b} : Min({a, b}) <= k
  BY LeastIs
<1> QED
  BY <1>1

LEMMA StringFollowed == PrintfInv /\ FollowsAsked /\ ConvString => FollowsAsked'
<1> SUFFICES ASSUME PrintfInv, FollowsAsked, ConvString PROVE FollowsAsked'
  OBVIOUS
<1> DEFINE s    == IF Arg.s = Null THEN <<>> ELSE Arg.s
           len  == IF precision < 0 \/ Len(s) <= precision THEN Len(s) ELSE precision
           text == SubSeq(s, 1, len)
<1>1. Here = "s" /\ Emit(Justified(text)) /\ part = "conversion"
  BY DEF ConvString, Emit, Move
<1>2. Here \in Conversions /\ Here # "n" /\ Here # "*" /\ Here # "p"
  BY <1>1 DEF Conversions
<1>3. s \in Seq(Char) /\ width \in Int /\ precision \in Int /\ Len(s) \in Nat
  <2>1. Arg.s \in Seq(Char) /\ width \in Int /\ precision \in Int
    BY <1>1, <1>2, ConversionArg DEF Argument
  <2>2. s \in Seq(Char)
    BY <2>1, StringFacts, Zenon
  <2> QED
    BY <2>1, <2>2, LenNat
<1> HIDE DEF s
<1>4. Justified(text) \in Seq(Char)
  <2>1. len \in 0 .. Len(s)
    BY <1>3
  <2> HIDE DEF len
  <2>2. text \in Seq(Char)
    BY <1>3, <2>1, SubSeqProperties
  <2> QED
    BY <1>3, <2>2, JustifiedIs
<1>5. ASSUME Fmt = Spelled(asked) PROVE Justified(text) = Field
  <2>1. /\ flags = Range(asked.flags) /\ width = asked.width /\ precision = FieldPrecision
        /\ Arg = value /\ asked.conv = "s" /\ asked.conv # "p" /\ InCall
    BY <1>1, <1>2, <1>5, AtConversion
  <2>2. FieldPrecision = -1 \/ FieldPrecision \in Nat
    <3>1. asked.precision \in {-1} \cup (0 .. IntRange - 1)
      BY <2>1, AskedFacts
    <3> QED
      BY <3>1 DEF FieldPrecision, Most
  <2>3. (IF FieldPrecision = -1 THEN Len(s) ELSE Min({FieldPrecision, Len(s)})) = len
    <3>1. FieldPrecision \in Nat =>
            Min({FieldPrecision, Len(s)})
              = IF Len(s) <= FieldPrecision THEN Len(s) ELSE FieldPrecision
      BY <1>3, LesserIs
    <3> QED
      BY <1>3, <2>1, <2>2, <3>1
  <2>4. s = IF value.s = Null THEN <<>> ELSE value.s
    BY <2>1, Zenon DEF s
  <2>5. FieldString = text
    BY <2>3, <2>4, Zenon DEF FieldString
  <2>6. Field = Filled(width, flags, text)
    BY <2>1, <2>5, FieldIsText, NotBare
  <2> HIDE DEF text
  <2> QED
    BY <2>6, Zenon DEF Justified, Filled, Side, Blank
<1> QED
  BY <1>1, <1>2, <1>4, <1>5, EmitFollowed

LEMMA NumberFollowed == PrintfInv /\ FollowsAsked /\ ConvNumber => FollowsAsked'
<1> SUFFICES ASSUME PrintfInv, FollowsAsked, ConvNumber PROVE FollowsAsked'
  OBVIOUS
<1> DEFINE bare   == Here = "p" /\ width = -1
           size   == IF bare THEN 8 ELSE width
           type   == IF bare THEN flags \cup {"0"} ELSE flags
           sgn    == Here \in {"d", "i"}
           small  == Here = "x"
           number == Number(Arg.n, Base[Here], size, precision, type, sgn, small)
<1>1. Here \in DOMAIN Base /\ Emit(number) /\ part = "conversion"
  BY DEF ConvNumber, Emit, Move
<1>2. Here \in Conversions /\ Here # "n" /\ Here # "*" /\ Base[Here] \in {8, 10, 16}
  BY <1>1, ConversionsAre DEF Conversions
<1>3. /\ Arg.n \in 0 .. IntRange - 1 /\ precision \in Int /\ size \in Int /\ type \in SUBSET Flags
  <2>1. Arg.n \in 0 .. IntRange - 1 /\ precision \in Int /\ width \in Int /\ flags \in SUBSET Flags
    BY <1>1, <1>2, ConversionArg DEF Argument
  <2>2. "0" \in Flags
    BY FlagsAre
  <2> QED
    BY <2>1, <2>2
<1>4. sgn \in BOOLEAN /\ small \in BOOLEAN
  OBVIOUS
<1> HIDE DEF size, type, sgn, small
<1>5. number \in Seq(Char)
  BY <1>2, <1>3, <1>4, NumberIs
<1>6. ASSUME Fmt = Spelled(asked) PROVE number = Field
  <2>1. /\ flags = Range(asked.flags) /\ width = asked.width /\ precision = FieldPrecision
        /\ Arg = value /\ asked.conv = Here
    BY <1>1, <1>2, <1>6, AtConversion
  <2>2. bare <=> Bare
    BY <2>1 DEF Bare
  <2>3. size = FieldWidth
    BY <2>1, <2>2, Zenon DEF size, FieldWidth
  <2>4. type = FieldFlags
    <3>1. CASE Bare
      BY <2>1, <2>2, <3>1 DEF type, FieldFlags
    <3>2. CASE ~ Bare
      BY <2>1, <2>2, <3>2 DEF type, FieldFlags
    <3> QED
      BY <3>1, <3>2
  <2> DEFINE minus == FieldNegative
  <2>5. minus \in BOOLEAN /\ (minus <=> sgn /\ Signed(Arg.n) < 0)
    BY <2>1 DEF FieldNegative, sgn
  <2> HIDE DEF minus
  <2>6. number = Padded(size, precision, type, SignOf(minus, type),
                        PrefixOf(Base[Here], type, small),
                        Numeral(IF minus THEN IntRange - Arg.n ELSE Arg.n, Base[Here], small))
    BY <1>2, <1>3, <1>4, <2>5, NumberIsPadded
  <2>7. number = PaddedNumber
    BY <2>1, <2>3, <2>4, <2>6, Zenon DEF PaddedNumber, FieldDigits, minus, small
  <2>8. Field = PaddedNumber
    BY <1>1, <1>3, <2>1, FieldIsNumber
  <2> QED
    BY <2>7, <2>8
<1> HIDE DEF number
<1> QED
  BY <1>1, <1>2, <1>5, <1>6, EmitFollowed

LEMMA CountFollowed == PrintfInv /\ FollowsAsked /\ ConvCount => FollowsAsked'
<1> SUFFICES ASSUME PrintfInv, FollowsAsked, ConvCount PROVE FollowsAsked'
  OBVIOUS
<1>1. /\ part = "conversion" /\ part' = "text" /\ Here = "n" /\ count' = Len(out)
      /\ pos' = pos + 1 /\ calls' = calls /\ out' = out
  BY DEF ConvCount, Move
<1>2. ASSUME Fmt = Spelled(asked) PROVE out' = out \o Field /\ Field \in Seq(Char)
  <2>1. Field = <<>>
    BY <1>1, <1>2, AtConversion, FieldIsMark
  <2>2. out \in Seq(Char)
    BY ScanFacts DEF PrintfTypes
  <2> QED
    BY <1>1, <2>1, <2>2, JoinNone, StringFacts
<1> QED
  BY <1>1, <1>2, FieldFollowed

LEMMA TwoJoined == ASSUME NEW a, NEW b PROVE <<a>> \o <<b>> = <<a, b>>
<1> DEFINE s == <<a>>
           t == <<b>>
           u == <<a, b>>
           S == {a, b}
<1>1. s \in Seq(S) /\ t \in Seq(S) /\ Len(s) = 1 /\ Len(t) = 1 /\ s[1] = a /\ t[1] = b
  OBVIOUS
<1>2. u \in Seq(S) /\ Len(u) = 2 /\ u[1] = a /\ u[2] = b
  OBVIOUS
<1> HIDE DEF s, t, u, S
<1>3. /\ s \o t \in Seq(S) /\ Len(s \o t) = Len(s) + Len(t)
      /\ (s \o t)[1] = s[1] /\ (s \o t)[Len(s) + 1] = t[1]
  <2>1. 1 \in 1 .. Len(s) /\ 1 \in 1 .. Len(t)
    BY <1>1
  <2> QED
    BY <1>1, <2>1, JoinedIs
<1>4. \A i \in 1 .. 2 : i = 1 \/ i = 2
  OBVIOUS
<1>5. Len(s \o t) = 2 /\ \A i \in 1 .. 2 : (s \o t)[i] = u[i]
  BY <1>1, <1>2, <1>3, <1>4
<1> QED
  BY <1>2, <1>3, <1>5, SeqEqual DEF s, t, u

LEMMA OtherFollowed == PrintfInv /\ FollowsAsked /\ ConvOther => FollowsAsked'
<1> SUFFICES ASSUME PrintfInv, FollowsAsked, ConvOther PROVE FollowsAsked'
  OBVIOUS
<1> DEFINE sign == IF Here # "%" THEN <<"%">> ELSE <<>>
           char == IF Here # "NUL" THEN <<Here>> ELSE <<>>
<1>1. /\ part = "conversion" /\ part' = "text" /\ Here \notin Conversions
      /\ out' = out \o sign \o char
      /\ pos' = IF Here # "NUL" THEN pos + 1 ELSE pos
      /\ calls' = calls /\ count' = count
  BY DEF ConvOther, Move
<1>2. out \in Seq(Char) /\ <<"%">> \in Seq(Char)
  <2>1. out \in Seq(Char)
    BY ScanFacts DEF PrintfTypes
  <2>2. <<"%">> \in Seq(Char)
    BY CharsAre, StringFacts
  <2> QED
    BY <2>1, <2>2
<1>3. ASSUME Fmt = Spelled(asked) PROVE out \o sign \o char = out \o Field /\ Field \in Seq(Char)
  <2>1. asked.conv = Here
    BY <1>1, <1>3, AtConversion
  <2>2. CASE Here = "%"
    <3>1. Field = <<"%">> /\ sign = <<>> /\ char = <<"%">>
      BY <2>1, <2>2, FieldIsMark, CharAssumption
    <3>2. out \o <<>> = out
      BY <1>2, JoinNone
    <3> QED
      BY <1>2, <3>1, <3>2
  <2>3. CASE Here = "NUL"
    <3>1. Field = <<"%">> /\ sign = <<"%">> /\ char = <<>>
      BY <2>1, <2>3, FieldIsMark
    <3>2. (out \o <<"%">>) \o <<>> = out \o <<"%">>
      BY <1>2, JoinedIs, JoinNone
    <3> QED
      BY <1>2, <3>1, <3>2
  <2>4. CASE Here # "%" /\ Here # "NUL"
    <3>1. Field = <<"%", Here>> /\ sign = <<"%">> /\ char = <<Here>>
      BY <1>1, <2>1, <2>4, FieldIsMark
    <3>2. Here \in Char
      BY <2>4, ScanFacts, ChIs DEF Here
    <3>3. <<Here>> \in Seq(Char) /\ <<"%", Here>> \in Seq(Char)
      BY <3>2, CharsAre, StringFacts, TwoElements
    <3>4. <<"%">> \o <<Here>> = <<"%", Here>>
      BY TwoJoined
    <3>5. (out \o <<"%">>) \o <<Here>> = out \o (<<"%">> \o <<Here>>)
      BY <1>2, <3>3, JoinTwice, Zenon DEF Associative, Strings
    <3> QED
      BY <3>1, <3>3, <3>4, <3>5
  <2> QED
    BY <2>2, <2>3, <2>4
<1> HIDE DEF sign, char
<1>4. Here # "n"
  BY <1>1 DEF Conversions
<1> QED
  BY <1>1, <1>3, <1>4, FieldFollowed

LEMMA ShowFollowed == PrintfInv /\ FollowsAsked /\ Show => FollowsAsked' /\ AtEnd'
<1> SUFFICES ASSUME PrintfInv, FollowsAsked, Show PROVE FollowsAsked' /\ AtEnd'
  OBVIOUS
<1>1. /\ part = "text" /\ part' = "shown" /\ Here = "NUL"
      /\ calls' = calls /\ arg' = arg /\ out' = out /\ count' = count /\ pos' = pos
  BY DEF Show, Move, scan
<1>2. AtEnd'
  BY <1>1, SameCall DEF AtEnd, Here
<1>3. ASSUME Fmt = Spelled(asked)
      PROVE  /\ pos' <= AtSign => out' = Begun(asked.before, pos' - 1) /\ count' = -1 /\ arg' = 1
             /\ pos' > AtSign =>
                  /\ asked.kind # "text" /\ Field \in Seq(Char)
                  /\ IF asked.conv = "NUL" THEN pos' = AtConv
                     ELSE pos' \in AtConv + 1 .. AtConv + 1 + Len(asked.after)
                  /\ out' = asked.before \o Field \o Begun(asked.after, pos' - AtConv - 1)
                  /\ count' = IF asked.conv = "n" THEN Len(asked.before) ELSE -1
  BY <1>1, <1>3, FollowFacts, Zenon DEF BeforeSign, BehindField
<1> QED
  BY <1>1, <1>2, <1>3, TextFollows

LEMMA CallFollows ==
  ASSUME InCall, part = "text", pos = 1, arg = 1, out = <<>>, count = -1
  PROVE  FollowsAsked /\ AtEnd
<1>1. AtSign \in Nat \ {0}
  BY PlacesAre
<1>2. Begun(asked.before, pos - 1) = <<>> /\ ~ (pos > AtSign)
  BY <1>1, BegunNone
<1> QED
  BY <1>2 DEF FollowsAsked, BeforeSign, InFlags, InPrecision, InQualifier, InConversion,
              BehindField, AtEnd

LEMMA FollowingKeeps ==
  PrintfInv /\ FollowsAsked /\ AtEnd /\ [PrintfNext]_printfVars => FollowsAsked' /\ AtEnd'
<1> SUFFICES ASSUME PrintfInv, FollowsAsked, AtEnd, [PrintfNext]_printfVars
             PROVE  FollowsAsked' /\ AtEnd'
  OBVIOUS
<1>1. CASE Call
  <2>1. /\ part' = "text" /\ pos' = 1 /\ arg' = 1 /\ out' = <<>> /\ count' = -1
    BY <1>1 DEF Call, Move
  <2>2. InCall'
    BY <1>1, CallKeeps DEF PrintfInv, PrintfTypes
  <2>3. (InCall /\ part = "text" /\ pos = 1 /\ arg = 1 /\ out = <<>> /\ count = -1
            => FollowsAsked /\ AtEnd)'
    BY CallFollows, PTL
  <2> QED
    BY <2>1, <2>2, <2>3
<1>2. CASE Show
  BY <1>2, ShowFollowed
<1>3. CASE \/ Text \/ Percent \/ Flag \/ Width \/ Precision \/ Qualifier
           \/ ConvChar \/ ConvString \/ ConvNumber \/ ConvCount \/ ConvOther
  <2>1. FollowsAsked'
    BY <1>3, TextFollowed, PercentFollowed, FlagFollowed, WidthFollowed, PrecisionFollowed,
       QualifierFollowed, CharFollowed, StringFollowed, NumberFollowed, CountFollowed,
       OtherFollowed
  <2>2. part' # "shown"
    BY <1>3 DEF Text, Percent, Flag, Width, Precision, Qualifier, ConvChar, ConvString,
                ConvNumber, ConvCount, ConvOther, Emit, Move
  <2> QED
    BY <2>1, <2>2 DEF AtEnd
<1>4. CASE UNCHANGED printfVars
  <2>1. /\ calls' = calls /\ part' = part /\ pos' = pos /\ arg' = arg /\ flags' = flags
        /\ width' = width /\ precision' = precision /\ out' = out /\ count' = count
    BY <1>4 DEF printfVars, scan
  <2>2. AtEnd'
    BY <2>1, SameCall DEF AtEnd, Here
  <2>3. (Fmt = Spelled(asked))' => Fmt = Spelled(asked)
    BY <2>1, SameAsked, Zenon
  <2>4. ASSUME Fmt = Spelled(asked) PROVE BeforeSign' /\ BehindField' /\ InFlags'
    BY <2>1, <2>4, FollowFacts, SameAsked, Zenon DEF BeforeSign, BehindField, InFlags, Asks
  <2>5. ASSUME Fmt = Spelled(asked) PROVE InPrecision' /\ InQualifier' /\ InConversion'
    BY <2>1, <2>5, FollowFacts, SameAsked, Zenon
       DEF InPrecision, InQualifier, InConversion, Asks, WidthRead, PrecisionRead
  <2> QED
    BY <2>2, <2>3, <2>4, <2>5, Zenon DEF FollowsAsked
<1> QED
  BY <1>1, <1>2, <1>3, <1>4 DEF PrintfNext

(* For every format of text and a directive in which no '*' stands and     *)
(* every number fits an int, and for every argument, kvsprintf writes the  *)
(* text around the directive as it is and the field the directive asks     *)
(* for, and %n stores where it is: the scan follows the parts of what is   *)
(* asked, the digits that do_div takes off are those of the number's       *)
(* places, skip_atoi reads them back, and number's padding, counted down   *)
(* by every part, is the one that fills the field.                         *)
THEOREM FieldWritten == PrintfSpec => []FieldAsAsked
<1>1. PrintfInit => FollowsAsked /\ AtEnd
  <2>1. PrintfInit => PrintfInv
    BY PrintfStarts
  <2>2. PrintfInit => part = "text" /\ pos = 1 /\ arg = 1 /\ out = <<>> /\ count = -1
    BY DEF PrintfInit
  <2> QED
    BY <2>1, <2>2, CallFollows DEF PrintfInv, PrintfTypes
<1>2. ASSUME PrintfInv, FollowsAsked, AtEnd PROVE FieldAsAsked
  <2> SUFFICES ASSUME part = "shown", Fmt = Spelled(asked)
               PROVE  IF asked.kind = "text" THEN out = asked.before /\ count = -1
                      ELSE /\ out = asked.before \o Field
                                      \o (IF asked.conv = "NUL" THEN <<>> ELSE asked.after)
                           /\ count = IF asked.conv = "n" THEN Len(asked.before) ELSE -1
    BY Zenon DEF FieldAsAsked
  <2>1. /\ BeforeSign /\ BehindField /\ InCall /\ pos = Len(Fmt) + 1 /\ Len(Fmt) \in Nat
        /\ AtSign \in Nat \ {0} /\ AtSign = Len(asked.before) + 1
        /\ asked.before \in Seq(Char) /\ asked.after \in Seq(Char)
        /\ asked.kind = "text" => Len(Fmt) = AtSign - 1
    BY <1>2, FollowFacts DEF AtEnd
  <2>2. Len(asked.before) \in Nat /\ Len(asked.after) \in Nat
    BY <2>1, LenNat
  <2>3. CASE asked.kind = "text"
    <3>1. pos = AtSign /\ pos <= AtSign /\ pos - 1 = Len(asked.before)
      BY <2>1, <2>2, <2>3
    <3>2. out = Begun(asked.before, Len(asked.before)) /\ count = -1
      BY <2>1, <3>1 DEF BeforeSign
    <3> QED
      BY <2>1, <2>3, <3>2, BegunAll
  <2>4. CASE asked.kind # "text"
    <3>1. /\ asked.conv = "NUL" => Len(Fmt) = AtConv - 1
          /\ asked.conv # "NUL" => Len(Fmt) = AtConv + Len(asked.after)
          /\ AtConv \in Nat /\ AtConv > AtSign
      <4>1. /\ AtSign \in Nat \ {0} /\ AtWidth \in Nat /\ AtPoint \in Nat
            /\ AtPrecision \in Nat /\ AtWidth > AtSign /\ AtPoint >= AtWidth
            /\ AtPrecision >= AtPoint /\ AtConv \in Nat
            /\ AtQualifier >= AtPrecision /\ AtConv >= AtQualifier /\ AtQualifier \in Nat
        BY <2>1, PlacesAre
      <4>2. AtConv \in Nat /\ AtConv > AtSign
        BY <4>1
      <4> QED
        BY <2>1, <2>4, <4>2, Layout
    <3>2. /\ pos > AtSign
          /\ asked.conv = "NUL" => pos - AtConv - 1 \in Int /\ pos - AtConv - 1 <= 0
          /\ asked.conv # "NUL" => pos - AtConv - 1 = Len(asked.after)
      <4> DEFINE l == Len(asked.after)
                 m == Len(Fmt)
      <4>1. /\ pos = m + 1 /\ m \in Nat /\ l \in Nat /\ AtSign \in Nat /\ AtConv \in Nat
            /\ AtConv > AtSign
        BY <2>1, <2>2, <3>1
      <4>2. asked.conv = "NUL" => m = AtConv - 1
        BY <3>1
      <4>3. asked.conv # "NUL" => m = AtConv + l
        BY <3>1
      <4> HIDE DEF l, m
      <4>4. m = AtConv - 1 => pos > AtSign /\ pos - AtConv - 1 \in Int /\ pos - AtConv - 1 <= 0
        BY <4>1
      <4>5. m = AtConv + l => pos > AtSign /\ pos - AtConv - 1 = l
        BY <4>1
      <4> QED
        BY <4>2, <4>3, <4>4, <4>5 DEF l
    <3>3. /\ out = asked.before \o Field \o Begun(asked.after, pos - AtConv - 1)
          /\ count = IF asked.conv = "n" THEN Len(asked.before) ELSE -1
      BY <2>1, <3>2 DEF BehindField
    <3>4. Begun(asked.after, pos - AtConv - 1)
            = IF asked.conv = "NUL" THEN <<>> ELSE asked.after
      <4>1. asked.conv = "NUL" => Begun(asked.after, pos - AtConv - 1) = <<>>
        BY <3>2, BegunNone
      <4>2. asked.conv # "NUL" => Begun(asked.after, pos - AtConv - 1) = asked.after
        BY <2>1, <3>2, BegunAll
      <4> QED
        BY <4>1, <4>2
    <3> QED
      BY <2>4, <3>3, <3>4, Zenon
  <2> QED
    BY <2>3, <2>4
<1> QED
  BY <1>1, <1>2, FollowingKeeps, PrintfInvariant, PTL DEF PrintfSpec
=============================================================================
