-------------------------- MODULE BootShellProofs --------------------------
(***************************************************************************)
(* Theorems about BootShell for every set of lines and every size: that no *)
(* token is taken from behind the buffer, that a line reaches its command  *)
(* as the tokens a reader sees in it, and that the table of variables      *)
(* holds what was typed.                                                   *)
(*                                                                         *)
(* The lexer only scans the buffer.  Laid says where in it the words of a  *)
(* line lie, Here that the scan is about to begin one, and WordTaken that  *)
(* such a word is taken for what a reader takes it for: the scan stops at its *)
(* end (WordEnd), what is copied is the word (WordCopied), and the arithmetic *)
(* of the converters does not go round (NoWrap).                           *)
(***************************************************************************)
EXTENDS BootShell, NumberFacts, SequenceTheorems, FiniteSetTheorems, TLAPS

-----------------------------------------------------------------------------
(* Characters.                                                             *)

LEMMA HexIs ==
  /\ Hex = {"0", "1", "2", "3", "4", "5", "6", "7", "8", "9",
            "a", "b", "c", "d", "e", "f"}
  /\ Digits = {"0", "1", "2", "3", "4", "5", "6", "7", "8", "9"}
<1>1. /\ DOMAIN HexChars = 1 .. 16
      /\ HexChars[1] = "0" /\ HexChars[2] = "1" /\ HexChars[3] = "2" /\ HexChars[4] = "3"
      /\ HexChars[5] = "4" /\ HexChars[6] = "5" /\ HexChars[7] = "6" /\ HexChars[8] = "7"
      /\ HexChars[9] = "8" /\ HexChars[10] = "9" /\ HexChars[11] = "a" /\ HexChars[12] = "b"
      /\ HexChars[13] = "c" /\ HexChars[14] = "d" /\ HexChars[15] = "e" /\ HexChars[16] = "f"
  BY DEF HexChars
<1>2. SubSeq(HexChars, 1, 10) = [i \in 1 .. 10 |-> HexChars[i]]
  BY DEF HexChars
<1> DEFINE h == HexChars
           d == SubSeq(HexChars, 1, 10)
<1> HIDE DEF h, d
<1>3. Hex = {h[i] : i \in 1 .. 16}
  BY <1>1 DEF Hex, ToSet, h
<1>4. Digits = {d[i] : i \in 1 .. 10} /\ \A i \in 1 .. 10 : d[i] = h[i]
  BY <1>2 DEF Digits, ToSet, h, d
<1>5. \A i : i \in 1 .. 16 <=> \/ i \in 1 .. 10
                               \/ i = 11 \/ i = 12 \/ i = 13 \/ i = 14 \/ i = 15 \/ i = 16
  OBVIOUS
<1>6. \A i : i \in 1 .. 10 <=> \/ i = 1 \/ i = 2 \/ i = 3 \/ i = 4 \/ i = 5 \/ i = 6
                               \/ i = 7 \/ i = 8 \/ i = 9 \/ i = 10
  OBVIOUS
<1>7. Digits = {"0", "1", "2", "3", "4", "5", "6", "7", "8", "9"}
  BY <1>1, <1>4, <1>6 DEF h
<1> QED
  BY <1>1, <1>3, <1>5, <1>6, <1>7 DEF h

LEMMA CharFacts ==
  /\ Digits \subseteq Hex /\ Hex \subseteq Alnum /\ Alnum \subseteq Chars
  /\ Sigils \subseteq Chars /\ Letters \subseteq Alnum /\ Digits \subseteq Alnum
  /\ Alnum = Letters \cup Digits
  /\ "0" \in Digits /\ {Nul, " ", "!", "?"} \subseteq Chars
  /\ Letters \cap Digits = {} /\ Alnum \cap Sigils = {}
  /\ {Nul, " ", "!", "?"} \cap (Alnum \cup Sigils) = {}
  /\ "x" \notin Hex
  /\ Nul # " " /\ Nul # "!" /\ " " # "!" /\ "?" # " " /\ "?" # Nul /\ "?" # "!"
  /\ "x" # Nul /\ "x" # " " /\ "x" # "!"
  /\ Chars \ (Alnum \cup Sigils \cup {"!", Nul}) = {" ", "?"}
  BY HexIs DEF Alnum, Letters, Sigils, Chars, Nul

-----------------------------------------------------------------------------
(* The scans.                                                              *)

Buffers == [0 .. BufSize - 1 -> Chars]

LEMMA SizesFacts ==
  /\ BufSize \in Nat \ {0} /\ VecLen \in Nat \ {0} /\ TableLen \in Nat \ {0}
  /\ StrMax \in Nat \ {0} /\ NumRange \in Nat \ {0} /\ ByteRange \in Nat \ {0}
  /\ OctMax \in Nat \ {0} /\ DecMax \in Nat \ {0} /\ HexMax \in Nat \ {0}
  /\ MemSize \in Nat /\ MemSize > BufSize
  BY SizeAssumption, NumbersAssumption

LEMMA MinIs ==
  ASSUME NEW T \in SUBSET Nat, T # {}
  PROVE  Min(T) \in T /\ \A k \in T : Min(T) <= k
  BY LeastNumber DEF Min

(* A scan ends at a character it looks for or at the buffer's end. *)
LEMMA FirstIs ==
  ASSUME NEW p \in 0 .. BufSize, NEW C
  PROVE  /\ First(p, C) \in p .. BufSize
         /\ First(p, C) < BufSize => buf[First(p, C)] \in C
         /\ \A q \in p .. First(p, C) - 1 : buf[q] \notin C
<1> DEFINE T == {q \in p .. BufSize - 1 : buf[q] \in C} \cup {BufSize}
<1>1. T \in SUBSET Nat /\ T # {}
  BY SizesFacts
<1>2. First(p, C) = Min(T)
  BY DEF First
<1>3. Min(T) \in T /\ \A k \in T : Min(T) <= k
  <2> HIDE DEF T
  <2> QED
    BY <1>1, MinIs
<1> DEFINE m == Min(T)
<1> HIDE DEF m
<1>4. m \in T /\ \A k \in T : m <= k
  BY <1>3 DEF m
<1>5. m \in p .. BufSize /\ (m < BufSize => buf[m] \in C)
  BY <1>4, SizesFacts
<1>6. ASSUME NEW q \in p .. m - 1 PROVE buf[q] \notin C
  <2>1. q \in p .. BufSize - 1 /\ ~ (m <= q)
    BY <1>5, SizesFacts
  <2> QED
    BY <1>4, <2>1
<1> QED
  BY <1>2, <1>5, <1>6 DEF m

LEMMA FirstAt ==
  ASSUME NEW p \in 0 .. BufSize, NEW C, NEW m \in p .. BufSize - 1, buf[m] \in C,
         \A q \in p .. m - 1 : buf[q] \notin C
  PROVE  First(p, C) = m
<1> DEFINE f == First(p, C)
<1>1. /\ f \in p .. BufSize /\ (f < BufSize => buf[f] \in C)
      /\ \A q \in p .. f - 1 : buf[q] \notin C
  BY FirstIs
<1> HIDE DEF f
<1>2. ~ (f < m)
  BY <1>1, SizesFacts
<1>3. ~ (m < f)
  BY <1>1, SizesFacts
<1>4. f = m
  BY <1>1, <1>2, <1>3, SizesFacts
<1> QED
  BY <1>4 DEF f

(* What strncpy makes of a range of characters. *)
LEMMA LexemeIs ==
  ASSUME buf \in Buffers, NEW b \in 0 .. BufSize, NEW e \in b - 1 .. BufSize - 1
  PROVE  /\ Lexeme(b, e) \in Seq(Chars) /\ Len(Lexeme(b, e)) <= e - b + 1
         /\ b <= e /\ buf[b] # Nul => /\ Lexeme(b, e) # <<>>
                                     /\ Head(Lexeme(b, e)) = buf[b]
         /\ (\A q \in b .. e : buf[q] # Nul) =>
              Lexeme(b, e) = [i \in 1 .. e - b + 1 |-> buf[b + i - 1]]
<1> DEFINE T == {i \in 0 .. e - b : buf[b + i] = Nul} \cup {e - b + 1}
           n == Min(T)
           s == [i \in 1 .. n |-> buf[b + i - 1]]
<1>1. T \in SUBSET Nat /\ T # {} /\ e - b + 1 \in T /\ e - b + 1 \in Nat
  BY SizesFacts
<1>2. n \in T /\ \A k \in T : n <= k
  <2> HIDE DEF T
  <2> QED
    BY <1>1, MinIs
<1>3. Lexeme(b, e) = s
  BY DEF Lexeme
<1> HIDE DEF n
<1>4. n \in Nat /\ n <= e - b + 1
  <2> HIDE DEF T
  <2> QED
    BY <1>1, <1>2
<1>5. \A i \in 1 .. n : b + i - 1 \in 0 .. BufSize - 1
  BY <1>4, SizesFacts
<1>6. s \in Seq(Chars) /\ Len(s) = n
  <2>1. \A i \in 1 .. n : buf[b + i - 1] \in Chars
    BY <1>5 DEF Buffers
  <2> QED
    BY <1>4, <2>1
<1>7. ASSUME b <= e, buf[b] # Nul PROVE s # <<>> /\ Head(s) = buf[b]
  <2>1. n # 0
    <3>1. b + 0 = b
      OBVIOUS
    <3> QED
      BY <1>2, <1>7, <3>1
  <2>2. n >= 1 /\ 1 \in 1 .. n /\ s[1] = buf[b]
    BY <1>4, <2>1
  <2>3. s # <<>> /\ Head(s) = s[1]
    BY <1>6, <2>2
  <2> QED
    BY <2>2, <2>3
<1>8. ASSUME \A q \in b .. e : buf[q] # Nul PROVE n = e - b + 1
  <2>1. ~ \E i \in 0 .. e - b : buf[b + i] = Nul
    <3>1. \A i \in 0 .. e - b : b + i \in b .. e
      OBVIOUS
    <3> QED
      BY <1>8, <3>1
  <2> QED
    BY <1>2, <2>1
<1> QED
  BY <1>3, <1>4, <1>6, <1>7, <1>8

-----------------------------------------------------------------------------
(* Numbers.                                                                *)

Wrapped(base, s) ==
  FoldLeft(LAMBDA n, c : (n * base + DigitValue(c)) % NumRange, 0, s)

LEMMA DigitInt == ASSUME NEW c PROVE DigitValue(c) \in -1 .. 15
<1> DEFINE T == {i \in 1 .. Len(HexChars) : HexChars[i] = c}
<1>1. Len(HexChars) = 16
  BY DEF HexChars
<1>2. DigitValue(c) = (IF T # {} THEN Min(T) ELSE 0) - 1
  BY DEF DigitValue, SelectInSeq
<1>3. T # {} => Min(T) \in T
  <2>1. T \in SUBSET Nat
    BY <1>1
  <2> HIDE DEF T
  <2> QED
    BY <2>1, MinIs
<1>4. T # {} => Min(T) \in 1 .. 16
  BY <1>1, <1>3
<1> HIDE DEF T
<1> QED
  BY <1>2, <1>4

LEMMA DigitOfHex == ASSUME NEW c \in Hex PROVE DigitValue(c) \in 0 .. 15
<1> DEFINE T == {i \in 1 .. Len(HexChars) : HexChars[i] = c}
<1>1. Len(HexChars) = 16
  BY DEF HexChars
<1>2. DigitValue(c) = (IF T # {} THEN Min(T) ELSE 0) - 1
  BY DEF DigitValue, SelectInSeq
<1>3. T # {}
  BY DEF Hex, ToSet
<1>4. Min(T) \in T
  <2>1. T \in SUBSET Nat
    BY <1>1
  <2> HIDE DEF T
  <2> QED
    BY <1>3, <2>1, MinIs
<1>5. Min(T) \in 1 .. 16
  BY <1>1, <1>4
<1> HIDE DEF T
<1> QED
  BY <1>2, <1>3, <1>5

(* A number digit by digit, as the converters take it and as a reader does. *)
LEMMA WrappedSteps ==
  ASSUME NEW base \in Nat, NEW s \in Seq(Chars)
  PROVE  \E f \in [0 .. Len(s) -> Number] :
           /\ f[0] = 0 /\ f[Len(s)] = Wrapped(base, s)
           /\ \A k \in 0 .. Len(s) - 1 : f[k + 1] = (f[k] * base + DigitValue(s[k + 1])) % NumRange
<1> DEFINE n == Len(s)
           I == 1 .. n
           Step(t, c) == (t * base + DigitValue(c)) % NumRange
           C(it) == it = [x \in SUBSET I |->
                           IF x = {} THEN 0
                           ELSE Step(it[x \ {Greatest(x)}], s[Greatest(x)])]
           G == [k \in I |-> [t \in Number |-> Step(t, s[k])]]
           iter == CHOOSE it : C(it)
<1>1. n \in Nat /\ DOMAIN s = I /\ 0 \in Number
  BY SizesFacts DEF Number
<1>2. G \in [I -> [Number -> Number]]
  <2>1. ASSUME NEW k \in I, NEW t \in Number PROVE Step(t, s[k]) \in Number
    <3>1. DigitValue(s[k]) \in Int
      BY DigitInt
    <3> QED
      BY <3>1, SizesFacts DEF Number
  <2> HIDE DEF I, Step
  <2> QED
    BY <2>1
<1>3. Wrapped(base, s) = iter[I]
  BY <1>1 DEF Wrapped, FoldLeft, MapThenFoldSet, Max, Greatest
<1>4. \E it : C(it)
  <2>1. PICK it \in [SUBSET I -> Number] : FoldsBy(it, n, 0, G)
    <3> HIDE DEF G
    <3> QED
      BY <1>1, <1>2, FoldExists
  <2>2. ASSUME NEW x \in SUBSET I
        PROVE  it[x] = IF x = {} THEN 0 ELSE Step(it[x \ {Greatest(x)}], s[Greatest(x)])
    <3>1. it[x] = IF x = {} THEN 0 ELSE G[Greatest(x)][it[x \ {Greatest(x)}]]
      <4> HIDE DEF G
      <4> QED
        BY <2>1 DEF FoldsBy
    <3>2. x # {} => Greatest(x) \in I /\ it[x \ {Greatest(x)}] \in Number
      BY <1>1, GreatestIs
    <3> HIDE DEF Step
    <3> QED
      BY <3>1, <3>2
  <2> HIDE DEF Step
  <2>3. C(it)
    BY <2>1, <2>2
  <2> QED
    BY <2>3
<1> HIDE DEF Step
<1>5. C(iter)
  BY <1>4
<1> HIDE DEF iter
<1>6. iter[{}] = 0 /\ \A x \in SUBSET I : x # {} =>
                        iter[x] = Step(iter[x \ {Greatest(x)}], s[Greatest(x)])
  BY <1>5
<1>7. ASSUME NEW x \in SUBSET I, x # {}, iter[x \ {Greatest(x)}] \in Number
      PROVE  iter[x] = G[Greatest(x)][iter[x \ {Greatest(x)}]]
  <2>1. Greatest(x) \in I
    BY <1>1, <1>7, GreatestIs
  <2> QED
    BY <1>6, <1>7, <2>1
<1> HIDE DEF G
<1>8. PICK f \in [0 .. n -> Number] : FoldValues(f, n, 0, iter[1 .. n], G)
  <2>1. FoldsIn(iter, n, 0, Number, G)
    BY <1>6, <1>7 DEF FoldsIn
  <2> QED
    BY <1>1, <1>2, <2>1, FoldIs
<1>9. ASSUME NEW k \in 0 .. n - 1 PROVE f[k + 1] = Step(f[k], s[k + 1])
  <2>1. k + 1 \in I /\ f[k] \in Number /\ f[k + 1] = G[k + 1][f[k]]
    BY <1>1, <1>8 DEF FoldValues
  <2> QED
    BY <2>1 DEF G
<1>10. \A k \in 0 .. n - 1 : f[k + 1] = (f[k] * base + DigitValue(s[k + 1])) % NumRange
  BY <1>9 DEF Step
<1> QED
  BY <1>3, <1>8, <1>10 DEF FoldValues

LEMMA NumeralSteps ==
  ASSUME NEW base \in Nat, NEW s \in Seq(Chars)
  PROVE  \E f \in [0 .. Len(s) -> Int] :
           /\ f[0] = 0 /\ f[Len(s)] = Numeral(base, s)
           /\ \A k \in 0 .. Len(s) - 1 : f[k + 1] = f[k] * base + DigitValue(s[k + 1])
<1> DEFINE n == Len(s)
           I == 1 .. n
           Step(t, c) == t * base + DigitValue(c)
           C(it) == it = [x \in SUBSET I |->
                           IF x = {} THEN 0
                           ELSE Step(it[x \ {Greatest(x)}], s[Greatest(x)])]
           G == [k \in I |-> [t \in Int |-> Step(t, s[k])]]
           iter == CHOOSE it : C(it)
<1>1. n \in Nat /\ DOMAIN s = I /\ 0 \in Int
  BY SizesFacts DEF Number
<1>2. G \in [I -> [Int -> Int]]
  <2>1. ASSUME NEW k \in I, NEW t \in Int PROVE Step(t, s[k]) \in Int
    <3>1. DigitValue(s[k]) \in Int
      BY DigitInt
    <3> QED
      BY <3>1, SizesFacts DEF Number
  <2> HIDE DEF I, Step
  <2> QED
    BY <2>1
<1>3. Numeral(base, s) = iter[I]
  BY <1>1 DEF Numeral, FoldLeft, MapThenFoldSet, Max, Greatest
<1>4. \E it : C(it)
  <2>1. PICK it \in [SUBSET I -> Int] : FoldsBy(it, n, 0, G)
    <3> HIDE DEF G
    <3> QED
      BY <1>1, <1>2, FoldExists
  <2>2. ASSUME NEW x \in SUBSET I
        PROVE  it[x] = IF x = {} THEN 0 ELSE Step(it[x \ {Greatest(x)}], s[Greatest(x)])
    <3>1. it[x] = IF x = {} THEN 0 ELSE G[Greatest(x)][it[x \ {Greatest(x)}]]
      <4> HIDE DEF G
      <4> QED
        BY <2>1 DEF FoldsBy
    <3>2. x # {} => Greatest(x) \in I /\ it[x \ {Greatest(x)}] \in Int
      BY <1>1, GreatestIs
    <3> HIDE DEF Step
    <3> QED
      BY <3>1, <3>2
  <2> HIDE DEF Step
  <2>3. C(it)
    BY <2>1, <2>2
  <2> QED
    BY <2>3
<1> HIDE DEF Step
<1>5. C(iter)
  BY <1>4
<1> HIDE DEF iter
<1>6. iter[{}] = 0 /\ \A x \in SUBSET I : x # {} =>
                        iter[x] = Step(iter[x \ {Greatest(x)}], s[Greatest(x)])
  BY <1>5
<1>7. ASSUME NEW x \in SUBSET I, x # {}, iter[x \ {Greatest(x)}] \in Int
      PROVE  iter[x] = G[Greatest(x)][iter[x \ {Greatest(x)}]]
  <2>1. Greatest(x) \in I
    BY <1>1, <1>7, GreatestIs
  <2> QED
    BY <1>6, <1>7, <2>1
<1> HIDE DEF G
<1>8. PICK f \in [0 .. n -> Int] : FoldValues(f, n, 0, iter[1 .. n], G)
  <2>1. FoldsIn(iter, n, 0, Int, G)
    BY <1>6, <1>7 DEF FoldsIn
  <2> QED
    BY <1>1, <1>2, <2>1, FoldIs
<1>9. ASSUME NEW k \in 0 .. n - 1 PROVE f[k + 1] = Step(f[k], s[k + 1])
  <2>1. k + 1 \in I /\ f[k] \in Int /\ f[k + 1] = G[k + 1][f[k]]
    BY <1>1, <1>8 DEF FoldValues
  <2> QED
    BY <2>1 DEF G
<1>10. \A k \in 0 .. n - 1 : f[k + 1] = f[k] * base + DigitValue(s[k + 1])
  BY <1>9 DEF Step
<1> QED
  BY <1>3, <1>8, <1>10 DEF FoldValues

LEMMA WrappedIn ==
  ASSUME NEW base \in Nat, NEW s \in Seq(Chars) PROVE Wrapped(base, s) \in Number
<1>1. PICK f \in [0 .. Len(s) -> Number] : f[Len(s)] = Wrapped(base, s)
  BY WrappedSteps
<1>2. Len(s) \in 0 .. Len(s)
  OBVIOUS
<1> QED
  BY <1>1, <1>2

LEMMA ZeroDigit == DigitValue("0") = 0
<1> DEFINE T == {i \in 1 .. Len(HexChars) : HexChars[i] = "0"}
<1>1. DigitValue("0") = (IF T # {} THEN Min(T) ELSE 0) - 1
  BY DEF DigitValue, SelectInSeq
<1>2. 1 \in T
  BY DEF HexChars
<1>3. T \in SUBSET Nat /\ \A i \in T : 1 <= i
  BY DEF HexChars
<1>4. Min(T) \in T /\ Min(T) <= 1
  <2> HIDE DEF T
  <2> QED
    BY <1>2, <1>3, MinIs
<1>5. Min(T) = 1 /\ T # {}
  <2> DEFINE m == Min(T)
  <2> HIDE DEF T
  <2>1. m \in T /\ m <= 1
    BY <1>4
  <2> HIDE DEF m
  <2>2. m \in Nat /\ 1 <= m
    BY <1>3, <2>1
  <2>3. m = 1
    BY <2>1, <2>2
  <2> QED
    BY <1>2, <2>3 DEF m
<1> HIDE DEF T
<1> QED
  BY <1>1, <1>5

LEMMA PowerIs ==
  ASSUME NEW base \in Nat
  PROVE  /\ Power(base, 0) = 1
         /\ \A n \in Nat : /\ Power(base, n) \in Nat
                           /\ Power(base, n + 1) = base * Power(base, n)
<1> DEFINE G == [k \in Nat |-> [x \in Nat |-> base * x]]
           C(p) == p = [k \in Nat |-> IF k = 0 THEN 1 ELSE base * p[k - 1]]
           pow == CHOOSE p : C(p)
<1>1. G \in [Nat -> [Nat -> Nat]] /\ 1 \in Nat
  OBVIOUS
<1>2. PICK f \in [Nat -> Nat] : StepsBy(f, 1, G)
  <2> HIDE DEF G
  <2> QED
    BY <1>1, Recursion
<1>3. f[0] = 1 /\ \A k \in Nat : f[k + 1] = base * f[k]
  BY <1>2 DEF StepsBy
<1>4. C(f)
  <2>1. ASSUME NEW k \in Nat PROVE f[k] = IF k = 0 THEN 1 ELSE base * f[k - 1]
    <3>1. CASE k = 0
      BY <1>3, <3>1
    <3>2. CASE k # 0
      <4>1. k - 1 \in Nat /\ (k - 1) + 1 = k
        BY <3>2
      <4>2. f[(k - 1) + 1] = base * f[k - 1]
        BY <1>3, <4>1
      <4> QED
        BY <3>2, <4>1, <4>2
    <3> QED
      BY <3>1, <3>2
  <2> QED
    BY <2>1
<1>5. C(pow)
  BY <1>4
<1>6. \A n : Power(base, n) = pow[n]
  BY DEF Power
<1> HIDE DEF pow
<1>7. \A k \in Nat : pow[k] = IF k = 0 THEN 1 ELSE base * pow[k - 1]
  BY <1>5
<1>8. \A k \in Nat : pow[k + 1] = base * pow[k]
  <2> TAKE k \in Nat
  <2>1. k + 1 \in Nat /\ k + 1 # 0 /\ (k + 1) - 1 = k
    OBVIOUS
  <2> QED
    BY <1>7, <2>1
<1> DEFINE T == {k \in Nat : pow[k] \in Nat}
<1>9. 0 \in T
  BY <1>7
<1>10. ASSUME NEW k \in Nat, k \in T PROVE k + 1 \in T
  BY <1>8, <1>10
<1>11. Nat \subseteq T
  <2> HIDE DEF T
  <2> QED
    BY <1>9, <1>10, NumberInduction
<1> QED
  BY <1>6, <1>7, <1>8, <1>11

LEMMA PowerGrows ==
  ASSUME NEW base \in Nat \ {0}, NEW n \in Nat, NEW m \in 0 .. n
  PROVE  Power(base, m) \in Nat /\ Power(base, m) <= Power(base, n)
<1> DEFINE P(k) == Power(base, k)
           T == {k \in Nat : P(m) <= P(m + k)}
<1>1. \A k \in Nat : P(k) \in Nat /\ P(k + 1) = base * P(k)
  BY PowerIs
<1> HIDE DEF P
<1>2. \A k \in Nat : P(k) <= P(k + 1)
  <2> TAKE k \in Nat
  <2>1. 1 <= base /\ P(k) \in Nat
    BY <1>1
  <2>2. P(k) * 1 <= P(k) * base
    BY <2>1, TimesMonotone
  <2>3. P(k) * 1 = P(k) /\ P(k) * base = base * P(k)
    BY <2>1
  <2> QED
    BY <1>1, <2>2, <2>3
<1>3. 0 \in T
  BY <1>1, m + 0 = m
<1>4. ASSUME NEW k \in Nat, k \in T PROVE k + 1 \in T
  <2>1. m + k \in Nat /\ (m + k) + 1 = m + (k + 1)
    OBVIOUS
  <2>2. P(m + k) <= P((m + k) + 1) /\ P(m) \in Nat /\ P(m + k) \in Nat /\ P((m + k) + 1) \in Nat
    BY <1>1, <1>2, <2>1
  <2> QED
    BY <1>4, <2>1, <2>2
<1>5. Nat \subseteq T
  <2> HIDE DEF T
  <2> QED
    BY <1>3, <1>4, NumberInduction
<1>6. n - m \in Nat /\ m + (n - m) = n
  OBVIOUS
<1>7. P(m) <= P(n)
  BY <1>5, <1>6
<1> QED
  BY <1>1, <1>7 DEF P

(* The converters' arithmetic never goes round: what they store is the     *)
(* number written, if so many digits fit, a leading zero not counted.      *)
LEMMA NoWrap ==
  ASSUME NEW base \in Nat \ {0}, NEW s \in Seq(Chars), NEW n \in Nat, NEW z \in 0 .. 1,
         Power(base, n) <= NumRange,
         \A i \in 1 .. Len(s) : DigitValue(s[i]) \in 0 .. base - 1,
         Len(s) <= n + z,
         z = 1 => Len(s) > 0 /\ DigitValue(s[1]) = 0
  PROVE  Wrapped(base, s) = Numeral(base, s)
<1>1. PICK f \in [0 .. Len(s) -> Number] :
             /\ f[0] = 0 /\ f[Len(s)] = Wrapped(base, s)
             /\ \A k \in 0 .. Len(s) - 1 :
                  f[k + 1] = (f[k] * base + DigitValue(s[k + 1])) % NumRange
  BY WrappedSteps
<1>2. PICK g \in [0 .. Len(s) -> Int] :
             /\ g[0] = 0 /\ g[Len(s)] = Numeral(base, s)
             /\ \A k \in 0 .. Len(s) - 1 : g[k + 1] = g[k] * base + DigitValue(s[k + 1])
  BY NumeralSteps
<1> DEFINE P(k) == Power(base, k)
           T == {k \in Nat : k <= Len(s) =>
                   /\ f[k] = g[k] /\ g[k] \in Nat
                   /\ IF k <= z THEN g[k] = 0 ELSE g[k] < P(k - z)}
<1>3. /\ P(0) = 1
      /\ \A k \in Nat : P(k) \in Nat /\ P(k + 1) = base * P(k)
      /\ \A k \in 0 .. n : P(k) <= P(n)
  BY PowerIs, PowerGrows
<1>4. P(n) <= NumRange /\ NumRange \in Nat \ {0} /\ Len(s) \in Nat /\ P(n) \in Nat
  BY <1>3, SizesFacts
<1> HIDE DEF P
<1>5. 0 \in T
  BY <1>1, <1>2
<1>6. ASSUME NEW k \in Nat, k \in T PROVE k + 1 \in T
  <2> SUFFICES ASSUME k + 1 <= Len(s)
               PROVE  /\ f[k + 1] = g[k + 1] /\ g[k + 1] \in Nat
                      /\ IF k + 1 <= z THEN g[k + 1] = 0 ELSE g[k + 1] < P(k + 1 - z)
    OBVIOUS
  <2> DEFINE d == DigitValue(s[k + 1])
  <2>1. k \in 0 .. Len(s) - 1 /\ k + 1 \in 1 .. Len(s)
    BY <1>4
  <2>2. d \in 0 .. base - 1
    BY <2>1
  <2>3. f[k + 1] = (f[k] * base + d) % NumRange /\ g[k + 1] = g[k] * base + d
    BY <1>1, <1>2, <2>1
  <2>4. /\ f[k] = g[k] /\ g[k] \in Nat
        /\ IF k <= z THEN g[k] = 0 ELSE g[k] < P(k - z)
    BY <1>4, <1>6
  <2>5. k + 1 <= z => d = 0
    <3> SUFFICES ASSUME k + 1 <= z PROVE d = 0
      OBVIOUS
    <3>1. z = 1 /\ k = 0
      OBVIOUS
    <3> QED
      BY <3>1
  <2> HIDE DEF d
  <2>6. CASE k + 1 <= z
    <3>1. k <= z /\ g[k] = 0 /\ d = 0
      BY <2>4, <2>5, <2>6
    <3>2. g[k] * base + d = 0 /\ 0 % NumRange = 0
      BY <1>4, <3>1
    <3> QED
      BY <2>3, <2>4, <2>6, <3>2
  <2>7. CASE k + 1 > z
    <3>1. PICK j \in 0 .. n - 1 : j = k - z /\ j + 1 = k + 1 - z
      BY <2>1, <2>7
    <3> DEFINE p == P(j)
               q == P(j + 1)
               c == g[k]
    <3>2. /\ p \in Nat /\ q \in Nat /\ q = base * p /\ q <= NumRange
          /\ P(k - z) = p /\ P(k + 1 - z) = q
      <4>1. j \in Nat /\ j + 1 \in 0 .. n
        OBVIOUS
      <4>2. \A i \in 0 .. n : P(i) <= P(n)
        BY <1>3
      <4>3. \A i \in Nat : P(i) \in Nat
        BY <1>3
      <4>4. q \in Nat /\ p \in Nat /\ q <= P(n)
        <5>1. j + 1 \in Nat
          BY <4>1
        <5>2. P(j) \in Nat /\ P(j + 1) \in Nat
          BY <4>1, <4>3, <5>1, Zenon
        <5>3. P(j + 1) <= P(n)
          BY <4>1, <4>2, Zenon
        <5> QED
          BY <5>2, <5>3
      <4>5. q = base * p
        BY <1>3, <4>1
      <4>6. q <= NumRange
        BY <1>4, <4>4
      <4> QED
        BY <3>1, <4>4, <4>5, <4>6
    <3>3. c + 1 <= p /\ c \in Nat
      <4>1. CASE k <= z
        <5>1. j = 0
          BY <2>7, <3>1, <4>1
        <5> QED
          BY <1>3, <2>4, <4>1, <5>1
      <4>2. CASE k > z
        BY <2>4, <3>2, <4>2, SMTT(30)
      <4> QED
        BY <4>1, <4>2
    <3> HIDE DEF p, q, c
    <3>4. base * (c + 1) <= q
      <4>1. c + 1 \in Int /\ p \in Int /\ base \in Nat
        BY <3>2, <3>3
      <4> QED
        BY <3>2, <3>3, <4>1, TimesMonotone
    <3>5. base * (c + 1) = c * base + base /\ c * base \in Nat
      BY <3>3
    <3>6. g[k + 1] < q /\ g[k + 1] \in 0 .. NumRange - 1
      <4>1. g[k + 1] = c * base + d
        BY <2>3 DEF c
      <4> HIDE DEF d
      <4>2. d \in 0 .. base - 1
        BY <2>2 DEF d
      <4> QED
        BY <1>4, <3>2, <3>4, <3>5, <4>1, <4>2, SMTT(60)
    <3>7. g[k + 1] % NumRange = g[k + 1]
      <4> DEFINE r == g[k + 1]
      <4>1. r \in 0 .. NumRange - 1 /\ NumRange \in Nat \ {0} /\ 0 \in Int
        BY <1>4, <3>6
      <4> HIDE DEF r
      <4>2. (NumRange * 0 + r) % NumRange = r
        BY <4>1, DivModUnique
      <4>3. NumRange * 0 + r = r
        BY <4>1
      <4>4. r % NumRange = r
        BY <4>2, <4>3
      <4> QED
        BY <4>4 DEF r
    <3>8. f[k + 1] = g[k + 1]
      BY <2>3, <2>4, <3>7 DEF c
    <3> QED
      BY <2>7, <3>2, <3>6, <3>8
  <2> QED
    BY <2>6, <2>7
<1>7. Len(s) \in T
  <2> HIDE DEF T
  <2> QED
    BY <1>4, <1>5, <1>6, NumberInduction
<1> QED
  BY <1>1, <1>2, <1>4, <1>7

-----------------------------------------------------------------------------
(* The text of a line: word k begins behind st[k] characters.              *)

TextChars == Chars \ {Nul}

WordOf == [text  : Seq(TextChars) \ {<<>>},
           token : [type : TokenTypes, str : Seq(Chars), num : Nat]]

Laid(l, st) ==
  /\ st \in [1 .. Len(l) + 1 -> Nat]
  /\ st[1] = 0
  /\ \A k \in 1 .. Len(l) : st[k + 1] = st[k] + Len(l[k].text) + 1
  /\ Text(l) \in Seq(TextChars)
  /\ Len(Text(l)) = IF Len(l) = 0 THEN 0 ELSE st[Len(l) + 1] - 1
  /\ \A k \in 1 .. Len(l) : \A j \in 1 .. Len(l[k].text) :
       Text(l)[st[k] + j] = l[k].text[j]
  /\ \A k \in 1 .. Len(l) - 1 : Text(l)[st[k + 1]] = " "

LEMMA LineFacts ==
  ASSUME NEW l \in Lines
  PROVE  /\ l \in Seq(WordOf) /\ Len(l) \in Nat
         /\ \A k \in 1 .. Len(l) : /\ l[k] \in WordOf /\ l[k].text \in Seq(TextChars)
                                   /\ Len(l[k].text) \in Nat \ {0}
                                   /\ Reads(l[k].text, l[k].token)
<1>1. l \in Seq(WordOf)
  BY LinesAssumption DEF WordOf, TextChars
<1>2. \A k \in 1 .. Len(l) : Reads(l[k].text, l[k].token)
  BY <1>1, WordsAssumption
<1>3. ASSUME NEW k \in 1 .. Len(l)
      PROVE  /\ l[k] \in WordOf /\ l[k].text \in Seq(TextChars)
             /\ Len(l[k].text) \in Nat \ {0}
  <2>1. l[k] \in WordOf
    BY <1>1
  <2>2. l[k].text \in Seq(TextChars) /\ l[k].text # <<>>
    BY <2>1 DEF WordOf
  <2> QED
    BY <2>1, <2>2
<1> QED
  BY <1>1, <1>2, <1>3

LEMMA ConcatIs ==
  ASSUME NEW E, NEW x \in Seq(E), NEW y \in Seq(E)
  PROVE  /\ x \o y \in Seq(E) /\ Len(x \o y) = Len(x) + Len(y)
         /\ \A p \in 1 .. Len(x) : (x \o y)[p] = x[p]
         /\ \A j \in 1 .. Len(y) : (x \o y)[Len(x) + j] = y[j]
         /\ <<>> \o y = y
  OBVIOUS

LEMMA AppendIs ==
  ASSUME NEW E, NEW x \in Seq(E), NEW c \in E
  PROVE  /\ Append(x, c) \in Seq(E) /\ Len(Append(x, c)) = Len(x) + 1
         /\ Append(x, c)[Len(x) + 1] = c
         /\ \A p \in 1 .. Len(x) : Append(x, c)[p] = x[p]
  OBVIOUS

LEMMA LenNat == ASSUME NEW E, NEW x \in Seq(E) PROVE Len(x) \in Nat
  OBVIOUS

LEMMA TextShape ==
  ASSUME NEW l \in Lines PROVE \E st : Laid(l, st)
<1> DEFINE n == Len(l)
           S == Seq(TextChars)
           seqs == [i \in DOMAIN l |-> IF i < Len(l) THEN Append(l[i].text, " ")
                                       ELSE l[i].text]
           G == [k \in Nat |-> [x \in S |-> IF k + 1 <= n THEN x \o seqs[k + 1] ELSE x]]
           C(F) == F = [i \in 1 .. n |-> IF i = 1 THEN seqs[i] ELSE F[i - 1] \o seqs[i]]
           flat == CHOOSE F : C(F)
<1>1. n \in Nat /\ DOMAIN l = 1 .. n /\ DOMAIN seqs = 1 .. n /\ Len(seqs) = n
  <2>1. l \in Seq(WordOf)
    BY LineFacts
  <2>2. n \in Nat /\ DOMAIN l = 1 .. n
    BY <2>1
  <2>3. seqs = [i \in 1 .. n |-> seqs[i]]
    BY <2>2
  <2> HIDE DEF seqs, n
  <2>4. Len(seqs) = n
    BY <2>2, <2>3
  <2> QED
    BY <2>2, <2>3, <2>4
<1>2. ASSUME NEW k \in 1 .. n
      PROVE  /\ seqs[k] \in S
             /\ Len(seqs[k]) = Len(l[k].text) + (IF k < n THEN 1 ELSE 0)
             /\ \A j \in 1 .. Len(l[k].text) : seqs[k][j] = l[k].text[j]
             /\ k < n => seqs[k][Len(l[k].text) + 1] = " "
  <2> DEFINE t == l[k].text
  <2>1. t \in S /\ Len(t) \in Nat
    BY LineFacts
  <2>2. " " \in TextChars
    BY CharFacts DEF TextChars
  <2>3. seqs[k] = IF k < n THEN Append(t, " ") ELSE t
    BY <1>1
  <2> HIDE DEF seqs, t
  <2>4. CASE k < n
    <3> DEFINE c == " "
               u == Append(t, c)
    <3>1. /\ u \in Seq(TextChars) /\ Len(u) = Len(t) + 1 /\ u[Len(t) + 1] = " "
          /\ \A j \in 1 .. Len(t) : u[j] = t[j]
      <4>1. t \in Seq(TextChars) /\ c \in TextChars
        BY <2>1, <2>2
      <4> HIDE DEF c
      <4>2. /\ u \in Seq(TextChars) /\ Len(u) = Len(t) + 1 /\ u[Len(t) + 1] = c
            /\ \A j \in 1 .. Len(t) : u[j] = t[j]
        BY <4>1, AppendIs
      <4> QED
        BY <4>2 DEF c
    <3>2. seqs[k] = u
      BY <2>3, <2>4
    <3> HIDE DEF u, n
    <3> QED
      BY <2>4, <3>1, <3>2 DEF t
  <2>5. CASE ~ (k < n)
    <3>1. seqs[k] = t
      BY <2>3, <2>5
    <3> HIDE DEF n, S
    <3>2. k = n /\ Len(t) = Len(t) + (IF k < n THEN 1 ELSE 0)
      <4>1. n \in Nat /\ k \in 1 .. n
        BY <1>1
      <4>2. k = n
        BY <2>5, <4>1
      <4> QED
        BY <2>1, <4>1, <4>2
    <3> QED
      BY <2>1, <2>5, <3>1, <3>2 DEF t
  <2> QED
    BY <2>4, <2>5
<1>3. Text(l) = IF n = 0 THEN seqs ELSE flat[n]
  <2> HIDE DEF n
  <2>1. Text(l) = FlattenSeq(seqs)
    BY DEF Text
  <2> HIDE DEF seqs
  <2> QED
    BY <1>1, <2>1 DEF FlattenSeq
<1>0. n = 0 => seqs = <<>>
  BY <1>1
<1> HIDE DEF seqs, n
<1>4. G \in [Nat -> [S -> S]] /\ <<>> \in S
  <2>1. ASSUME NEW k \in Nat, NEW x \in S, k + 1 <= n PROVE x \o seqs[k + 1] \in S
    <3>1. k + 1 \in 1 .. n
      BY <1>1, <2>1
    <3>2. seqs[k + 1] \in S
      BY <1>2, <3>1
    <3> QED
      BY <3>2, ConcatIs
  <2>2. <<>> \in S
    OBVIOUS
  <2> HIDE DEF S
  <2> QED
    BY <2>1, <2>2
<1>5. PICK g \in [Nat -> S] : StepsBy(g, <<>>, G)
  <2> HIDE DEF G, S
  <2> QED
    BY <1>4, Recursion
<1>6. g[0] = <<>> /\ \A k \in 0 .. n - 1 : g[k + 1] = g[k] \o seqs[k + 1]
  <2>1. g[0] = <<>> /\ \A k \in Nat : g[k] \in S /\ g[k + 1] = G[k][g[k]]
    BY <1>5 DEF StepsBy
  <2>2. ASSUME NEW k \in 0 .. n - 1 PROVE g[k + 1] = g[k] \o seqs[k + 1]
    <3>1. k \in Nat /\ k + 1 <= n
      BY <1>1
    <3>2. g[k] \in S /\ g[k + 1] = G[k][g[k]]
      BY <2>1, <3>1
    <3> HIDE DEF S
    <3> QED
      BY <3>1, <3>2
  <2> QED
    BY <2>1, <2>2
<1> HIDE DEF G
<1>7. \A k \in 0 .. n : g[k] \in S
  BY <1>1, <1>5
<1>8. C([i \in 1 .. n |-> g[i]])
  <2>1. n > 0 => g[1] = seqs[1]
    <3> SUFFICES ASSUME n > 0 PROVE g[1] = seqs[1]
      OBVIOUS
    <3>0. 0 \in 0 .. n - 1 /\ 0 + 1 = 1 /\ 1 \in 1 .. n
      BY <1>1
    <3>1. g[0 + 1] = g[0] \o seqs[0 + 1] /\ seqs[1] \in S
      BY <1>2, <1>6, <3>0
    <3>2. g[1] = <<>> \o seqs[1]
      BY <1>6, <3>0, <3>1
    <3> QED
      BY <3>1, <3>2, ConcatIs
  <2>2. ASSUME NEW i \in 1 .. n, i # 1 PROVE g[i] = g[i - 1] \o seqs[i] /\ i - 1 \in 1 .. n
    <3>1. i - 1 \in 0 .. n - 1 /\ (i - 1) + 1 = i
      BY <1>1
    <3>2. g[(i - 1) + 1] = g[i - 1] \o seqs[(i - 1) + 1]
      BY <1>6, <3>1
    <3>3. i - 1 \in 1 .. n
      BY <1>1, <2>2
    <3> QED
      BY <3>1, <3>2, <3>3
  <2>3. n \in Nat /\ \A i \in 1 .. n : i = 1 => n > 0
    BY <1>1
  <2> DEFINE h == [i \in 1 .. n |-> g[i]]
  <2>4. ASSUME NEW i \in 1 .. n PROVE h[i] = IF i = 1 THEN seqs[i] ELSE h[i - 1] \o seqs[i]
    <3>1. CASE i = 1
      BY <2>1, <2>3, <3>1
    <3>2. CASE i # 1
      <4>1. h[i] = g[i] /\ h[i - 1] = g[i - 1]
        BY <2>2, <3>2
      <4> HIDE DEF h
      <4> QED
        BY <2>2, <3>2, <4>1
    <3> QED
      BY <3>1, <3>2
  <2>5. h = [i \in 1 .. n |-> h[i]]
    OBVIOUS
  <2> HIDE DEF h
  <2>6. C(h)
    BY <2>4, <2>5
  <2> QED
    BY <2>6 DEF h
<1>9. C(flat)
  BY <1>8
<1> HIDE DEF flat
<1> HIDE DEF S
<1>19. \A i \in 1 .. n : flat[i] = IF i = 1 THEN seqs[i] ELSE flat[i - 1] \o seqs[i]
  BY <1>9
<1>20. \A i \in 1 .. n : g[i] = IF i = 1 THEN seqs[i] ELSE g[i - 1] \o seqs[i]
  <2> DEFINE h == [i \in 1 .. n |-> g[i]]
  <2>1. \A i \in 1 .. n : h[i] = IF i = 1 THEN seqs[i] ELSE h[i - 1] \o seqs[i]
    BY <1>8
  <2>2. ASSUME NEW i \in 1 .. n, i # 1 PROVE i - 1 \in 1 .. n
    BY <1>1, <2>2
  <2>3. \A i \in 1 .. n : h[i] = g[i]
    OBVIOUS
  <2> HIDE DEF h
  <2> QED
    BY <2>1, <2>2, <2>3
<1>10. n # 0 => flat[n] = g[n]
  <2> DEFINE U == {i \in Nat : i \in 1 .. n => flat[i] = g[i]}
  <2>1. 0 \in U
    OBVIOUS
  <2>2. ASSUME NEW i \in Nat, i \in U PROVE i + 1 \in U
    <3> SUFFICES ASSUME i + 1 \in 1 .. n PROVE flat[i + 1] = g[i + 1]
      OBVIOUS
    <3>1. CASE i = 0
      BY <1>19, <1>20, <3>1
    <3>2. CASE i # 0
      <4>1. i \in 1 .. n /\ (i + 1) - 1 = i /\ i + 1 # 1
        BY <1>1, <3>2
      <4>2. flat[i + 1] = flat[(i + 1) - 1] \o seqs[i + 1]
        BY <1>19, <4>1
      <4>3. g[i + 1] = g[(i + 1) - 1] \o seqs[i + 1]
        BY <1>20, <4>1
      <4> QED
        BY <2>2, <4>1, <4>2, <4>3
    <3> QED
      BY <3>1, <3>2
  <2>3. Nat \subseteq U
    <3> HIDE DEF U
    <3> QED
      BY <2>1, <2>2, NumberInduction
  <2> QED
    BY <1>1, <2>3
(* What is laid stays. *)
<1>11. ASSUME NEW k \in 0 .. n - 1
       PROVE  /\ Len(g[k + 1]) = Len(g[k]) + Len(seqs[k + 1])
              /\ \A p \in 1 .. Len(g[k]) : g[k + 1][p] = g[k][p]
              /\ \A j \in 1 .. Len(seqs[k + 1]) : g[k + 1][Len(g[k]) + j] = seqs[k + 1][j]
  <2>0. k \in 0 .. n /\ k + 1 \in 1 .. n
    BY <1>1
  <2>1. g[k] \in S /\ seqs[k + 1] \in S /\ g[k + 1] = g[k] \o seqs[k + 1]
    BY <1>2, <1>6, <1>7, <2>0
  <2> DEFINE x == g[k]
             y == seqs[k + 1]
  <2>2. x \in Seq(TextChars) /\ y \in Seq(TextChars) /\ g[k + 1] = x \o y
    BY <2>1 DEF S
  <2> HIDE DEF x, y
  <2>3. /\ Len(x \o y) = Len(x) + Len(y)
        /\ \A p \in 1 .. Len(x) : (x \o y)[p] = x[p]
        /\ \A j \in 1 .. Len(y) : (x \o y)[Len(x) + j] = y[j]
    BY <2>2, ConcatIs
  <2> QED
    BY <2>2, <2>3, Zenon DEF x, y
<1>12. ASSUME NEW k \in 0 .. n
       PROVE  /\ Len(g[k]) <= Len(g[n])
              /\ \A p \in 1 .. Len(g[k]) : g[n][p] = g[k][p]
  <2> DEFINE U == {i \in Nat : k + i <= n => /\ Len(g[k]) <= Len(g[k + i])
                                           /\ \A p \in 1 .. Len(g[k]) : g[k + i][p] = g[k][p]}
  <2>0. \A i \in 0 .. n : Len(g[i]) \in Nat
    BY <1>7 DEF S
  <2>1. 0 \in U
    BY <2>0, k + 0 = k
  <2>2. ASSUME NEW i \in Nat, i \in U PROVE i + 1 \in U
    <3> SUFFICES ASSUME k + (i + 1) <= n
                 PROVE  /\ Len(g[k]) <= Len(g[k + (i + 1)])
                        /\ \A p \in 1 .. Len(g[k]) : g[k + (i + 1)][p] = g[k][p]
      OBVIOUS
    <3>1. PICK m \in 0 .. n - 1 : m = k + i /\ m + 1 = k + (i + 1)
      BY <1>1
    <3>2. Len(g[k]) <= Len(g[m]) /\ \A p \in 1 .. Len(g[k]) : g[m][p] = g[k][p]
      BY <1>1, <2>2, <3>1
    <3>3. Len(g[m + 1]) = Len(g[m]) + Len(seqs[m + 1]) /\ \A p \in 1 .. Len(g[m]) : g[m + 1][p] = g[m][p]
      BY <1>11
    <3>4. Len(seqs[m + 1]) \in Nat /\ Len(g[m]) \in Nat /\ Len(g[k]) \in Nat
      <4>1. m + 1 \in 1 .. n /\ m \in 0 .. n
        BY <1>1
      <4>2. seqs[m + 1] \in S
        BY <1>2, <4>1
      <4>3. Len(seqs[m + 1]) \in Nat
        BY <4>2, LenNat, Zenon DEF S
      <4> QED
        BY <2>0, <4>1, <4>3
    <3>5. \A p \in 1 .. Len(g[k]) : p \in 1 .. Len(g[m])
      BY <3>2, <3>4
    <3>6. \A p \in 1 .. Len(g[k]) : g[m + 1][p] = g[k][p]
      BY <3>2, <3>3, <3>5
    <3>7. Len(g[k]) <= Len(g[m + 1])
      <4> HIDE DEF seqs
      <4> QED
        BY <3>2, <3>3, <3>4
    <3> QED
      BY <3>1, <3>6, <3>7
  <2>3. Nat \subseteq U
    <3> HIDE DEF U
    <3> QED
      BY <2>1, <2>2, NumberInduction
  <2>4. PICK i \in Nat : k + i = n
    <3>1. n - k \in Nat /\ k + (n - k) = n
      BY <1>1
    <3> QED
      BY <3>1
  <2>5. i \in U /\ k + i <= n
    BY <1>1, <2>3, <2>4
  <2> QED
    BY <2>4, <2>5
<1>13. n # 0 => Text(l) = g[n]
  BY <1>3, <1>10
<1> DEFINE st == [k \in 1 .. n + 1 |-> Len(g[k - 1]) + (IF k = n + 1 /\ n # 0 THEN 1 ELSE 0)]
<1>14. \A k \in 0 .. n : Len(g[k]) \in Nat
  BY <1>7 DEF S
<1>15. /\ st \in [1 .. n + 1 -> Nat] /\ st[1] = 0
       /\ \A k \in 1 .. n : st[k] = Len(g[k - 1])
       /\ n # 0 => st[n + 1] = Len(g[n]) + 1
  <2>1. \A k \in 1 .. n + 1 : k - 1 \in 0 .. n
    BY <1>1
  <2>2. Len(g[0]) = 0
    BY <1>6
  <2>3. \A k \in 1 .. n + 1 : Len(g[k - 1]) \in Nat
    BY <1>14, <2>1
  <2>4. st \in [1 .. n + 1 -> Nat]
    <3>1. \A k \in 1 .. n + 1 : Len(g[k - 1]) + (IF k = n + 1 /\ n # 0 THEN 1 ELSE 0) \in Nat
      BY <2>3
    <3> QED
      BY <3>1
  <2>5. 1 - 1 = 0 /\ 1 \in 1 .. n + 1 /\ (1 = n + 1 <=> n = 0)
    BY <1>1
  <2>6. st[1] = 0
    BY <2>2, <2>5
  <2>7. \A k \in 1 .. n : k \in 1 .. n + 1 /\ k # n + 1
    BY <1>1
  <2>8. \A k \in 1 .. n : st[k] = Len(g[k - 1])
    BY <2>3, <2>7
  <2>9. n # 0 => st[n + 1] = Len(g[n]) + 1
    <3>1. n + 1 \in 1 .. n + 1 /\ (n + 1) - 1 = n
      BY <1>1
    <3> QED
      BY <3>1
  <2> QED
    BY <2>4, <2>6, <2>8, <2>9
<1> HIDE DEF st
<1>16. ASSUME NEW k \in 1 .. n
       PROVE  /\ st[k + 1] = st[k] + Len(l[k].text) + 1
              /\ \A j \in 1 .. Len(l[k].text) : Text(l)[st[k] + j] = l[k].text[j]
              /\ k < n => Text(l)[st[k + 1]] = " "
  <2>1. PICK i \in 0 .. n - 1 : i = k - 1 /\ i + 1 = k
    BY <1>1
  <2> DEFINE L == Len(l[k].text)
  <2>2. L \in Nat /\ st[k] = Len(g[i]) /\ Len(g[i]) \in Nat
    BY <1>1, <1>14, <1>15, <2>1, LineFacts
  <2>3. Len(g[k]) = Len(g[i]) + Len(seqs[k]) /\ \A j \in 1 .. Len(seqs[k]) : g[k][Len(g[i]) + j] = seqs[k][j]
    <3>1. /\ Len(g[i + 1]) = Len(g[i]) + Len(seqs[i + 1])
          /\ \A j \in 1 .. Len(seqs[i + 1]) : g[i + 1][Len(g[i]) + j] = seqs[i + 1][j]
      BY <1>11
    <3> HIDE DEF seqs
    <3> QED
      BY <2>1, <3>1, ZenonT(40)
  <2>4. /\ Len(seqs[k]) = L + (IF k < n THEN 1 ELSE 0)
        /\ \A j \in 1 .. L : seqs[k][j] = l[k].text[j]
        /\ k < n => seqs[k][L + 1] = " "
    BY <1>2
  <2>5. \A p \in 1 .. Len(g[k]) : Text(l)[p] = g[k][p]
    BY <1>1, <1>12, <1>13
  <2> HIDE DEF L
  <2> DEFINE a == Len(g[i])
             b == Len(seqs[k])
             c == Len(g[k])
  <2>9. L \in Nat /\ st[k] = a /\ a \in Nat /\ c = a + b /\ b = L + (IF k < n THEN 1 ELSE 0)
    BY <2>2, <2>3, <2>4
  <2>10. k < n => k + 1 \in 1 .. n /\ st[k + 1] = c
    <3> SUFFICES ASSUME k < n PROVE k + 1 \in 1 .. n /\ st[k + 1] = c
      OBVIOUS
    <3>1. k + 1 \in 1 .. n /\ (k + 1) - 1 = k
      BY <1>1
    <3> QED
      BY <1>15, <3>1
  <2>11. k = n => st[k + 1] = c + 1
    BY <1>1, <1>15
  <2>12. \A j \in 1 .. b : seqs[k][j] = g[k][a + j]
    BY <2>3
  <2>13. \A p \in 1 .. c : Text(l)[p] = g[k][p]
    BY <2>5
  <2>14. (\A j \in 1 .. L : seqs[k][j] = l[k].text[j]) /\ (k < n => seqs[k][L + 1] = " ")
    BY <2>4
  <2> HIDE DEF a, b, c
  <2>15. k \in Nat /\ n \in Nat /\ k <= n
    BY <1>1
  <2>6. st[k + 1] = st[k] + L + 1
    BY <2>9, <2>10, <2>11, <2>15
  <2>7. ASSUME NEW j \in 1 .. L PROVE Text(l)[st[k] + j] = l[k].text[j]
    <3>1. j \in 1 .. b /\ a + j \in 1 .. c
      BY <2>9
    <3>2. Text(l)[a + j] = g[k][a + j] /\ seqs[k][j] = g[k][a + j] /\ seqs[k][j] = l[k].text[j]
      BY <2>12, <2>13, <2>14, <3>1, Zenon
    <3> QED
      BY <2>9, <3>2
  <2>8. k < n => Text(l)[st[k + 1]] = " "
    <3> SUFFICES ASSUME k < n PROVE Text(l)[st[k + 1]] = " "
      OBVIOUS
    <3>1. L + 1 \in 1 .. b /\ a + (L + 1) \in 1 .. c /\ st[k + 1] = a + (L + 1)
      BY <2>6, <2>9
    <3>2. Text(l)[a + (L + 1)] = g[k][a + (L + 1)] /\ seqs[k][L + 1] = g[k][a + (L + 1)]
      BY <2>12, <2>13, <3>1, Zenon
    <3> QED
      BY <2>14, <3>1, <3>2, Zenon
  <2> QED
    BY <2>6, <2>7, <2>8 DEF L
<1>17. Text(l) \in S /\ Len(Text(l)) = IF n = 0 THEN 0 ELSE st[n + 1] - 1
  <2>1. CASE n = 0
    <3>1. Text(l) = <<>>
      BY <1>1, <1>3, <2>1 DEF seqs
    <3>2. Len(<<>>) = 0 /\ <<>> \in S
      BY <1>4
    <3> QED
      BY <2>1, <3>1, <3>2
  <2>2. CASE n # 0
    BY <1>1, <1>7, <1>13, <1>14, <1>15, <2>2
  <2> QED
    BY <2>1, <2>2
<1>18. \A k \in 1 .. n - 1 : k \in 1 .. n /\ k < n
  BY <1>1
<1> QED
  <2>1. \A k \in 1 .. n - 1 : Text(l)[st[k + 1]] = " "
    BY <1>16, <1>18
  <2> QED
    BY <1>15, <1>16, <1>17, <2>1 DEF Laid, S, n

-----------------------------------------------------------------------------
(* Types.  The end of the buffer is never written, so that every scan of a *)
(* token ends before it, and a variable's lexeme has its sigil.            *)

Room == BufSize - StrMax - 2

Tokens == {t \in [type : TokenTypes, str : Seq(Chars), num : Number] :
             /\ Len(t.str) <= StrMax
             /\ t.type = "variable" => t.str # <<>> /\ Head(t.str) \in Sigils}

Slot == {e \in [used : BOOLEAN, type : Types, name : Seq(Chars), str : Seq(Chars),
                num : Number] : Len(e.name) < StrMax /\ Len(e.str) <= StrMax}

Typing ==
  /\ buf \in Buffers
  /\ pc \in {"prompt", "lex", "rejected", "run"}
  /\ forward \in 0 .. MemSize
  /\ vec \in Seq(Tokens) /\ Len(vec) <= VecLen
  /\ table \in [Slots -> Slot]
  /\ line \in Lines
  /\ \A q \in Room .. BufSize - 1 : buf[q] = Nul
  /\ pc \in {"lex", "run"} => forward <= Room
  /\ pc = "lex" => Len(vec) < VecLen

LEMMA RoomFacts ==
  /\ Room \in 1 .. BufSize - 1
  /\ \A l \in Lines : /\ Text(l) \in Seq(TextChars) /\ Len(Text(l)) \in Nat
                      /\ Len(Text(l)) < Room
<1>1. ASSUME NEW l \in Lines
      PROVE  Text(l) \in Seq(TextChars) /\ Len(Text(l)) \in Nat
  <2>1. Text(l) \in Seq(TextChars)
    BY TextShape DEF Laid
  <2> QED
    BY <2>1, LenNat
<1>2. \A l \in Lines : Len(Text(l)) + StrMax + 2 < BufSize
  BY RoomAssumption
<1>3. \A l \in Lines : Len(Text(l)) < Room
  BY <1>1, <1>2, SizesFacts DEF Room
<1>4. Room \in 1 .. BufSize - 1
  <2>1. Len(Text(<<>>)) \in Nat /\ Len(Text(<<>>)) < Room
    BY <1>1, <1>3, LinesAssumption
  <2> QED
    BY <2>1, SizesFacts DEF Room
<1> QED
  BY <1>1, <1>3, <1>4

LEMMA TypingGives == Typing => TypeOK
<1> SUFFICES ASSUME Typing PROVE TypeOK
  OBVIOUS
<1>1. \A i \in DOMAIN vec : vec[i] \in Tokens
  BY DEF Typing
<1>2. vec \in Seq([type : TokenTypes, str : Seq(Chars), num : Number])
  <2> DEFINE R == [type : TokenTypes, str : Seq(Chars), num : Number]
  <2>1. Tokens \subseteq R
    BY DEF Tokens
  <2> HIDE DEF R
  <2>2. vec \in Seq(R)
    BY <2>1 DEF Typing
  <2> QED
    BY <2>2 DEF R
<1>3. table \in [Slots -> [used : BOOLEAN, type : Types, name : Seq(Chars),
                          str : Seq(Chars), num : Number]]
  <2> DEFINE R == [used : BOOLEAN, type : Types, name : Seq(Chars),
                   str : Seq(Chars), num : Number]
  <2>1. Slot \subseteq R
    BY DEF Slot
  <2> HIDE DEF R
  <2>2. table \in [Slots -> R]
    BY <2>1 DEF Typing
  <2> QED
    BY <2>2 DEF R
<1>4. \A i \in Slots : Len(table[i].name) < StrMax /\ Len(table[i].str) <= StrMax
  <2>1. \A i \in Slots : table[i] \in Slot
    BY DEF Typing
  <2> QED
    BY <2>1 DEF Slot
<1>5. \A i \in DOMAIN vec : Len(vec[i].str) <= StrMax
  BY <1>1 DEF Tokens
<1> QED
  BY <1>2, <1>3, <1>4, <1>5 DEF Typing, TypeOK, Buffers

LEMMA TypingInit == Init => Typing
<1> SUFFICES ASSUME Init PROVE Typing
  OBVIOUS
<1>1. buf \in Buffers /\ \A q \in Room .. BufSize - 1 : buf[q] = Nul
  <2>1. Nul \in Chars
    BY CharFacts
  <2> QED
    BY <2>1, RoomFacts, SizesFacts DEF Init, Buffers
<1>2. table \in [Slots -> Slot]
  <2>1. Unused \in Slot
    <3>1. <<>> \in Seq(Chars) /\ Len(<<>>) = 0 /\ 0 \in Number
      BY SizesFacts DEF Number
    <3> QED
      BY <3>1, SizesFacts DEF Unused, Slot, Types
  <2> QED
    BY <2>1 DEF Init
<1>3. vec \in Seq(Tokens) /\ Len(vec) <= VecLen /\ line \in Lines /\ forward \in 0 .. MemSize
  BY SizesFacts, LinesAssumption DEF Init
<1> QED
  BY <1>1, <1>2, <1>3 DEF Init, Typing

LEMMA RoomNul == ASSUME Typing PROVE buf[Room] = Nul /\ Room \in 1 .. BufSize - 1
<1>1. Room \in 1 .. BufSize - 1 /\ Room \in Room .. BufSize - 1
  BY RoomFacts, SizesFacts
<1>2. \A q \in Room .. BufSize - 1 : buf[q] = Nul
  BY DEF Typing
<1> QED
  BY <1>1, <1>2

(* A scan for characters of which '\0' is one ends before the buffer does. *)
LEMMA StopsAt ==
  ASSUME Typing, NEW p \in 0 .. Room, NEW C, Nul \in C
  PROVE  First(p, C) \in p .. Room
<1>1. p \in 0 .. BufSize /\ Room \in 1 .. BufSize - 1 /\ buf[Room] = Nul
  BY RoomNul, SizesFacts
<1>2. First(p, C) \in p .. BufSize /\ \A q \in p .. First(p, C) - 1 : buf[q] \notin C
  BY <1>1, FirstIs
<1> QED
  BY <1>1, <1>2

LEMMA Between ==
  ASSUME NEW n \in Int, NEW r \in 1 .. n - 1, NEW f \in 0 .. r, NEW b \in f .. r
  PROVE  /\ b \in 0 .. n - 1
         /\ b # r => b + 1 \in 0 .. r /\ b + 1 \in 0 .. n - 1
  OBVIOUS

LEMMA BeginIs ==
  ASSUME Typing, pc = "lex"
  PROVE  /\ Begin \in forward .. Room /\ Begin \in 0 .. BufSize - 1 /\ buf[Begin] \in Chars
         /\ buf[Begin] # Nul => Begin + 1 \in 0 .. Room /\ Begin + 1 \in 0 .. BufSize - 1
<1>1. forward \in 0 .. Room /\ Room \in 1 .. BufSize - 1 /\ buf[Room] = Nul
  <2>1. forward \in 0 .. MemSize /\ forward <= Room
    BY DEF Typing
  <2>2. Room \in 1 .. BufSize - 1 /\ buf[Room] = Nul
    BY RoomNul
  <2>4. forward \in 0 .. Room
    BY <2>1, <2>2, SizesFacts
  <2> QED
    BY <2>2, <2>4
<1>2. Begin \in forward .. Room
  <2>1. Nul \in Chars \ {" "}
    BY CharFacts
  <2> QED
    BY <1>1, <2>1, StopsAt DEF Begin
<1>3. Begin \in 0 .. BufSize - 1 /\ buf[Begin] \in Chars
  <2>1. Begin \in 0 .. BufSize - 1
    <3>1. BufSize \in Int /\ Room \in 1 .. BufSize - 1 /\ forward \in 0 .. Room
      BY <1>1, SizesFacts
    <3> QED
      BY <1>2, <3>1, Between
  <2> QED
    BY <2>1 DEF Typing, Buffers
<1>4. ASSUME buf[Begin] # Nul PROVE Begin + 1 \in 0 .. Room /\ Begin + 1 \in 0 .. BufSize - 1
  <2>1. Begin # Room
    BY <1>1, <1>4
  <2> QED
    <3>1. BufSize \in Int /\ Room \in 1 .. BufSize - 1 /\ forward \in 0 .. Room
      BY <1>1, SizesFacts
    <3> QED
      BY <1>2, <2>1, <3>1, Between
<1> QED
  BY <1>2, <1>3, <1>4

LEMMA ErrorTyped == Error \in Tokens /\ Unknown \in Tokens /\ Eoi \in Tokens
<1>1. <<>> \in Seq(Chars) /\ Len(<<>>) = 0 /\ 0 \in Number
  BY SizesFacts DEF Number
<1> QED
  BY <1>1, SizesFacts DEF Error, Unknown, Eoi, Token, Tokens, TokenTypes

LEMMA StrLexTyped ==
  ASSUME Typing, NEW t \in {"identifier", "variable", "lstring"},
         NEW b \in 0 .. BufSize, NEW e \in b - 1 .. BufSize - 1,
         t = "variable" => b <= e /\ buf[b] \in Sigils
  PROVE  SetStrLex(t, b, e) \in Tokens
<1> DEFINE s == Lexeme(b, e)
<1>1. s \in Seq(Chars) /\ Len(s) <= e - b + 1
  BY LexemeIs DEF Typing
<1>2. t = "variable" => s # <<>> /\ Head(s) \in Sigils
  <2>1. Nul \notin Sigils
    BY CharFacts
  <2> QED
    BY <2>1, LexemeIs DEF Typing
<1>3. 0 \in Number
  BY SizesFacts DEF Number
<1> HIDE DEF s
<1>4. e - b + 1 <= StrMax => Token(t, s, 0) \in Tokens
  <2> SUFFICES ASSUME e - b + 1 <= StrMax PROVE Token(t, s, 0) \in Tokens
    OBVIOUS
  <2>1. Len(s) <= StrMax
    <3>1. Len(s) \in Nat
      BY <1>1, LenNat
    <3> QED
      BY <1>1, <3>1, SizesFacts
  <2> QED
    BY <1>1, <1>2, <1>3, <2>1 DEF Token, Tokens, TokenTypes
<1>5. SetStrLex(t, b, e) = IF e - b + 1 > StrMax THEN Error ELSE Token(t, s, 0)
  BY DEF SetStrLex, s
<1> QED
  BY <1>4, <1>5, ErrorTyped, SizesFacts

LEMMA LUIntegerIs ==
  ASSUME NEW base \in Nat, NEW max, NEW b, NEW e
  PROVE  SetLUInteger(base, max, b, e) =
           IF \/ Len(Lexeme(b, e)) > max
              \/ \E i \in DOMAIN Lexeme(b, e) : DigitValue(Lexeme(b, e)[i]) >= base
           THEN Error ELSE LUInteger(Wrapped(base, Lexeme(b, e)))
  BY DEF SetLUInteger, Wrapped

LEMMA LUIntegerTyped ==
  ASSUME Typing, NEW base \in Nat, NEW max, NEW b \in 0 .. BufSize,
         NEW e \in b - 1 .. BufSize - 1
  PROVE  SetLUInteger(base, max, b, e) \in Tokens
<1> DEFINE s == Lexeme(b, e)
<1>1. Wrapped(base, s) \in Number
  BY LexemeIs, WrappedIn DEF Typing
<1>2. SetLUInteger(base, max, b, e) \in {Error, LUInteger(Wrapped(base, s))}
  BY LUIntegerIs
<1> HIDE DEF s
<1>3. LUInteger(Wrapped(base, s)) \in Tokens
  <2>1. <<>> \in Seq(Chars) /\ Len(<<>>) = 0
    OBVIOUS
  <2> QED
    BY <1>1, <2>1, SizesFacts DEF LUInteger, Token, Tokens, TokenTypes
<1> QED
  BY <1>2, <1>3, ErrorTyped

LEMMA AcceptTyped ==
  ASSUME Typing, pc = "lex", NEW t \in Tokens, NEW next \in 0 .. MemSize,
         t.type \notin {"error", "unknown"} => next <= Room,
         Accept(t, next)
  PROVE  Typing'
<1>1. UNCHANGED <<buf, table, line>> /\ forward' = next /\ forward' \in 0 .. MemSize
  BY DEF Accept
<1>2. CASE t.type \in {"error", "unknown"}
  BY <1>1, <1>2 DEF Accept, Typing
<1>3. CASE t.type \notin {"error", "unknown"}
  <2>1. vec \in Seq(Tokens) /\ Len(vec) \in Nat /\ Len(vec) < VecLen
    BY DEF Typing
  <2>2. vec' = Append(vec, t) /\ vec' \in Seq(Tokens) /\ Len(vec') = Len(vec) + 1
    BY <1>3, <2>1 DEF Accept
  <2>3. pc' = IF t.type = "eoi" THEN "run"
              ELSE IF Len(vec) + 1 = VecLen THEN "rejected" ELSE "lex"
    BY <1>3 DEF Accept
  <2>4. Len(vec') <= VecLen /\ forward' <= Room /\ (pc' = "lex" => Len(vec') < VecLen)
    BY <1>1, <1>3, <2>1, <2>2, <2>3, SizesFacts
  <2>5. pc' \in {"prompt", "lex", "rejected", "run"}
    BY <2>3
  <2> QED
    BY <1>1, <2>2, <2>4, <2>5 DEF Typing
<1> QED
  BY <1>2, <1>3

(* The end of a word of letters and digits, and its token. *)
LEMMA NameTyped ==
  ASSUME Typing, pc = "lex", buf[Begin] # Nul,
         NEW t \in {"identifier", "variable"}, t = "variable" => buf[Begin] \in Sigils
  PROVE  LET next == First(Begin + 1, Chars \ Alnum)
         IN  /\ next \in Begin + 1 .. Room
             /\ SetStrLex(t, Begin, next - 1) \in Tokens
<1> DEFINE b == Begin
           next == First(b + 1, Chars \ Alnum)
<1>1. b \in 0 .. Room /\ b + 1 \in 0 .. Room /\ b \in 0 .. BufSize
  <2>1. forward \in 0 .. MemSize
    BY DEF Typing
  <2> QED
    BY <2>1, BeginIs, RoomNul, SizesFacts
<1>2. Nul \in Chars \ Alnum
  BY CharFacts
<1> HIDE DEF b
<1>3. next \in b + 1 .. Room
  BY <1>1, <1>2, StopsAt
<1> HIDE DEF next
<1>4. next - 1 \in b - 1 .. BufSize - 1 /\ b <= next - 1
  BY <1>1, <1>3, RoomNul, SizesFacts
<1>5. SetStrLex(t, b, next - 1) \in Tokens
  BY <1>1, <1>4, StrLexTyped DEF b
<1> QED
  BY <1>3, <1>5 DEF b, next

LEMMA EoiTyping == ASSUME Typing, ProcessEoi PROVE Typing'
<1>1. pc = "lex" /\ Accept(Eoi, Begin)
  BY DEF ProcessEoi, Sees
<1>2. Begin \in 0 .. MemSize /\ Begin <= Room
  <2>1. forward \in 0 .. MemSize
    BY DEF Typing
  <2> QED
    BY <1>1, <2>1, BeginIs, RoomNul, SizesFacts
<1>3. Eoi.type = "eoi"
  BY DEF Eoi, Token
<1> QED
  BY <1>1, <1>2, <1>3, ErrorTyped, AcceptTyped

LEMMA NameTyping == ASSUME Typing, ProcessIdentifier \/ ProcessVariable PROVE Typing'
<1> DEFINE next == First(Begin + 1, Chars \ Alnum)
<1>1. PICK t \in {"identifier", "variable"} :
             /\ pc = "lex" /\ buf[Begin] # Nul
             /\ t = "variable" => buf[Begin] \in Sigils
             /\ Accept(SetStrLex(t, Begin, next - 1), next)
  <2>1. Nul \notin Letters /\ Nul \notin Sigils
    BY CharFacts
  <2>2. CASE ProcessIdentifier
    BY <2>1, <2>2 DEF ProcessIdentifier, Sees
  <2>3. CASE ProcessVariable
    BY <2>1, <2>3 DEF ProcessVariable, Sees
  <2> QED
    BY <2>2, <2>3
<1>2. next \in Begin + 1 .. Room /\ SetStrLex(t, Begin, next - 1) \in Tokens
  BY <1>1, NameTyped
<1>3. next \in 0 .. MemSize /\ next <= Room
  BY <1>1, <1>2, BeginIs, RoomNul, SizesFacts
<1> HIDE DEF next
<1> QED
  BY <1>1, <1>2, <1>3, AcceptTyped

LEMMA WithinBuffer == ASSUME NEW p \in 0 .. BufSize - 1 PROVE p \in 0 .. BufSize
BY SizesFacts

(* Such a loop ends in the buffer, or behind it. *)
LEMMA LoopEndsIs ==
  ASSUME NEW p \in 0 .. BufSize, NEW C, NEW q \in LoopEnds(p, C)
  PROVE  /\ q \in 0 .. MemSize
         /\ \/ q = First(p, C) /\ q \in p .. BufSize - 1
            \/ q \in BufSize .. MemSize - 1
<1>1. First(p, C) \in p .. BufSize
  BY FirstIs
<1> QED
  BY <1>1, SizesFacts DEF LoopEnds

LEMMA UnknownTyping == ASSUME Typing, ProcessUnknown PROVE Typing'
<1>1. /\ pc = "lex" /\ buf[Begin] # Nul
      /\ \E q \in LoopEnds(Begin + 1, {" "}) : Accept(Unknown, q)
  <2>1. Nul \notin Chars \ (Alnum \cup Sigils \cup {"!", Nul})
    OBVIOUS
  <2> QED
    BY <2>1 DEF ProcessUnknown, Sees
<1>2. PICK next \in LoopEnds(Begin + 1, {" "}) : Accept(Unknown, next)
  BY <1>1
<1>3. next \in 0 .. MemSize
  <2> DEFINE p == Begin + 1
  <2>1. p \in 0 .. BufSize - 1 /\ next \in LoopEnds(p, {" "})
    BY <1>1, BeginIs
  <2> HIDE DEF p
  <2>2. p \in 0 .. BufSize
    BY <2>1, WithinBuffer
  <2> QED
    BY <2>1, <2>2, LoopEndsIs
<1>4. Unknown.type = "unknown"
  BY DEF Unknown, Token
<1> QED
  BY <1>1, <1>3, <1>4, <1>2, ErrorTyped, AcceptTyped

LEMMA ErrorAccepted ==
  ASSUME Typing, pc = "lex", NEW next \in 0 .. MemSize, Accept(Error, next)
  PROVE  Typing'
<1>1. Error.type = "error"
  BY DEF Error, Token
<1> QED
  BY <1>1, ErrorTyped, AcceptTyped

LEMMA StringTyping == ASSUME Typing, ProcessString PROVE Typing'
<1> DEFINE b == Begin
<1>1. pc = "lex" /\ buf[b] # Nul
  <2>1. Nul # "!"
    BY CharFacts
  <2> QED
    BY <2>1 DEF ProcessString, Sees
<1>2. b + 1 \in 0 .. Room /\ b + 1 \in 0 .. BufSize
  BY <1>1, BeginIs, RoomNul, SizesFacts
<1>3. b \in 0 .. BufSize - 1
  BY <1>1, BeginIs
<1>4. PICK last \in LoopEnds(b + 1, {"!"}) :
             Accept(SetStrLex("lstring", b + 1, last - 1), last + 1)
  BY DEF ProcessString
<1>5. \/ last = First(b + 1, {"!"}) /\ last \in b + 1 .. BufSize - 1
      \/ last \in BufSize .. MemSize - 1
  <2> DEFINE p == b + 1
  <2>1. p \in 0 .. BufSize
    BY <1>2
  <2> HIDE DEF p
  <2>2. \/ last = First(p, {"!"}) /\ last \in p .. BufSize - 1
        \/ last \in BufSize .. MemSize - 1
    BY <2>1, LoopEndsIs DEF p
  <2> QED
    BY <2>2 DEF p
<1>6. CASE last \in BufSize .. MemSize - 1
  <2> HIDE DEF b
  <2>1. last + 1 \in 0 .. MemSize /\ last - 1 - (b + 1) + 1 > StrMax
    <3>1. b + 1 <= Room /\ Room = BufSize - StrMax - 2 /\ b \in Int
      BY <1>2, <1>3, RoomNul, SizesFacts DEF Room
    <3> QED
      BY <1>6, <3>1, SizesFacts
  <2>2. Accept(Error, last + 1)
    BY <1>4, <2>1 DEF SetStrLex
  <2> QED
    BY <1>1, <2>1, <2>2, ErrorAccepted
<1>7. CASE last = First(b + 1, {"!"}) /\ last \in b + 1 .. BufSize - 1
  <2> HIDE DEF b
  <2>1. last \in b + 1 .. BufSize /\ (last < BufSize => buf[last] \in {"!"})
    <3> DEFINE p == b + 1
    <3>1. p \in 0 .. BufSize
      BY <1>2
    <3> HIDE DEF p
    <3>2. last \in p .. BufSize /\ (last < BufSize => buf[last] \in {"!"})
      BY <1>7, <3>1, FirstIs DEF p
    <3> QED
      BY <3>2 DEF p
  <2>2. ~ (last \in Room .. BufSize - 1)
    <3>1. \A q \in Room .. BufSize - 1 : buf[q] = Nul
      BY DEF Typing
    <3>2. Nul # "!"
      BY CharFacts
    <3>3. last \in Room .. BufSize - 1 => last < BufSize
      BY RoomNul, SizesFacts
    <3> QED
      BY <2>1, <3>1, <3>2, <3>3
  <2>3. last < Room /\ last + 1 \in 0 .. MemSize /\ last + 1 <= Room
    <3>1. last \in b + 1 .. BufSize
      BY <2>1
    <3> QED
      BY <1>2, <1>7, <2>2, <3>1, RoomNul, SizesFacts
  <2> DEFINE p == b + 1
  <2>4. p \in 0 .. BufSize /\ last - 1 \in p - 1 .. BufSize - 1
    <3>1. last \in p .. BufSize /\ p \in 0 .. BufSize
      BY <1>2, <2>1
    <3> HIDE DEF p
    <3> QED
      BY <2>3, <3>1, RoomNul, SizesFacts
  <2> HIDE DEF p
  <2>5. SetStrLex("lstring", p, last - 1) \in Tokens
    BY <2>4, StrLexTyped
  <2> USE DEF p
  <2> QED
    BY <1>1, <1>4, <2>3, <2>5, AcceptTyped
<1> QED
  BY <1>6, <1>7, <1>5

LEMMA NumberTyping == ASSUME Typing, ProcessLUInteger PROVE Typing'
<1> DEFINE b == Begin
           hx == buf[b] = "0" /\ buf[b + 1] = "x"
           from == IF hx THEN b + 2 ELSE b
           next == First(from + 1, Chars \ Hex)
           base == IF hx THEN 16 ELSE IF buf[b] = "0" THEN 8 ELSE 10
           max == IF hx THEN HexMax ELSE IF buf[b] = "0" THEN OctMax ELSE DecMax
<1>1. pc = "lex" /\ buf[b] # Nul
  <2>1. Nul \notin Digits
    BY CharFacts
  <2> QED
    BY <2>1 DEF ProcessLUInteger, Sees
<1>2. b \in 0 .. Room /\ b + 1 \in 0 .. Room /\ Room \in 1 .. BufSize - 1 /\ buf[Room] = Nul
  <2>1. forward \in 0 .. MemSize
    BY DEF Typing
  <2> QED
    BY <1>1, <2>1, BeginIs, RoomNul, SizesFacts
<1>3. IF hx /\ buf[from] \notin Hex THEN Accept(Error, from)
      ELSE Accept(SetLUInteger(base, max, from, next - 1), next)
  BY DEF ProcessLUInteger
<1> HIDE DEF b
<1>4. from \in 0 .. Room /\ from <= b + 2
  <2>1. CASE hx
    <3>1. Nul # "x"
      BY CharFacts
    <3>2. b + 1 # Room
      BY <1>2, <2>1, <3>1
    <3> QED
      BY <1>2, <2>1, <3>2
  <2>2. CASE ~hx
    BY <1>2, <2>2
  <2> QED
    BY <2>1, <2>2
<1>5. CASE hx /\ buf[from] \notin Hex
  <2> HIDE DEF from, hx
  <2>1. from \in 0 .. MemSize
    BY <1>2, <1>4, SizesFacts
  <2> QED
    BY <1>1, <1>3, <1>5, <2>1, ErrorAccepted
<1>6. CASE ~ (hx /\ buf[from] \notin Hex)
  <2>1. buf[from] # Nul
    <3>1. Nul \notin Hex
      BY CharFacts
    <3> QED
      BY <1>1, <1>6, <3>1 DEF b
  <2> HIDE DEF from, hx
  <2>2. from # Room
    BY <1>2, <2>1
  <2>3. from \in 0 .. Room /\ Room \in 1 .. BufSize - 1
    BY <1>2, <1>4
  <2>4. from + 1 \in 0 .. Room /\ from \in 0 .. BufSize
    BY <2>2, <2>3, SizesFacts
  <2>5. Nul \in Chars \ Hex
    BY CharFacts
  <2>6. next \in from + 1 .. Room
    BY <2>4, <2>5, StopsAt
  <2> HIDE DEF next
  <2>7. next - 1 \in from - 1 .. BufSize - 1 /\ next \in 0 .. MemSize /\ next <= Room
    BY <2>3, <2>4, <2>6, SizesFacts
  <2>8. base \in Nat
    OBVIOUS
  <2> HIDE DEF base, max
  <2>9. SetLUInteger(base, max, from, next - 1) \in Tokens
    BY <2>4, <2>7, <2>8, LUIntegerTyped
  <2> QED
    BY <1>1, <1>3, <1>6, <2>7, <2>9, AcceptTyped
<1> QED
  BY <1>5, <1>6

LEMMA LineTyping == ASSUME Typing, GetLine PROVE Typing'
<1>1. PICK l \in Lines :
             /\ line' = l
             /\ buf' = [i \in DOMAIN buf |-> IF i < Len(Text(l)) THEN Text(l)[i + 1]
                                             ELSE IF i = Len(Text(l)) THEN Nul ELSE buf[i]]
  BY DEF GetLine
<1>2. Text(l) \in Seq(TextChars) /\ Len(Text(l)) \in Nat /\ Len(Text(l)) < Room
  BY RoomFacts
<1> DEFINE t == Text(l)
<1> HIDE DEF t
<1>3. DOMAIN buf = 0 .. BufSize - 1 /\ \A i \in 0 .. BufSize - 1 : buf[i] \in Chars
  BY DEF Typing, Buffers
<1>4. buf' = [i \in 0 .. BufSize - 1 |-> IF i < Len(t) THEN t[i + 1]
                                         ELSE IF i = Len(t) THEN Nul ELSE buf[i]]
  BY <1>1, <1>3 DEF t
<1>5. buf' \in Buffers
  <2>1. ASSUME NEW i \in 0 .. BufSize - 1, i < Len(t) PROVE t[i + 1] \in Chars
    <3>1. i + 1 \in 1 .. Len(t)
      BY <1>2, <2>1 DEF t
    <3>2. t[i + 1] \in TextChars
      BY <1>2, <3>1 DEF t
    <3> QED
      BY <3>2 DEF TextChars
  <2>2. Nul \in Chars
    BY CharFacts
  <2> QED
    BY <1>3, <1>4, <2>1, <2>2 DEF Buffers
<1>6. ASSUME NEW q \in Room .. BufSize - 1 PROVE buf'[q] = Nul
  <2>1. buf[q] = Nul
    BY DEF Typing
  <2>2. q \in 0 .. BufSize - 1 /\ ~ (q < Len(t))
    BY <1>2, RoomNul, SizesFacts DEF t
  <2> QED
    BY <1>4, <2>1, <2>2
<1>7. vec' \in Seq(Tokens) /\ Len(vec') = 0 /\ forward' = 0 /\ pc' = "lex" /\ table' = table
  BY DEF GetLine
<1>8. Len(vec') < VecLen /\ Len(vec') <= VecLen /\ forward' \in 0 .. MemSize /\ forward' <= Room
  BY <1>7, RoomNul, SizesFacts
<1> QED
  BY <1>1, <1>5, <1>6, <1>7, <1>8 DEF Typing

(* What a set command that is accepted does to the table. *)
LEMMA SetIs ==
  ASSUME Typing, RunSet
  PROVE  /\ pc' = "prompt" /\ UNCHANGED <<buf, forward, vec, line>>
         /\ Calls("s") /\ Len(vec) = 4 /\ vec[2] \in Tokens /\ vec[3] \in Tokens
         /\ IF vec[2].type = "variable" THEN VarSetEntry(vec[2], vec[3]) ELSE UNCHANGED table
<1>1. Calls("s") /\ Arity["s"] = 2
  BY DEF RunSet, Arity
<1>2. Len(vec) = 4
  BY <1>1 DEF Calls
<1>3. vec[2] \in Tokens /\ vec[3] \in Tokens
  <2>1. vec \in Seq(Tokens)
    BY DEF Typing
  <2>2. 2 \in 1 .. Len(vec) /\ 3 \in 1 .. Len(vec)
    BY <1>2
  <2> QED
    BY <2>1, <2>2, ElementOfSeq, Zenon
<1> QED
  BY <1>1, <1>2, <1>3 DEF RunSet, Done

(* Where a variable's value goes. *)
LEMMA PlaceIs ==
  ASSUME Typing, NEW type, NEW name
  PROVE  LET found == IF Entries(type, name) # {} THEN Entries(type, name) ELSE FreeEntries
         IN  /\ found \subseteq Slots
             /\ found # {} => Min(found) \in found
<1> DEFINE found == IF Entries(type, name) # {} THEN Entries(type, name) ELSE FreeEntries
<1>1. found \subseteq Slots
  BY DEF Entries, FreeEntries
<1> HIDE DEF found
<1>2. found \in SUBSET Nat
  BY <1>1, SizesFacts DEF Slots
<1>3. found # {} => Min(found) \in found
  BY <1>2, MinIs
<1> QED
  BY <1>1, <1>3 DEF found

LEMMA OneFits == 0 \in Number /\ 1 \in Number
<1>1. Power(16, 0) = 1 /\ Power(16, 0 + 1) = 16 * Power(16, 0)
  BY PowerIs
<1>2. Power(16, 1) = 16
  BY <1>1
<1>3. 16 \in Nat \ {0} /\ HexMax \in Nat /\ 1 \in 0 .. HexMax
  BY SizesFacts
<1>4. Power(16, 1) <= Power(16, HexMax)
  BY <1>3, PowerGrows
<1>5. Power(16, HexMax) <= NumRange /\ Power(16, HexMax) \in Nat
  BY <1>3, PowerIs, NumbersAssumption
<1>6. 16 <= NumRange
  BY <1>2, <1>4, <1>5, SizesFacts
<1> QED
  BY <1>6, SizesFacts DEF Number

LEMMA SetTyping == ASSUME Typing, RunSet PROVE Typing'
<1>1. /\ pc' = "prompt" /\ UNCHANGED <<buf, forward, vec, line>>
      /\ vec[2] \in Tokens /\ vec[3] \in Tokens
      /\ IF vec[2].type = "variable" THEN VarSetEntry(vec[2], vec[3]) ELSE UNCHANGED table
  BY SetIs
<1>2. table' \in [Slots -> Slot]
  <2> DEFINE var == vec[2]
             val == vec[3]
             type == TypeOfSigil(Head(var.str))
             name == Tail(var.str)
             found == IF Entries(type, name) # {} THEN Entries(type, name) ELSE FreeEntries
             e == [used |-> TRUE, type |-> type, name |-> name, str |-> val.str,
                   num |-> IF type = "bool" /\ val.num % ByteRange # 0 THEN 1
                           ELSE IF type = "bool" THEN 0 ELSE val.num]
  <2>0. table \in [Slots -> Slot]
    BY DEF Typing
  <2>1. CASE UNCHANGED table
    BY <2>0, <2>1
  <2>2. CASE table' # table
    <3>1. vec[2].type = "variable" /\ VarSetEntry(var, val)
      BY <1>1, <2>2
    <3>2. found # {} /\ val.type = LiteralOf(type) /\ table' = [table EXCEPT ![Min(found)] = e]
      BY <2>2, <3>1 DEF VarSetEntry
    <3>3. Min(found) \in Slots
      BY <3>2, PlaceIs
    <3>4. var.str \in Seq(Chars) /\ var.str # <<>> /\ Len(var.str) <= StrMax /\ Head(var.str) \in Sigils
      BY <1>1, <3>1 DEF Tokens
    <3>5. name \in Seq(Chars) /\ Len(name) < StrMax
      BY <3>4, SizesFacts
    <3>6. type \in Types
      BY <3>4 DEF TypeOfSigil, Sigils, Types
    <3>7. val.str \in Seq(Chars) /\ Len(val.str) <= StrMax /\ val.num \in Number
      BY <1>1 DEF Tokens
    <3>8. (IF type = "bool" /\ val.num % ByteRange # 0 THEN 1
           ELSE IF type = "bool" THEN 0 ELSE val.num) \in Number
      <4> HIDE DEF type, val
      <4> QED
        BY <3>7, OneFits
    <3>9. e \in Slot
      <4> HIDE DEF type, name, val
      <4> QED
        BY <3>5, <3>6, <3>7, <3>8 DEF Slot
    <3> HIDE DEF e, found
    <3> QED
      BY <2>0, <3>2, <3>3, <3>9
  <2> QED
    BY <2>1, <2>2
<1> QED
  BY <1>1, <1>2 DEF Typing

LEMMA DoneTyping == ASSUME Typing, Done, UNCHANGED table PROVE Typing'
  BY DEF Typing, Done

LEMMA TypingStep == Typing /\ [Next]_vars => Typing'
<1> SUFFICES ASSUME Typing, [Next]_vars PROVE Typing'
  OBVIOUS
<1>1. CASE GetLine
  BY <1>1, LineTyping
<1>2. CASE ProcessEoi
  BY <1>2, EoiTyping
<1>3. CASE ProcessIdentifier \/ ProcessVariable
  BY <1>3, NameTyping
<1>4. CASE ProcessLUInteger
  BY <1>4, NumberTyping
<1>5. CASE ProcessString
  BY <1>5, StringTyping
<1>6. CASE ProcessUnknown
  BY <1>6, UnknownTyping
<1>7. CASE RunSet
  BY <1>7, SetTyping
<1>8. CASE RunOther \/ Reject
  BY <1>8, DoneTyping DEF RunOther, Reject
<1>9. CASE UNCHANGED vars
  BY <1>9 DEF vars, Typing
<1> QED
  BY <1>1, <1>2, <1>3, <1>4, <1>5, <1>6, <1>7, <1>8, <1>9 DEF Next, Lexer

LEMMA TypingAlways == Spec => []Typing
<1>1. Init => Typing
  BY TypingInit
<1>2. Typing /\ [Next]_vars => Typing'
  BY TypingStep
<1> QED
  BY <1>1, <1>2, PTL DEF Spec

(* Where the next token is looked for, or the last one was found. *)
ScanInBuffer == pc \in {"lex", "run"} => forward < BufSize

(* A loop of lexer.c that finds no delimiter runs on behind the shell's    *)
(* buffer, wherever that ends, but then the line is refused: as long as    *)
(* tokens are taken the scan is in the buffer, and the syntax vector and   *)
(* the strings of tokens and variables keep to their lengths, whatever was *)
(* typed before.                                                           *)
THEOREM ScanStays == Spec => [](TypeOK /\ ScanInBuffer)
<1>1. Typing => TypeOK
  BY TypingGives
<1>2. Typing => ScanInBuffer
  <2>1. Typing /\ pc \in {"lex", "run"} => forward < BufSize
    BY RoomFacts, SizesFacts DEF Typing
  <2> QED
    BY <2>1 DEF ScanInBuffer
<1> QED
  BY <1>1, <1>2, TypingAlways, PTL

-----------------------------------------------------------------------------
(* One word.                                                               *)

Ends == {" ", Nul}

(* The word s is the next one: it lies at b, a blank or the line's end     *)
(* behind it.                                                              *)
Here(b, s) ==
  /\ s \in Seq(TextChars) /\ Len(s) \in Nat \ {0}
  /\ b \in Nat /\ b + Len(s) < BufSize
  /\ \A j \in 1 .. Len(s) : buf[b + j - 1] = s[j]
  /\ buf[b + Len(s)] \in Ends
  /\ Begin = b

LEMMA Offset ==
  ASSUME NEW b \in Nat, NEW n \in Nat, NEW a \in 0 .. n, NEW q \in b + a .. (b + n) - 1
  PROVE  \E j \in a + 1 .. n : q = b + j - 1 /\ j \in 1 .. n
<1> DEFINE j == q - b + 1
<1>1. j \in a + 1 .. n /\ q = b + j - 1 /\ j \in 1 .. n
  OBVIOUS
<1> QED
  BY <1>1

LEMMA WordFirst ==
  ASSUME NEW b, NEW s, Here(b, s), NEW C, Sees(C)
  PROVE  pc = "lex" /\ buf[b] = s[1] /\ s[1] \in C
<1>1. 1 \in 1 .. Len(s) /\ b + 1 - 1 = b
  <2>1. Len(s) \in Nat \ {0} /\ b \in Nat
    BY DEF Here
  <2> QED
    BY <2>1
<1>2. buf[b] = s[1]
  BY <1>1 DEF Here
<1> QED
  BY <1>2 DEF Here, Sees

(* A scan from a letter of the word stops behind the word, if what it      *)
(* stops at is not in the word.                                            *)
LEMMA WordEnd ==
  ASSUME NEW b, NEW s, Here(b, s), NEW a \in 1 .. Len(s), NEW C,
         Ends \subseteq C,
         \A j \in a + 1 .. Len(s) : s[j] \notin C
  PROVE  First(b + a, C) = b + Len(s)
<1> DEFINE n == Len(s)
<1>1. n \in Nat /\ b \in Nat /\ b + n < BufSize /\ buf[b + n] \in C /\ a \in 1 .. n
      /\ BufSize \in Nat
  BY SizesFacts DEF Here
<1>2. \A j \in 1 .. n : buf[b + j - 1] = s[j]
  BY DEF Here
<1>3. \A j \in a + 1 .. n : s[j] \notin C
  OBVIOUS
<1> HIDE DEF n
<1>4. ASSUME NEW q \in b + a .. (b + n) - 1 PROVE buf[q] \notin C
  <2>1. PICK j \in a + 1 .. n : q = b + j - 1 /\ j \in 1 .. n
    BY <1>1, Offset
  <2> QED
    BY <1>2, <1>3, <2>1
<1>5. b + a \in 0 .. BufSize /\ b + n \in b + a .. BufSize - 1
  <2>1. a \in Nat /\ a <= n
    BY <1>1
  <2> QED
    BY <1>1, <2>1
<1> DEFINE p == b + a
           m == b + n
<1> HIDE DEF p, m
<1>6. First(p, C) = m
  BY <1>1, <1>4, <1>5, FirstAt DEF p, m
<1> QED
  BY <1>6 DEF n, p, m

(* What is copied of the word. *)
LEMMA WordCopied ==
  ASSUME Typing, NEW b, NEW s, Here(b, s), NEW a \in 0 .. Len(s), NEW z \in a .. Len(s)
  PROVE  Lexeme(b + a, b + z - 1) = SubSeq(s, a + 1, z)
<1> DEFINE n == Len(s)
<1>1. n \in Nat /\ b \in Nat /\ b + n < BufSize /\ a \in 0 .. n /\ z \in a .. n
      /\ BufSize \in Nat
  BY SizesFacts DEF Here
<1>2. \A j \in 1 .. n : buf[b + j - 1] = s[j]
  BY DEF Here
<1>3. \A j \in 1 .. n : s[j] # Nul
  <2>1. s \in Seq(TextChars)
    BY DEF Here
  <2>2. \A j \in 1 .. n : s[j] \in TextChars
    BY <2>1
  <2> QED
    BY <2>2 DEF TextChars
<1> HIDE DEF n
<1> DEFINE p == b + a
           e == b + z - 1
<1>4. p \in 0 .. BufSize /\ e \in p - 1 .. BufSize - 1 /\ e - p + 1 = z - a
  BY <1>1
<1>5. \A q \in p .. e : buf[q] # Nul
  <2>1. TAKE q \in p .. e
  <2>2. PICK j \in 1 .. n : q = b + j - 1
    <3>1. q - b + 1 \in 1 .. n /\ q = b + (q - b + 1) - 1
      BY <1>1
    <3> QED
      BY <3>1
  <2> QED
    BY <1>2, <1>3, <2>2
<1>6. \A i \in 1 .. z - a : buf[p + i - 1] = s[a + i]
  <2>1. TAKE i \in 1 .. z - a
  <2>2. a + i \in 1 .. n /\ b + (a + i) - 1 = p + i - 1
    BY <1>1
  <2> QED
    BY <1>2, <2>2
<1>7. SubSeq(s, a + 1, z) = [i \in 1 .. z - a |-> s[a + i]]
  <2>1. s \in Seq(TextChars) /\ Len(s) = n
    BY DEF Here, n
  <2>2. SubSeq(s, a + 1, z) = [i \in 1 .. z - (a + 1) + 1 |-> s[i + (a + 1) - 1]]
    BY <1>1, <2>1
  <2>3. z - (a + 1) + 1 = z - a /\ \A i \in 1 .. z - a : i + (a + 1) - 1 = a + i
    BY <1>1
  <2> QED
    BY <2>2, <2>3
<1> HIDE DEF p, e
<1>8. Lexeme(p, e) = [i \in 1 .. e - p + 1 |-> buf[p + i - 1]]
  BY <1>4, <1>5, LexemeIs DEF Typing
<1>9. Lexeme(p, e) = SubSeq(s, a + 1, z)
  BY <1>4, <1>6, <1>7, <1>8
<1> QED
  BY <1>9 DEF p, e

LEMMA WholeIs == ASSUME NEW E, NEW s \in Seq(E) PROVE SubSeq(s, 1, Len(s)) = s
  OBVIOUS

(* The converters give the number a reader sees. *)
LEMMA NumberSame ==
  ASSUME NEW base \in Nat \ {0}, NEW s \in Seq(Hex), s # <<>>, NEW max \in Nat \ {0},
         NEW z \in 0 .. 1, Power(base, max - z) <= NumRange, z = 1 => DigitValue(s[1]) = 0
  PROVE  Numbered(base, max, s) =
           IF Len(s) > max \/ \E i \in DOMAIN s : DigitValue(s[i]) >= base
           THEN Error ELSE LUInteger(Wrapped(base, s))
<1>1. Len(s) \in Nat /\ Len(s) > 0 /\ DOMAIN s = 1 .. Len(s)
  OBVIOUS
<1>2. CASE Len(s) > max \/ \E i \in DOMAIN s : DigitValue(s[i]) >= base
  BY <1>2 DEF Numbered
<1>3. CASE ~ (Len(s) > max \/ \E i \in DOMAIN s : DigitValue(s[i]) >= base)
  <2>1. \A i \in 1 .. Len(s) : DigitValue(s[i]) \in 0 .. base - 1
    <3>1. TAKE i \in 1 .. Len(s)
    <3>2. s[i] \in Hex
      OBVIOUS
    <3>3. DigitValue(s[i]) \in 0 .. 15
      BY <3>2, DigitOfHex
    <3>4. ~ (DigitValue(s[i]) >= base)
      BY <1>1, <1>3
    <3> QED
      BY <3>3, <3>4, SMTT(30)
  <2>2. s \in Seq(Chars)
    <3>1. Hex \subseteq Chars
      BY CharFacts
    <3> QED
      BY <3>1
  <2> DEFINE n == max - z
  <2>3. n \in Nat /\ Len(s) <= n + z
    BY <1>1, <1>3
  <2>4. Power(base, n) <= NumRange
    OBVIOUS
  <2> HIDE DEF n
  <2>5. Wrapped(base, s) = Numeral(base, s)
    BY <1>1, <2>1, <2>2, <2>3, <2>4, NoWrap
  <2> QED
    BY <1>3, <2>5 DEF Numbered
<1> QED
  BY <1>2, <1>3

(* The word is taken for what a reader takes it for, and no further; one   *)
(* that is no token ends the line.                                         *)
Taken(b, s, k) ==
  \E t, next : /\ Accept(t, next)
               /\ IF k = Error THEN t.type \in {"error", "unknown"}
                  ELSE t = k /\ next = b + Len(s)

LEMMA TakenSame ==
  ASSUME NEW b, NEW s, NEW k, Accept(k, b + Len(s)) PROVE Taken(b, s, k)
<1>1. Error.type = "error"
  BY DEF Error, Token
<1> QED
  BY <1>1 DEF Taken

LEMMA TakenError ==
  ASSUME NEW b, NEW s, NEW t \in {Error, Unknown}, NEW next, Accept(t, next)
  PROVE  Taken(b, s, Error)
<1>1. Error.type = "error" /\ Unknown.type = "unknown"
  BY DEF Error, Unknown, Token
<1> QED
  BY <1>1 DEF Taken

(* Its first character tells what takes it. *)
LEMMA WhichTakes ==
  ASSUME NEW b, NEW s, Here(b, s), Lexer
  PROVE  /\ s[1] \in Letters => ProcessIdentifier
         /\ s[1] \in Sigils => ProcessVariable
         /\ s[1] = "!" => ProcessString
         /\ s[1] = "?" => ProcessUnknown
         /\ s[1] \in Digits => ProcessLUInteger
<1>1. /\ ProcessEoi => s[1] \in {Nul}
      /\ ProcessIdentifier => s[1] \in Letters
      /\ ProcessVariable => s[1] \in Sigils
      /\ ProcessLUInteger => s[1] \in Digits
      /\ ProcessString => s[1] \in {"!"}
      /\ ProcessUnknown => s[1] \in Chars \ (Alnum \cup Sigils \cup {"!", Nul})
  BY WordFirst, ZenonT(40) DEF ProcessEoi, ProcessIdentifier, ProcessVariable,
                               ProcessLUInteger, ProcessString, ProcessUnknown
<1>2. s[1] # Nul
  <2>1. s \in Seq(TextChars) /\ Len(s) \in Nat \ {0}
    BY DEF Here
  <2>2. s[1] \in TextChars
    BY <2>1
  <2> QED
    BY <2>2 DEF TextChars
<1> QED
  BY <1>1, <1>2, CharFacts DEF Lexer

LEMMA NameTaken ==
  ASSUME Typing, NEW b, NEW s, Here(b, s), NEW type,
         \A j \in 2 .. Len(s) : s[j] \in Alnum,
         Accept(SetStrLex(type, b, First(b + 1, Chars \ Alnum) - 1),
                First(b + 1, Chars \ Alnum))
  PROVE  Taken(b, s, Named(type, s))
<1> DEFINE n == Len(s)
           next == First(b + 1, Chars \ Alnum)
<1>1. n \in Nat \ {0} /\ b \in Nat /\ s \in Seq(TextChars)
  BY DEF Here
<1>2. next = b + n
  <2>1. Ends \subseteq Chars \ Alnum
    BY CharFacts DEF Ends
  <2>2. \A j \in 1 + 1 .. n : s[j] \notin Chars \ Alnum
    OBVIOUS
  <2>3. 1 \in 1 .. n
    BY <1>1
  <2> QED
    BY <2>1, <2>2, <2>3, WordEnd
<1>3. Lexeme(b, next - 1) = s
  <2>1. 0 \in 0 .. n /\ n \in 0 .. n
    BY <1>1
  <2>2. Lexeme(b + 0, b + n - 1) = SubSeq(s, 0 + 1, n)
    BY <2>1, WordCopied
  <2>3. b + 0 = b /\ 0 + 1 = 1
    BY <1>1
  <2>4. SubSeq(s, 1, n) = s
    BY <1>1, WholeIs
  <2>5. Lexeme(b, b + n - 1) = s
    BY <2>2, <2>3, <2>4
  <2> DEFINE e == b + n - 1
  <2>6. next - 1 = e
    BY <1>1, <1>2
  <2>7. Lexeme(b, e) = s
    BY <2>5
  <2> HIDE DEF e, next
  <2> QED
    BY <2>6, <2>7, Zenon
<1>4. next - 1 - b + 1 = n
  BY <1>1, <1>2
<1>5. SetStrLex(type, b, next - 1) = Named(type, s)
  BY <1>3, <1>4 DEF SetStrLex, Named
<1> QED
  BY <1>2, <1>5, TakenSame

LEMMA IdentifierTaken ==
  ASSUME Typing, NEW b, NEW s, Here(b, s), Lexer, s[1] \in Letters, Of(s, Alnum)
  PROVE  Taken(b, s, Named("identifier", s))
<1>1. Accept(SetStrLex("identifier", b, First(b + 1, Chars \ Alnum) - 1),
             First(b + 1, Chars \ Alnum))
  BY WhichTakes DEF ProcessIdentifier, Here
<1>2. \A j \in 2 .. Len(s) : s[j] \in Alnum
  <2>1. DOMAIN s = 1 .. Len(s) /\ Len(s) \in Nat
    BY DEF Here
  <2> QED
    BY <2>1, SMTT(30) DEF Of, ToSet
<1> QED
  BY <1>1, <1>2, NameTaken

LEMMA TailIs ==
  ASSUME NEW E, NEW s \in Seq(E), Len(s) # 0, NEW C, Of(Tail(s), C)
  PROVE  \A j \in 2 .. Len(s) : s[j] \in C
<1> SUFFICES ASSUME NEW j \in 2 .. Len(s) PROVE s[j] \in C
  OBVIOUS
<1>1. j - 1 \in DOMAIN Tail(s) /\ Tail(s)[j - 1] = s[j]
  OBVIOUS
<1> QED
  BY <1>1 DEF Of, ToSet

LEMMA VariableTaken ==
  ASSUME Typing, NEW b, NEW s, Here(b, s), Lexer, s[1] \in Sigils, Of(Tail(s), Alnum)
  PROVE  Taken(b, s, Named("variable", s))
<1>1. Accept(SetStrLex("variable", b, First(b + 1, Chars \ Alnum) - 1),
             First(b + 1, Chars \ Alnum))
  BY WhichTakes DEF ProcessVariable, Here
<1>2. \A j \in 2 .. Len(s) : s[j] \in Alnum
  BY TailIs DEF Here
<1> QED
  BY <1>1, <1>2, NameTaken

LEMMA UnknownTaken ==
  ASSUME NEW b, NEW s, Here(b, s), Lexer, s[1] = "?" PROVE Taken(b, s, Error)
<1>1. ProcessUnknown
  BY WhichTakes
<1>2. PICK next : Accept(Unknown, next)
  BY <1>1 DEF ProcessUnknown
<1> QED
  BY <1>2, TakenError

LEMMA InnerLength ==
  ASSUME NEW E, NEW s \in Seq(E), Len(s) > 1
  PROVE  Len(SubSeq(s, 2, Len(s) - 1)) = Len(s) - 2
<1> DEFINE n == Len(s)
<1>1. n \in Nat /\ n > 1
  OBVIOUS
<1>2. SubSeq(s, 2, n - 1) = [i \in 1 .. n - 1 - 2 + 1 |-> s[i + 2 - 1]]
  BY <1>1
<1>3. n - 1 - 2 + 1 = n - 2 /\ n - 2 \in Nat
  BY <1>1
<1> HIDE DEF n
<1> QED
  BY <1>2, <1>3 DEF n

LEMMA StringTaken ==
  ASSUME Typing, NEW b, NEW s, Here(b, s), Lexer, Len(s) > 1, s[1] = "!", s[Len(s)] = "!",
         Of(SubSeq(s, 2, Len(s) - 1), Chars \ {"!"})
  PROVE  Taken(b, s, Named("lstring", SubSeq(s, 2, Len(s) - 1)))
<1> DEFINE n == Len(s)
           inner == SubSeq(s, 2, n - 1)
           last == First(b + 1, {"!"})
<1>1. /\ n \in Nat /\ n > 1 /\ b \in Nat /\ s \in Seq(TextChars) /\ b + n < BufSize
      /\ BufSize \in Nat
  BY SizesFacts DEF Here
<1>2. /\ b = Begin
      /\ \E q \in LoopEnds(b + 1, {"!"}) : Accept(SetStrLex("lstring", b + 1, q - 1), q + 1)
  BY WhichTakes DEF ProcessString, Here
<1>3. \A j \in 1 .. n : buf[b + j - 1] = s[j]
  BY DEF Here
<1>4. \A j \in 2 .. n - 1 : s[j] # "!"
  <2>1. TAKE j \in 2 .. n - 1
  <2>2. j - 1 \in DOMAIN inner /\ inner[j - 1] = s[j]
    BY <1>1
  <2>3. inner[j - 1] \in Chars \ {"!"}
    BY <2>2 DEF Of, ToSet
  <2> QED
    BY <2>2, <2>3
<1>5. last = b + n - 1
  <2> DEFINE p == b + 1
             m == b + n - 1
  <2>1. p \in 0 .. BufSize /\ m \in p .. BufSize - 1
    BY <1>1
  <2>2. buf[m] \in {"!"}
    <3>1. n \in 1 .. n
      BY <1>1
    <3> QED
      BY <1>3, <3>1
  <2>3. ASSUME NEW q \in p .. m - 1 PROVE buf[q] \notin {"!"}
    <3>1. q - b + 1 \in 2 .. n - 1 /\ q - b + 1 \in 1 .. n /\ q = b + (q - b + 1) - 1
      BY <1>1
    <3> QED
      BY <1>3, <1>4, <3>1
  <2> HIDE DEF p, m
  <2>4. First(p, {"!"}) = m
    BY <2>1, <2>2, <2>3, FirstAt
  <2> QED
    BY <2>4 DEF p, m
<1>6. Lexeme(b + 1, last - 1) = inner
  <2> DEFINE z == n - 1
  <2>1. 1 \in 0 .. n /\ z \in 1 .. n /\ b + z - 1 = last - 1 /\ 1 + 1 = 2
    BY <1>1, <1>5
  <2>2. Lexeme(b + 1, b + z - 1) = SubSeq(s, 1 + 1, z)
    BY <2>1, WordCopied
  <2> QED
    BY <2>1, <2>2
<1>7. Len(inner) = n - 2 /\ last - 1 - (b + 1) + 1 = n - 2
  <2>1. Len(inner) = n - 2
    BY <1>1, InnerLength
  <2> HIDE DEF last, n
  <2>2. last - 1 - (b + 1) + 1 = n - 2
    BY <1>1, <1>5
  <2> QED
    BY <2>1, <2>2
<1>8. SetStrLex("lstring", b + 1, last - 1) = Named("lstring", inner)
  BY <1>6, <1>7 DEF SetStrLex, Named
<1>9. last < BufSize /\ last + 1 = b + n
  BY <1>1, <1>5
<1>10. Accept(SetStrLex("lstring", b + 1, last - 1), last + 1)
  <2>1. LoopEnds(b + 1, {"!"}) = {last}
    BY <1>9 DEF LoopEnds
  <2> HIDE DEF last
  <2> QED
    BY <1>2, <2>1
<1> QED
  BY <1>8, <1>9, <1>10, TakenSame

LEMMA PowersFit ==
  /\ OctMax \in Nat \ {0} /\ DecMax \in Nat \ {0} /\ HexMax \in Nat \ {0}
  /\ Power(8, OctMax - 1) <= NumRange
  /\ DecMax - 0 = DecMax /\ Power(10, DecMax) <= NumRange
  /\ HexMax - 0 = HexMax /\ Power(16, HexMax) <= NumRange
<1>1. OctMax \in Nat \ {0} /\ DecMax \in Nat \ {0} /\ HexMax \in Nat \ {0}
  BY NumbersAssumption
<1>2. DecMax - 0 = DecMax /\ HexMax - 0 = HexMax
  BY <1>1
<1> QED
  BY <1>1, <1>2, NumbersAssumption

(* A number without a prefix. *)
LEMMA PlainNumber ==
  ASSUME Typing, NEW b, NEW s, Here(b, s), Of(s, Hex)
  PROVE  /\ s \in Seq(Hex) /\ s # <<>>
         /\ ~ (buf[b] = "0" /\ buf[b + 1] = "x")
         /\ First(b + 1, Chars \ Hex) = b + Len(s)
         /\ Lexeme(b, b + Len(s) - 1) = s
<1> DEFINE n == Len(s)
<1>1. n \in Nat \ {0} /\ b \in Nat /\ s \in Seq(TextChars) /\ DOMAIN s = 1 .. n
  BY DEF Here
<1>2. \A j \in 1 .. n : s[j] \in Hex
  BY <1>1 DEF Of, ToSet
<1>3. s \in Seq(Hex) /\ s # <<>>
  BY <1>1, <1>2
<1>4. buf[b + 1] # "x"
  <2>1. CASE n = 1
    <3>1. buf[b + 1] \in Ends
      BY <2>1 DEF Here
    <3>2. "x" \notin Ends
      BY CharFacts DEF Ends
    <3> QED
      BY <3>1, <3>2
  <2>2. CASE n # 1
    <3>1. 2 \in 1 .. n /\ b + 2 - 1 = b + 1
      BY <1>1, <2>2
    <3>2. buf[b + 1] = s[2]
      BY <3>1 DEF Here
    <3>3. s[2] \in Hex
      BY <1>2, <3>1
    <3> QED
      BY <3>2, <3>3, CharFacts
  <2> QED
    BY <2>1, <2>2
<1>5. First(b + 1, Chars \ Hex) = b + n
  <2>1. Ends \subseteq Chars \ Hex
    BY CharFacts DEF Ends
  <2>2. 1 \in 1 .. n /\ \A j \in 1 + 1 .. n : j \in 1 .. n
    BY <1>1
  <2>3. \A j \in 1 + 1 .. n : s[j] \notin Chars \ Hex
    BY <1>2, <2>2
  <2> QED
    BY <2>1, <2>2, <2>3, WordEnd
<1>6. Lexeme(b, b + n - 1) = s
  <2>1. 0 \in 0 .. n /\ n \in 0 .. n /\ b + 0 = b /\ 0 + 1 = 1
    BY <1>1
  <2>2. Lexeme(b + 0, b + n - 1) = SubSeq(s, 0 + 1, n)
    BY <2>1, WordCopied
  <2>3. SubSeq(s, 1, n) = s
    BY <1>1, WholeIs
  <2> QED
    BY <2>1, <2>2, <2>3
<1> QED
  BY <1>3, <1>4, <1>5, <1>6

(* What is taken of it, in base base. *)
LEMMA PlainTaken ==
  ASSUME Typing, NEW b, NEW s, Here(b, s), Of(s, Hex),
         NEW base \in Nat \ {0}, NEW max \in Nat \ {0}, NEW z \in 0 .. 1,
         Power(base, max - z) <= NumRange, z = 1 => DigitValue(s[1]) = 0,
         Accept(SetLUInteger(base, max, b, First(b + 1, Chars \ Hex) - 1),
                First(b + 1, Chars \ Hex))
  PROVE  Taken(b, s, Numbered(base, max, s))
<1> DEFINE next == First(b + 1, Chars \ Hex)
<1>1. s \in Seq(Hex) /\ s # <<>> /\ next = b + Len(s) /\ Lexeme(b, b + Len(s) - 1) = s
  BY PlainNumber
<1>2. next - 1 = b + Len(s) - 1
  <2>1. b \in Nat /\ Len(s) \in Nat
    BY DEF Here
  <2> QED
    BY <1>1, <2>1
<1> DEFINE e == b + Len(s) - 1
<1>3. Lexeme(b, e) = s /\ next - 1 = e
  BY <1>1, <1>2
<1> HIDE DEF next, e
<1>4. SetLUInteger(base, max, b, next - 1) = Numbered(base, max, s)
  <2>1. SetLUInteger(base, max, b, e) =
          IF Len(s) > max \/ \E i \in DOMAIN s : DigitValue(s[i]) >= base
          THEN Error ELSE LUInteger(Wrapped(base, s))
    BY <1>3, LUIntegerIs
  <2> QED
    BY <1>1, <1>3, <2>1, NumberSame
<1>5. Accept(SetLUInteger(base, max, b, next - 1), next)
  BY DEF next
<1> QED
  BY <1>1, <1>4, <1>5, TakenSame

LEMMA OctTaken ==
  ASSUME Typing, NEW b, NEW s, Here(b, s), Lexer, s[1] = "0", Of(s, Hex)
  PROVE  Taken(b, s, Numbered(8, OctMax, s))
<1> DEFINE next == First(b + 1, Chars \ Hex)
<1>1. ProcessLUInteger
  BY WhichTakes, CharFacts
<1>2. Begin = b /\ buf[b] = "0"
  BY <1>1, WordFirst DEF Here, ProcessLUInteger
<1>3. ~ (buf[b] = "0" /\ buf[b + 1] = "x")
  BY PlainNumber
<1>4. Accept(SetLUInteger(8, OctMax, b, next - 1), next)
  BY <1>1, <1>2, <1>3 DEF ProcessLUInteger
<1>5. DigitValue(s[1]) = 0 /\ 1 \in 0 .. 1 /\ 8 \in Nat \ {0}
  BY ZeroDigit
<1> HIDE DEF next
<1> QED
  BY <1>4, <1>5, PowersFit, PlainTaken DEF next

LEMMA DecTaken ==
  ASSUME Typing, NEW b, NEW s, Here(b, s), Lexer, s[1] \in Digits \ {"0"}, Of(s, Hex)
  PROVE  Taken(b, s, Numbered(10, DecMax, s))
<1> DEFINE next == First(b + 1, Chars \ Hex)
<1>1. ProcessLUInteger
  BY WhichTakes
<1>2. Begin = b /\ buf[b] # "0"
  BY <1>1, WordFirst DEF Here, ProcessLUInteger
<1>3. Accept(SetLUInteger(10, DecMax, b, next - 1), next)
  BY <1>1, <1>2 DEF ProcessLUInteger
<1>4. 0 \in 0 .. 1 /\ 10 \in Nat \ {0} /\ 0 # 1 /\ Power(10, DecMax - 0) <= NumRange
  BY PowersFit
<1> HIDE DEF next
<1> QED
  BY <1>3, <1>4, PowersFit, PlainTaken DEF next

LEMMA RestIs ==
  ASSUME NEW E, NEW s \in Seq(E), Len(s) > 1
  PROVE  /\ Len(SubSeq(s, 3, Len(s))) = Len(s) - 2
         /\ \A j \in 3 .. Len(s) : /\ j - 2 \in DOMAIN SubSeq(s, 3, Len(s))
                                   /\ SubSeq(s, 3, Len(s))[j - 2] = s[j]
<1> DEFINE n == Len(s)
<1>1. n \in Nat /\ n > 1
  OBVIOUS
<1>2. SubSeq(s, 3, n) = [i \in 1 .. n - 3 + 1 |-> s[i + 3 - 1]]
  BY <1>1
<1>3. n - 3 + 1 = n - 2 /\ n - 2 \in Nat
  BY <1>1
<1> HIDE DEF n
<1> DEFINE m == n - 2
           r == SubSeq(s, 3, n)
<1>8. r = [i \in 1 .. m |-> s[i + 3 - 1]] /\ m \in Nat
  BY <1>2, <1>3
<1> HIDE DEF m, r
<1>9. Len(r) = m /\ DOMAIN r = 1 .. m
  BY <1>8
<1>4. Len(SubSeq(s, 3, n)) = n - 2 /\ DOMAIN SubSeq(s, 3, n) = 1 .. n - 2
  BY <1>9 DEF m, r
<1>5. ASSUME NEW j \in 3 .. n
      PROVE  j - 2 \in DOMAIN SubSeq(s, 3, n) /\ SubSeq(s, 3, n)[j - 2] = s[j]
  <2>1. j - 2 \in 1 .. n - 3 + 1 /\ (j - 2) + 3 - 1 = j /\ j - 2 \in 1 .. n - 2
    BY <1>1
  <2> QED
    BY <1>2, <1>4, <2>1
<1> QED
  BY <1>4, <1>5 DEF n

LEMMA HexTaken ==
  ASSUME Typing, NEW b, NEW s, Here(b, s), Lexer,
         s[1] = "0", Len(s) > 1, s[2] = "x", Of(SubSeq(s, 3, Len(s)), Hex)
  PROVE  Taken(b, s, Numbered(16, HexMax, SubSeq(s, 3, Len(s))))
<1> DEFINE n == Len(s)
           digits == SubSeq(s, 3, n)
           next == First(b + 2 + 1, Chars \ Hex)
<1>1. ProcessLUInteger
  BY WhichTakes, CharFacts
<1>2. n \in Nat \ {0} /\ n > 1 /\ b \in Nat /\ s \in Seq(TextChars)
  BY DEF Here
<1>3. \A j \in 1 .. n : buf[b + j - 1] = s[j]
  BY DEF Here
<1>4. Begin = b /\ buf[b] = "0" /\ buf[b + 1] = "x"
  <2>1. Begin = b /\ buf[b] = "0"
    BY <1>1, WordFirst DEF Here, ProcessLUInteger
  <2>2. 2 \in 1 .. n /\ b + 2 - 1 = b + 1
    BY <1>2
  <2> QED
    BY <1>3, <2>1, <2>2
<1>5. IF buf[b + 2] \notin Hex THEN Accept(Error, b + 2)
      ELSE Accept(SetLUInteger(16, HexMax, b + 2, next - 1), next)
  BY <1>1, <1>4 DEF ProcessLUInteger
<1>6. /\ Len(digits) = n - 2 /\ digits \in Seq(TextChars) /\ DOMAIN digits = 1 .. Len(digits)
      /\ \A j \in 3 .. n : j - 2 \in DOMAIN digits /\ digits[j - 2] = s[j]
  BY <1>2, RestIs
<1>7. \A j \in 3 .. n : s[j] \in Hex
  BY <1>6 DEF Of, ToSet
<1>8. CASE n = 2
  <2>1. buf[b + 2] \in Ends
    BY <1>8 DEF Here
  <2>2. Ends \cap Hex = {}
    BY CharFacts DEF Ends
  <2>3. Len(digits) = 0
    BY <1>6, <1>8
  <2>4. digits = <<>>
    BY <1>6, <2>3
  <2>5. Numbered(16, HexMax, digits) = Error
    BY <2>4 DEF Numbered
  <2> QED
    BY <1>5, <2>1, <2>2, <2>5, TakenError
<1>9. CASE n # 2
  <2>1. n >= 3
    <3> HIDE DEF n
    <3> QED
      BY <1>2, <1>9
  <2>2. buf[b + 2] \in Hex
    <3>1. 3 \in 1 .. n /\ 3 \in 3 .. n /\ b + 3 - 1 = b + 2
      BY <1>2, <2>1
    <3> QED
      BY <1>3, <1>7, <3>1
  <2>3. next = b + n
    <3>1. Ends \subseteq Chars \ Hex
      BY CharFacts DEF Ends
    <3>2. 3 \in 1 .. n /\ \A j \in 3 + 1 .. n : j \in 3 .. n
      BY <1>2, <2>1
    <3>3. \A j \in 3 + 1 .. n : s[j] \notin Chars \ Hex
      BY <1>7, <3>2
    <3>4. First(b + 3, Chars \ Hex) = b + n
      BY <3>1, <3>2, <3>3, WordEnd
    <3>5. b + 2 + 1 = b + 3
      BY <1>2
    <3> QED
      BY <3>4, <3>5
  <2> DEFINE e == b + n - 1
             from == b + 2
  <2>4. Lexeme(from, e) = digits
    <3>1. 2 \in 0 .. n /\ n \in 2 .. n /\ 2 + 1 = 3
      BY <1>2, <2>1
    <3>2. Lexeme(b + 2, b + n - 1) = SubSeq(s, 2 + 1, n)
      BY <3>1, WordCopied
    <3> QED
      BY <3>1, <3>2
  <2>5. next - 1 = e
    BY <1>2, <2>3
  <2>6. digits \in Seq(Hex) /\ digits # <<>>
    <3>1. \A i \in 1 .. Len(digits) : digits[i] \in Hex
      BY <1>6 DEF Of, ToSet
    <3>2. Len(digits) # 0
      BY <1>2, <1>6, <1>9
    <3> HIDE DEF digits
    <3>3. digits \in Seq(Hex)
      BY <1>6, <3>1
    <3> QED
      BY <3>2, <3>3
  <2>7. Accept(SetLUInteger(16, HexMax, from, next - 1), next)
    BY <1>5, <2>2
  <2> HIDE DEF e, from, next, digits
  <2>8. SetLUInteger(16, HexMax, from, e) =
          IF Len(digits) > HexMax \/ \E i \in DOMAIN digits : DigitValue(digits[i]) >= 16
          THEN Error ELSE LUInteger(Wrapped(16, digits))
    BY <2>4, LUIntegerIs
  <2>9. Numbered(16, HexMax, digits) = SetLUInteger(16, HexMax, from, e)
    <3>1. 16 \in Nat \ {0} /\ 0 \in 0 .. 1 /\ 0 # 1 /\ Power(16, HexMax - 0) <= NumRange
      BY PowersFit
    <3> QED
      BY <2>6, <2>8, <3>1, NumberSame, PowersFit
  <2>10. Accept(Numbered(16, HexMax, digits), next)
    BY <2>5, <2>7, <2>9
  <2> QED
    BY <2>3, <2>10, TakenSame DEF digits
<1> QED
  BY <1>8, <1>9

(* Any word but a string that does not end. *)
LEMMA WordTaken ==
  ASSUME Typing, NEW b, NEW s, Here(b, s), Lexer, NEW k, k # Open, Reads(s, k)
  PROVE  Taken(b, s, k)
<1>1. CASE s[1] \in Letters /\ Of(s, Alnum) /\ k = Named("identifier", s)
  BY <1>1, IdentifierTaken
<1>2. CASE s[1] \in Sigils /\ Of(Tail(s), Alnum) /\ k = Named("variable", s)
  BY <1>2, VariableTaken
<1>3. CASE /\ Len(s) > 1 /\ s[1] = "!" /\ s[Len(s)] = "!"
           /\ Of(SubSeq(s, 2, Len(s) - 1), Chars \ {"!"})
           /\ k = Named("lstring", SubSeq(s, 2, Len(s) - 1))
  BY <1>3, StringTaken
<1>4. CASE s[1] = "?" /\ k = Error
  BY <1>4, UnknownTaken
<1>5. CASE /\ s[1] = "0" /\ Len(s) > 1 /\ s[2] = "x"
           /\ Of(SubSeq(s, 3, Len(s)), Hex)
           /\ k = Numbered(16, HexMax, SubSeq(s, 3, Len(s)))
  BY <1>5, HexTaken
<1>6. CASE s[1] = "0" /\ Of(s, Hex) /\ k = Numbered(8, OctMax, s)
  BY <1>6, OctTaken
<1>7. CASE s[1] \in Digits \ {"0"} /\ Of(s, Hex) /\ k = Numbered(10, DecMax, s)
  BY <1>7, DecTaken
<1> QED
  BY <1>1, <1>2, <1>3, <1>4, <1>5, <1>6, <1>7 DEF Reads

-----------------------------------------------------------------------------
(* A line.                                                                 *)

(* Words lie one behind the other, the last one at the end of the text. *)
LEMMA LaidOrder ==
  ASSUME NEW l \in Lines, NEW st, Laid(l, st), NEW k \in 1 .. Len(l)
  PROVE  /\ st[k] \in Nat /\ st[k + 1] = st[k] + Len(l[k].text) + 1
         /\ st[k] + Len(l[k].text) <= Len(Text(l))
         /\ k < Len(l) => st[k] + Len(l[k].text) < Len(Text(l))
<1> DEFINE n == Len(l)
<1>1. n \in Nat /\ k \in 1 .. n /\ Len(Text(l)) = st[n + 1] - 1
  <2>1. n \in Nat
    BY LineFacts
  <2>2. Len(Text(l)) = IF n = 0 THEN 0 ELSE st[n + 1] - 1
    BY DEF Laid
  <2> HIDE DEF n
  <2>3. n # 0
    BY <2>1 DEF n
  <2> QED
    BY <2>1, <2>2, <2>3 DEF n
<1>2. /\ \A i \in 1 .. n + 1 : st[i] \in Nat
      /\ \A i \in 1 .. n : st[i + 1] = st[i] + Len(l[i].text) + 1
      /\ \A i \in 1 .. n : Len(l[i].text) \in Nat \ {0}
  BY LineFacts DEF Laid
<1> HIDE DEF n
<1> DEFINE Ahead(i) == /\ st[k + 1] <= st[k + 1 + i]
                       /\ i # 0 => st[k + 1] < st[k + 1 + i]
           U == {i \in Nat : k + 1 + i <= n + 1 => Ahead(i)}
<1>3. k + 1 \in 1 .. n + 1 /\ k \in 1 .. n + 1
  BY <1>1
<1>4. 0 \in U
  <2>1. k + 1 + 0 = k + 1 /\ st[k + 1] \in Nat
    BY <1>2, <1>3
  <2> QED
    BY <2>1
<1>5. ASSUME NEW i \in Nat, i \in U PROVE i + 1 \in U
  <2> SUFFICES ASSUME k + 1 + (i + 1) <= n + 1
               PROVE  st[k + 1] < st[k + 1 + (i + 1)]
    BY <1>2, <1>3
  <2>1. PICK m \in 1 .. n : m = k + 1 + i /\ m + 1 = k + 1 + (i + 1) /\ m <= n + 1
    BY <1>1
  <2>2. st[k + 1] <= st[m]
    <3>1. k + 1 + i <= n + 1 => Ahead(i)
      <4> HIDE DEF Ahead
      <4> QED
        BY <1>5
    <3> QED
      BY <2>1, <3>1
  <2>3. st[m + 1] = st[m] + Len(l[m].text) + 1 /\ Len(l[m].text) \in Nat /\ st[m] \in Nat
    <3>1. m \in 1 .. n + 1
      BY <1>1
    <3> QED
      BY <1>2, <3>1
  <2> QED
    BY <1>2, <1>3, <2>1, <2>2, <2>3, SMTT(30)
<1>6. Nat \subseteq U
  <2> HIDE DEF U
  <2> QED
    BY <1>4, <1>5, NumberInduction
<1>7. PICK i \in Nat : k + 1 + i = n + 1 /\ (k < n => i # 0)
  <2>1. n - k \in Nat /\ k + 1 + (n - k) = n + 1 /\ (k < n => n - k # 0)
    BY <1>1
  <2> QED
    BY <2>1
<1>8. i \in U /\ k + 1 + i <= n + 1
  BY <1>1, <1>6, <1>7
<1>9. st[k + 1] <= st[n + 1] /\ (k < n => st[k + 1] < st[n + 1])
  <2>1. k + 1 + i <= n + 1 => Ahead(i)
    <3> HIDE DEF Ahead
    <3> QED
      BY <1>8
  <2> HIDE DEF U
  <2> QED
    BY <1>7, <1>8, <2>1
<1> DEFINE a == st[k]
           b == st[k + 1]
           c == st[n + 1]
           w == Len(l[k].text)
<1>10. /\ a \in Nat /\ b = a + w + 1 /\ w \in Nat /\ c \in Nat /\ Len(Text(l)) = c - 1
       /\ b <= c /\ (k < n => b < c)
  <2>1. n + 1 \in 1 .. n + 1
    BY <1>1
  <2> QED
    BY <1>1, <1>2, <1>3, <1>9, <2>1
<1> HIDE DEF a, b, c, w
<1>11. /\ a \in Nat /\ b = a + w + 1 /\ a + w <= Len(Text(l))
       /\ k < n => a + w < Len(Text(l))
  BY <1>10
<1> QED
  BY <1>11 DEF a, b, w, n

(* Where the scan stands when it has taken k words. *)
Behind(st, k) == IF k = 0 THEN 0 ELSE st[k] + Len(line[k].text)

(* The words taken so far are what a reader takes them for. *)
Reading(st) ==
  /\ Laid(line, st)
  /\ \A q \in 1 .. Len(Text(line)) : buf[q - 1] = Text(line)[q]
  /\ buf[Len(Text(line))] = Nul
  /\ Len(vec) <= Len(line)
  /\ \A i \in 1 .. Len(vec) : vec[i] = line[i].token
  /\ forward = Behind(st, Len(vec))

(* A word does not begin with a blank. *)
LEMMA FirstVisible == ASSUME NEW s, NEW k, Reads(s, k) PROVE s[1] # " "
<1>1. s[1] \in Letters \cup Sigils \cup Digits \cup {"!", "?"}
  BY CharFacts DEF Reads
<1> QED
  BY <1>1, CharFacts

LEMMA NextWord ==
  ASSUME Typing, NEW st, Reading(st), pc = "lex",
         NEW k \in 1 .. Len(line), k = Len(vec) + 1
  PROVE  Here(st[k], line[k].text)
<1> DEFINE b == st[k]
           s == line[k].text
           n == Len(s)
           m == Len(Text(line))
<1>1. /\ line \in Lines /\ Len(vec) \in Nat /\ Len(line) \in Nat
      /\ s \in Seq(TextChars) /\ n \in Nat \ {0} /\ Reads(s, line[k].token)
  <2>1. line \in Lines /\ vec \in Seq(Tokens)
    BY DEF Typing
  <2> QED
    BY <2>1, LineFacts, LenNat
<1>2. /\ m \in Nat /\ m < BufSize - 1 /\ b \in Nat /\ b + n <= m /\ st[k + 1] = b + n + 1
      /\ k < Len(line) => b + n < m
      /\ BufSize \in Nat
  <2>1. m \in Nat /\ m < Room /\ Room \in 1 .. BufSize - 1
    BY <1>1, RoomFacts
  <2>2. Laid(line, st)
    BY DEF Reading
  <2>3. /\ b \in Nat /\ b + n <= m /\ st[k + 1] = b + n + 1
        /\ k < Len(line) => b + n < m
    BY <1>1, <2>2, LaidOrder
  <2> QED
    BY <2>1, <2>3, SizesFacts
<1>3. \A q \in 1 .. m : buf[q - 1] = Text(line)[q]
  BY DEF Reading
<1>4. \A j \in 1 .. n : Text(line)[b + j] = s[j]
  BY DEF Reading, Laid
<1>5. \A i \in 1 .. Len(line) - 1 : Text(line)[st[i + 1]] = " "
  BY DEF Reading, Laid
<1>6. k = Len(line) => m = b + n
  <2> SUFFICES ASSUME k = Len(line) PROVE m = b + n
    OBVIOUS
  <2>1. m = st[k + 1] - 1
    <3>1. m = IF Len(line) = 0 THEN 0 ELSE st[Len(line) + 1] - 1
      BY DEF Reading, Laid
    <3>2. Len(line) # 0
      BY <1>1
    <3> QED
      BY <3>1, <3>2
  <2> QED
    BY <1>1, <1>2, <2>1
<1>7. buf[m] = Nul /\ forward = Behind(st, Len(vec))
  BY DEF Reading
<1> DEFINE blankAt(q) == buf[q] = " "
<1>8. k < Len(line) => blankAt(b + n)
  <2> SUFFICES ASSUME k < Len(line) PROVE blankAt(b + n)
    OBVIOUS
  <2> HIDE DEF blankAt
  <2>1. k \in 1 .. Len(line) - 1
    BY <1>1
  <2>2. b + n + 1 \in 1 .. m /\ b + n + 1 - 1 = b + n
    BY <1>1, <1>2
  <2>3. buf[b + n] = Text(line)[st[k + 1]]
    BY <1>2, <1>3, <2>2, SMTT(30)
  <2> QED
    BY <1>5, <2>1, <2>3 DEF blankAt
<1>9. \A j \in 1 .. n : buf[b + j - 1] = s[j]
  <2>1. TAKE j \in 1 .. n
  <2>2. b + j \in 1 .. m /\ (b + j) - 1 = b + j - 1
    BY <1>1, <1>2, SMTT(30)
  <2>3. buf[(b + j) - 1] = Text(line)[b + j] /\ Text(line)[b + j] = s[j]
    BY <1>3, <1>4, <2>2
  <2> HIDE DEF b, s
  <2> QED
    BY <2>2, <2>3
<1>10. buf[b + n] \in Ends
  <2>1. CASE k = Len(line)
    BY <1>6, <1>7, <2>1 DEF Ends
  <2>2. CASE k < Len(line)
    BY <1>8, <2>2 DEF Ends
  <2> QED
    BY <1>1, <2>1, <2>2
<1>11. forward \in 0 .. b /\ \A q \in forward .. b - 1 : blankAt(q)
  <2>1. CASE k = 1
    <3>1. forward = 0 /\ b = 0
      <4>1. Len(vec) = 0
        BY <1>1, <2>1
      <4>2. st[1] = 0
        BY DEF Reading, Laid
      <4> QED
        BY <1>7, <2>1, <4>1, <4>2 DEF Behind
    <3>2. \A q \in 0 .. 0 - 1 : FALSE
      OBVIOUS
    <3> HIDE DEF blankAt, b
    <3> QED
      BY <3>1, <3>2
  <2>2. CASE k # 1
    <3> DEFINE i == k - 1
    <3>1. i \in 1 .. Len(line) - 1 /\ i = Len(vec) /\ i + 1 = k /\ i # 0 /\ i \in 1 .. Len(line)
          /\ i < Len(line)
      BY <1>1, <2>2
    <3> HIDE DEF i
    <3> DEFINE v == Len(line[i].text)
    <3>2. forward = st[i] + v
      BY <1>7, <3>1 DEF Behind
    <3>3. b = st[i] + v + 1 /\ st[i] \in Nat /\ v \in Nat
      <4>1. Laid(line, st)
        BY DEF Reading
      <4>2. v \in Nat
        BY <1>1, <3>1, LineFacts
      <4> QED
        BY <1>1, <3>1, <4>1, <4>2, LaidOrder
    <3>4. blankAt(st[i] + v)
      <4>1. Text(line)[b] = " "
        BY <1>5, <3>1
      <4>2. b \in 1 .. m /\ b - 1 = st[i] + v
        <5> DEFINE c == st[i]
        <5>1. b = c + v + 1 /\ c \in Nat /\ v \in Nat
          BY <3>3
        <5> HIDE DEF c, v, b, n, m
        <5>2. b \in 1 .. m /\ b - 1 = c + v
          BY <1>1, <1>2, <5>1
        <5> QED
          BY <5>2 DEF c
      <4>3. buf[b - 1] = Text(line)[b]
        BY <1>3, <4>2
      <4> HIDE DEF b
      <4> QED
        BY <4>1, <4>2, <4>3
    <3> DEFINE f == st[i] + v
    <3>5. f \in Nat /\ b = f + 1 /\ forward = f /\ blankAt(f)
      <4> HIDE DEF blankAt, b, v
      <4>1. f \in Nat /\ b = f + 1
        BY <3>3
      <4> QED
        BY <3>2, <3>4, <4>1
    <3> HIDE DEF f, b, blankAt
    <3>6. forward \in 0 .. b /\ \A q \in forward .. b - 1 : q = f
      BY <3>5
    <3> QED
      BY <3>5, <3>6
  <2> QED
    BY <2>1, <2>2
<1>12. Begin = b
  <2> DEFINE C == Chars \ {" "}
  <2>1. Begin = First(forward, C)
    BY DEF Begin
  <2>2. \A q \in forward .. b - 1 : buf[q] \notin C
    BY <1>11
  <2>3. buf[b] \in C
    <3>1. 1 \in 1 .. n /\ b + 1 - 1 = b
      BY <1>1, <1>2
    <3>2. buf[b] = s[1] /\ s[1] \in TextChars
      BY <1>1, <1>9, <3>1
    <3> QED
      BY <1>1, <3>2, FirstVisible DEF TextChars
  <2> HIDE DEF C, blankAt
  <2>4. forward \in 0 .. BufSize /\ b \in forward .. BufSize - 1
    <3> HIDE DEF b, n, m
    <3> QED
      BY <1>1, <1>2, <1>11
  <2> HIDE DEF b
  <2> QED
    BY <2>1, <2>2, <2>3, <2>4, FirstAt
<1>13. b + n < BufSize
  BY <1>1, <1>2
<1> QED
  BY <1>1, <1>2, <1>9, <1>10, <1>12, <1>13 DEF Here

LEMMA TokenKind ==
  ASSUME NEW s, NEW k, Reads(s, k), k # Open, k # Error
  PROVE  k.type \notin {"error", "unknown", "eoi"}
<1>1. k.type \in {"identifier", "variable", "lstring", "luinteger"}
  BY DEF Reads, Named, Numbered, Token, LUInteger
<1> QED
  BY <1>1

(* What a reader sees in the line is what the shell made of it. *)
Understanding ==
  Terminated =>
    /\ pc = "lex" => \E st : Reading(st)
    /\ pc = "run" => vec = Append([i \in DOMAIN line |-> line[i].token], Eoi)
    /\ pc = "rejected" => \/ Len(line) >= VecLen
                          \/ \E i \in DOMAIN line : line[i].token = Error

LEMMA UnderstandingInit == Init => Understanding
  BY DEF Init, Understanding

LEMMA LineRead == ASSUME Typing, GetLine PROVE Understanding'
<1>1. PICK l \in Lines :
             /\ line' = l
             /\ buf' = [i \in DOMAIN buf |-> IF i < Len(Text(l)) THEN Text(l)[i + 1]
                                             ELSE IF i = Len(Text(l)) THEN Nul ELSE buf[i]]
  BY DEF GetLine
<1>2. pc' = "lex" /\ forward' = 0 /\ vec' = <<>>
  BY DEF GetLine
<1>3. PICK st : Laid(l, st)
  BY TextShape
<1> DEFINE t == Text(l)
           m == Len(t)
<1>4. m \in Nat /\ m < BufSize /\ BufSize \in Nat /\ DOMAIN buf = 0 .. BufSize - 1
  <2>1. m \in Nat /\ m < Room
    BY RoomFacts
  <2>2. DOMAIN buf = 0 .. BufSize - 1
    BY DEF Typing, Buffers
  <2> QED
    BY <2>1, <2>2, RoomNul, SizesFacts
<1>5. buf' = [i \in 0 .. BufSize - 1 |-> IF i < m THEN t[i + 1] ELSE IF i = m THEN Nul ELSE buf[i]]
  BY <1>1, <1>4
<1> HIDE DEF m, t
<1>6. \A q \in 1 .. m : buf'[q - 1] = t[q]
  <2>1. TAKE q \in 1 .. m
  <2>2. q - 1 \in 0 .. BufSize - 1 /\ q - 1 < m /\ (q - 1) + 1 = q
    BY <1>4
  <2> QED
    BY <1>5, <2>2
<1>7. buf'[m] = Nul
  <2>1. m \in 0 .. BufSize - 1 /\ ~ (m < m)
    BY <1>4
  <2> QED
    BY <1>5, <2>1
<1>8. Len(vec') = 0 /\ Len(line') \in Nat /\ line' = l
  BY <1>1, <1>2, LineFacts
<1>9. Reading(st)'
  <2>1. Laid(line, st)'
    BY <1>3, <1>8, ZenonT(40) DEF Laid, Text
  <2>2. (\A q \in 1 .. Len(Text(line)) : buf[q - 1] = Text(line)[q])'
    BY <1>6, <1>8 DEF m, t, Text
  <2>3. (buf[Len(Text(line))] = Nul)'
    BY <1>7, <1>8 DEF m, t, Text
  <2>4. (Len(vec) <= Len(line) /\ \A i \in 1 .. Len(vec) : vec[i] = line[i].token)'
    BY <1>8
  <2>5. (forward = Behind(st, Len(vec)))'
    BY <1>2, <1>8 DEF Behind
  <2> QED
    BY <2>1, <2>2, <2>3, <2>4, <2>5 DEF Reading
<1> QED
  BY <1>2, <1>9 DEF Understanding

LEMMA WordRead ==
  ASSUME Typing, Terminated, NEW st, Reading(st), pc = "lex", Len(vec) # Len(line), Lexer
  PROVE  Understanding'
<1> DEFINE k == Len(vec) + 1
           s == line[k].text
           b == st[k]
           w == line[k].token
<1>1. /\ line \in Lines /\ vec \in Seq(Tokens) /\ Len(vec) \in Nat /\ Len(line) \in Nat
      /\ VecLen \in Nat /\ Len(vec) < VecLen
  <2>1. line \in Lines /\ vec \in Seq(Tokens) /\ Len(vec) < VecLen
    BY DEF Typing
  <2> QED
    BY <2>1, LineFacts, LenNat, SizesFacts
<1>2. k \in 1 .. Len(line) /\ k <= Len(line) /\ k \in Nat /\ k # 0
  <2>1. Len(vec) <= Len(line)
    BY DEF Reading
  <2> QED
    BY <1>1, <2>1
<1>3. DOMAIN line = 1 .. Len(line) /\ Reads(s, w)
  <2>1. line \in Seq(WordOf)
    BY <1>1, LineFacts
  <2> QED
    BY <1>1, <1>2, <2>1, LineFacts
<1>4. w # Open
  BY <1>2, <1>3 DEF Terminated
<1> HIDE DEF k
<1>5. Here(b, s)
  BY <1>2, NextWord DEF k
<1>6. Taken(b, s, w)
  BY <1>3, <1>4, <1>5, WordTaken
<1>7. PICK t, next : /\ Accept(t, next)
                     /\ IF w = Error THEN t.type \in {"error", "unknown"}
                        ELSE t = w /\ next = b + Len(s)
  BY <1>6 DEF Taken
<1>8. forward' = next /\ buf' = buf /\ line' = line
  BY <1>7 DEF Accept
<1>9. CASE w = Error
  <2>1. pc' = "rejected"
    BY <1>7, <1>9 DEF Accept
  <2>2. \E i \in DOMAIN line : line[i].token = Error
    BY <1>2, <1>3, <1>9
  <2> QED
    BY <1>8, <2>1, <2>2 DEF Understanding
<1>10. CASE w # Error
  <2>1. t = w /\ next = b + Len(s) /\ t.type \notin {"error", "unknown", "eoi"}
    BY <1>3, <1>4, <1>7, <1>10, TokenKind
  <2>2. vec' = Append(vec, w) /\ pc' = IF k = VecLen THEN "rejected" ELSE "lex"
    BY <1>7, <2>1 DEF Accept, k
  <2>3. k = VecLen => Len(line) >= VecLen
    BY <1>1, <1>2
  <2>4. Len(vec') = k /\ \A i \in 1 .. k : vec'[i] = line[i].token
    <3>1. Len(Append(vec, w)) = k /\ Append(vec, w)[k] = w
      BY <1>1 DEF k
    <3>2. \A i \in 1 .. Len(vec) : Append(vec, w)[i] = vec[i] /\ vec[i] = line[i].token
      BY <1>1 DEF Reading
    <3>3. \A i \in 1 .. k : i = k \/ i \in 1 .. Len(vec)
      BY <1>1 DEF k
    <3> QED
      BY <2>2, <3>1, <3>2, <3>3
  <2>5. Reading(st)'
    <3>1. Laid(line, st)'
      BY <1>8, ZenonT(40) DEF Reading, Laid, Text
    <3>2. (/\ \A q \in 1 .. Len(Text(line)) : buf[q - 1] = Text(line)[q]
           /\ buf[Len(Text(line))] = Nul)'
      BY <1>8 DEF Reading, Text
    <3>3. (Len(vec) <= Len(line) /\ \A i \in 1 .. Len(vec) : vec[i] = line[i].token)'
      BY <1>2, <1>8, <2>4
    <3>4. (forward = Behind(st, Len(vec)))'
      BY <1>2, <1>8, <2>1, <2>4 DEF Behind
    <3> QED
      BY <3>1, <3>2, <3>3, <3>4 DEF Reading
  <2> QED
    BY <1>8, <2>2, <2>3, <2>5 DEF Understanding
<1> QED
  BY <1>9, <1>10

LEMMA EndRead ==
  ASSUME Typing, NEW st, Reading(st), pc = "lex", Len(vec) = Len(line), Lexer
  PROVE  Understanding'
<1> DEFINE n == Len(line)
           m == Len(Text(line))
<1>1. /\ line \in Lines /\ vec \in Seq(Tokens) /\ n \in Nat /\ DOMAIN line = 1 .. n
      /\ DOMAIN vec = 1 .. n
  <2>1. line \in Lines /\ vec \in Seq(Tokens)
    BY DEF Typing
  <2>2. line \in Seq(WordOf) /\ n \in Nat
    BY <2>1, LineFacts
  <2> QED
    BY <2>1, <2>2
<1>2. m \in Nat /\ m < Room /\ Room \in 1 .. BufSize - 1 /\ buf[m] = Nul
  BY <1>1, RoomFacts DEF Reading
<1>3. forward = m
  <2>1. Laid(line, st) /\ forward = Behind(st, n)
    BY DEF Reading
  <2>2. m = IF n = 0 THEN 0 ELSE st[n + 1] - 1
    BY <2>1 DEF Laid
  <2>3. CASE n = 0
    BY <2>1, <2>2, <2>3 DEF Behind
  <2>4. CASE n # 0
    <3> DEFINE v == Len(line[n].text)
               a == st[n]
    <3>1. n \in 1 .. n
      BY <1>1, <2>4
    <3>2. st[n + 1] = a + v + 1 /\ a \in Nat
      BY <1>1, <2>1, <3>1, LaidOrder
    <3>3. v \in Nat
      BY <1>1, <3>1, LineFacts
    <3>4. forward = a + v
      BY <2>1, <2>4 DEF Behind
    <3> HIDE DEF v, a, n
    <3> QED
      BY <2>2, <2>4, <3>2, <3>3, <3>4
  <2> QED
    BY <2>3, <2>4
<1>4. Begin = m
  <2> DEFINE C == Chars \ {" "}
  <2>1. Begin = First(m, C)
    BY <1>3 DEF Begin
  <2>2. buf[m] \in C
    BY <1>2, CharFacts
  <2> HIDE DEF C, m
  <2>3. m \in 0 .. BufSize /\ m \in m .. BufSize - 1
    BY <1>2, SizesFacts
  <2>4. \A q \in m .. m - 1 : buf[q] \notin C
    BY <1>2
  <2> QED
    BY <2>1, <2>2, <2>3, <2>4, FirstAt
<1>5. ProcessEoi
  <2>1. buf[Begin] = Nul
    BY <1>2, <1>4
  <2>2. Nul \notin Letters \cup Sigils \cup Digits \cup {"!"}
    BY CharFacts
  <2> QED
    BY <2>1, <2>2 DEF Lexer, Sees, ProcessIdentifier, ProcessVariable, ProcessLUInteger,
                     ProcessString, ProcessUnknown
<1>6. vec' = Append(vec, Eoi) /\ pc' = "run" /\ line' = line
  BY <1>5 DEF ProcessEoi, Accept, Eoi, Token
<1>7. vec = [i \in DOMAIN line |-> line[i].token]
  <2>1. \A i \in 1 .. n : vec[i] = line[i].token
    BY DEF Reading
  <2>2. vec = [i \in 1 .. n |-> vec[i]]
    BY <1>1
  <2> QED
    BY <1>1, <2>1, <2>2
<1> QED
  BY <1>6, <1>7 DEF Understanding

LEMMA UnderstandingStep == Typing /\ Understanding /\ [Next]_vars => Understanding'
<1> SUFFICES ASSUME Typing, Understanding, [Next]_vars PROVE Understanding'
  OBVIOUS
<1>1. CASE GetLine
  BY <1>1, LineRead
<1>2. CASE Lexer
  <2>1. pc = "lex" /\ line' = line
    BY <1>2 DEF Lexer, Sees, ProcessEoi, ProcessIdentifier, ProcessVariable,
                ProcessLUInteger, ProcessString, ProcessUnknown, Accept
  <2>2. CASE ~ Terminated
    BY <2>1, <2>2 DEF Understanding, Terminated
  <2>3. CASE Terminated
    <3>1. PICK st : Reading(st)
      BY <2>1, <2>3 DEF Understanding
    <3> QED
      BY <1>2, <2>1, <2>3, <3>1, WordRead, EndRead
  <2> QED
    BY <2>2, <2>3
<1>3. CASE RunSet \/ RunOther \/ Reject
  BY <1>3 DEF RunSet, RunOther, Reject, Done, Understanding
<1>4. CASE UNCHANGED vars
  <2>1. pc' = pc /\ vec' = vec /\ line' = line /\ buf' = buf /\ forward' = forward
    BY <1>4 DEF vars
  <2>2. ASSUME NEW st, Reading(st) PROVE Reading(st)'
    BY <2>1, <2>2, ZenonT(40) DEF Reading, Laid, Behind, Text
  <2> QED
    BY <2>1, <2>2 DEF Understanding, Terminated
<1> QED
  BY <1>1, <1>2, <1>3, <1>4 DEF Next

LEMMA UnderstandingAlways == Spec => [](Typing /\ Understanding)
<1>1. Init => Typing /\ Understanding
  BY TypingInit, UnderstandingInit
<1>2. Typing /\ Understanding /\ [Next]_vars => (Typing /\ Understanding)'
  BY TypingStep, UnderstandingStep
<1> QED
  BY <1>1, <1>2, PTL DEF Spec

(* Whatever was typed before, a line whose strings are terminated reaches  *)
(* its command as the tokens a reader sees in it, and is refused only for  *)
(* a word that is no token or for more words than the syntax vector holds  *)
(* (parser_do, lexer_get_token, token.c).                                  *)
THEOREM Understood == Spec => []LineUnderstood
<1>1. Understanding => LineUnderstood
  BY DEF Understanding, LineUnderstood
<1> QED
  BY <1>1, UnderstandingAlways, PTL

-----------------------------------------------------------------------------
(* The table of variables.                                                 *)

Used == {i \in Slots : table[i].used}

Entry(e) == [key |-> <<e.type, e.name>>, str |-> e.str, num |-> e.num]

(* No two entries are the same variable. *)
Distinct == \A i, j \in Used : /\ table[i].type = table[j].type
                               /\ table[i].name = table[j].name
                               => i = j

LEMMA StoreIs == Store = {Entry(table[i]) : i \in Used}
  BY DEF Store, Used, Entry

LEMMA EntryKey == ASSUME NEW e PROVE Entry(e).key = <<e.type, e.name>>
  BY DEF Entry

LEMMA KeysApart ==
  ASSUME Distinct, NEW i \in Used, NEW j \in Used,
         Entry(table[i]).key = Entry(table[j]).key
  PROVE  i = j
<1>1. <<table[i].type, table[i].name>> = <<table[j].type, table[j].name>>
  BY EntryKey
<1>2. table[i].type = table[j].type /\ table[i].name = table[j].name
  BY <1>1
<1> QED
  BY <1>2 DEF Distinct

(* There is room in the table when it holds less than TableLen variables. *)
LEMMA RoomInTable ==
  ASSUME Typing, Distinct
  PROVE  Cardinality(Store) < TableLen <=> FreeEntries # {}
<1> DEFINE f == [i \in Used |-> Entry(table[i])]
<1>1. IsFiniteSet(Slots) /\ Cardinality(Slots) = TableLen /\ TableLen \in Nat
  <2>1. TableLen \in Nat /\ TableLen > 0 /\ 0 \in Int /\ TableLen - 1 \in Int
    BY SizesFacts
  <2>2. IsFiniteSet(0 .. TableLen - 1)
        /\ Cardinality(0 .. TableLen - 1) = IF 0 > TableLen - 1 THEN 0 ELSE (TableLen - 1) - 0 + 1
    BY <2>1, FS_Interval
  <2>3. ~ (0 > TableLen - 1) /\ (TableLen - 1) - 0 + 1 = TableLen
    BY <2>1
  <2> QED
    BY <2>1, <2>2, <2>3 DEF Slots
<1>2. Used \in SUBSET Slots
  BY DEF Used
<1>3. /\ IsFiniteSet(Used) /\ Cardinality(Used) <= TableLen
      /\ Cardinality(Used) = TableLen => Used = Slots
  BY <1>1, <1>2, FS_Subset
<1>4. f \in Surjection(Used, Store)
  BY StoreIs DEF Surjection
<1>5. f \in Injection(Used, Store)
  <2>1. f \in [Used -> Store]
    BY StoreIs
  <2>2. ASSUME NEW i \in Used, NEW j \in Used, f[i] = f[j] PROVE i = j
    <3>1. Entry(table[i]).key = Entry(table[j]).key
      BY <2>2
    <3> QED
      BY <3>1, KeysApart
  <2> HIDE DEF f
  <2> QED
    BY <2>1, <2>2 DEF Injection, IsInjective
<1> HIDE DEF f
<1>6. Cardinality(Store) = Cardinality(Used)
  BY <1>3, <1>4, <1>5, FS_Surjection
<1>7. Cardinality(Used) \in Nat
  BY <1>3, FS_CardinalityType
<1>8. Used = Slots => Cardinality(Used) = TableLen
  BY <1>1
<1>9. FreeEntries # {} <=> Used # Slots
  BY DEF FreeEntries, Used
<1> QED
  BY <1>1, <1>3, <1>6, <1>7, <1>8, <1>9

(* A variable has an entry if the table knows its key. *)
LEMMA KnownIs ==
  ASSUME NEW type, NEW name
  PROVE  Entries(type, name) # {} <=> \E e \in Store : e.key = <<type, name>>
<1>1. \A i \in Slots : i \in Entries(type, name) <=>
                         i \in Used /\ Entry(table[i]).key = <<type, name>>
  BY EntryKey DEF Entries, Used
<1>2. Entries(type, name) \subseteq Slots /\ Used \subseteq Slots
  BY DEF Entries, Used
<1> QED
  BY <1>1, <1>2, StoreIs

(* The variable of key k has the value v, the others have theirs. *)
With(S, k, v) == {d \in S : d.key # k} \cup {v}

(* One entry is written. *)
LEMMA Written ==
  ASSUME Typing, Distinct, NEW type, NEW name, NEW n, NEW e,
         e.used = TRUE, e.type = type, e.name = name,
         n \in IF Entries(type, name) # {} THEN Entries(type, name) ELSE FreeEntries,
         table' = [table EXCEPT ![n] = e]
  PROVE  /\ Store' = With(Store, <<type, name>>, Entry(e))
         /\ Distinct'
<1>1. n \in Slots /\ DOMAIN table = Slots
  BY DEF Typing, Entries, FreeEntries
<1>2. table'[n] = e /\ \A i \in Slots : i # n => table'[i] = table[i]
  BY <1>1
<1>3. Used' = Used \cup {n}
  BY <1>1, <1>2 DEF Used
<1>4. ASSUME NEW i \in Used, i # n
      PROVE  ~ (table[i].type = type /\ table[i].name = name)
  <2>1. SUFFICES ASSUME table[i].type = type, table[i].name = name PROVE FALSE
    OBVIOUS
  <2>2. i \in Entries(type, name)
    BY <2>1 DEF Used, Entries
  <2>3. n \in Entries(type, name)
    BY <2>2
  <2>4. n \in Used /\ table[n].type = type /\ table[n].name = name
    BY <2>3 DEF Used, Entries
  <2> QED
    BY <1>4, <2>1, <2>4 DEF Distinct
<1>5. Store' = {Entry(table'[i]) : i \in Used'}
  BY DEF Store, Used, Entry
<1>6. \A i \in Used : i # n => Entry(table[i]).key # <<type, name>>
  <2>1. TAKE i \in Used
  <2>2. HAVE i # n
  <2>3. Entry(table[i]).key = <<table[i].type, table[i].name>>
    BY EntryKey
  <2> QED
    BY <1>4, <2>2, <2>3
<1>7. n \in Used => Entry(table[n]).key = <<type, name>>
  <2>1. SUFFICES ASSUME n \in Used PROVE table[n].type = type /\ table[n].name = name
    BY EntryKey
  <2> QED
    BY <2>1 DEF Used, FreeEntries, Entries
<1>8. \A i \in Used : i \in Slots
  BY DEF Used
<1>9. Store' \subseteq {d \in Store : d.key # <<type, name>>} \cup {Entry(e)}
  BY <1>2, <1>3, <1>5, <1>6, <1>8, StoreIs
<1>10. {d \in Store : d.key # <<type, name>>} \cup {Entry(e)} \subseteq Store'
  BY <1>2, <1>3, <1>5, <1>7, <1>8, StoreIs
<1>11. Distinct'
  <2> SUFFICES ASSUME NEW i \in Used', NEW j \in Used',
                      table'[i].type = table'[j].type, table'[i].name = table'[j].name
               PROVE  i = j
    BY DEF Distinct
  <2>1. CASE i = n \/ j = n
    BY <1>2, <1>3, <1>4, <1>8, <2>1
  <2>2. CASE i # n /\ j # n
    BY <1>2, <1>3, <1>8, <2>2 DEF Distinct
  <2> QED
    BY <2>1, <2>2
<1> QED
  BY <1>9, <1>10, <1>11 DEF With

(* What RunSet makes of a line that was understood. *)
LEMMA SetRead ==
  ASSUME Typing, Understanding, Terminated, pc = "run"
  PROVE  /\ Len(line) \in Nat /\ Len(vec) = Len(line) + 1
         /\ \A i \in 1 .. Len(line) : vec[i] = line[i].token
         /\ Calls("s") <=> Len(line) = 3 /\ line[1].token = Identifier(<<"s">>)
<1> DEFINE n == Len(line)
           r == [i \in DOMAIN line |-> line[i].token]
<1>1. n \in Nat /\ DOMAIN line = 1 .. n
  <2>1. line \in Seq(WordOf)
    BY LineFacts DEF Typing
  <2> QED
    BY <2>1
<1>2. vec = Append(r, Eoi)
  BY DEF Understanding
<1>3. r = [i \in 1 .. n |-> line[i].token]
  BY <1>1
<1> HIDE DEF r
<1>4. Len(r) = n /\ r \in Seq({r[i] : i \in 1 .. n} \cup {Eoi})
  BY <1>1, <1>3
<1>5. /\ Len(Append(r, Eoi)) = n + 1
      /\ \A i \in 1 .. n : Append(r, Eoi)[i] = r[i]
  BY <1>1, <1>4, AppendIs
<1>6. Len(vec) = n + 1 /\ \A i \in 1 .. n : vec[i] = line[i].token
  BY <1>2, <1>3, <1>5
<1>7. Calls("s") <=> vec[1] = Identifier(<<"s">>) /\ n = 3
  <2>1. Arity["s"] + 2 = 4
    BY DEF Arity
  <2> HIDE DEF n
  <2>2. Len(vec) = 4 <=> n = 3
    BY <1>1, <1>6
  <2> QED
    BY <2>1, <2>2 DEF Calls
<1>8. n = 3 => vec[1] = line[1].token
  BY <1>6
<1> QED
  BY <1>1, <1>6, <1>7, <1>8

Storing ==
  Store' = IF /\ pc = "run" /\ Typed
              /\ \/ \E e \in Store : e.key = Key
                 \/ Cardinality(Store) < TableLen
           THEN {e \in Store : e.key # Key} \cup {Value}
           ELSE Store

LEMMA TableKept == ASSUME UNCHANGED table PROVE Store' = Store /\ (Distinct => Distinct')
  BY DEF Store, Distinct, Used

LEMMA SetDistinct == ASSUME Typing, Distinct, RunSet PROVE Distinct'
<1>1. CASE UNCHANGED table
  BY <1>1, TableKept
<1>2. CASE table' # table
  <2> DEFINE var == vec[2]
             val == vec[3]
             type == TypeOfSigil(Head(var.str))
             name == Tail(var.str)
             found == IF Entries(type, name) # {} THEN Entries(type, name) ELSE FreeEntries
             e == [used |-> TRUE, type |-> type, name |-> name, str |-> val.str,
                   num |-> IF type = "bool" /\ val.num % ByteRange # 0 THEN 1
                           ELSE IF type = "bool" THEN 0 ELSE val.num]
  <2>1. VarSetEntry(var, val)
    BY <1>2, SetIs
  <2>2. found # {} /\ table' = [table EXCEPT ![Min(found)] = e]
    BY <1>2, <2>1 DEF VarSetEntry
  <2>3. Min(found) \in found
    BY <2>2, PlaceIs
  <2>4. e.used = TRUE /\ e.type = type /\ e.name = name
    BY Zenon
  <2> DEFINE m == Min(found)
  <2>5. m \in found /\ table' = [table EXCEPT ![m] = e]
    BY <2>2, <2>3
  <2> HIDE DEF e, m, type, name
  <2> QED
    BY <2>4, <2>5, Written
<1> QED
  BY <1>1, <1>2

LEMMA SetStores ==
  ASSUME Typing, Understanding, Distinct, Terminated, OneByte, RunSet
  PROVE  Storing
<1>1. pc = "run" /\ Calls("s")
  BY DEF RunSet
<1>2. /\ Len(line) = 3 /\ line[1].token = Identifier(<<"s">>)
      /\ vec[2] = line[2].token /\ vec[3] = line[3].token
  BY <1>1, SetRead
<1>3. Typed <=> /\ vec[2].type = "variable"
                /\ vec[3].type = LiteralOf(TypeOfSigil(Head(vec[2].str)))
  BY <1>2 DEF Typed
<1> DEFINE var == vec[2]
           val == vec[3]
           type == TypeOfSigil(Head(var.str))
           name == Tail(var.str)
           found == IF Entries(type, name) # {} THEN Entries(type, name) ELSE FreeEntries
           e == [used |-> TRUE, type |-> type, name |-> name, str |-> val.str,
                 num |-> IF type = "bool" /\ val.num % ByteRange # 0 THEN 1
                         ELSE IF type = "bool" THEN 0 ELSE val.num]
<1>4. Key = <<type, name>>
  BY <1>2 DEF Key
<1>5. CASE ~ Typed
  <2>1. UNCHANGED table
    BY <1>3, <1>5, SetIs DEF VarSetEntry
  <2> QED
    BY <1>5, <2>1, TableKept DEF Storing
<1>6. CASE Typed /\ found = {}
  <2>1. UNCHANGED table
    BY <1>3, <1>6, SetIs DEF VarSetEntry
  <2> DEFINE E == Entries(type, name)
  <2>2. E = {} /\ FreeEntries = {}
    BY <1>6
  <2>3. ~ \E d \in Store : d.key = Key
    <3>1. E # {} <=> \E d \in Store : d.key = <<type, name>>
      <4> HIDE DEF type, name
      <4> QED
        BY KnownIs
    <3> QED
      BY <1>4, <2>2, <3>1
  <2>4. ~ (Cardinality(Store) < TableLen)
    BY <2>2, RoomInTable
  <2> QED
    BY <2>1, <2>3, <2>4, TableKept DEF Storing
<1>7. CASE Typed /\ found # {}
  <2>1. table' = [table EXCEPT ![Min(found)] = e]
    BY <1>3, <1>7, SetIs DEF VarSetEntry
  <2>2. Min(found) \in found
    BY <1>7, PlaceIs
  <2>3. \/ \E d \in Store : d.key = Key
        \/ Cardinality(Store) < TableLen
    <3> HIDE DEF type, name
    <3> QED
      BY <1>4, <1>7, KnownIs, RoomInTable
  <2>4. Store' = With(Store, <<type, name>>, Entry(e))
    <3>1. e.used = TRUE /\ e.type = type /\ e.name = name
      BY Zenon
    <3>2. PICK m : m = Min(found)
      OBVIOUS
    <3>3. PICK T, N : T = type /\ N = name
      OBVIOUS
    <3>4. PICK E : E = e
      OBVIOUS
    <3>5. /\ E.used = TRUE /\ E.type = T /\ E.name = N /\ table' = [table EXCEPT ![m] = E]
          /\ m \in IF Entries(T, N) # {} THEN Entries(T, N) ELSE FreeEntries
      <4> HIDE DEF e, type, name
      <4> QED
        BY <2>1, <2>2, <3>1, <3>2, <3>3, <3>4
    <3>6. Store' = With(Store, <<T, N>>, Entry(E))
      BY <3>5, Written
    <3> HIDE DEF e, type, name
    <3> QED
      BY <3>3, <3>4, <3>6
  <2>5. Entry(e) = Value
    <3> DEFINE num == val.num
               put == IF type = "bool" /\ num % ByteRange # 0 THEN 1
                      ELSE IF type = "bool" THEN 0 ELSE num
    <3>1. Entry(e) = [key |-> <<type, name>>, str |-> val.str, num |-> put]
      BY DEF Entry
    <3>2. Key[1] = type
      BY <1>4
    <3>3. type = "bool" => num < ByteRange
      BY <1>2, <1>7, <3>2 DEF OneByte
    <3>4. num \in Nat /\ ByteRange \in Nat \ {0}
      BY SetIs, SizesFacts DEF Tokens, Number
    <3>5. Value = [key |-> <<type, name>>, str |-> val.str,
                   num |-> IF type = "bool" /\ num # 0 THEN 1 ELSE num]
      BY <1>2, <1>4, <3>2 DEF Value
    <3> HIDE DEF num, type
    <3>6. type = "bool" => num % ByteRange = num
      BY <3>3, <3>4
    <3>7. put = IF type = "bool" /\ num # 0 THEN 1 ELSE num
      BY <3>4, <3>6
    <3> HIDE DEF put
    <3> QED
      BY <3>1, <3>5, <3>7
  <2> HIDE DEF e, found
  <2> QED
    BY <1>1, <1>4, <1>7, <2>3, <2>4, <2>5 DEF Storing, With
<1> QED
  BY <1>5, <1>6, <1>7

LEMMA StoringStep ==
  ASSUME Typing, Understanding, Distinct, Next
  PROVE  Distinct' /\ (Terminated /\ OneByte => Storing)
<1>1. CASE RunSet
  BY <1>1, SetDistinct, SetStores
<1>2. CASE GetLine \/ Lexer \/ Reject
  <2>1. UNCHANGED table /\ pc # "run"
    BY <1>2 DEF GetLine, Reject, Lexer, Sees, ProcessEoi, ProcessIdentifier, ProcessVariable,
                ProcessLUInteger, ProcessString, ProcessUnknown, Accept
  <2> QED
    BY <2>1, TableKept DEF Storing
<1>3. CASE RunOther
  <2>1. UNCHANGED table /\ pc = "run" /\ ~ Calls("s")
    BY <1>3 DEF RunOther
  <2>2. Terminated => ~ Typed
    BY <2>1, SetRead DEF Typed
  <2> QED
    BY <2>1, <2>2, TableKept DEF Storing
<1> QED
  BY <1>1, <1>2, <1>3 DEF Next

LEMMA DistinctInit == Init => Distinct
<1> SUFFICES ASSUME Init PROVE Distinct
  OBVIOUS
<1>1. \A i \in Slots : table[i] = Unused /\ ~ Unused.used
  BY DEF Init, Unused
<1>2. Used = {}
  BY <1>1 DEF Used
<1> QED
  BY <1>2 DEF Distinct

(* From the words typed to the table (shell.c, var_table.c): a correct set *)
(* gives its variable the value typed and leaves the others as they are,   *)
(* if the variable exists or there is room for it; no other line changes a *)
(* variable.                                                               *)
THEOREM Stored == Spec => StoreAsTyped
<1> DEFINE Inv == Typing /\ Understanding /\ Distinct
<1>1. Init => Inv
  BY TypingInit, UnderstandingInit, DistinctInit
<1>2. Inv /\ [Next]_vars => Inv'
  <2>1. CASE UNCHANGED vars
    <3>1. UNCHANGED vars => UNCHANGED table
      BY DEF vars
    <3> QED
      BY <2>1, <3>1, TypingStep, UnderstandingStep, TableKept
  <2>2. CASE Next
    BY <2>2, TypingStep, UnderstandingStep, StoringStep
  <2> QED
    BY <2>1, <2>2
<1>3. Inv /\ [Next]_vars => [Terminated /\ OneByte => Storing]_vars
  BY StoringStep
<1> HIDE DEF Inv
<1>4. Spec => [][Terminated /\ OneByte => Storing]_vars
  BY <1>1, <1>2, <1>3, PTL DEF Spec
<1> QED
  BY <1>4, PTL DEF StoreAsTyped, Storing
=============================================================================
